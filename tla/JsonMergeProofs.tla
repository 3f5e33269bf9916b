-------------------------- MODULE JsonMergeProofs --------------------------
(***************************************************************************)
(* What merges of JSON documents promise, for every set of keys, every     *)
(* depth and every family of documents.                                    *)
(***************************************************************************)
EXTENDS JsonMerge, FiniteSetTheorems, SequenceTheorems, WellFoundedInduction, TLAPS

-----------------------------------------------------------------------------
(* Induction on the natural numbers, for sets *)

\* A set of numbers that holds 0, and with a number the next, holds all.
LEMMA UpTo ==
  ASSUME NEW n \in Nat, NEW T, 0 \in T, \A k \in 0..(n - 1) : k \in T => k + 1 \in T
  PROVE  \A k \in 0..n : k \in T
  <1> DEFINE R == {ss \in Nat \X Nat : ss[1] < ss[2]}
             rest == (0..n) \ T
  <1>1. IsWellFoundedOn(R, Nat)
    BY NatLessThanWellFounded DEF OpToRel
  <1>2. SUFFICES ASSUME rest # {} PROVE FALSE
    OBVIOUS
  <1>3. PICK x \in rest : \A y \in rest : ~(<<y, x>> \in R)
    <2>1. rest \subseteq Nat
      OBVIOUS
    <2> HIDE DEF R, rest
    <2> QED BY <1>1, <1>2, <2>1, WFMin
  <1>4. x \in 0..n /\ x # 0 /\ x - 1 \in 0..(n - 1) /\ (x - 1) + 1 = x /\ x - 1 \in 0..n
    BY <1>3
  <1>5. <<x - 1, x>> \in R
    BY <1>4
  <1>6. x - 1 \in T
    <2> HIDE DEF R
    <2> QED BY <1>3, <1>4, <1>5
  <1>7. x \in T
    BY <1>6, <1>4
  <1> QED BY <1>7, <1>3

\* A recursion that was solved up to n is solved up to n + 1.
Extends(g, f, n, v) == /\ g = [k \in 0..(n + 1) |-> g[k]]
                       /\ g[n + 1] = v /\ \A k \in 0..n : g[k] = f[k]

LEMMA Extension == ASSUME NEW n \in Nat, NEW f, NEW v PROVE \E g : Extends(g, f, n, v)
  <1> DEFINE g == [k \in 0..(n + 1) |-> IF k = n + 1 THEN v ELSE f[k]]
  <1>1. Extends(g, f, n, v)
    BY DEF Extends
  <1> HIDE DEF g
  <1> QED BY <1>1

\* A set of numbers has a least element, and a largest one if it is bounded.
LEMMA MinIn ==
  ASSUME NEW S, S \subseteq Nat, S # {}
  PROVE  Min(S) \in S /\ \A y \in S : Min(S) =< y
  <1> DEFINE R == {ss \in Nat \X Nat : ss[1] < ss[2]}
  <1>1. IsWellFoundedOn(R, Nat)
    BY NatLessThanWellFounded DEF OpToRel
  <1>2. PICK x \in S : \A y \in S : ~(<<y, x>> \in R)
    <2> HIDE DEF R
    <2> QED BY <1>1, WFMin
  <1>3. \A y \in S : x =< y
    <2> TAKE y \in S
    <2>1. x \in Nat /\ y \in Nat /\ ~(y < x)
      BY <1>2
    <2> QED BY <2>1
  <1>4. \E z \in S : \A y \in S : z =< y
    BY <1>3
  <1> QED BY <1>4 DEF Min

LEMMA MaxIn ==
  ASSUME NEW S, NEW n \in Nat, S \subseteq 0..n, S # {}
  PROVE  Max(S) \in S /\ \A y \in S : Max(S) >= y
  <1> DEFINE D == {n - y : y \in S}
  <1>1. D \subseteq Nat /\ D # {}
    <2>1. \A y \in S : y \in 0..n
      OBVIOUS
    <2>2. \A y \in S : n - y \in Nat
      BY <2>1
    <2>3. PICK y \in S : TRUE
      OBVIOUS
    <2>4. n - y \in D
      OBVIOUS
    <2> QED BY <2>2, <2>4
  <1> HIDE DEF D
  <1>2. Min(D) \in D /\ \A y \in D : Min(D) =< y
    BY <1>1, MinIn
  <1>3. PICK x \in S : Min(D) = n - x
    BY <1>2 DEF D
  <1>4. \A y \in S : x >= y
    <2> TAKE y \in S
    <2>1. n - y \in D /\ x \in 0..n /\ y \in 0..n
      BY DEF D
    <2>2. n - x =< n - y
      BY <2>1, <1>2, <1>3
    <2> QED BY <2>1, <2>2
  <1>5. \E z \in S : \A y \in S : z >= y
    BY <1>4
  <1> QED BY <1>5 DEF Max

-----------------------------------------------------------------------------
(* Matching of nodes *)

\* The recursion of MatchPass has a solution.
Passing(f, t, d, m0, n) ==
  f = [k \in 0..n |-> IF k = 0 THEN m0 ELSE MatchNode(t, d, f[k - 1], k)]

LEMMA PassingExists ==
  ASSUME NEW t, NEW d, NEW m0, NEW n \in Nat
  PROVE  \E f : Passing(f, t, d, m0, n)
  <1> DEFINE T == {m \in Nat : \E f : Passing(f, t, d, m0, m)}
  <1>1. 0 \in T
    <2>1. Passing([k \in 0..0 |-> m0], t, d, m0, 0)
      BY DEF Passing
    <2> QED BY <2>1
  <1>2. ASSUME NEW m \in 0..(n - 1), m \in T PROVE m + 1 \in T
    <2>1. PICK f : Passing(f, t, d, m0, m)
      BY <1>2
    <2>2. m \in Nat
      OBVIOUS
    <2> DEFINE last == MatchNode(t, d, f[m], m + 1)
    <2>3. PICK g : Extends(g, f, m, last)
      <3> HIDE DEF last
      <3> QED BY <2>2, Extension
    <2>4. g[m + 1] = last /\ \A k \in 0..m : g[k] = f[k]
      BY <2>3 DEF Extends
    <2>5. \A k \in 0..m : f[k] = IF k = 0 THEN m0 ELSE MatchNode(t, d, f[k - 1], k)
      BY <2>1 DEF Passing
    <2>6. ASSUME NEW k \in 0..(m + 1)
          PROVE  g[k] = IF k = 0 THEN m0 ELSE MatchNode(t, d, g[k - 1], k)
      <3>1. CASE k = m + 1
        <4>1. k # 0 /\ k - 1 = m /\ g[m] = f[m]
          BY <3>1, <2>2, <2>4
        <4> QED BY <4>1, <3>1, <2>4
      <3>2. CASE k # m + 1
        <4>1. k \in 0..m /\ g[k] = f[k] /\ (k # 0 => g[k - 1] = f[k - 1])
          BY <3>2, <2>2, <2>4
        <4> QED BY <4>1, <2>5
      <3> QED BY <3>1, <3>2
    <2>7. Passing(g, t, d, m0, m + 1)
      BY <2>3, <2>6 DEF Extends, Passing
    <2> QED BY <2>2, <2>7
  <1>3. n \in T
    <2> HIDE DEF T
    <2> QED BY <1>1, <1>2, UpTo
  <1> QED BY <1>3

\* Arrays of signatures, one sequence for each node.
Signed(t) == /\ Len(t) \in Nat /\ DOMAIN t = 1..Len(t)
             /\ \A n \in DOMAIN t : \E l \in Nat : DOMAIN t[n] = 1..l

\* A matching of nodes is sound if it is one to one and partners share a
\* signature.
Sound(m, T, D) ==
  /\ \A x \in m : /\ x = <<x[1], x[2]>> /\ x[1] \in DOMAIN T /\ x[2] \in DOMAIN D
                  /\ ToSet(T[x[1]]) \cap ToSet(D[x[2]]) # {}
  /\ \A x, y \in m : x[1] = y[1] \/ x[2] = y[2] => x = y

\* What a step adds: a pair of nodes, both unmatched, with a signature of both.
Adds(t, d, m, n, x) ==
  /\ n \notin {p[1] : p \in m}
  /\ x \in DOMAIN d /\ x \notin {p[2] : p \in m}
  /\ ToSet(t[n]) \cap ToSet(d[x]) # {}

Stepped(t, d, m, n) ==
  \/ /\ MatchNode(t, d, m, n) = m
     /\ n \in {p[1] : p \in m} \/ \A x \in DOMAIN d : ~Adds(t, d, m, n, x)
  \/ \E x : Adds(t, d, m, n, x) /\ MatchNode(t, d, m, n) = m \cup {<<n, x>>}

LEMMA MatchNodeStep ==
  ASSUME NEW t, Signed(t), NEW d, Signed(d), NEW m, NEW n \in DOMAIN t
  PROVE  Stepped(t, d, m, n)
  <1> DEFINE taken == {p[2] : p \in m}
             C(i) == Candidates(d, taken, t[n][i])
             found == {i \in DOMAIN t[n] : C(i) # {}}
             i == Min(found)
             x == Min(C(i))
  <1>1. CASE n \in {p[1] : p \in m}
    BY <1>1 DEF MatchNode, Stepped
  <1>2. CASE found = {} /\ n \notin {p[1] : p \in m}
    <2>1. MatchNode(t, d, m, n) = m
      BY <1>2 DEF MatchNode
    <2>2. ASSUME NEW y \in DOMAIN d, Adds(t, d, m, n, y) PROVE FALSE
      <3>1. PICK s \in ToSet(t[n]) : s \in ToSet(d[y])
        BY <2>2 DEF Adds
      <3>2. PICK j \in DOMAIN t[n] : t[n][j] = s
        BY <3>1 DEF ToSet
      <3>3. y \in C(j)
        BY <2>2, <3>1, <3>2 DEF Adds, Candidates
      <3> QED BY <3>2, <3>3, <1>2
    <2> QED BY <2>1, <2>2 DEF Stepped
  <1>3. CASE found # {} /\ n \notin {p[1] : p \in m}
    <2>1. MatchNode(t, d, m, n) = m \cup {<<n, x>>}
      BY <1>3 DEF MatchNode
    <2>2. found \subseteq Nat
      BY DEF Signed
    <2>3. i \in found
      <3> HIDE DEF found
      <3> QED BY <2>2, <1>3, MinIn
    <2>4. C(i) # {} /\ i \in DOMAIN t[n]
      <3> HIDE DEF i
      <3> QED BY <2>3
    <2>5. C(i) \subseteq Nat
      <3>1. C(i) \subseteq DOMAIN d
        BY DEF Candidates
      <3>2. DOMAIN d \subseteq Nat
        BY DEF Signed
      <3> HIDE DEF C, i
      <3> QED BY <3>1, <3>2
    <2>6. x \in C(i)
      <3> HIDE DEF C, i
      <3> QED BY <2>4, <2>5, MinIn
    <2> HIDE DEF x, i, found
    <2>7. x \in DOMAIN d /\ x \notin taken /\ t[n][i] \in ToSet(d[x])
      BY <2>6 DEF Candidates
    <2>8. t[n][i] \in ToSet(t[n])
      BY <2>4 DEF ToSet
    <2>9. Adds(t, d, m, n, x)
      BY <2>7, <2>8, <1>3 DEF Adds
    <2> QED BY <2>1, <2>9 DEF Stepped
  <1> QED BY <1>1, <1>2, <1>3

\* The signatures t of a pass are some of those in T.
Within(t, T) == /\ Signed(t) /\ DOMAIN t = DOMAIN T
                /\ \A n \in DOMAIN t : ToSet(t[n]) \subseteq ToSet(T[n])

LEMMA MatchNodeSound ==
  ASSUME NEW t, NEW T, Within(t, T), NEW d, NEW D, Within(d, D),
         NEW m, Sound(m, T, D), NEW n \in DOMAIN t
  PROVE  Sound(MatchNode(t, d, m, n), T, D) /\ m \subseteq MatchNode(t, d, m, n)
  <1>1. CASE MatchNode(t, d, m, n) = m
    BY <1>1
  <1>2. ASSUME NEW x, Adds(t, d, m, n, x), MatchNode(t, d, m, n) = m \cup {<<n, x>>}
        PROVE  Sound(MatchNode(t, d, m, n), T, D) /\ m \subseteq MatchNode(t, d, m, n)
    <2>1. n \in DOMAIN T /\ x \in DOMAIN D /\ ToSet(T[n]) \cap ToSet(D[x]) # {}
      BY <1>2 DEF Adds, Within
    <2>2. \A p \in m : p[1] # n /\ p[2] # x
      BY <1>2 DEF Adds
    <2>3. Sound(m \cup {<<n, x>>}, T, D)
      BY <2>1, <2>2 DEF Sound
    <2> QED BY <2>3, <1>2
  <1>3. Signed(t) /\ Signed(d)
    BY DEF Within
  <1>4. Stepped(t, d, m, n)
    BY <1>3, MatchNodeStep
  <1> QED BY <1>1, <1>2, <1>4 DEF Stepped

\* A pass as a sequence of growing matchings.
Grows(f, t, d, m0, T, D) ==
  /\ f[0] = m0 /\ MatchPass(t, d, m0) = f[Len(t)]
  /\ \A k \in 0..Len(t) : Sound(f[k], T, D)
  /\ \A k \in 1..Len(t) : f[k] = MatchNode(t, d, f[k - 1], k) /\ f[k - 1] \subseteq f[k]

LEMMA PassGrows ==
  ASSUME NEW t, NEW T, Within(t, T), NEW d, NEW D, Within(d, D), NEW m0, Sound(m0, T, D)
  PROVE  \E f : Grows(f, t, d, m0, T, D)
  <1> DEFINE n == Len(t)
             f == CHOOSE g : Passing(g, t, d, m0, n)
             S == {k \in 0..n : Sound(f[k], T, D)}
  <1>1. n \in Nat /\ DOMAIN t = 1..n
    BY DEF Within, Signed
  <1>2. MatchPass(t, d, m0) = f[n]
    BY DEF MatchPass, Passing
  <1> HIDE DEF n
  <1>3. Passing(f, t, d, m0, n)
    <2>1. \E g : Passing(g, t, d, m0, n)
      BY <1>1, PassingExists
    <2> QED BY <2>1
  <1> HIDE DEF f
  <1>4. f[0] = m0
    BY <1>1, <1>3 DEF Passing
  <1>5. \A k \in 1..n : f[k] = MatchNode(t, d, f[k - 1], k)
    BY <1>1, <1>3 DEF Passing
  <1>6. ASSUME NEW k \in 0..(n - 1), Sound(f[k], T, D)
        PROVE  Sound(f[k + 1], T, D) /\ f[k] \subseteq f[k + 1]
    <2>1. k + 1 \in DOMAIN t /\ (k + 1) - 1 = k
      BY <1>1
    <2>2. f[k + 1] = MatchNode(t, d, f[k], k + 1)
      BY <2>1, <1>1, <1>5
    <2> QED BY <2>1, <2>2, <1>6, MatchNodeSound
  <1>7. \A k \in 0..n : k \in S
    <2>1. 0 \in S
      BY <1>1, <1>4
    <2>2. \A k \in 0..(n - 1) : k \in S => k + 1 \in S
      BY <1>1, <1>6
    <2> HIDE DEF S
    <2> QED BY <2>1, <2>2, <1>1, UpTo
  <1>8. \A k \in 1..n : f[k - 1] \subseteq f[k]
    <2> TAKE k \in 1..n
    <2>1. k - 1 \in 0..(n - 1) /\ (k - 1) + 1 = k
      BY <1>1
    <2>2. Sound(f[k - 1], T, D)
      BY <2>1, <1>7, <1>1
    <2> QED BY <2>1, <2>2, <1>6
  <1>9. Grows(f, t, d, m0, T, D)
    BY <1>2, <1>4, <1>5, <1>7, <1>8 DEF Grows, n
  <1> QED BY <1>9

\* Sequences put together.
LEMMA Concatenated ==
  ASSUME NEW U, NEW s \in Seq(U), NEW t \in Seq(U)
  PROVE  /\ s \o t \in Seq(U) /\ Len(s \o t) = Len(s) + Len(t)
         /\ Len(s) \in Nat /\ DOMAIN s = 1..Len(s) /\ Len(t) \in Nat /\ DOMAIN t = 1..Len(t)
         /\ DOMAIN (s \o t) = 1..(Len(s) + Len(t))
         /\ \A i \in 1..Len(s) : (s \o t)[i] = s[i]
         /\ \A i \in 1..Len(t) : (s \o t)[Len(s) + i] = t[i]
         /\ ToSet(s \o t) = ToSet(s) \cup ToSet(t)
  <1> DEFINE r == s \o t
  <1>1. /\ r \in Seq(U) /\ Len(r) = Len(s) + Len(t)
        /\ Len(s) \in Nat /\ DOMAIN s = 1..Len(s) /\ Len(t) \in Nat /\ DOMAIN t = 1..Len(t)
        /\ DOMAIN r = 1..(Len(s) + Len(t))
        /\ \A i \in 1..Len(s) : r[i] = s[i]
        /\ \A i \in 1..Len(t) : r[Len(s) + i] = t[i]
    OBVIOUS
  <1> HIDE DEF r
  <1>2. ASSUME NEW y \in ToSet(r) PROVE y \in ToSet(s) \cup ToSet(t)
    <2>1. \E i \in DOMAIN r : y = r[i]
      BY DEF ToSet
    <2>2. PICK i \in 1..(Len(s) + Len(t)) : y = r[i]
      BY <2>1, <1>1
    <2>3. CASE i \in 1..Len(s)
      BY <2>2, <2>3, <1>1 DEF ToSet
    <2>4. CASE i \notin 1..Len(s)
      <3>1. i - Len(s) \in 1..Len(t) /\ Len(s) + (i - Len(s)) = i
        BY <2>4, <1>1
      <3>2. y = t[i - Len(s)]
        BY <3>1, <2>2, <1>1
      <3> QED BY <3>1, <3>2, <1>1 DEF ToSet
    <2> QED BY <2>3, <2>4
  <1>3. ASSUME NEW y \in ToSet(s) PROVE y \in ToSet(r)
    <2>1. PICK i \in 1..Len(s) : y = s[i]
      BY <1>1 DEF ToSet
    <2>2. i \in DOMAIN r /\ y = r[i]
      BY <2>1, <1>1
    <2> QED BY <2>2 DEF ToSet
  <1>4. ASSUME NEW y \in ToSet(t) PROVE y \in ToSet(r)
    <2>1. PICK i \in 1..Len(t) : y = t[i]
      BY <1>1 DEF ToSet
    <2>2. Len(s) + i \in DOMAIN r /\ y = r[Len(s) + i]
      BY <2>1, <1>1
    <2> QED BY <2>2 DEF ToSet
  <1>5. ToSet(r) = ToSet(s) \cup ToSet(t)
    BY <1>2, <1>3, <1>4
  <1> QED BY <1>1, <1>5 DEF r

\* Nodes as the analysis gets them.
AreNodes(nodes) ==
  /\ Len(nodes) \in Nat /\ DOMAIN nodes = 1..Len(nodes)
  /\ \A n \in DOMAIN nodes : nodes[n].aliases \in Seq(ToSet(nodes[n].aliases))

LEMMA Signatures ==
  ASSUME NEW nodes, AreNodes(nodes)
  PROVE  /\ Within(AllSignatures(nodes), AllSignatures(nodes))
         /\ Within(PrimarySignatures(nodes), AllSignatures(nodes))
         /\ DOMAIN AllSignatures(nodes) = DOMAIN nodes
         /\ \A n \in DOMAIN nodes :
              /\ ToSet(PrimarySignatures(nodes)[n]) = {nodes[n].primary}
              /\ ToSet(AllSignatures(nodes)[n]) = {nodes[n].primary} \cup ToSet(nodes[n].aliases)
  <1> DEFINE A == AllSignatures(nodes)
             P == PrimarySignatures(nodes)
             N == Len(nodes)
  <1>1. N \in Nat /\ DOMAIN nodes = 1..N
    BY DEF AreNodes
  <1>2. A = [n \in 1..N |-> <<nodes[n].primary>> \o nodes[n].aliases]
    BY <1>1 DEF AllSignatures
  <1>3. P = [n \in 1..N |-> <<nodes[n].primary>>]
    BY <1>1 DEF PrimarySignatures
  <1> HIDE DEF A, P, N
  <1>4. Len(A) = N /\ DOMAIN A = 1..N /\ Len(P) = N /\ DOMAIN P = 1..N
    BY <1>1, <1>2, <1>3
  <1>5. ASSUME NEW n \in 1..N
        PROVE  /\ ToSet(P[n]) = {nodes[n].primary} /\ DOMAIN P[n] = 1..1
               /\ ToSet(A[n]) = {nodes[n].primary} \cup ToSet(nodes[n].aliases)
               /\ DOMAIN A[n] = 1..(1 + Len(nodes[n].aliases)) /\ Len(nodes[n].aliases) \in Nat
    <2> DEFINE a == nodes[n].aliases
               p == nodes[n].primary
               U == ToSet(a) \cup {p}
    <2>1. a \in Seq(ToSet(a))
      BY <1>1 DEF AreNodes
    <2>2. A[n] = <<p>> \o a /\ P[n] = <<p>>
      BY <1>2, <1>3
    <2> HIDE DEF a, p
    <2>3. a \in Seq(U) /\ <<p>> \in Seq(U)
      BY <2>1
    <2>4. Len(a) \in Nat /\ DOMAIN a = 1..Len(a)
      BY <2>1
    <2> HIDE DEF U
    <2>5. /\ Len(<<p>> \o a) = 1 + Len(a) /\ DOMAIN (<<p>> \o a) = 1..(1 + Len(a))
          /\ (<<p>> \o a)[1] = p
          /\ \A i \in 1..Len(a) : (<<p>> \o a)[i + 1] = a[i]
      BY <2>3, <2>4
    <2>6. ToSet(<<p>> \o a) = {p} \cup ToSet(a)
      <3> DEFINE w == <<p>>
      <3>1. w \in Seq(U)
        BY <2>3
      <3>2. ToSet(w) = {p}
        BY DEF ToSet
      <3> HIDE DEF w
      <3>3. ToSet(w \o a) = ToSet(w) \cup ToSet(a)
        BY <2>3, <3>1, Concatenated
      <3> QED BY <3>2, <3>3 DEF w
    <2>7. ToSet(<<p>>) = {p} /\ DOMAIN <<p>> = 1..1
      BY DEF ToSet
    <2> QED BY <2>2, <2>4, <2>5, <2>6, <2>7 DEF a, p
  <1>6. Signed(A) /\ Signed(P)
    <2>1. \A n \in 1..N : \E l \in Nat : DOMAIN A[n] = 1..l
      <3> TAKE n \in 1..N
      <3>1. 1 + Len(nodes[n].aliases) \in Nat /\ DOMAIN A[n] = 1..(1 + Len(nodes[n].aliases))
        BY <1>5
      <3> QED BY <3>1
    <2>2. \A n \in 1..N : \E l \in Nat : DOMAIN P[n] = 1..l
      BY <1>5
    <2> QED BY <2>1, <2>2, <1>1, <1>4 DEF Signed
  <1>7. Within(A, A) /\ Within(P, A)
    BY <1>4, <1>5, <1>6 DEF Within
  <1> QED BY <1>1, <1>4, <1>5, <1>7 DEF A, P

\* What a pass over some signatures finds between nodes.
Matched(t, d, m) ==
  Sound(m, AllSignatures(t), AllSignatures(d))

\* Two nodes that alone carry a primary signature are partners.
LEMMA PrimaryMatched ==
  ASSUME NEW t, AreNodes(t), NEW d, AreNodes(d), NEW n \in DOMAIN t, NEW x \in DOMAIN d,
         t[n].primary = d[x].primary,
         \A i \in DOMAIN t : t[i].primary = t[n].primary => i = n,
         \A i \in DOMAIN d : d[i].primary = t[n].primary => i = x
  PROVE  /\ <<n, x>> \in MatchPass(PrimarySignatures(t), PrimarySignatures(d), {})
         /\ Matched(t, d, MatchPass(PrimarySignatures(t), PrimarySignatures(d), {}))
  <1> DEFINE T == PrimarySignatures(t)
             D == PrimarySignatures(d)
             s == t[n].primary
             L == Len(T)
  <1>1. /\ Within(T, AllSignatures(t)) /\ Within(D, AllSignatures(d))
        /\ \A i \in DOMAIN t : ToSet(T[i]) = {t[i].primary}
        /\ \A i \in DOMAIN d : ToSet(D[i]) = {d[i].primary}
        /\ DOMAIN AllSignatures(t) = DOMAIN t /\ DOMAIN AllSignatures(d) = DOMAIN d
    BY Signatures
  <1> HIDE DEF T, D
  <1>2. /\ Within(T, T) /\ Within(D, D) /\ DOMAIN T = DOMAIN t /\ DOMAIN D = DOMAIN d
        /\ Signed(T) /\ Signed(D)
    BY <1>1 DEF Within
  <1>3. Sound({}, T, D) /\ Sound({}, AllSignatures(t), AllSignatures(d))
    BY DEF Sound
  <1>4. PICK f : Grows(f, T, D, {}, T, D)
    BY <1>2, <1>3, PassGrows
  <1>5. L \in Nat /\ DOMAIN t = 1..L /\ n \in 1..L
    BY <1>2 DEF Signed
  <1>6. /\ f[0] = {} /\ MatchPass(T, D, {}) = f[L]
        /\ \A k \in 0..L : Sound(f[k], T, D)
        /\ \A k \in 1..L : f[k] = MatchNode(T, D, f[k - 1], k) /\ f[k - 1] \subseteq f[k]
    BY <1>4 DEF Grows
  <1> HIDE DEF L
  <1>7. \A k \in 0..(n - 1) : \A p \in f[k] : p[1] =< k
    <2> DEFINE S == {k \in 0..(n - 1) : \A p \in f[k] : p[1] =< k}
    <2>1. 0 \in S /\ n - 1 \in Nat
      BY <1>5, <1>6
    <2>2. ASSUME NEW k \in 0..((n - 1) - 1), k \in S PROVE k + 1 \in S
      <3>1. k + 1 \in 1..L /\ (k + 1) - 1 = k /\ k + 1 \in DOMAIN T /\ k + 1 \in 0..(n - 1)
        BY <1>2, <1>5
      <3>2. f[k + 1] = MatchNode(T, D, f[k], k + 1)
        BY <3>1, <1>6
      <3>3. f[k + 1] = f[k] \/ \E y : f[k + 1] = f[k] \cup {<<k + 1, y>>}
        <4> DEFINE j == k + 1
        <4>1. j \in DOMAIN T
          BY <3>1
        <4> HIDE DEF j
        <4>2. \/ MatchNode(T, D, f[k], j) = f[k]
              \/ \E y : MatchNode(T, D, f[k], j) = f[k] \cup {<<j, y>>}
          <5>1. Stepped(T, D, f[k], j)
            BY <4>1, <1>2, MatchNodeStep
          <5> QED BY <5>1 DEF Stepped
        <4> QED BY <4>2, <3>2 DEF j
      <3>4. \A p \in f[k] : p[1] \in Nat /\ p[1] =< k
        <4>1. \A p \in f[k] : p[1] \in DOMAIN T
          BY <1>6, <1>5, <3>1 DEF Sound
        <4> QED BY <4>1, <2>2, <1>2, <1>5
      <3>5. \A p \in f[k + 1] : p[1] =< k + 1
        BY <3>3, <3>4
      <3> QED BY <3>5, <3>1
    <2>3. \A k \in 0..(n - 1) : k \in S
      <3> HIDE DEF S
      <3> QED BY <2>1, <2>2, UpTo
    <2> QED BY <2>3
  <1>8. <<n, x>> \in f[n]
    <2>1. n - 1 \in 0..(n - 1) /\ n - 1 \in 0..L /\ n \in DOMAIN T
      BY <1>2, <1>5
    <2>2. \A p \in f[n - 1] : p[1] \in Nat /\ p[1] =< n - 1
      <3>1. \A p \in f[n - 1] : p[1] \in DOMAIN T
        BY <1>6, <2>1 DEF Sound
      <3> QED BY <3>1, <2>1, <1>7, <1>2, <1>5
    <2>3. n \notin {p[1] : p \in f[n - 1]}
      <3> SUFFICES ASSUME NEW p \in f[n - 1], p[1] = n PROVE FALSE
        OBVIOUS
      <3> QED BY <2>2, <1>5
    <2>4. x \notin {p[2] : p \in f[n - 1]}
      <3> SUFFICES ASSUME NEW p \in f[n - 1], p[2] = x PROVE FALSE
        OBVIOUS
      <3>1. ToSet(T[p[1]]) \cap ToSet(D[x]) # {} /\ p[1] \in DOMAIN T
        BY <1>6, <2>1 DEF Sound
      <3>2. t[p[1]].primary = d[x].primary
        BY <3>1, <1>1, <1>2
      <3>3. p[1] = n
        BY <3>1, <3>2, <1>2
      <3> QED BY <3>3, <2>3
    <2>5. Adds(T, D, f[n - 1], n, x)
      <3>1. ToSet(T[n]) \cap ToSet(D[x]) # {}
        BY <1>1
      <3> QED BY <3>1, <2>3, <2>4, <1>2 DEF Adds
    <2>6. \A y : Adds(T, D, f[n - 1], n, y) => y = x
      <3> TAKE y
      <3> HAVE Adds(T, D, f[n - 1], n, y)
      <3>1. y \in DOMAIN d /\ ToSet(T[n]) \cap ToSet(D[y]) # {}
        BY <1>2 DEF Adds
      <3>2. d[y].primary = t[n].primary
        BY <3>1, <1>1
      <3> QED BY <3>1, <3>2
    <2>7. \E y : Adds(T, D, f[n - 1], n, y) /\ MatchNode(T, D, f[n - 1], n) = f[n - 1] \cup {<<n, y>>}
      <3>1. x \in DOMAIN D
        BY <1>2
      <3>2. Stepped(T, D, f[n - 1], n)
        BY <2>1, <1>2, MatchNodeStep
      <3> QED BY <2>3, <2>5, <3>1, <3>2 DEF Stepped
    <2>8. f[n] = MatchNode(T, D, f[n - 1], n)
      BY <1>5, <1>6
    <2> QED BY <2>6, <2>7, <2>8
  <1>9. <<n, x>> \in f[L]
    <2> DEFINE S == {j \in 0..(L - n) : <<n, x>> \in f[n + j]}
    <2>1. L - n \in Nat /\ n + 0 = n /\ n + (L - n) = L
      BY <1>5
    <2>2. 0 \in S
      BY <2>1, <1>8
    <2>3. ASSUME NEW j \in 0..((L - n) - 1), j \in S PROVE j + 1 \in S
      <3>1. n + (j + 1) \in 1..L /\ (n + (j + 1)) - 1 = n + j /\ j + 1 \in 0..(L - n)
        BY <1>5
      <3>2. f[n + j] \subseteq f[n + (j + 1)]
        BY <3>1, <1>6
      <3> QED BY <3>1, <3>2, <2>3
    <2>4. L - n \in S
      <3> HIDE DEF S
      <3>1. \A j \in 0..(L - n) : j \in S
        BY <2>1, <2>2, <2>3, UpTo
      <3> QED BY <3>1, <2>1
    <2> QED BY <2>1, <2>4
  <1>10. Sound(f[L], AllSignatures(t), AllSignatures(d))
    <2>1. Sound(f[L], T, D)
      BY <1>5, <1>6
    <2>2. DOMAIN T = DOMAIN AllSignatures(t) /\ DOMAIN D = DOMAIN AllSignatures(d)
      BY <1>1 DEF Within
    <2>3. \A p \in f[L] : ToSet(AllSignatures(t)[p[1]]) \cap ToSet(AllSignatures(d)[p[2]]) # {}
      BY <2>1, <1>1 DEF Sound, Within
    <2> QED BY <2>1, <2>2, <2>3 DEF Sound
  <1> QED BY <1>6, <1>9, <1>10 DEF T, D, Matched

\* match_node_identities pairs nodes one to one, partners share a signature,
\* and the second pass takes back no match of the first.
THEOREM MatchingIsSound ==
  ASSUME NEW t, AreNodes(t), NEW d, AreNodes(d)
  PROVE  /\ Matched(t, d, MatchNodeIdentities(t, d))
         /\ MatchPass(PrimarySignatures(t), PrimarySignatures(d), {}) \subseteq MatchNodeIdentities(t, d)
  <1> DEFINE T == AllSignatures(t)
             D == AllSignatures(d)
             P == PrimarySignatures(t)
             Q == PrimarySignatures(d)
             m == MatchPass(P, Q, {})
  <1>1. Within(T, T) /\ Within(D, D) /\ Within(P, T) /\ Within(Q, D)
    BY Signatures
  <1>2. Sound({}, T, D)
    BY DEF Sound
  <1> HIDE DEF T, D, P, Q
  <1>3. Sound(m, T, D)
    <2>1. PICK f : Grows(f, P, Q, {}, T, D)
      BY <1>1, <1>2, PassGrows
    <2>2. Len(P) \in Nat
      BY <1>1 DEF Within, Signed
    <2>3. Len(P) \in 0..Len(P)
      BY <2>2
    <2> QED BY <2>1, <2>3 DEF Grows
  <1> HIDE DEF m
  <1>4. PICK f : Grows(f, T, D, m, T, D)
    BY <1>1, <1>3, PassGrows
  <1> DEFINE L == Len(T)
  <1>5. L \in Nat /\ f[0] = m /\ MatchPass(T, D, m) = f[L]
        /\ (\A k \in 0..L : Sound(f[k], T, D)) /\ \A k \in 1..L : f[k - 1] \subseteq f[k]
    BY <1>1, <1>4 DEF Within, Signed, Grows
  <1> HIDE DEF L
  <1>6. Sound(f[L], T, D)
    BY <1>5
  <1>7. m \subseteq f[L]
    <2> DEFINE S == {k \in 0..L : m \subseteq f[k]}
    <2>1. 0 \in S
      BY <1>5
    <2>2. ASSUME NEW k \in 0..(L - 1), k \in S PROVE k + 1 \in S
      <3>1. k + 1 \in 1..L /\ (k + 1) - 1 = k /\ k + 1 \in 0..L
        BY <1>5
      <3>2. f[k] \subseteq f[k + 1]
        BY <1>5, <3>1
      <3> QED BY <2>2, <3>1, <3>2
    <2>3. L \in S
      <3> HIDE DEF S
      <3>1. \A k \in 0..L : k \in S
        BY <1>5, <2>1, <2>2, UpTo
      <3> QED BY <3>1, <1>5
    <2> QED BY <2>3
  <1>8. MatchNodeIdentities(t, d) = f[L]
    BY <1>5 DEF MatchNodeIdentities, T, D, P, Q, m
  <1> QED BY <1>6, <1>7, <1>8 DEF T, D, P, Q, m, Matched

LEMMA Partners ==
  ASSUME NEW t, NEW d, NEW m, Matched(t, d, m), NEW n
  PROVE  /\ \A x : <<n, x>> \in m => PartnerOf(m, n) = x
         /\ PartnerOf(m, n) # 0 => <<n, PartnerOf(m, n)>> \in m
  <1>1. CASE \E p \in m : p[1] = n
    <2> DEFINE p == CHOOSE q \in m : q[1] = n
    <2>1. p \in m /\ p[1] = n
      BY <1>1
    <2>2. PartnerOf(m, n) = p[2]
      BY <1>1 DEF PartnerOf
    <2> HIDE DEF p
    <2>3. p = <<p[1], p[2]>>
      BY <2>1 DEF Matched, Sound
    <2>4. \A x : <<n, x>> \in m => <<n, x>> = p
      <3> TAKE x
      <3> HAVE <<n, x>> \in m
      <3>1. <<n, x>>[1] = p[1]
        BY <2>1
      <3> QED BY <3>1, <2>1 DEF Matched, Sound
    <2> QED BY <2>1, <2>2, <2>3, <2>4
  <1>2. CASE ~\E p \in m : p[1] = n
    <2>1. \A x : <<n, x>> \notin m
      BY <1>2
    <2> QED BY <2>1, <1>2 DEF PartnerOf
  <1> QED BY <1>1, <1>2

-----------------------------------------------------------------------------
(* Documents *)

Deeper(nodes) == UNION {Below(node) : node \in nodes}

\* The recursion of Level has a solution.
Descending(f, v, n) ==
  f = [k \in 0..n |-> IF k = 0 THEN {<< <<>>, v>>} ELSE Deeper(f[k - 1])]

LEMMA DescendingExists ==
  ASSUME NEW v, NEW n \in Nat
  PROVE  \E f : Descending(f, v, n)
  <1> DEFINE T == {m \in Nat : \E f : Descending(f, v, m)}
  <1>1. 0 \in T
    <2>1. Descending([k \in 0..0 |-> {<< <<>>, v>>}], v, 0)
      BY DEF Descending
    <2> QED BY <2>1
  <1>2. ASSUME NEW m \in 0..(n - 1), m \in T PROVE m + 1 \in T
    <2>1. PICK f : Descending(f, v, m)
      BY <1>2
    <2>2. m \in Nat
      OBVIOUS
    <2> DEFINE last == Deeper(f[m])
    <2>3. PICK g : Extends(g, f, m, last)
      <3> HIDE DEF last
      <3> QED BY <2>2, Extension
    <2>4. g[m + 1] = last /\ \A k \in 0..m : g[k] = f[k]
      BY <2>3 DEF Extends
    <2>5. \A k \in 0..m : f[k] = IF k = 0 THEN {<< <<>>, v>>} ELSE Deeper(f[k - 1])
      BY <2>1 DEF Descending
    <2>6. ASSUME NEW k \in 0..(m + 1)
          PROVE  g[k] = IF k = 0 THEN {<< <<>>, v>>} ELSE Deeper(g[k - 1])
      <3>1. CASE k = m + 1
        <4>1. k # 0 /\ k - 1 = m /\ g[m] = f[m]
          BY <3>1, <2>2, <2>4
        <4> QED BY <4>1, <3>1, <2>4
      <3>2. CASE k # m + 1
        <4>1. k \in 0..m /\ g[k] = f[k] /\ (k # 0 => g[k - 1] = f[k - 1])
          BY <3>2, <2>2, <2>4
        <4> QED BY <4>1, <2>5
      <3> QED BY <3>1, <3>2
    <2>7. Descending(g, v, m + 1)
      BY <2>3, <2>6 DEF Extends, Descending
    <2> QED BY <2>2, <2>7
  <1>3. n \in T
    <2> HIDE DEF T
    <2> QED BY <1>1, <1>2, UpTo
  <1> QED BY <1>3

LEMMA Levels ==
  ASSUME NEW v
  PROVE  /\ Level(v, 0) = {<< <<>>, v>>}
         /\ \A n \in Nat : Level(v, n + 1) = Deeper(Level(v, n))
  <1> DEFINE F(n) == CHOOSE g : Descending(g, v, n)
  <1>1. \A n \in Nat : Descending(F(n), v, n)
    <2> TAKE n \in Nat
    <2>1. \E g : Descending(g, v, n)
      BY DescendingExists
    <2> QED BY <2>1
  <1>2. \A n \in Nat : Level(v, n) = F(n)[n]
    BY DEF Level, Descending, Deeper
  <1> HIDE DEF F
  <1>3. \A n \in Nat : F(n)[0] = {<< <<>>, v>>}
    BY <1>1 DEF Descending
  <1>4. \A n \in Nat : \A k \in 1..n : F(n)[k] = Deeper(F(n)[k - 1])
    BY <1>1 DEF Descending
  <1>5. ASSUME NEW n \in Nat PROVE \A k \in 0..n : F(n)[k] = F(n + 1)[k]
    <2> DEFINE S == {k \in 0..n : F(n)[k] = F(n + 1)[k]}
    <2>0. n + 1 \in Nat
      OBVIOUS
    <2>1. 0 \in S /\ n + 1 \in Nat
      <3>1. F(n)[0] = {<< <<>>, v>>}
        BY <1>3
      <3>2. F(n + 1)[0] = {<< <<>>, v>>}
        BY <1>3, <2>0
      <3>3. 0 \in 0..n
        OBVIOUS
      <3> QED BY <3>1, <3>2, <3>3, <2>0
    <2>2. ASSUME NEW k \in 0..(n - 1), k \in S PROVE k + 1 \in S
      <3>1. k + 1 \in 1..n /\ k + 1 \in 1..(n + 1) /\ (k + 1) - 1 = k /\ k + 1 \in 0..n
        OBVIOUS
      <3>2. F(n)[k + 1] = Deeper(F(n)[k]) /\ F(n + 1)[k + 1] = Deeper(F(n + 1)[k])
        BY <1>4, <2>1, <3>1
      <3> QED BY <2>2, <3>1, <3>2
    <2>3. \A k \in 0..n : k \in S
      <3> HIDE DEF S
      <3> QED BY <2>1, <2>2, UpTo
    <2> QED BY <2>3
  <1>6. ASSUME NEW n \in Nat PROVE Level(v, n + 1) = Deeper(Level(v, n))
    <2>1. n + 1 \in Nat /\ n + 1 \in 1..(n + 1) /\ (n + 1) - 1 = n /\ n \in 0..n
      OBVIOUS
    <2>2. F(n + 1)[n + 1] = Deeper(F(n + 1)[n])
      BY <1>4, <2>1
    <2>3. F(n)[n] = F(n + 1)[n]
      BY <1>5, <2>1
    <2>4. Level(v, n + 1) = F(n + 1)[n + 1] /\ Level(v, n) = F(n)[n]
      BY <1>2, <2>1
    <2> QED BY <2>2, <2>3, <2>4
  <1>7. Level(v, 0) = {<< <<>>, v>>}
    <2>1. 0 \in Nat
      OBVIOUS
    <2> QED BY <2>1, <1>2, <1>3
  <1> QED BY <1>6, <1>7

\* No key of an object is repeated.
Unrepeated(v) == \A i, j \in DOMAIN v.members : v.members[i].key = v.members[j].key => i = j

LEMMA DocumentNodes ==
  ASSUME NEW v, IsDocument(v)
  PROVE  /\ << <<>>, v>> \in Nodes(v)
         /\ \A node \in Nodes(v) :
              /\ IsBuilt(node[2])
              /\ \A m \in ToSet(node[2].members) : <<Append(node[1], m.key), m.value>> \in Nodes(v)
              /\ \A i \in DOMAIN node[2].elements :
                   <<Append(node[1], Index(i)), node[2].elements[i]>> \in Nodes(v)
              /\ DuplicateMemberPaths(v) = {} => Unrepeated(node[2])
  <1>1. << <<>>, v>> \in Nodes(v)
    BY JsonAssumption, Levels DEF Nodes
  <1>2. ASSUME NEW node \in Nodes(v) PROVE Below(node) \subseteq Nodes(v)
    <2>1. PICK n \in 0..MaxDepth : node \in Level(v, n)
      BY DEF Nodes
    <2>2. n \in Nat /\ n + 1 \in 0..(MaxDepth + 1) /\ MaxDepth \in Nat
      BY JsonAssumption
    <2>3. Below(node) \subseteq Level(v, n + 1)
      <3>1. Level(v, n + 1) = Deeper(Level(v, n))
        BY <2>2, Levels
      <3> QED BY <2>1, <3>1 DEF Deeper
    <2>4. CASE n = MaxDepth
      BY <2>3, <2>4 DEF IsDocument
    <2>5. CASE n # MaxDepth
      <3>1. n + 1 \in 0..MaxDepth
        BY <2>2, <2>5
      <3> QED BY <3>1, <2>3 DEF Nodes
    <2> QED BY <2>4, <2>5
  <1>3. ASSUME NEW node \in Nodes(v), DuplicateMemberPaths(v) = {} PROVE Unrepeated(node[2])
    <2> DEFINE w == node[2]
    <2>1. IsBuilt(w)
      BY DEF IsDocument
    <2>2. \A k \in KeysOf(w) : ~(Cardinality(Positions(w, k)) > 1)
      <3> DEFINE repeated == {x \in KeysOf(w) : Cardinality(Positions(w, x)) > 1}
                 paths == {Append(node[1], k) : k \in repeated}
      <3>1. paths \subseteq DuplicateMemberPaths(v)
        BY DEF DuplicateMemberPaths
      <3>2. paths = {}
        BY <1>3, <3>1
      <3>3. repeated = {}
        <4> HIDE DEF repeated
        <4> QED BY <3>2
      <3> QED BY <3>3
    <2> HIDE DEF w
    <2>3. SUFFICES ASSUME NEW i \in DOMAIN w.members, NEW j \in DOMAIN w.members,
                          w.members[i].key = w.members[j].key, i # j
                   PROVE  FALSE
      BY DEF Unrepeated, w
    <2> DEFINE P == Positions(w, w.members[i].key)
    <2>4. i \in P /\ j \in P /\ P \subseteq 1..Len(w.members) /\ Len(w.members) \in Nat
      BY <2>1, <2>3 DEF Positions, IsBuilt
    <2>5. IsFiniteSet(P)
      <3>1. IsFiniteSet(1..Len(w.members))
        BY <2>4, FS_Interval
      <3> QED BY <2>4, <3>1, FS_Subset
    <2>6. ~(Cardinality(P) > 1)
      BY <2>2 DEF KeysOf
    <2> HIDE DEF P
    <2>7. Cardinality(P) = 0 \/ Cardinality(P) = 1
      BY <2>5, <2>6, FS_CardinalityType
    <2>8. CASE Cardinality(P) = 0
      BY <2>8, <2>5, <2>4, FS_EmptySet
    <2>9. CASE Cardinality(P) = 1
      <3>1. \E x : P = {x}
        BY <2>9, <2>5, FS_Singleton
      <3> QED BY <3>1, <2>3, <2>4
    <2> QED BY <2>7, <2>8, <2>9
  <1> QED BY <1>1, <1>2, <1>3 DEF IsDocument, Below

\* What a member list means for a key: the last of its members, or nothing.
Means(members, k, m) ==
  \/ m = Absent /\ \A i \in DOMAIN members : members[i].key # k
  \/ \E i \in DOMAIN members :
       /\ members[i].key = k /\ m = members[i].value.semantic
       /\ \A j \in DOMAIN members : j > i => members[j].key # k

LEMMA MeansOne ==
  ASSUME NEW members, NEW n \in Nat, DOMAIN members = 1..n, NEW k, NEW m, NEW l,
         Means(members, k, m), Means(members, k, l)
  PROVE  m = l
  <1>1. CASE \A i \in DOMAIN members : members[i].key # k
    BY <1>1 DEF Means
  <1>2. CASE ~\A i \in DOMAIN members : members[i].key # k
    <2>1. PICK i \in DOMAIN members : /\ members[i].key = k /\ m = members[i].value.semantic
                                      /\ \A j \in DOMAIN members : j > i => members[j].key # k
      BY <1>2 DEF Means
    <2>2. PICK h \in DOMAIN members : /\ members[h].key = k /\ l = members[h].value.semantic
                                      /\ \A j \in DOMAIN members : j > h => members[j].key # k
      BY <1>2 DEF Means
    <2>3. ~(i > h) /\ ~(h > i) /\ i \in Nat /\ h \in Nat
      BY <2>1, <2>2
    <2>4. i = h
      BY <2>3
    <2> QED BY <2>1, <2>2, <2>4
  <1> QED BY <1>1, <1>2

LEMMA MeaningMeans ==
  ASSUME NEW members, NEW n \in Nat, DOMAIN members = 1..n, NEW k \in Keys
  PROVE  Means(members, k, MeaningOf(members)[k])
  <1> DEFINE named == {i \in DOMAIN members : members[i].key = k}
  <1>1. MeaningOf(members)[k] = IF named = {} THEN Absent ELSE members[Max(named)].value.semantic
    BY DEF MeaningOf
  <1>2. CASE named = {}
    BY <1>1, <1>2 DEF Means
  <1>3. CASE named # {}
    <2>1. named \subseteq 0..n
      OBVIOUS
    <2> DEFINE i == Max(named)
    <2>2. i \in named /\ \A y \in named : i >= y
      <3> HIDE DEF named
      <3> QED BY <2>1, <1>3, MaxIn
    <2> HIDE DEF i
    <2>3. MeaningOf(members)[k] = members[i].value.semantic
      BY <1>1, <1>3 DEF i
    <2>4. \A j \in DOMAIN members : j > i => members[j].key # k
      <3> TAKE j \in DOMAIN members
      <3> HAVE j > i
      <3>1. ~(i >= j)
        BY <2>2
      <3> QED BY <3>1, <2>2
    <2> QED BY <2>2, <2>3, <2>4 DEF Means
  <1> QED BY <1>2, <1>3

\* The members and the meaning of what a parser builds.
LEMMA BuiltFacts ==
  ASSUME NEW v, IsBuilt(v)
  PROVE  /\ Len(v.members) \in Nat /\ DOMAIN v.members = 1..Len(v.members)
         /\ v.members \in Seq(ToSet(v.members))
         /\ Len(v.elements) \in Nat /\ DOMAIN v.elements = 1..Len(v.elements)
         /\ KeysOf(v) \subseteq Keys
         /\ Kind(v) # "object" => v.members = <<>>
         /\ Kind(v) = "object" => v.semantic = [kind |-> "object", members |-> MeaningOf(v.members)]
         /\ Kind(v) \in {"scalar", "array", "object"} /\ v.semantic # Absent
  <1>1. v.members \in Seq(ToSet(v.members)) /\ v.elements \in Seq(ToSet(v.elements))
    BY DEF IsBuilt
  <1>2. /\ Len(v.members) \in Nat /\ DOMAIN v.members = 1..Len(v.members)
        /\ Len(v.elements) \in Nat /\ DOMAIN v.elements = 1..Len(v.elements)
    BY <1>1
  <1>3. KeysOf(v) \subseteq Keys
    <2>1. \A i \in DOMAIN v.members : v.members[i].key \in Keys
      BY DEF IsBuilt, ToSet
    <2> QED BY <2>1 DEF KeysOf
  <1>4. Kind(v) # "object" => v.members = <<>>
    <2>1. CASE v = Scalar(v.semantic.scalar)
      BY <2>1 DEF Scalar
    <2>2. CASE v = ArrayOf(v.elements)
      BY <2>2 DEF ArrayOf
    <2> QED BY <2>1, <2>2 DEF IsBuilt
  <1>5. Kind(v) = "object" => v.semantic = [kind |-> "object", members |-> MeaningOf(v.members)]
    <2> SUFFICES ASSUME Kind(v) = "object"
                 PROVE  v.semantic = [kind |-> "object", members |-> MeaningOf(v.members)]
      OBVIOUS
    <2>1. v = Object(v.members, v.inline, v.notes)
      BY DEF IsBuilt
    <2>2. Object(v.members, v.inline, v.notes).semantic
            = [kind |-> "object", members |-> MeaningOf(v.members)]
      BY DEF Object
    <2> QED BY <2>1, <2>2
  <1>6. Kind(v) \in {"scalar", "array", "object"} /\ v.semantic # Absent
    BY DEF IsBuilt, Kind, Absent
  <1> QED BY <1>1, <1>2, <1>3, <1>4, <1>5, <1>6

LEMMA FirstFacts ==
  ASSUME NEW v, IsBuilt(v), NEW k \in KeysOf(v)
  PROVE  /\ Min(Positions(v, k)) \in DOMAIN v.members
         /\ v.members[Min(Positions(v, k))].key = k
         /\ FirstMember(v, k) = v.members[Min(Positions(v, k))]
         /\ FirstMember(v, k) \in ToSet(v.members)
         /\ FirstMember(v, k) = [key |-> k, value |-> MemberValue(v, k)]
         /\ \A j \in DOMAIN v.members : v.members[j].key = k => Min(Positions(v, k)) =< j
  <1> DEFINE P == Positions(v, k)
  <1>1. P \subseteq Nat /\ P # {}
    <2>1. DOMAIN v.members \subseteq Nat
      BY BuiltFacts
    <2> QED BY <2>1 DEF Positions, KeysOf
  <1> HIDE DEF P
  <1>2. Min(P) \in P /\ \A y \in P : Min(P) =< y
    BY <1>1, MinIn
  <1>3. Min(P) \in DOMAIN v.members /\ v.members[Min(P)].key = k
    BY <1>2 DEF P, Positions
  <1>4. FirstMember(v, k) = v.members[Min(P)]
    BY DEF FirstMember, P
  <1>5. FirstMember(v, k) \in ToSet(v.members)
    BY <1>3, <1>4 DEF ToSet
  <1>6. FirstMember(v, k) = [key |-> k, value |-> MemberValue(v, k)]
    <2>1. FirstMember(v, k) = [key |-> FirstMember(v, k).key, value |-> FirstMember(v, k).value]
      BY <1>5 DEF IsBuilt
    <2>2. MemberValue(v, k) = FirstMember(v, k).value
      BY DEF MemberValue
    <2>3. FirstMember(v, k).key = k
      BY <1>3, <1>4
    <2> QED BY <2>1, <2>2, <2>3
  <1>7. \A j \in DOMAIN v.members : v.members[j].key = k => Min(P) =< j
    BY <1>2 DEF P, Positions
  <1> QED BY <1>3, <1>4, <1>5, <1>6, <1>7 DEF P

\* What an object means for a key.
LEMMA MeaningIs ==
  ASSUME NEW v, IsBuilt(v), Kind(v) = "object", NEW k \in Keys
  PROVE  Means(v.members, k, At(v.semantic, k))
  <1>1. v.semantic = [kind |-> "object", members |-> MeaningOf(v.members)]
    BY BuiltFacts
  <1>2. v.semantic.kind = "object" /\ v.semantic.members = MeaningOf(v.members)
    BY <1>1
  <1>3. At(v.semantic, k) = MeaningOf(v.members)[k]
    BY <1>2 DEF At
  <1>4. Len(v.members) \in Nat /\ DOMAIN v.members = 1..Len(v.members)
    BY BuiltFacts
  <1>5. Means(v.members, k, MeaningOf(v.members)[k])
    BY <1>4, MeaningMeans
  <1> QED BY <1>3, <1>5

\* A value and its members, as a parser builds them.
Whole(v) == IsBuilt(v) /\ \A m \in ToSet(v.members) : IsBuilt(m.value)

\* An object has no key it means nothing for.
LEMMA KeysMean ==
  ASSUME NEW v, Whole(v), NEW k \in Keys
  PROVE  k \in KeysOf(v) <=> At(v.semantic, k) # Absent
  <1>0. IsBuilt(v)
    BY DEF Whole
  <1>1. CASE Kind(v) # "object"
    <2>1. DOMAIN v.members = {}
      <3>1. v.members = <<>>
        BY <1>0, <1>1, BuiltFacts
      <3> QED BY <3>1
    <2>2. At(v.semantic, k) = Absent
      BY <1>1 DEF At, Kind
    <2> QED BY <2>1, <2>2 DEF KeysOf
  <1>2. CASE Kind(v) = "object"
    <2>1. Means(v.members, k, At(v.semantic, k))
      BY <1>0, <1>2, MeaningIs
    <2>2. \A i \in DOMAIN v.members : v.members[i].value.semantic # Absent
      <3> TAKE i \in DOMAIN v.members
      <3>1. v.members[i] \in ToSet(v.members)
        BY DEF ToSet
      <3>2. IsBuilt(v.members[i].value)
        BY <3>1 DEF Whole
      <3> QED BY <3>2, BuiltFacts
    <2> QED BY <2>1, <2>2 DEF Means, KeysOf
  <1> QED BY <1>1, <1>2

\* A key that is not repeated.
Only(v, k) ==
  \A i, j \in DOMAIN v.members : v.members[i].key = k /\ v.members[j].key = k => i = j

\* A lookup finds what counts if the key is not repeated.
LEMMA MemberMeaning ==
  ASSUME NEW v, IsBuilt(v), NEW k \in Keys, Only(v, k)
  PROVE  MemberValue(v, k).semantic = At(v.semantic, k)
  <1>1. CASE Kind(v) # "object"
    <2>1. KeysOf(v) = {}
      <3>1. v.members = <<>>
        BY <1>1, BuiltFacts
      <3>2. DOMAIN v.members = {}
        BY <3>1
      <3> QED BY <3>2 DEF KeysOf
    <2>2. MemberValue(v, k).semantic = Absent
      BY <2>1 DEF MemberValue, NoValue
    <2>3. At(v.semantic, k) = Absent
      BY <1>1 DEF At, Kind
    <2> QED BY <2>2, <2>3
  <1>2. CASE Kind(v) = "object"
    <2>1. v.semantic = [kind |-> "object", members |-> MeaningOf(v.members)]
      BY <1>2, BuiltFacts
    <2>2. At(v.semantic, k) = MeaningOf(v.members)[k]
      <3>1. v.semantic.kind = "object" /\ v.semantic.members = MeaningOf(v.members)
        BY <2>1
      <3> QED BY <3>1 DEF At
    <2>3. Means(v.members, k, MeaningOf(v.members)[k])
      <3>1. Len(v.members) \in Nat /\ DOMAIN v.members = 1..Len(v.members)
        BY BuiltFacts
      <3> QED BY <3>1, MeaningMeans
    <2>4. CASE k \notin KeysOf(v)
      <3>1. MemberValue(v, k).semantic = Absent
        BY <2>4 DEF MemberValue, NoValue
      <3> QED BY <2>2, <2>3, <2>4, <3>1 DEF Means, KeysOf
    <2>5. CASE k \in KeysOf(v)
      <3>1. /\ Min(Positions(v, k)) \in DOMAIN v.members
            /\ v.members[Min(Positions(v, k))].key = k
            /\ MemberValue(v, k) = v.members[Min(Positions(v, k))].value
        BY <2>5, FirstFacts DEF MemberValue
      <3>2. PICK i \in DOMAIN v.members : /\ v.members[i].key = k
                                          /\ MeaningOf(v.members)[k] = v.members[i].value.semantic
        BY <2>3, <3>1 DEF Means
      <3>3. i = Min(Positions(v, k))
        BY <3>1, <3>2 DEF Only
      <3> QED BY <2>2, <3>1, <3>2, <3>3
    <2> QED BY <2>4, <2>5
  <1> QED BY <1>1, <1>2

-----------------------------------------------------------------------------
(* Elements of arrays *)

\* The identity an element has by what it means.
IdentityOf(m) == IF At(m, IdKey).kind = "scalar" THEN {At(m, IdKey)} ELSE {}

\* Elements whose identity is that of their meaning.
AreElements(s) ==
  /\ Len(s) \in Nat /\ DOMAIN s = 1..Len(s)
  /\ \A i \in DOMAIN s : ObjectIdentity(s[i]) = IdentityOf(s[i].semantic)

LEMMA ElementIdentity ==
  ASSUME NEW v, IsBuilt(v), Unrepeated(v)
  PROVE  ObjectIdentity(v) = IdentityOf(v.semantic)
  <1>1. MemberValue(v, IdKey).semantic = At(v.semantic, IdKey)
    <2>1. Only(v, IdKey)
      BY DEF Unrepeated, Only
    <2> QED BY <2>1, JsonAssumption, MemberMeaning
  <1> QED BY <1>1 DEF ObjectIdentity, IdentityOf, Kind

\* Nodes show which element has an identity.
Shows(nodes, s, id) ==
  \A i \in DOMAIN s : ObjectIdentity(s[i]) = {id} <=> nodes[i].primary = <<"id", id>>

LEMMA ElementNodes ==
  ASSUME NEW s, AreElements(s)
  PROVE  /\ AreNodes(JsonSequenceNodes(s)) /\ DOMAIN JsonSequenceNodes(s) = DOMAIN s
         /\ \A i \in DOMAIN s : JsonSequenceNodes(s)[i].content = s[i].semantic
         /\ \A id : Shows(JsonSequenceNodes(s), s, id)
  <1> DEFINE N == JsonSequenceNodes(s)
             L == Len(s)
  <1>1. L \in Nat /\ DOMAIN s = 1..L
    BY DEF AreElements
  <1> DEFINE A(i) == <<"content", s[i].semantic>>
             P(i) == <<"position", i>>
             D(i) == ObjectIdentity(s[i])
  <1>2. N = [i \in 1..L |->
               [primary |-> IF D(i) = {} THEN A(i) ELSE <<"id", CHOOSE x \in D(i) : TRUE>>,
                aliases |-> IF D(i) = {} THEN <<P(i)>> ELSE <<A(i), P(i)>>,
                content |-> s[i].semantic]]
    BY <1>1 DEF JsonSequenceNodes
  <1> HIDE DEF L, N, A, P, D
  <1>3. Len(N) = L /\ DOMAIN N = 1..L
    BY <1>1, <1>2
  <1>4. ASSUME NEW i \in 1..L
        PROVE  /\ N[i].primary = IF D(i) = {} THEN A(i) ELSE <<"id", CHOOSE x \in D(i) : TRUE>>
               /\ N[i].aliases = IF D(i) = {} THEN <<P(i)>> ELSE <<A(i), P(i)>>
               /\ N[i].content = s[i].semantic
    BY <1>2
  <1>5. ASSUME NEW i \in 1..L PROVE N[i].aliases \in Seq(ToSet(N[i].aliases))
    <2>1. <<P(i)>> \in Seq(ToSet(<<P(i)>>))
      BY DEF ToSet
    <2>2. <<A(i), P(i)>> \in Seq(ToSet(<<A(i), P(i)>>))
      BY DEF ToSet
    <2> QED BY <1>4, <2>1, <2>2
  <1>6. AreNodes(N)
    BY <1>1, <1>3, <1>5 DEF AreNodes
  <1>7. ASSUME NEW i \in 1..L, NEW id PROVE D(i) = {id} <=> N[i].primary = <<"id", id>>
    <2>1. CASE D(i) = {}
      <3>1. N[i].primary = A(i)
        BY <1>4, <2>1
      <3>2. A(i) # <<"id", id>>
        <4>1. A(i)[1] = "content" /\ <<"id", id>>[1] = "id"
          BY DEF A
        <4> QED BY <4>1
      <3> QED BY <3>1, <3>2, <2>1
    <2>2. CASE D(i) # {}
      <3>1. \E x : D(i) = {x}
        BY <2>2 DEF D, ObjectIdentity
      <3>2. PICK x : D(i) = {x}
        BY <3>1
      <3>3. (CHOOSE y \in D(i) : TRUE) = x
        BY <3>2
      <3>4. N[i].primary = <<"id", x>>
        BY <1>4, <2>2, <3>3
      <3> QED BY <3>2, <3>4
    <2> QED BY <2>1, <2>2
  <1>8. \A id : Shows(N, s, id)
    BY <1>1, <1>7 DEF Shows, D
  <1> QED BY <1>1, <1>3, <1>4, <1>6, <1>8 DEF N

\* The partner of an identified element is the one of the same identity, and
\* if there is none, one of another identity or nothing.
Alone(s, n, id) == ObjectIdentity(s[n]) = {id} /\ \A i \in DOMAIN s : ObjectIdentity(s[i]) = {id} => i = n

LEMMA ElementPartner ==
  ASSUME NEW b, AreElements(b), NEW s, AreElements(s), NEW n \in DOMAIN b, NEW id,
         Alone(b, n, id),
         NEW p, p = PartnerOf(MatchNodeIdentities(JsonSequenceNodes(b), JsonSequenceNodes(s)), n)
  PROVE  /\ \A x \in DOMAIN s : Alone(s, x, id) => p = x
         /\ p = 0 \/ p \in DOMAIN s
  <1> DEFINE B == JsonSequenceNodes(b)
             S == JsonSequenceNodes(s)
             m == MatchNodeIdentities(B, S)
  <1>1. /\ AreNodes(B) /\ DOMAIN B = DOMAIN b /\ AreNodes(S) /\ DOMAIN S = DOMAIN s
        /\ \A i \in DOMAIN b : ObjectIdentity(b[i]) = {id} <=> B[i].primary = <<"id", id>>
        /\ \A i \in DOMAIN s : ObjectIdentity(s[i]) = {id} <=> S[i].primary = <<"id", id>>
    <2>1. AreNodes(B) /\ DOMAIN B = DOMAIN b /\ Shows(B, b, id)
      BY ElementNodes
    <2>2. AreNodes(S) /\ DOMAIN S = DOMAIN s /\ Shows(S, s, id)
      BY ElementNodes
    <2> HIDE DEF B, S
    <2> QED BY <2>1, <2>2 DEF Shows
  <1> HIDE DEF B, S
  <1>2. Matched(B, S, m)
    BY <1>1, MatchingIsSound
  <1>3. ASSUME NEW x \in DOMAIN s, Alone(s, x, id) PROVE p = x
    <2>1. <<n, x>> \in MatchPass(PrimarySignatures(B), PrimarySignatures(S), {})
      <3>1. B[n].primary = <<"id", id>> /\ S[x].primary = <<"id", id>>
        BY <1>1, <1>3 DEF Alone
      <3>2. \A i \in DOMAIN B : B[i].primary = B[n].primary => i = n
        BY <1>1, <3>1 DEF Alone
      <3>3. \A i \in DOMAIN S : S[i].primary = B[n].primary => i = x
        BY <1>1, <1>3, <3>1 DEF Alone
      <3>4. n \in DOMAIN B /\ x \in DOMAIN S
        BY <1>1
      <3> QED BY <1>1, <3>1, <3>2, <3>3, <3>4, PrimaryMatched
    <2>2. <<n, x>> \in m
      BY <2>1, <1>1, MatchingIsSound
    <2> HIDE DEF m
    <2>3. PartnerOf(m, n) = x
      BY <1>2, <2>2, Partners
    <2> QED BY <2>3 DEF m, B, S
  <1>4. p = 0 \/ p \in DOMAIN s
    <2> HIDE DEF m
    <2>1. p = PartnerOf(m, n)
      BY DEF m, B, S
    <2>2. p # 0 => <<n, p>> \in m
      BY <1>2, <2>1, Partners
    <2>3. \A q \in m : q[2] \in DOMAIN AllSignatures(S)
      BY <1>2 DEF Matched, Sound
    <2>4. DOMAIN AllSignatures(S) = DOMAIN s
      BY <1>1, Signatures
    <2>5. p # 0 => p \in DOMAIN s
      BY <2>2, <2>3, <2>4
    <2> QED BY <2>5
  <1> QED BY <1>3, <1>4

\* What the elements of an identity mean, as ElementMeaning says it.
MeaningById(s, id, m) ==
  \/ m = Absent /\ \A i \in DOMAIN s : ObjectIdentity(s[i]) # {id}
  \/ \E i \in DOMAIN s : Alone(s, i, id) /\ m = s[i].semantic

\* An identified element that the sides changed or deleted differently is a
\* conflict at its index.
LEMMA ElementConflict ==
  ASSUME NEW eb, AreElements(eb), NEW eo, AreElements(eo), NEW et, AreElements(et),
         NEW n \in DOMAIN eb, NEW id, Alone(eb, n, id),
         NEW mo, MeaningById(eo, id, mo), NEW mt, MeaningById(et, id, mt),
         mo # eb[n].semantic, mt # eb[n].semantic, mo # mt,
         NEW path
  PROVE  \E c \in ArrayConflicts([elements |-> eb], [elements |-> eo], [elements |-> et], path) :
           c.path = path /\ c.index = n
  <1> DEFINE B == JsonSequenceNodes(eb)
             O == JsonSequenceNodes(eo)
             T == JsonSequenceNodes(et)
             toO == MatchNodeIdentities(B, O)
             toT == MatchNodeIdentities(B, T)
             o == PartnerOf(toO, n)
             t == PartnerOf(toT, n)
             mb == eb[n].semantic
  <1>1. /\ \A x \in DOMAIN eo : Alone(eo, x, id) => o = x
        /\ o = 0 \/ o \in DOMAIN eo
    BY ElementPartner
  <1>2. /\ \A x \in DOMAIN et : Alone(et, x, id) => t = x
        /\ t = 0 \/ t \in DOMAIN et
    BY ElementPartner
  <1>3. /\ \A i \in DOMAIN eb : B[i].content = eb[i].semantic
        /\ \A i \in DOMAIN eo : O[i].content = eo[i].semantic
        /\ \A i \in DOMAIN et : T[i].content = et[i].semantic
        /\ DOMAIN B = DOMAIN eb
    BY ElementNodes
  <1>4. DOMAIN eo \subseteq Nat \ {0} /\ DOMAIN et \subseteq Nat \ {0}
    BY DEF AreElements
  <1> HIDE DEF B, O, T, toO, toT, o, t
  <1>5. IdentityOf(mb) = {id}
    BY DEF Alone, AreElements
  \* A side's partner: of the identity with its meaning, of another, or none.
  <1>6. \/ mo # Absent /\ o # 0 /\ O[o].content = mo /\ IdentityOf(mo) = {id}
        \/ mo = Absent /\ o = 0
        \/ mo = Absent /\ o # 0 /\ IdentityOf(O[o].content) # {id}
    <2>1. CASE mo = Absent /\ \A i \in DOMAIN eo : ObjectIdentity(eo[i]) # {id}
      <3>1. o \in DOMAIN eo => IdentityOf(O[o].content) # {id}
        BY <2>1, <1>3 DEF AreElements
      <3> QED BY <3>1, <2>1, <1>1
    <2>2. CASE \E i \in DOMAIN eo : Alone(eo, i, id) /\ mo = eo[i].semantic
      <3>1. PICK i \in DOMAIN eo : Alone(eo, i, id) /\ mo = eo[i].semantic
        BY <2>2
      <3>2. o = i /\ o # 0 /\ O[o].content = mo
        BY <3>1, <1>1, <1>3, <1>4
      <3>3. IdentityOf(mo) = {id}
        BY <3>1 DEF Alone, AreElements
      <3>4. mo # Absent
        BY <3>3 DEF IdentityOf, At, Absent
      <3> QED BY <3>2, <3>3, <3>4
    <2> QED BY <2>1, <2>2 DEF MeaningById
  <1>7. \/ mt # Absent /\ t # 0 /\ T[t].content = mt /\ IdentityOf(mt) = {id}
        \/ mt = Absent /\ t = 0
        \/ mt = Absent /\ t # 0 /\ IdentityOf(T[t].content) # {id}
    <2>1. CASE mt = Absent /\ \A i \in DOMAIN et : ObjectIdentity(et[i]) # {id}
      <3>1. t \in DOMAIN et => IdentityOf(T[t].content) # {id}
        BY <2>1, <1>3 DEF AreElements
      <3> QED BY <3>1, <2>1, <1>2
    <2>2. CASE \E i \in DOMAIN et : Alone(et, i, id) /\ mt = et[i].semantic
      <3>1. PICK i \in DOMAIN et : Alone(et, i, id) /\ mt = et[i].semantic
        BY <2>2
      <3>2. t = i /\ t # 0 /\ T[t].content = mt
        BY <3>1, <1>2, <1>3, <1>4
      <3>3. IdentityOf(mt) = {id}
        BY <3>1 DEF Alone, AreElements
      <3>4. mt # Absent
        BY <3>3 DEF IdentityOf, At, Absent
      <3> QED BY <3>2, <3>3, <3>4
    <2> QED BY <2>1, <2>2 DEF MeaningById
  <1>8. ContentConflict(B, O, T, toO, toT, n) # {}
    <2> DEFINE oursChanged == o # 0 /\ O[o].content # B[n].content
               theirsChanged == t # 0 /\ T[t].content # B[n].content
    <2>1. B[n].content = mb
      BY <1>3
    <2>2. (o # 0 => oursChanged) /\ (t # 0 => theirsChanged) /\ (o # 0 \/ t # 0)
      BY <1>5, <1>6, <1>7, <2>1
    <2>3. o # 0 /\ t # 0 => O[o].content # T[t].content
      BY <1>6, <1>7
    <2>4. ContentConflict(B, O, T, toO, toT, n)
            = IF (o = 0 /\ theirsChanged) \/ (t = 0 /\ oursChanged) THEN {"delete_modify"}
              ELSE IF oursChanged /\ theirsChanged /\ O[o].content # T[t].content
                THEN {"modify_modify"} ELSE {}
      BY DEF ContentConflict, o, t
    <2> HIDE DEF oursChanged, theirsChanged
    <2> QED BY <2>2, <2>3, <2>4
  <1>9. PICK category : category \in ContentConflict(B, O, T, toO, toT, n)
    BY <1>8
  <1> DEFINE found == AnalyzeThreeWaySequence(B, O, T)
             c == [category |-> category, index |-> n]
             conflict == [path |-> path, index |-> c.index, category |-> c.category]
  <1>10. c \in found
    <2> DEFINE here == {[category |-> x, index |-> n] : x \in ContentConflict(B, O, T, toO, toT, n)}
               all == UNION {{[category |-> x, index |-> i] :
                         x \in ContentConflict(B, O, T, toO, toT, i)} : i \in DOMAIN B}
    <2>1. c \in here
      BY <1>9
    <2>2. n \in DOMAIN B
      BY <1>3
    <2>3. here \subseteq all
      BY <2>2
    <2>4. all \subseteq found
      BY DEF AnalyzeThreeWaySequence, toO, toT
    <2> QED BY <2>1, <2>3, <2>4
  <1>11. conflict \in ArrayConflicts([elements |-> eb], [elements |-> eo], [elements |-> et], path)
    <2>1. ArrayConflicts([elements |-> eb], [elements |-> eo], [elements |-> et], path)
            = IF found = {} THEN {[path |-> path, index |-> 0, category |-> "atomic_array_edit"]}
              ELSE {[path |-> path, index |-> x.index, category |-> x.category] : x \in found}
      BY DEF ArrayConflicts, B, O, T
    <2> HIDE DEF found, c
    <2> QED BY <1>10, <2>1
  <1> QED BY <1>11

-----------------------------------------------------------------------------
(* Paths *)

\* Induction along a sequence, and from the longest sequences down to the
\* empty one.
LEMMA GrowingSequences ==
  ASSUME NEW U, NEW T, <<>> \in T, \A p \in Seq(U), k \in U : p \in T => Append(p, k) \in T
  PROVE  \A p \in Seq(U) : p \in T
  <1> SUFFICES ASSUME NEW p \in Seq(U) PROVE p \in T
    OBVIOUS
  <1> DEFINE n == Len(p)
             S == {i \in 0..n : SubSeq(p, 1, i) \in T}
  <1>1. n \in Nat /\ SubSeq(p, 1, 0) = <<>> /\ SubSeq(p, 1, n) = p
    OBVIOUS
  <1>2. \A i \in 0..(n - 1) : /\ SubSeq(p, 1, i) \in Seq(U) /\ p[i + 1] \in U
                              /\ SubSeq(p, 1, i + 1) = Append(SubSeq(p, 1, i), p[i + 1])
    <2> TAKE i \in 0..(n - 1)
    <2>1. i \in Nat /\ i + 1 \in 1..Len(p)
      OBVIOUS
    <2> DEFINE a == SubSeq(p, 1, i)
               c == SubSeq(p, 1, i + 1)
    <2>2. a \in Seq(U) /\ Len(a) = i /\ c \in Seq(U) /\ Len(c) = i + 1
      BY <2>1
    <2>3. (\A j \in 1..i : a[j] = p[j]) /\ \A j \in 1..(i + 1) : c[j] = p[j]
      BY <2>1
    <2>4. p[i + 1] \in U
      BY <2>1
    <2>5. c = Append(a, p[i + 1])
      <3> DEFINE d == Append(a, p[i + 1])
      <3>1. d \in Seq(U) /\ Len(d) = i + 1 /\ (\A j \in 1..i : d[j] = a[j]) /\ d[i + 1] = p[i + 1]
        <4> HIDE DEF a
        <4> QED BY <2>1, <2>2, <2>4
      <3> HIDE DEF a, c, d
      <3>2. \A j \in 1..(i + 1) : c[j] = d[j]
        BY <2>1, <2>3, <3>1
      <3>3. c = d
        BY <2>2, <3>1, <3>2, SeqEqual
      <3> QED BY <3>3 DEF d
    <2> QED BY <2>2, <2>4, <2>5
  <1>3. 0 \in S
    <2>1. 0 \in 0..n
      BY <1>1
    <2>2. SubSeq(p, 1, 0) \in T
      BY <1>1, Zenon
    <2> QED BY <2>1, <2>2, Zenon
  <1>4. ASSUME NEW i \in 0..(n - 1), i \in S PROVE i + 1 \in S
    <2>1. i + 1 \in 0..n
      BY <1>1
    <2>2. SubSeq(p, 1, i + 1) \in T
      BY <1>2, <1>4
    <2> QED BY <2>1, <2>2
  <1>5. n \in S
    <2> HIDE DEF S, n
    <2>1. \A i \in 0..n : i \in S
      BY <1>1, <1>3, <1>4, UpTo
    <2> QED BY <2>1, <1>1
  <1> QED BY <1>1, <1>5

LEMMA DeepestFirst ==
  ASSUME NEW U, NEW T, NEW d \in Nat, \A p \in Seq(U) : Len(p) >= d => p \in T,
         \A p \in Seq(U) : (\A k \in U : Append(p, k) \in T) => p \in T
  PROVE  \A p \in Seq(U) : p \in T
  <1> DEFINE S == {i \in 0..d : \A p \in Seq(U) : Len(p) >= d - i => p \in T}
  <1>1. 0 \in S
    OBVIOUS
  <1>2. ASSUME NEW i \in 0..(d - 1), i \in S PROVE i + 1 \in S
    <2>1. ASSUME NEW p \in Seq(U), Len(p) >= d - (i + 1) PROVE p \in T
      <3>1. \A k \in U : Append(p, k) \in Seq(U) /\ Len(Append(p, k)) >= d - i
        BY <2>1
      <3>2. \A k \in U : Append(p, k) \in T
        BY <1>2, <3>1
      <3> QED BY <3>2
    <2>2. i + 1 \in 0..d
      OBVIOUS
    <2> QED BY <2>1, <2>2
  <1>3. d \in S
    <2> HIDE DEF S
    <2>1. \A i \in 0..d : i \in S
      BY <1>1, <1>2, UpTo
    <2> QED BY <2>1
  <1>4. \A p \in Seq(U) : Len(p) >= d - d
    OBVIOUS
  <1> QED BY <1>3, <1>4

\* Induction along a path, and from the deepest paths up.
LEMMA Downwards ==
  ASSUME NEW T, <<>> \in T, \A p \in Seq(Keys), k \in Keys : p \in T => Append(p, k) \in T
  PROVE  \A p \in Seq(Keys) : p \in T
  BY GrowingSequences

LEMMA Upwards ==
  ASSUME NEW T, NEW d \in Nat, \A p \in Seq(Keys) : Len(p) >= d => p \in T,
         \A p \in Seq(Keys) : (\A k \in Keys : Append(p, k) \in T) => p \in T
  PROVE  \A p \in Seq(Keys) : p \in T
  BY DeepestFirst

\* The recursion of ValueAt has a solution.
Following(f, v, path, n) ==
  f = [k \in 0..n |-> IF k = 0 THEN v ELSE MemberValue(f[k - 1], path[k])]

LEMMA FollowingExists ==
  ASSUME NEW v, NEW path, NEW n \in Nat
  PROVE  \E f : Following(f, v, path, n)
  <1> DEFINE T == {m \in Nat : \E f : Following(f, v, path, m)}
  <1>1. 0 \in T
    <2>1. Following([k \in 0..0 |-> v], v, path, 0)
      BY DEF Following
    <2> QED BY <2>1
  <1>2. ASSUME NEW m \in 0..(n - 1), m \in T PROVE m + 1 \in T
    <2>1. PICK f : Following(f, v, path, m)
      BY <1>2
    <2>2. m \in Nat
      OBVIOUS
    <2> DEFINE last == MemberValue(f[m], path[m + 1])
    <2>3. PICK g : Extends(g, f, m, last)
      <3> HIDE DEF last
      <3> QED BY <2>2, Extension
    <2>4. g[m + 1] = last /\ \A k \in 0..m : g[k] = f[k]
      BY <2>3 DEF Extends
    <2>5. \A k \in 0..m : f[k] = IF k = 0 THEN v ELSE MemberValue(f[k - 1], path[k])
      BY <2>1 DEF Following
    <2>6. ASSUME NEW k \in 0..(m + 1)
          PROVE  g[k] = IF k = 0 THEN v ELSE MemberValue(g[k - 1], path[k])
      <3>1. CASE k = m + 1
        <4>1. k # 0 /\ k - 1 = m /\ g[m] = f[m]
          BY <3>1, <2>2, <2>4
        <4> QED BY <4>1, <3>1, <2>4
      <3>2. CASE k # m + 1
        <4>1. k \in 0..m /\ g[k] = f[k] /\ (k # 0 => g[k - 1] = f[k - 1])
          BY <3>2, <2>2, <2>4
        <4> QED BY <4>1, <2>5
      <3> QED BY <3>1, <3>2
    <2>7. Following(g, v, path, m + 1)
      BY <2>3, <2>6 DEF Extends, Following
    <2> QED BY <2>2, <2>7
  <1>3. n \in T
    <2> HIDE DEF T
    <2> QED BY <1>1, <1>2, UpTo
  <1> QED BY <1>3

LEMMA ValueSteps ==
  ASSUME NEW v
  PROVE  /\ ValueAt(v, <<>>) = v
         /\ \A p \in Seq(Keys), k \in Keys : ValueAt(v, Append(p, k)) = MemberValue(ValueAt(v, p), k)
  <1> DEFINE F(p) == CHOOSE g : Following(g, v, p, Len(p))
  <1>1. \A p \in Seq(Keys) : Following(F(p), v, p, Len(p))
    <2> TAKE p \in Seq(Keys)
    <2>1. \E g : Following(g, v, p, Len(p))
      <3>1. Len(p) \in Nat
        OBVIOUS
      <3> QED BY <3>1, FollowingExists
    <2> QED BY <2>1
  <1>2. \A p \in Seq(Keys) : ValueAt(v, p) = F(p)[Len(p)]
    BY DEF ValueAt, Following
  <1> HIDE DEF F
  <1>3. \A p \in Seq(Keys) : F(p)[0] = v /\ \A k \in 1..Len(p) : F(p)[k] = MemberValue(F(p)[k - 1], p[k])
    BY <1>1 DEF Following
  <1>4. ValueAt(v, <<>>) = v
    <2>1. <<>> \in Seq(Keys) /\ Len(<<>>) = 0
      OBVIOUS
    <2> QED BY <2>1, <1>2, <1>3
  <1>5. ASSUME NEW p \in Seq(Keys), NEW key \in Keys
        PROVE  ValueAt(v, Append(p, key)) = MemberValue(ValueAt(v, p), key)
    <2> DEFINE q == Append(p, key)
               n == Len(p)
               f == F(p)
               g == F(q)
    <2>1. /\ q \in Seq(Keys) /\ Len(q) = n + 1 /\ n \in Nat /\ q[n + 1] = key
          /\ \A k \in 1..n : q[k] = p[k]
      OBVIOUS
    <2> HIDE DEF q, n
    <2>2. f[0] = v /\ g[0] = v /\ Len(p) = n
      BY <2>1, <1>3 DEF n
    <2>3. \A k \in 1..n : f[k] = MemberValue(f[k - 1], p[k])
      BY <2>2, <1>3
    <2>4. \A k \in 1..(n + 1) : g[k] = MemberValue(g[k - 1], q[k])
      BY <2>1, <1>3
    <2>5. ValueAt(v, p) = f[n] /\ ValueAt(v, q) = g[n + 1]
      BY <2>1, <2>2, <1>2
    <2> HIDE DEF f, g
    <2> DEFINE S == {k \in 0..n : f[k] = g[k]}
    <2>6. 0 \in S
      BY <2>1, <2>2
    <2>7. ASSUME NEW k \in 0..(n - 1), k \in S PROVE k + 1 \in S
      <3>1. k + 1 \in 1..n /\ k + 1 \in 1..(n + 1) /\ (k + 1) - 1 = k /\ k + 1 \in 0..n
        BY <2>1
      <3>2. f[k + 1] = MemberValue(f[k], p[k + 1]) /\ g[k + 1] = MemberValue(g[k], q[k + 1])
        BY <2>3, <2>4, <3>1
      <3> QED BY <2>1, <2>7, <3>1, <3>2
    <2>8. n \in S
      <3> HIDE DEF S
      <3>1. \A k \in 0..n : k \in S
        BY <2>1, <2>6, <2>7, UpTo
      <3> QED BY <3>1, <2>1
    <2>9. n + 1 \in 1..(n + 1) /\ (n + 1) - 1 = n
      BY <2>1
    <2>10. g[n + 1] = MemberValue(g[n], q[n + 1])
      BY <2>4, <2>9
    <2>11. g[n + 1] = MemberValue(f[n], key)
      BY <2>8, <2>10, <2>1
    <2> QED BY <2>5, <2>11 DEF q
  <1> QED BY <1>4, <1>5

\* The recursion of MeaningAt has a solution.
Meaning(f, v, path, n) ==
  f = [k \in 0..n |-> IF k = 0 THEN v ELSE At(f[k - 1], path[k])]

LEMMA MeaningExists ==
  ASSUME NEW v, NEW path, NEW n \in Nat
  PROVE  \E f : Meaning(f, v, path, n)
  <1> DEFINE T == {m \in Nat : \E f : Meaning(f, v, path, m)}
  <1>1. 0 \in T
    <2>1. Meaning([k \in 0..0 |-> v], v, path, 0)
      BY DEF Meaning
    <2> QED BY <2>1
  <1>2. ASSUME NEW m \in 0..(n - 1), m \in T PROVE m + 1 \in T
    <2>1. PICK f : Meaning(f, v, path, m)
      BY <1>2
    <2>2. m \in Nat
      OBVIOUS
    <2> DEFINE last == At(f[m], path[m + 1])
    <2>3. PICK g : Extends(g, f, m, last)
      <3> HIDE DEF last
      <3> QED BY <2>2, Extension
    <2>4. g[m + 1] = last /\ \A k \in 0..m : g[k] = f[k]
      BY <2>3 DEF Extends
    <2>5. \A k \in 0..m : f[k] = IF k = 0 THEN v ELSE At(f[k - 1], path[k])
      BY <2>1 DEF Meaning
    <2>6. ASSUME NEW k \in 0..(m + 1)
          PROVE  g[k] = IF k = 0 THEN v ELSE At(g[k - 1], path[k])
      <3>1. CASE k = m + 1
        <4>1. k # 0 /\ k - 1 = m /\ g[m] = f[m]
          BY <3>1, <2>2, <2>4
        <4> QED BY <4>1, <3>1, <2>4
      <3>2. CASE k # m + 1
        <4>1. k \in 0..m /\ g[k] = f[k] /\ (k # 0 => g[k - 1] = f[k - 1])
          BY <3>2, <2>2, <2>4
        <4> QED BY <4>1, <2>5
      <3> QED BY <3>1, <3>2
    <2>7. Meaning(g, v, path, m + 1)
      BY <2>3, <2>6 DEF Extends, Meaning
    <2> QED BY <2>2, <2>7
  <1>3. n \in T
    <2> HIDE DEF T
    <2> QED BY <1>1, <1>2, UpTo
  <1> QED BY <1>3

LEMMA MeaningSteps ==
  ASSUME NEW v
  PROVE  /\ MeaningAt(v, <<>>) = v
         /\ \A p \in Seq(Keys), k \in Keys : MeaningAt(v, Append(p, k)) = At(MeaningAt(v, p), k)
  <1> DEFINE F(p) == CHOOSE g : Meaning(g, v, p, Len(p))
  <1>1. \A p \in Seq(Keys) : Meaning(F(p), v, p, Len(p))
    <2> TAKE p \in Seq(Keys)
    <2>1. \E g : Meaning(g, v, p, Len(p))
      <3>1. Len(p) \in Nat
        OBVIOUS
      <3> QED BY <3>1, MeaningExists
    <2> QED BY <2>1
  <1>2. \A p \in Seq(Keys) : MeaningAt(v, p) = F(p)[Len(p)]
    BY DEF MeaningAt, Meaning
  <1> HIDE DEF F
  <1>3. \A p \in Seq(Keys) : F(p)[0] = v /\ \A k \in 1..Len(p) : F(p)[k] = At(F(p)[k - 1], p[k])
    BY <1>1 DEF Meaning
  <1>4. MeaningAt(v, <<>>) = v
    <2>1. <<>> \in Seq(Keys) /\ Len(<<>>) = 0
      OBVIOUS
    <2> QED BY <2>1, <1>2, <1>3
  <1>5. ASSUME NEW p \in Seq(Keys), NEW key \in Keys
        PROVE  MeaningAt(v, Append(p, key)) = At(MeaningAt(v, p), key)
    <2> DEFINE q == Append(p, key)
               n == Len(p)
               f == F(p)
               g == F(q)
    <2>1. /\ q \in Seq(Keys) /\ Len(q) = n + 1 /\ n \in Nat /\ q[n + 1] = key
          /\ \A k \in 1..n : q[k] = p[k]
      OBVIOUS
    <2> HIDE DEF q, n
    <2>2. f[0] = v /\ g[0] = v /\ Len(p) = n
      BY <2>1, <1>3 DEF n
    <2>3. \A k \in 1..n : f[k] = At(f[k - 1], p[k])
      BY <2>2, <1>3
    <2>4. \A k \in 1..(n + 1) : g[k] = At(g[k - 1], q[k])
      BY <2>1, <1>3
    <2>5. MeaningAt(v, p) = f[n] /\ MeaningAt(v, q) = g[n + 1]
      BY <2>1, <2>2, <1>2
    <2> HIDE DEF f, g
    <2> DEFINE S == {k \in 0..n : f[k] = g[k]}
    <2>6. 0 \in S
      BY <2>1, <2>2
    <2>7. ASSUME NEW k \in 0..(n - 1), k \in S PROVE k + 1 \in S
      <3>1. k + 1 \in 1..n /\ k + 1 \in 1..(n + 1) /\ (k + 1) - 1 = k /\ k + 1 \in 0..n
        BY <2>1
      <3>2. f[k + 1] = At(f[k], p[k + 1]) /\ g[k + 1] = At(g[k], q[k + 1])
        BY <2>3, <2>4, <3>1
      <3> QED BY <2>1, <2>7, <3>1, <3>2
    <2>8. n \in S
      <3> HIDE DEF S
      <3>1. \A k \in 0..n : k \in S
        BY <2>1, <2>6, <2>7, UpTo
      <3> QED BY <3>1, <2>1
    <2>9. n + 1 \in 1..(n + 1) /\ (n + 1) - 1 = n
      BY <2>1
    <2>10. g[n + 1] = At(g[n], q[n + 1])
      BY <2>4, <2>9
    <2>11. g[n + 1] = At(f[n], key)
      BY <2>8, <2>10, <2>1
    <2> QED BY <2>5, <2>11 DEF q
  <1> QED BY <1>4, <1>5

\* What lookups reach in a document.
LEMMA ReachedValues ==
  ASSUME NEW v, IsDocument(v)
  PROVE  \A p \in Seq(Keys) :
           \/ ValueAt(v, p) = NoValue
           \/ /\ Len(p) =< MaxDepth /\ <<p, ValueAt(v, p)>> \in Nodes(v)
              /\ <<p, ValueAt(v, p)>> \in Level(v, Len(p))
  <1> DEFINE T == {p \in Seq(Keys) :
                     \/ ValueAt(v, p) = NoValue
                     \/ Len(p) =< MaxDepth /\ <<p, ValueAt(v, p)>> \in Level(v, Len(p))}
  <1>1. <<>> \in T
    <2>1. Len(<<>>) = 0 /\ <<>> \in Seq(Keys) /\ MaxDepth \in Nat
      BY JsonAssumption
    <2>2. ValueAt(v, <<>>) = v /\ Level(v, 0) = {<< <<>>, v>>}
      BY ValueSteps, Levels
    <2> QED BY <2>1, <2>2
  <1>2. ASSUME NEW p \in Seq(Keys), NEW k \in Keys, p \in T PROVE Append(p, k) \in T
    <2> DEFINE w == ValueAt(v, p)
               x == MemberValue(w, k)
    <2>1. ValueAt(v, Append(p, k)) = x /\ Append(p, k) \in Seq(Keys)
          /\ Len(p) \in Nat /\ Len(Append(p, k)) = Len(p) + 1
      <3>1. ValueAt(v, Append(p, k)) = x
        BY ValueSteps
      <3>2. Append(p, k) \in Seq(Keys) /\ Len(p) \in Nat /\ Len(Append(p, k)) = Len(p) + 1
        OBVIOUS
      <3> QED BY <3>1, <3>2
    <2>2. CASE k \notin KeysOf(w)
      <3>1. x = NoValue
        BY <2>2 DEF MemberValue
      <3> QED BY <2>1, <3>1
    <2>3. CASE k \in KeysOf(w)
      <3>1. w # NoValue
        <4>1. KeysOf(NoValue) = {}
          BY DEF KeysOf, NoValue
        <4> QED BY <4>1, <2>3
      <3>2. Len(p) =< MaxDepth /\ <<p, w>> \in Level(v, Len(p)) /\ MaxDepth \in Nat
        BY <1>2, <3>1, JsonAssumption
      <3>3. IsBuilt(w)
        <4>1. Len(p) \in 0..MaxDepth
          BY <2>1, <3>2
        <4>2. <<p, w>> \in Nodes(v)
          BY <3>2, <4>1 DEF Nodes
        <4>3. IsBuilt(<<p, w>>[2])
          BY <4>2 DEF IsDocument
        <4> QED BY <4>3
      <3>4. <<Append(p, k), x>> \in Below(<<p, w>>)
        <4>1. FirstMember(w, k) \in ToSet(w.members) /\ FirstMember(w, k) = [key |-> k, value |-> x]
          BY <2>3, <3>3, FirstFacts
        <4> HIDE DEF w, x
        <4>2. FirstMember(w, k).key = k /\ FirstMember(w, k).value = x
          BY <4>1
        <4>3. <<p, w>>[1] = p /\ <<p, w>>[2] = w
          OBVIOUS
        <4> QED BY <4>1, <4>2, <4>3 DEF Below
      <3>5. <<Append(p, k), x>> \in Level(v, Len(p) + 1)
        <4>1. Level(v, Len(p) + 1) = Deeper(Level(v, Len(p)))
          BY <2>1, Levels
        <4> HIDE DEF w, x
        <4> QED BY <3>2, <3>4, <4>1 DEF Deeper
      <3>6. Len(p) # MaxDepth
        BY <3>5 DEF IsDocument
      <3>7. Len(p) + 1 =< MaxDepth
        BY <3>6, <3>2, <2>1
      <3> QED BY <2>1, <3>5, <3>7
    <2> QED BY <2>2, <2>3
  <1>3. \A p \in Seq(Keys) : p \in T
    <2> HIDE DEF T
    <2> QED BY <1>1, <1>2, Downwards
  <1>4. ASSUME NEW p \in Seq(Keys), Len(p) =< MaxDepth, <<p, ValueAt(v, p)>> \in Level(v, Len(p))
        PROVE  <<p, ValueAt(v, p)>> \in Nodes(v)
    <2>1. Len(p) \in 0..MaxDepth
      BY <1>4, JsonAssumption
    <2> QED BY <2>1, <1>4 DEF Nodes
  <1> QED BY <1>3, <1>4

LEMMA BeyondDepth ==
  ASSUME NEW v, IsDocument(v), NEW p \in Seq(Keys), Len(p) >= MaxDepth + 1
  PROVE  ValueAt(v, p) = NoValue
  <1>1. ~(Len(p) =< MaxDepth)
    BY JsonAssumption
  <1> QED BY <1>1, ReachedValues

-----------------------------------------------------------------------------
(* The recursions over paths *)

Deep(d) == {p \in Seq(Keys) : Len(p) >= d}
Inside(f, path) == [k \in Keys |-> f[Append(path, k)]]

\* One level of a three-way merge, and of the rendering of a plan.
MergeAt(b, o, t, path, inside) ==
  MergeThree(ValueAt(b, path), ValueAt(o, path), ValueAt(t, path), path, inside)
RenderAt(v, p, path, inside) == Render(ValueAt(v, path), p, path, inside)

LEMMA MergeBeyond ==
  ASSUME NEW b, NEW o, NEW t, IsDocument(b), IsDocument(o), IsDocument(t)
  PROVE  \A path \in Deep(MaxDepth + 1) : \A x, y : MergeAt(b, o, t, path, x) = MergeAt(b, o, t, path, y)
  <1> SUFFICES ASSUME NEW path \in Deep(MaxDepth + 1), NEW x, NEW y
               PROVE  MergeAt(b, o, t, path, x) = MergeAt(b, o, t, path, y)
    OBVIOUS
  <1>1. path \in Seq(Keys) /\ Len(path) >= MaxDepth + 1
    BY DEF Deep
  <1>2. ValueAt(b, path) = NoValue /\ ValueAt(o, path) = NoValue /\ ValueAt(t, path) = NoValue
    BY <1>1, BeyondDepth
  <1>3. \A z : MergeThree(NoValue, NoValue, NoValue, path, z) = Planned(NoValue.semantic)
    BY DEF MergeThree
  <1> QED BY <1>2, <1>3 DEF MergeAt

LEMMA RenderBeyond ==
  ASSUME NEW v, NEW p, IsDocument(v)
  PROVE  \A path \in Deep(MaxDepth + 1) : \A x, y : RenderAt(v, p, path, x) = RenderAt(v, p, path, y)
  <1> SUFFICES ASSUME NEW path \in Deep(MaxDepth + 1), NEW x, NEW y
               PROVE  RenderAt(v, p, path, x) = RenderAt(v, p, path, y)
    OBVIOUS
  <1>1. path \in Seq(Keys) /\ Len(path) >= MaxDepth + 1
    BY DEF Deep
  <1>2. ValueAt(v, path) = NoValue
    BY <1>1, BeyondDepth
  <1>3. Kind(NoValue) # "object"
    BY DEF Kind, NoValue, Absent
  <1>4. Render(NoValue, p, path, x) = Render(NoValue, p, path, y)
    BY <1>3 DEF Render
  <1> QED BY <1>2, <1>4 DEF RenderAt

\* The recursion of MergeThreeValues has a solution.
MergingFrom(f, b, o, t, d) ==
  f = [path \in Deep(d) |-> MergeAt(b, o, t, path, Inside(f, path))]

LEMMA MergingExists ==
  ASSUME NEW b, NEW o, NEW t, IsDocument(b), IsDocument(o), IsDocument(t)
  PROVE  \E f : MergingFrom(f, b, o, t, 0)
  <1> DEFINE D == MaxDepth + 1
             T == {i \in 0..D : \E f : MergingFrom(f, b, o, t, D - i)}
  <1>0. D \in Nat
    BY JsonAssumption
  <1>1. 0 \in T
    <2> DEFINE f == [path \in Deep(D) |-> MergeAt(b, o, t, path, <<>>)]
    <2>1. \A path \in Deep(D) : \A x, y : MergeAt(b, o, t, path, x) = MergeAt(b, o, t, path, y)
      BY MergeBeyond
    <2>2. MergingFrom(f, b, o, t, D)
      BY <2>1 DEF MergingFrom
    <2> HIDE DEF f
    <2>3. D - 0 = D
      BY <1>0
    <2> QED BY <2>2, <2>3, <1>0
  <1>2. ASSUME NEW i \in 0..(D - 1), i \in T PROVE i + 1 \in T
    <2> DEFINE d == D - (i + 1)
    <2>1. d \in Nat /\ D - i = d + 1 /\ i + 1 \in 0..D
      BY <1>0
    <2>2. PICK f : MergingFrom(f, b, o, t, d + 1)
      BY <1>2, <2>1
    <2> HIDE DEF d
    <2> DEFINE g == [path \in Deep(d) |-> IF path \in Deep(d + 1) THEN f[path]
                                          ELSE MergeAt(b, o, t, path, Inside(f, path))]
    <2>3. \A path \in Deep(d + 1) : g[path] = f[path] /\ path \in Deep(d)
      BY <2>1 DEF Deep
    <2>4. \A path \in Deep(d + 1) : f[path] = MergeAt(b, o, t, path, Inside(f, path))
      BY <2>2 DEF MergingFrom
    <2>5. \A path \in Deep(d) : g[path] = MergeAt(b, o, t, path, Inside(f, path))
      BY <2>4
    <2>6. \A path \in Deep(d), k \in Keys : Append(path, k) \in Deep(d + 1)
      BY <2>1 DEF Deep
    <2>7. g = [path \in Deep(d) |-> g[path]]
      OBVIOUS
    <2> HIDE DEF g
    <2>8. ASSUME NEW path \in Deep(d) PROVE Inside(g, path) = Inside(f, path)
      <3>1. \A k \in Keys : g[Append(path, k)] = f[Append(path, k)]
        BY <2>3, <2>6
      <3> QED BY <3>1 DEF Inside
    <2>9. \A path \in Deep(d) : g[path] = MergeAt(b, o, t, path, Inside(g, path))
      BY <2>5, <2>8
    <2>10. MergingFrom(g, b, o, t, d)
      BY <2>7, <2>9 DEF MergingFrom
    <2> QED BY <2>1, <2>10 DEF d
  <1>3. D \in T
    <2> HIDE DEF T, D
    <2>1. \A i \in 0..D : i \in T
      BY <1>0, <1>1, <1>2, UpTo
    <2> QED BY <2>1, <1>0
  <1>4. D - D = 0
    BY <1>0
  <1> QED BY <1>3, <1>4

\* So has that of RenderValue.
RenderingFrom(f, v, p, d) ==
  f = [path \in Deep(d) |-> RenderAt(v, p, path, Inside(f, path))]

LEMMA RenderingExists ==
  ASSUME NEW v, NEW p, IsDocument(v)
  PROVE  \E f : RenderingFrom(f, v, p, 0)
  <1> DEFINE D == MaxDepth + 1
             T == {i \in 0..D : \E f : RenderingFrom(f, v, p, D - i)}
  <1>0. D \in Nat
    BY JsonAssumption
  <1>1. 0 \in T
    <2> DEFINE f == [path \in Deep(D) |-> RenderAt(v, p, path, <<>>)]
    <2>1. \A path \in Deep(D) : \A x, y : RenderAt(v, p, path, x) = RenderAt(v, p, path, y)
      BY RenderBeyond
    <2>2. RenderingFrom(f, v, p, D)
      BY <2>1 DEF RenderingFrom
    <2> HIDE DEF f
    <2>3. D - 0 = D
      BY <1>0
    <2> QED BY <2>2, <2>3, <1>0
  <1>2. ASSUME NEW i \in 0..(D - 1), i \in T PROVE i + 1 \in T
    <2> DEFINE d == D - (i + 1)
    <2>1. d \in Nat /\ D - i = d + 1 /\ i + 1 \in 0..D
      BY <1>0
    <2>2. PICK f : RenderingFrom(f, v, p, d + 1)
      BY <1>2, <2>1
    <2> HIDE DEF d
    <2> DEFINE g == [path \in Deep(d) |-> IF path \in Deep(d + 1) THEN f[path]
                                          ELSE RenderAt(v, p, path, Inside(f, path))]
    <2>3. \A path \in Deep(d + 1) : g[path] = f[path] /\ path \in Deep(d)
      BY <2>1 DEF Deep
    <2>4. \A path \in Deep(d + 1) : f[path] = RenderAt(v, p, path, Inside(f, path))
      BY <2>2 DEF RenderingFrom
    <2>5. \A path \in Deep(d) : g[path] = RenderAt(v, p, path, Inside(f, path))
      BY <2>4
    <2>6. \A path \in Deep(d), k \in Keys : Append(path, k) \in Deep(d + 1)
      BY <2>1 DEF Deep
    <2>7. g = [path \in Deep(d) |-> g[path]]
      OBVIOUS
    <2> HIDE DEF g
    <2>8. ASSUME NEW path \in Deep(d) PROVE Inside(g, path) = Inside(f, path)
      <3>1. \A k \in Keys : g[Append(path, k)] = f[Append(path, k)]
        BY <2>3, <2>6
      <3> QED BY <3>1 DEF Inside
    <2>9. \A path \in Deep(d) : g[path] = RenderAt(v, p, path, Inside(g, path))
      BY <2>5, <2>8
    <2>10. RenderingFrom(g, v, p, d)
      BY <2>7, <2>9 DEF RenderingFrom
    <2> QED BY <2>1, <2>10 DEF d
  <1>3. D \in T
    <2> HIDE DEF T, D
    <2>1. \A i \in 0..D : i \in T
      BY <1>0, <1>1, <1>2, UpTo
    <2> QED BY <2>1, <1>0
  <1>4. D - D = 0
    BY <1>0
  <1> QED BY <1>3, <1>4

\* A merge, and a rendering, as functions of the path.
Merging(f, b, o, t) ==
  /\ MergeThreeValues(b, o, t) = f[<<>>]
  /\ \A path \in Seq(Keys) : f[path] = MergeAt(b, o, t, path, Inside(f, path))
Rendering(f, v, p) ==
  /\ RenderValue(v, p) = f[<<>>]
  /\ \A path \in Seq(Keys) : f[path] = RenderAt(v, p, path, Inside(f, path))

LEMMA MergeSteps ==
  ASSUME NEW b, NEW o, NEW t, IsDocument(b), IsDocument(o), IsDocument(t)
  PROVE  \E f : Merging(f, b, o, t)
  <1> DEFINE Solves(f) == f = [path \in Seq(Keys) |-> MergeAt(b, o, t, path, Inside(f, path))]
             f == CHOOSE g : Solves(g)
  <1>1. Deep(0) = Seq(Keys)
    BY DEF Deep
  <1>2. \E g : Solves(g)
    <2>1. PICK g : MergingFrom(g, b, o, t, 0)
      BY MergingExists
    <2>2. Solves(g)
      BY <1>1, <2>1 DEF MergingFrom
    <2> QED BY <2>2
  <1>3. Solves(f)
    <2> HIDE DEF Solves
    <2> QED BY <1>2
  <1>4. MergeThreeValues(b, o, t) = f[<<>>]
    BY DEF MergeThreeValues, MergeAt, Inside
  <1> HIDE DEF f
  <1>5. Merging(f, b, o, t)
    BY <1>3, <1>4 DEF Merging
  <1> QED BY <1>5

LEMMA RenderSteps ==
  ASSUME NEW v, NEW p, IsDocument(v)
  PROVE  \E f : Rendering(f, v, p)
  <1> DEFINE Solves(f) == f = [path \in Seq(Keys) |-> RenderAt(v, p, path, Inside(f, path))]
             f == CHOOSE g : Solves(g)
  <1>1. Deep(0) = Seq(Keys)
    BY DEF Deep
  <1>2. \E g : Solves(g)
    <2>1. PICK g : RenderingFrom(g, v, p, 0)
      BY RenderingExists
    <2>2. Solves(g)
      BY <1>1, <2>1 DEF RenderingFrom
    <2> QED BY <2>2
  <1>3. Solves(f)
    <2> HIDE DEF Solves
    <2> QED BY <1>2
  <1>4. RenderValue(v, p) = f[<<>>]
    BY DEF RenderValue, RenderAt, Inside
  <1> HIDE DEF f
  <1>5. Rendering(f, v, p)
    BY <1>3, <1>4 DEF Rendering
  <1> QED BY <1>5

-----------------------------------------------------------------------------
(* The states of a merge *)

Contested == input.lane = "typed" /\ ContestedPaths(input) # {}
Lanes == {"typed", "untyped", "template"}

\* The merge has to be planned: no revision stands for the result.
MustPlan == input.lane = "template" \/ (Selected = <<>> /\ ~Contested)
IsThePlan ==
  plan = IF input.lane = "template" THEN MergeTemplateValue(input.theirs, input.ours)
         ELSE MergeThreeValues(input.base, input.ours, input.theirs)

\* What is offered for verification, and why.
IsSelected ==
  /\ input.lane # "template" /\ ~Contested /\ Selected # <<>>
  /\ rendered = Selected[1] /\ plan = Planned(Selected[1].semantic)
IsRendered ==
  /\ MustPlan /\ IsThePlan /\ plan.conflicts = {}
  /\ ~Overlapping(input.ours, plan) /\ rendered = RenderValue(input.ours, plan)
Candidate == IsSelected \/ IsRendered

InputInv ==
  /\ input.lane \in Lanes
  /\ IsDocument(input.base) /\ IsDocument(input.ours) /\ IsDocument(input.theirs)

\* How a merge got to where it is.
PhaseInv ==
  \/ pc = "guard" /\ input.lane = "typed" /\ outcome = "running"
  \/ pc = "select" /\ input.lane # "template" /\ ~Contested /\ outcome = "running"
  \/ pc = "plan" /\ MustPlan /\ outcome = "running"
  \/ pc = "render" /\ MustPlan /\ IsThePlan /\ plan.conflicts = {} /\ outcome = "running"
  \/ pc = "verify" /\ Candidate /\ outcome = "running"
  \/ pc = "done" /\ outcome = "conflict" /\ Contested
  \/ pc = "done" /\ outcome = "conflict" /\ MustPlan /\ IsThePlan
  \/ /\ pc = "done" /\ outcome = "overlap" /\ MustPlan /\ IsThePlan
     /\ plan.conflicts = {} /\ Overlapping(input.ours, plan)
  \/ pc = "done" /\ outcome = "clean" /\ Candidate /\ Accepts(rendered)
  \/ pc = "done" /\ outcome = "mismatch" /\ Candidate /\ ~Accepts(rendered)
  \/ pc = "done" /\ outcome = "unparsed"

Inv == InputInv /\ PhaseInv

LEMMA InitInv == Init => Inv
  <1> SUFFICES ASSUME Init PROVE Inv
    OBVIOUS
  <1>1. PICK f \in Families : \E l \in f.lanes, b \in f.bases, o \in f.ours, t \in f.theirs :
               input = [lane |-> l, base |-> b, ours |-> o, theirs |-> t]
    BY DEF Init
  <1>2. PICK l \in f.lanes, b \in f.bases, o \in f.ours, t \in f.theirs :
               input = [lane |-> l, base |-> b, ours |-> o, theirs |-> t]
    BY <1>1
  <1>3. l \in Lanes /\ IsDocument(b) /\ IsDocument(o) /\ IsDocument(t)
    BY JsonAssumption DEF Lanes
  <1>4. input.lane = l /\ input.base = b /\ input.ours = o /\ input.theirs = t
    BY <1>2
  <1>5. InputInv
    BY <1>3, <1>4 DEF InputInv
  <1>6. /\ pc = (IF input.lane = "typed" THEN "guard"
                 ELSE IF input.lane = "untyped" THEN "select" ELSE "plan")
        /\ outcome = "running"
    BY DEF Init
  <1>7. PhaseInv
    <2>1. CASE input.lane = "typed"
      BY <2>1, <1>6 DEF PhaseInv
    <2>2. CASE input.lane = "untyped"
      <3>1. ~Contested
        BY <2>2 DEF Contested
      <3> QED BY <2>2, <3>1, <1>6 DEF PhaseInv
    <2>3. CASE input.lane = "template"
      BY <2>3, <1>6 DEF PhaseInv, MustPlan
    <2> QED BY <2>1, <2>2, <2>3, <1>3, <1>4 DEF Lanes
  <1> QED BY <1>5, <1>7 DEF Inv

\* What does not depend on anything but the input.
LEMMA InputStays ==
  ASSUME input' = input
  PROVE  /\ Contested' = Contested /\ Selected' = Selected /\ MustPlan' = MustPlan
         /\ InputInv' = InputInv
  BY DEF Contested, Selected, MustPlan, InputInv, Lanes

LEMMA NextInv == Inv /\ [Next]_vars => Inv'
  <1> SUFFICES ASSUME Inv, [Next]_vars PROVE Inv'
    OBVIOUS
  <1>1. CASE GuardDuplicates
    <2>1. input' = input /\ pc = "guard"
      BY <1>1 DEF GuardDuplicates
    <2>2. input.lane = "typed" /\ outcome = "running"
      BY <2>1 DEF Inv, PhaseInv
    <2>3. CASE ContestedPaths(input) # {}
      <3>1. pc' = "done" /\ outcome' = "conflict"
        BY <1>1, <2>3 DEF GuardDuplicates, End
      <3>2. Contested
        BY <2>2, <2>3 DEF Contested
      <3> QED BY <2>1, <3>1, <3>2, InputStays DEF Inv, PhaseInv
    <2>4. CASE ContestedPaths(input) = {}
      <3>1. pc' = "select" /\ outcome' = "running"
        BY <1>1, <2>2, <2>4 DEF GuardDuplicates
      <3>2. ~Contested
        BY <2>4 DEF Contested
      <3>3. input'.lane # "template"
        BY <2>1, <2>2
      <3> QED BY <2>1, <3>1, <3>2, <3>3, InputStays DEF Inv, PhaseInv
    <2> QED BY <2>3, <2>4
  <1>2. CASE SelectRevision
    <2>1. input' = input /\ pc = "select" /\ outcome' = outcome
      BY <1>2 DEF SelectRevision
    <2>2. input.lane # "template" /\ ~Contested /\ outcome = "running"
      BY <2>1 DEF Inv, PhaseInv
    <2>3. CASE Selected = <<>>
      <3>1. pc' = "plan" /\ MustPlan
        BY <1>2, <2>2, <2>3 DEF SelectRevision, MustPlan
      <3> QED BY <2>1, <2>2, <3>1, InputStays DEF Inv, PhaseInv
    <2>4. CASE Selected # <<>>
      <3>1. pc' = "verify" /\ rendered' = Selected[1] /\ plan' = Planned(Selected[1].semantic)
        BY <1>2, <2>4 DEF SelectRevision
      <3>2. IsSelected'
        BY <2>1, <2>2, <2>4, <3>1, InputStays DEF IsSelected
      <3> QED BY <2>1, <2>2, <3>1, <3>2, InputStays DEF Inv, PhaseInv, Candidate
    <2> QED BY <2>3, <2>4
  <1>3. CASE MakePlan
    <2>1. input' = input /\ pc = "plan"
      BY <1>3 DEF MakePlan
    <2>2. MustPlan /\ outcome = "running"
      BY <2>1 DEF Inv, PhaseInv
    <2>3. IsThePlan'
      BY <1>3, <2>1 DEF MakePlan, IsThePlan
    <2>4. CASE plan'.conflicts # {}
      <3>1. pc' = "done" /\ outcome' = "conflict"
        BY <1>3, <2>4 DEF MakePlan, End
      <3> QED BY <2>1, <2>2, <2>3, <3>1, InputStays DEF Inv, PhaseInv
    <2>5. CASE plan'.conflicts = {}
      <3>1. pc' = "render" /\ outcome' = "running"
        BY <1>3, <2>2, <2>5 DEF MakePlan
      <3> QED BY <2>1, <2>2, <2>3, <2>5, <3>1, InputStays DEF Inv, PhaseInv
    <2> QED BY <2>4, <2>5
  <1>4. CASE RenderPlan
    <2>1. input' = input /\ plan' = plan /\ pc = "render"
      BY <1>4 DEF RenderPlan
    <2>2. MustPlan /\ IsThePlan /\ plan.conflicts = {} /\ outcome = "running"
      BY <2>1 DEF Inv, PhaseInv
    <2>3. IsThePlan' /\ plan'.conflicts = {} /\ MustPlan'
      BY <2>1, <2>2, InputStays DEF IsThePlan
    <2>4. CASE Overlapping(input.ours, plan)
      <3>1. pc' = "done" /\ outcome' = "overlap"
        BY <1>4, <2>4 DEF RenderPlan, End
      <3>2. Overlapping(input'.ours, plan')
        BY <2>1, <2>4
      <3> QED BY <2>1, <2>3, <3>1, <3>2, InputStays DEF Inv, PhaseInv
    <2>5. CASE ~Overlapping(input.ours, plan)
      <3>1. pc' = "verify" /\ outcome' = "running" /\ rendered' = RenderValue(input.ours, plan)
        BY <1>4, <2>2, <2>5 DEF RenderPlan
      <3>2. ~Overlapping(input'.ours, plan') /\ rendered' = RenderValue(input'.ours, plan')
        BY <2>1, <2>5, <3>1
      <3>3. IsRendered'
        BY <2>3, <3>2 DEF IsRendered
      <3> QED BY <2>1, <3>1, <3>3, InputStays DEF Inv, PhaseInv, Candidate
    <2> QED BY <2>4, <2>5
  <1>5. CASE Verify
    <2>1. input' = input /\ plan' = plan /\ rendered' = rendered /\ pc = "verify" /\ pc' = "done"
          /\ outcome' = IF Accepts(rendered) THEN "clean" ELSE "mismatch"
      BY <1>5 DEF Verify, End
    <2>2. Candidate
      BY <2>1 DEF Inv, PhaseInv
    <2>3. Candidate'
      BY <2>1, <2>2, InputStays DEF Candidate, IsSelected, IsRendered, IsThePlan
    <2>4. Accepts(rendered)' <=> Accepts(rendered)
      BY <2>1 DEF Accepts
    <2>5. CASE Accepts(rendered)
      BY <2>1, <2>3, <2>4, <2>5, InputStays DEF Inv, PhaseInv
    <2>6. CASE ~Accepts(rendered)
      BY <2>1, <2>3, <2>4, <2>6, InputStays DEF Inv, PhaseInv
    <2> QED BY <2>5, <2>6
  <1>6. CASE VerifyFails
    BY <1>6, InputStays DEF VerifyFails, End, Inv, PhaseInv
  <1>7. CASE Done \/ UNCHANGED vars
    BY <1>7 DEF Done, vars, Inv, InputInv, Lanes, PhaseInv, Candidate, IsSelected, IsRendered,
                MustPlan, IsThePlan, Contested, Selected, Accepts
  <1> QED BY <1>1, <1>2, <1>3, <1>4, <1>5, <1>6, <1>7 DEF Next

\* The plan, the candidate and the outcome are those of the input.
LEMMA Invariance == Spec => []Inv
  BY InitInv, NextInv, PTL DEF Spec

-----------------------------------------------------------------------------
(* Conflicts of elements *)

\* Three revisions that are not selected have three meanings.
LEMMA NothingSelected ==
  ASSUME Selected = <<>>
  PROVE  /\ input.ours.semantic # input.theirs.semantic
         /\ input.ours.semantic # input.base.semantic
         /\ input.theirs.semantic # input.base.semantic
  <1>1. \A v : <<v>> # <<>>
    OBVIOUS
  <1> QED BY <1>1 DEF Selected

\* A finite set of numbers with no more than one element.
LEMMA AtMostOne ==
  ASSUME NEW n \in Nat, NEW S, S \subseteq 1..n, Cardinality(S) <= 1, NEW x \in S, NEW y \in S
  PROVE  x = y
  <1>1. IsFiniteSet(S)
    <2>1. IsFiniteSet(1..n)
      BY FS_Interval
    <2> QED BY <2>1, FS_Subset
  <1>2. Cardinality(S) = 0 \/ Cardinality(S) = 1
    <2>1. Cardinality(S) \in Nat
      BY <1>1, FS_CardinalityType
    <2> QED BY <2>1
  <1>3. CASE Cardinality(S) = 0
    <2>1. S = {}
      BY <1>1, <1>3, FS_EmptySet
    <2> QED BY <2>1
  <1>4. CASE Cardinality(S) = 1
    <2>1. \E z : S = {z}
      BY <1>1, <1>4, FS_Singleton
    <2> QED BY <2>1
  <1> QED BY <1>2, <1>3, <1>4

\* The elements of an array that repeats no member.
LEMMA ArrayElements ==
  ASSUME NEW v, IsDocument(v), DuplicateMemberPaths(v) = {}
  PROVE  AreElements(v.elements)
  <1>1. << <<>>, v>> \in Nodes(v)
    BY DocumentNodes
  <1>2. IsBuilt(v)
    <2>1. IsBuilt(<< <<>>, v>>[2])
      BY <1>1, DocumentNodes
    <2> QED BY <2>1
  <1>3. Len(v.elements) \in Nat /\ DOMAIN v.elements = 1..Len(v.elements)
    BY <1>2, BuiltFacts
  <1>4. ASSUME NEW i \in DOMAIN v.elements
        PROVE  ObjectIdentity(v.elements[i]) = IdentityOf(v.elements[i].semantic)
    <2> DEFINE root == << <<>>, v>>
               node == <<Append(<<>>, Index(i)), v.elements[i]>>
    <2>1. node \in Nodes(v)
      <3>1. root \in Nodes(v) /\ root[1] = <<>> /\ root[2] = v
        BY <1>1
      <3>2. \A j \in DOMAIN root[2].elements :
              <<Append(root[1], Index(j)), root[2].elements[j]>> \in Nodes(v)
        BY <3>1, DocumentNodes
      <3> HIDE DEF root
      <3> QED BY <3>1, <3>2
    <2>2. IsBuilt(node[2]) /\ Unrepeated(node[2])
      BY <2>1, DocumentNodes
    <2>3. IsBuilt(v.elements[i]) /\ Unrepeated(v.elements[i])
      BY <2>2
    <2> QED BY <2>3, ElementIdentity
  <1> QED BY <1>3, <1>4 DEF AreElements

LEMMA ElementMeans ==
  ASSUME NEW v, AreElements(v.elements), NEW id, Cardinality(WithId(v, id)) <= 1
  PROVE  /\ MeaningById(v.elements, id, ElementMeaning(v, id))
         /\ \A i \in DOMAIN v.elements : ObjectIdentity(v.elements[i]) = {id} =>
              Alone(v.elements, i, id) /\ ElementMeaning(v, id) = v.elements[i].semantic
  <1> DEFINE W == WithId(v, id)
             e == v.elements
             n == Len(e)
  <1>1. n \in Nat /\ DOMAIN e = 1..n
    BY DEF AreElements
  <1>2. W = {i \in DOMAIN e : ObjectIdentity(e[i]) = {id}}
    BY DEF WithId
  <1>3. ElementMeaning(v, id) = IF W = {} THEN Absent ELSE e[Min(W)].semantic
    BY DEF ElementMeaning
  <1>4. Cardinality(W) <= 1
    OBVIOUS
  <1> HIDE DEF W, e, n
  <1>5. \A i, j \in W : i = j
    BY <1>1, <1>2, <1>4, AtMostOne
  <1>6. CASE W = {}
    BY <1>2, <1>3, <1>6 DEF MeaningById, e
  <1>7. CASE W # {}
    <2>1. Min(W) \in W
      <3>1. W \subseteq Nat
        BY <1>1, <1>2
      <3> QED BY <3>1, <1>7, MinIn
    <2>2. ASSUME NEW i \in DOMAIN e, ObjectIdentity(e[i]) = {id}
          PROVE  Alone(e, i, id) /\ ElementMeaning(v, id) = e[i].semantic
      <3>1. i \in W
        BY <2>2, <1>2
      <3>2. \A j \in DOMAIN e : ObjectIdentity(e[j]) = {id} => j = i
        BY <3>1, <1>2, <1>5
      <3>3. Min(W) = i
        BY <2>1, <3>1, <1>5
      <3> QED BY <2>2, <3>2, <3>3, <1>3, <1>7 DEF Alone
    <2>3. Min(W) \in DOMAIN e /\ ObjectIdentity(e[Min(W)]) = {id}
      BY <2>1, <1>2
    <2> QED BY <2>2, <2>3 DEF MeaningById, e
  <1> QED BY <1>6, <1>7

LEMMA ConflictsOfElements == Inv => ElementConflictsFound
  <1> SUFFICES ASSUME Inv, input.lane # "template", outcome = "conflict", Duplicates(input) = {},
                      {Kind(input.base), Kind(input.ours), Kind(input.theirs)} = {"array"},
                      NEW n \in DOMAIN input.base.elements,
                      NEW id \in ObjectIdentity(input.base.elements[n]),
                      \A v \in {input.base, input.ours, input.theirs} : Cardinality(WithId(v, id)) <= 1,
                      ElementMeaning(input.ours, id) # ElementMeaning(input.base, id),
                      ElementMeaning(input.theirs, id) # ElementMeaning(input.base, id),
                      ElementMeaning(input.ours, id) # ElementMeaning(input.theirs, id)
               PROVE  \E c \in plan.conflicts : c.path = <<>> /\ c.index = n
    BY DEF ElementConflictsFound
  <1> DEFINE b == input.base
             o == input.ours
             t == input.theirs
  <1>1. IsDocument(b) /\ IsDocument(o) /\ IsDocument(t)
    BY DEF Inv, InputInv
  <1>2. /\ DuplicateMemberPaths(b) = {} /\ DuplicateMemberPaths(o) = {}
        /\ DuplicateMemberPaths(t) = {}
    BY DEF Duplicates
  <1>3. ~Contested
    BY DEF Contested, ContestedPaths
  <1>4. MustPlan /\ IsThePlan
    BY <1>3 DEF Inv, PhaseInv
  <1>5. Selected = <<>> /\ plan = MergeThreeValues(b, o, t)
    BY <1>4 DEF MustPlan, IsThePlan
  <1>6. PICK f : Merging(f, b, o, t)
    BY <1>1, MergeSteps
  <1>7. plan = MergeThree(b, o, t, <<>>, Inside(f, <<>>))
    <2>1. <<>> \in Seq(Keys)
      OBVIOUS
    <2>2. f[<<>>] = MergeAt(b, o, t, <<>>, Inside(f, <<>>))
      BY <2>1, <1>6 DEF Merging
    <2>3. ValueAt(b, <<>>) = b /\ ValueAt(o, <<>>) = o /\ ValueAt(t, <<>>) = t
      BY ValueSteps
    <2> QED BY <2>2, <2>3, <1>5, <1>6 DEF Merging, MergeAt
  <1>8. plan.conflicts = ArrayConflicts(b, o, t, <<>>)
    <2>1. b.semantic # o.semantic /\ b.semantic # t.semantic /\ o.semantic # t.semantic
      BY <1>5, NothingSelected
    <2>2. plan = [Planned(o.semantic) EXCEPT !.conflicts = ArrayConflicts(b, o, t, <<>>)]
      BY <1>7, <2>1 DEF MergeThree
    <2> QED BY <2>2 DEF Planned
  <1>9. ArrayConflicts(b, o, t, <<>>)
          = ArrayConflicts([elements |-> b.elements], [elements |-> o.elements],
                           [elements |-> t.elements], <<>>)
    BY DEF ArrayConflicts
  <1>10. AreElements(b.elements) /\ AreElements(o.elements) /\ AreElements(t.elements)
    BY <1>1, <1>2, ArrayElements
  <1>11. ObjectIdentity(b.elements[n]) = {id}
    BY DEF ObjectIdentity
  <1>12. Alone(b.elements, n, id) /\ ElementMeaning(b, id) = b.elements[n].semantic
    BY <1>10, <1>11, ElementMeans
  <1>13. /\ MeaningById(o.elements, id, ElementMeaning(o, id))
         /\ MeaningById(t.elements, id, ElementMeaning(t, id))
    BY <1>10, ElementMeans
  <1>14. \E c \in ArrayConflicts([elements |-> b.elements], [elements |-> o.elements],
                                 [elements |-> t.elements], <<>>) : c.path = <<>> /\ c.index = n
    <2>1. /\ ElementMeaning(o, id) # b.elements[n].semantic
          /\ ElementMeaning(t, id) # b.elements[n].semantic
          /\ ElementMeaning(o, id) # ElementMeaning(t, id)
      BY <1>12
    <2>2. n \in DOMAIN b.elements
      OBVIOUS
    <2> DEFINE eb == b.elements
               eo == o.elements
               et == t.elements
    <2>3. /\ AreElements(eb) /\ AreElements(eo) /\ AreElements(et) /\ n \in DOMAIN eb
          /\ Alone(eb, n, id) /\ MeaningById(eo, id, ElementMeaning(o, id))
          /\ MeaningById(et, id, ElementMeaning(t, id))
      BY <1>10, <1>12, <1>13, <2>2
    <2> HIDE DEF b, o, t, eb, eo, et
    <2>4. \E c \in ArrayConflicts([elements |-> eb], [elements |-> eo], [elements |-> et], <<>>) :
            c.path = <<>> /\ c.index = n
      BY <2>1, <2>3, ElementConflict DEF eb
    <2> QED BY <2>4 DEF eb, eo, et
  <1> QED BY <1>8, <1>9, <1>14

\* A merge of two arrays that reports conflicts reports each identified
\* element that the sides changed or deleted differently, at its index.
THEOREM ElementConflicts == Spec => []ElementConflictsFound
  BY Invariance, ConflictsOfElements, PTL

-----------------------------------------------------------------------------
(* Sequences built step by step *)

Listed(s) == s \in Seq(ToSet(s))

LEMMA ListedFacts ==
  /\ Listed(<<>>) /\ ToSet(<<>>) = {}
  /\ \A x : Listed(<<x>>) /\ ToSet(<<x>>) = {x}
  /\ \A s : Listed(s) => Len(s) \in Nat /\ DOMAIN s = 1..Len(s)
  <1>1. ToSet(<<>>) = {} /\ \A x : ToSet(<<x>>) = {x}
    BY DEF ToSet
  <1>2. Listed(<<>>)
    <2>1. <<>> \in Seq({})
      OBVIOUS
    <2> QED BY <2>1, <1>1 DEF Listed
  <1>3. \A x : Listed(<<x>>)
    BY <1>1 DEF Listed
  <1> QED BY <1>1, <1>2, <1>3 DEF Listed

LEMMA ListedConcat ==
  ASSUME NEW s, NEW t, Listed(s), Listed(t)
  PROVE  /\ Listed(s \o t) /\ ToSet(s \o t) = ToSet(s) \cup ToSet(t)
         /\ Len(s \o t) = Len(s) + Len(t) /\ DOMAIN (s \o t) = 1..(Len(s) + Len(t))
         /\ \A i \in 1..Len(s) : (s \o t)[i] = s[i]
         /\ \A i \in 1..Len(t) : (s \o t)[Len(s) + i] = t[i]
  <1> DEFINE U == ToSet(s) \cup ToSet(t)
  <1>1. s \in Seq(U) /\ t \in Seq(U)
    <2>1. s \in Seq(ToSet(s)) /\ t \in Seq(ToSet(t))
      BY DEF Listed
    <2> QED BY <2>1, SeqMonotonic
  <1> DEFINE r == s \o t
  <1>2. /\ r \in Seq(U) /\ Len(r) = Len(s) + Len(t) /\ DOMAIN r = 1..(Len(s) + Len(t))
        /\ \A i \in 1..Len(s) : r[i] = s[i]
        /\ \A i \in 1..Len(t) : r[Len(s) + i] = t[i]
        /\ ToSet(r) = U
    <2> HIDE DEF U
    <2>1. ToSet(r) = ToSet(s) \cup ToSet(t)
      BY <1>1, Concatenated
    <2>2. /\ r \in Seq(U) /\ Len(r) = Len(s) + Len(t) /\ DOMAIN r = 1..(Len(s) + Len(t))
          /\ \A i \in 1..Len(s) : r[i] = s[i]
          /\ \A i \in 1..Len(t) : r[Len(s) + i] = t[i]
      BY <1>1, Concatenated
    <2> QED BY <2>1, <2>2 DEF U
  <1> HIDE DEF r
  <1>3. Listed(r)
    BY <1>2 DEF Listed
  <1> QED BY <1>2, <1>3 DEF r

LEMMA ListedAppend ==
  ASSUME NEW s, NEW x, Listed(s)
  PROVE  /\ Listed(Append(s, x)) /\ ToSet(Append(s, x)) = ToSet(s) \cup {x}
         /\ Len(Append(s, x)) = Len(s) + 1 /\ DOMAIN Append(s, x) = 1..(Len(s) + 1)
         /\ \A i \in 1..Len(s) : Append(s, x)[i] = s[i]
         /\ Append(s, x)[Len(s) + 1] = x
  <1>1. Append(s, x) = s \o <<x>>
    <2>1. s \in Seq(ToSet(s) \cup {x}) /\ x \in ToSet(s) \cup {x}
      <3>1. s \in Seq(ToSet(s))
        BY DEF Listed
      <3> QED BY <3>1, SeqMonotonic
    <2> QED BY <2>1, AppendIsConcat
  <1>2. Listed(<<x>>) /\ ToSet(<<x>>) = {x} /\ Len(<<x>>) = 1 /\ <<x>>[1] = x
    BY ListedFacts
  <1> DEFINE u == <<x>>
  <1>3. Listed(u) /\ ToSet(u) = {x} /\ Len(u) = 1 /\ u[1] = x
    BY <1>2
  <1> HIDE DEF u
  <1>4. /\ Listed(s \o u) /\ ToSet(s \o u) = ToSet(s) \cup ToSet(u)
        /\ Len(s \o u) = Len(s) + Len(u) /\ DOMAIN (s \o u) = 1..(Len(s) + Len(u))
        /\ \A i \in 1..Len(s) : (s \o u)[i] = s[i]
        /\ \A i \in 1..Len(u) : (s \o u)[Len(s) + i] = u[i]
    <2>1. Listed(u)
      BY <1>3
    <2> QED BY <2>1, ListedConcat
  <1>5. 1 \in 1..Len(u)
    BY <1>3
  <1>6. (s \o u)[Len(s) + 1] = x
    BY <1>3, <1>4, <1>5
  <1> QED BY <1>1, <1>3, <1>4, <1>6 DEF u

\* The recursion of Joined has a solution.
Adding(f, parts, n) ==
  f = [k \in 0..n |-> IF k = 0 THEN <<>> ELSE f[k - 1] \o parts[KeyOrder[k]].adds]

LEMMA AddingExists ==
  ASSUME NEW parts, NEW n \in Nat
  PROVE  \E f : Adding(f, parts, n)
  <1> DEFINE T == {m \in Nat : \E f : Adding(f, parts, m)}
  <1>1. 0 \in T
    <2>1. Adding([k \in 0..0 |-> <<>>], parts, 0)
      BY DEF Adding
    <2> QED BY <2>1
  <1>2. ASSUME NEW m \in 0..(n - 1), m \in T PROVE m + 1 \in T
    <2>1. PICK f : Adding(f, parts, m)
      BY <1>2
    <2>2. m \in Nat
      OBVIOUS
    <2> DEFINE last == f[m] \o parts[KeyOrder[m + 1]].adds
    <2>3. PICK g : Extends(g, f, m, last)
      <3> HIDE DEF last
      <3> QED BY <2>2, Extension
    <2>4. g[m + 1] = last /\ \A k \in 0..m : g[k] = f[k]
      BY <2>3 DEF Extends
    <2>5. \A k \in 0..m : f[k] = IF k = 0 THEN <<>> ELSE f[k - 1] \o parts[KeyOrder[k]].adds
      BY <2>1 DEF Adding
    <2>6. ASSUME NEW k \in 0..(m + 1)
          PROVE  g[k] = IF k = 0 THEN <<>> ELSE g[k - 1] \o parts[KeyOrder[k]].adds
      <3>1. CASE k = m + 1
        <4>1. k # 0 /\ k - 1 = m /\ g[m] = f[m]
          BY <3>1, <2>2, <2>4
        <4> QED BY <4>1, <3>1, <2>4
      <3>2. CASE k # m + 1
        <4>1. k \in 0..m /\ g[k] = f[k] /\ (k # 0 => g[k - 1] = f[k - 1])
          BY <3>2, <2>2, <2>4
        <4> QED BY <4>1, <2>5
      <3> QED BY <3>1, <3>2
    <2>7. Adding(g, parts, m + 1)
      BY <2>3, <2>6 DEF Extends, Adding
    <2> QED BY <2>2, <2>7
  <1>3. n \in T
    <2> HIDE DEF T
    <2> QED BY <1>1, <1>2, UpTo
  <1> QED BY <1>3

\* The additions of a joined plan, key by key.
LEMMA JoinedSteps ==
  ASSUME NEW parts, Len(KeyOrder) \in Nat
  PROVE  \E f : /\ f[0] = <<>> /\ Joined(parts).adds = f[Len(KeyOrder)]
                /\ \A k \in 1..Len(KeyOrder) : f[k] = f[k - 1] \o parts[KeyOrder[k]].adds
  <1> DEFINE f == CHOOSE g : Adding(g, parts, Len(KeyOrder))
  <1>1. \E g : Adding(g, parts, Len(KeyOrder))
    BY AddingExists
  <1>2. Adding(f, parts, Len(KeyOrder))
    BY <1>1
  <1>3. Joined(parts).adds = f[Len(KeyOrder)]
    BY DEF Joined, Adding
  <1> HIDE DEF f
  <1>4. f[0] = <<>>
    BY <1>2 DEF Adding
  <1>5. \A k \in 1..Len(KeyOrder) : f[k] = f[k - 1] \o parts[KeyOrder[k]].adds
    <2>1. f = [k \in 0..Len(KeyOrder) |-> IF k = 0 THEN <<>> ELSE f[k - 1] \o parts[KeyOrder[k]].adds]
      BY <1>2 DEF Adding
    <2>2. \A k \in 1..Len(KeyOrder) : k \in 0..Len(KeyOrder) /\ k # 0
      OBVIOUS
    <2> QED BY <2>1, <2>2
  <1> QED BY <1>3, <1>4, <1>5

LEMMA JoinedFacts ==
  ASSUME NEW parts, \A k \in Keys : Listed(parts[k].adds)
  PROVE  /\ Listed(Joined(parts).adds)
         /\ ToSet(Joined(parts).adds) = UNION {ToSet(parts[k].adds) : k \in Keys}
         /\ Joined(parts).value = [kind |-> "object", members |-> [k \in Keys |-> parts[k].value]]
         /\ Joined(parts).edits = UNION {parts[k].edits : k \in Keys}
         /\ Joined(parts).conflicts = UNION {parts[k].conflicts : k \in Keys}
  <1> DEFINE N == Len(KeyOrder)
  <1>1. N \in Nat /\ DOMAIN KeyOrder = 1..N
    BY JsonAssumption
  <1>2. PICK f : /\ f[0] = <<>> /\ Joined(parts).adds = f[Len(KeyOrder)]
                 /\ \A k \in 1..Len(KeyOrder) : f[k] = f[k - 1] \o parts[KeyOrder[k]].adds
    BY <1>1, JoinedSteps
  <1>3. \A k \in 1..N : KeyOrder[k] \in Keys
    BY <1>1 DEF Keys, ToSet
  <1>4. \A k \in 1..N : f[k] = f[k - 1] \o parts[KeyOrder[k]].adds
    BY <1>2
  <1>5. Joined(parts).adds = f[N]
    BY <1>2
  <1> HIDE DEF N
  <1> DEFINE D(n) == UNION {ToSet(parts[KeyOrder[k]].adds) : k \in 1..n}
             S == {n \in 0..N : Listed(f[n]) /\ ToSet(f[n]) = D(n)}
  <1>6. 0 \in S
    <2>1. D(0) = {}
      OBVIOUS
    <2> QED BY <2>1, <1>1, <1>2, ListedFacts
  <1>7. ASSUME NEW n \in 0..(N - 1), n \in S PROVE n + 1 \in S
    <2> DEFINE a == parts[KeyOrder[n + 1]].adds
    <2>1. n + 1 \in 1..N /\ (n + 1) - 1 = n /\ n + 1 \in 0..N /\ n \in Nat
      BY <1>1
    <2>2. f[n + 1] = f[n] \o a /\ Listed(a)
      BY <1>3, <1>4, <2>1
    <2>3. D(n + 1) = D(n) \cup ToSet(a)
      <3>1. 1..(n + 1) = (1..n) \cup {n + 1}
        BY <2>1
      <3> QED BY <3>1
    <2>4. Listed(f[n]) /\ ToSet(f[n]) = D(n)
      BY <1>7
    <2> HIDE DEF D, a
    <2>5. Listed(f[n + 1]) /\ ToSet(f[n + 1]) = D(n + 1)
      <3> DEFINE s == f[n]
      <3>1. Listed(s)
        BY <2>4
      <3> HIDE DEF s
      <3>2. Listed(s \o a) /\ ToSet(s \o a) = ToSet(s) \cup ToSet(a)
        BY <3>1, <2>2, ListedConcat
      <3> QED BY <3>2, <2>2, <2>3, <2>4 DEF s
    <2> QED BY <2>1, <2>5
  <1>8. N \in S
    <2> HIDE DEF S
    <2>1. \A n \in 0..N : n \in S
      BY <1>1, <1>6, <1>7, UpTo
    <2> QED BY <2>1, <1>1
  <1>9. D(N) = UNION {ToSet(parts[k].adds) : k \in Keys}
    <2>1. Keys = {KeyOrder[k] : k \in 1..N}
      BY <1>1 DEF Keys, ToSet
    <2> QED BY <2>1
  <1>10. /\ Joined(parts).value = [kind |-> "object", members |-> [k \in Keys |-> parts[k].value]]
         /\ Joined(parts).edits = UNION {parts[k].edits : k \in Keys}
         /\ Joined(parts).conflicts = UNION {parts[k].conflicts : k \in Keys}
    BY DEF Joined
  <1> QED BY <1>5, <1>8, <1>9, <1>10

-----------------------------------------------------------------------------
(* The values at a path, repeated members included *)

\* The recursion of Children has a solution.
Naming(f, v, key, n) ==
  f = [k \in 0..n |-> IF k = 0 THEN <<>> ELSE IF v.members[k].key = key THEN Append(f[k - 1], v.members[k].value) ELSE f[k - 1]]

LEMMA NamingExists ==
  ASSUME NEW v, NEW key, NEW n \in Nat
  PROVE  \E f : Naming(f, v, key, n)
  <1> DEFINE T == {m \in Nat : \E f : Naming(f, v, key, m)}
  <1>1. 0 \in T
    <2>1. Naming([k \in 0..0 |-> <<>>], v, key, 0)
      BY DEF Naming
    <2> QED BY <2>1
  <1>2. ASSUME NEW m \in 0..(n - 1), m \in T PROVE m + 1 \in T
    <2>1. PICK f : Naming(f, v, key, m)
      BY <1>2
    <2>2. m \in Nat
      OBVIOUS
    <2> DEFINE last == IF v.members[m + 1].key = key THEN Append(f[m], v.members[m + 1].value) ELSE f[m]
    <2>3. PICK g : Extends(g, f, m, last)
      <3> HIDE DEF last
      <3> QED BY <2>2, Extension
    <2>4. g[m + 1] = last /\ \A k \in 0..m : g[k] = f[k]
      BY <2>3 DEF Extends
    <2>5. \A k \in 0..m : f[k] = IF k = 0 THEN <<>> ELSE IF v.members[k].key = key THEN Append(f[k - 1], v.members[k].value) ELSE f[k - 1]
      BY <2>1 DEF Naming
    <2>6. ASSUME NEW k \in 0..(m + 1)
          PROVE  g[k] = IF k = 0 THEN <<>> ELSE IF v.members[k].key = key THEN Append(g[k - 1], v.members[k].value) ELSE g[k - 1]
      <3>1. CASE k = m + 1
        <4>1. k # 0 /\ k - 1 = m /\ g[m] = f[m]
          BY <3>1, <2>2, <2>4
        <4> QED BY <4>1, <3>1, <2>4
      <3>2. CASE k # m + 1
        <4>1. k \in 0..m /\ g[k] = f[k] /\ (k # 0 => g[k - 1] = f[k - 1])
          BY <3>2, <2>2, <2>4
        <4> QED BY <4>1, <2>5
      <3> QED BY <3>1, <3>2
    <2>7. Naming(g, v, key, m + 1)
      BY <2>3, <2>6 DEF Extends, Naming
    <2> QED BY <2>2, <2>7
  <1>3. n \in T
    <2> HIDE DEF T
    <2> QED BY <1>1, <1>2, UpTo
  <1> QED BY <1>3

\* The values of the first n members that are named k, in order.
PickedUpTo(c, v, k, n) ==
  /\ Listed(c)
  /\ Len(c) = 0 => \A h \in 1..n : v.members[h].key # k
  /\ Len(c) # 0 =>
       \E i, j \in 1..n :
         /\ v.members[i].key = k /\ v.members[j].key = k
         /\ c[1] = v.members[i].value /\ c[Len(c)] = v.members[j].value
         /\ \A h \in 1..n : v.members[h].key = k => i <= h /\ h <= j
         /\ Len(c) > 1 => i # j

LEMMA PickedNext ==
  ASSUME NEW v, NEW k, NEW n \in Nat, NEW c, PickedUpTo(c, v, k, n)
  PROVE  PickedUpTo(IF v.members[n + 1].key = k THEN Append(c, v.members[n + 1].value) ELSE c,
                    v, k, n + 1)
  <1> DEFINE m == v.members[n + 1]
             d == Append(c, m.value)
  <1>1. Len(c) \in Nat /\ Listed(c)
    BY ListedFacts DEF PickedUpTo
  <1>2. \A h \in 1..(n + 1) : h \in 1..n \/ h = n + 1
    OBVIOUS
  <1>3. 1..n \subseteq 1..(n + 1) /\ n + 1 \in 1..(n + 1)
    OBVIOUS
  <1>4. CASE m.key # k
    <2>1. PickedUpTo(c, v, k, n + 1)
      <3>1. CASE Len(c) = 0
        BY <3>1, <1>1, <1>2, <1>4 DEF PickedUpTo
      <3>2. CASE Len(c) # 0
        <4>1. PICK i \in 1..n, j \in 1..n :
                /\ v.members[i].key = k /\ v.members[j].key = k
                /\ c[1] = v.members[i].value /\ c[Len(c)] = v.members[j].value
                /\ \A h \in 1..n : v.members[h].key = k => i <= h /\ h <= j
                /\ Len(c) > 1 => i # j
          BY <3>2 DEF PickedUpTo
        <4>2. \A h \in 1..(n + 1) : v.members[h].key = k => i <= h /\ h <= j
          BY <4>1, <1>2, <1>4
        <4> QED BY <3>2, <4>1, <4>2, <1>1, <1>3 DEF PickedUpTo
      <3> QED BY <3>1, <3>2
    <2> QED BY <2>1, <1>4
  <1>5. CASE m.key = k
    <2>1. /\ Listed(d) /\ Len(d) = Len(c) + 1 /\ d[Len(c) + 1] = m.value
          /\ \A h \in 1..Len(c) : d[h] = c[h]
      BY <1>1, ListedAppend
    <2> HIDE DEF d
    <2>2. PickedUpTo(d, v, k, n + 1)
      <3>1. CASE Len(c) = 0
        <4>1. \A h \in 1..(n + 1) : v.members[h].key = k => n + 1 <= h /\ h <= n + 1
          BY <3>1, <1>2 DEF PickedUpTo
        <4>2. Len(d) = 1 /\ d[1] = m.value
          BY <3>1, <2>1
        <4> QED BY <4>1, <4>2, <2>1, <1>3, <1>5 DEF PickedUpTo
      <3>2. CASE Len(c) # 0
        <4>1. PICK i \in 1..n, j \in 1..n :
                /\ v.members[i].key = k
                /\ c[1] = v.members[i].value
                /\ \A h \in 1..n : v.members[h].key = k => i <= h /\ h <= j
          BY <3>2 DEF PickedUpTo
        <4>2. \A h \in 1..(n + 1) : v.members[h].key = k => i <= h /\ h <= n + 1
          BY <4>1, <1>2
        <4>3. d[1] = c[1] /\ i # n + 1 /\ Len(d) # 0
          BY <3>2, <2>1, <1>1
        <4>4. d[Len(d)] = m.value
          BY <2>1
        <4> QED BY <4>1, <4>2, <4>3, <4>4, <2>1, <1>3, <1>5 DEF PickedUpTo
      <3> QED BY <3>1, <3>2
    <2> QED BY <2>2, <1>5 DEF d
  <1> QED BY <1>4, <1>5

\* What the members of a key are and mean, as Children lists them.
InOrder(c, v, k) ==
  /\ Listed(c)
  /\ Len(c) \in Nat /\ DOMAIN c = 1..Len(c)
  /\ Len(c) = 0 <=> k \notin KeysOf(v)
  /\ Len(c) # 0 => c[1] = MemberValue(v, k) /\ c[Len(c)].semantic = At(v.semantic, k)
  /\ Len(c) > 1 => ~Only(v, k)

LEMMA ChildrenInOrder ==
  ASSUME NEW v, IsBuilt(v), Kind(v) = "object", NEW k \in Keys
  PROVE  InOrder(Children(v, k), v, k)
  <1> DEFINE N == Len(v.members)
             f == CHOOSE g : Naming(g, v, k, Len(v.members))
             c == Children(v, k)
  <1>1. N \in Nat /\ DOMAIN v.members = 1..N
    BY BuiltFacts
  <1>2. \E g : Naming(g, v, k, Len(v.members))
    BY <1>1, NamingExists
  <1>3. Naming(f, v, k, Len(v.members))
    BY <1>2
  <1>4. v.elements = <<>>
    <2>1. v = Object(v.members, v.inline, v.notes)
      BY DEF IsBuilt
    <2>2. Object(v.members, v.inline, v.notes).elements = <<>>
      BY DEF Object
    <2> QED BY <2>1, <2>2
  <1>5. c = f[N]
    <2>1. DOMAIN v.elements = {}
      BY <1>4
    <2>2. {i \in DOMAIN v.elements : Index(i) = k} = {}
      BY <2>1
    <2>3. c = IF {i \in DOMAIN v.elements : Index(i) = k} = {} THEN f[Len(v.members)]
              ELSE <<v.elements[CHOOSE i \in {h \in DOMAIN v.elements : Index(h) = k} : TRUE]>>
      BY DEF Children, Naming
    <2> QED BY <2>2, <2>3
  <1> HIDE DEF f, N, c
  <1>6. f[0] = <<>>
    BY <1>3, <1>1 DEF Naming, N
  <1>7. \A n \in 1..N : f[n] = IF v.members[n].key = k THEN Append(f[n - 1], v.members[n].value)
                               ELSE f[n - 1]
    <2>1. f = [h \in 0..N |-> IF h = 0 THEN <<>>
                              ELSE IF v.members[h].key = k THEN Append(f[h - 1], v.members[h].value)
                              ELSE f[h - 1]]
      BY <1>3 DEF Naming, N
    <2>2. \A n \in 1..N : n \in 0..N /\ n # 0
      BY <1>1
    <2> QED BY <2>1, <2>2
  <1> DEFINE S == {n \in 0..N : PickedUpTo(f[n], v, k, n)}
  <1>8. 0 \in S
    <2>1. Listed(<<>>) /\ Len(<<>>) = 0
      BY ListedFacts
    <2>2. PickedUpTo(<<>>, v, k, 0)
      BY <2>1 DEF PickedUpTo
    <2> QED BY <2>2, <1>1, <1>6
  <1>9. ASSUME NEW n \in 0..(N - 1), n \in S PROVE n + 1 \in S
    <2>1. n + 1 \in 1..N /\ (n + 1) - 1 = n /\ n + 1 \in 0..N /\ n \in Nat
      BY <1>1
    <2>2. PickedUpTo(IF v.members[n + 1].key = k THEN Append(f[n], v.members[n + 1].value) ELSE f[n],
                     v, k, n + 1)
      BY <1>9, <2>1, PickedNext
    <2>3. f[n + 1] = IF v.members[n + 1].key = k THEN Append(f[n], v.members[n + 1].value) ELSE f[n]
      BY <1>7, <2>1
    <2> QED BY <2>1, <2>2, <2>3
  <1>10. PickedUpTo(c, v, k, N)
    <2> HIDE DEF S
    <2>1. \A n \in 0..N : n \in S
      BY <1>1, <1>8, <1>9, UpTo
    <2>2. N \in S
      BY <2>1, <1>1
    <2> QED BY <2>2, <1>5 DEF S
  <1>11. Listed(c) /\ Len(c) \in Nat /\ DOMAIN c = 1..Len(c)
    BY <1>10, ListedFacts DEF PickedUpTo
  <1>12. ASSUME Len(c) = 0 PROVE InOrder(c, v, k)
    <2>1. k \notin KeysOf(v)
      BY <1>10, <1>12, <1>1 DEF PickedUpTo, KeysOf
    <2> QED BY <2>1, <1>11, <1>12 DEF InOrder
  <1>13. ASSUME Len(c) # 0 PROVE InOrder(c, v, k)
    <2>1. PICK i \in 1..N, j \in 1..N :
            /\ v.members[i].key = k /\ v.members[j].key = k
            /\ c[1] = v.members[i].value /\ c[Len(c)] = v.members[j].value
            /\ \A h \in 1..N : v.members[h].key = k => i <= h /\ h <= j
            /\ Len(c) > 1 => i # j
      BY <1>10, <1>13 DEF PickedUpTo
    <2>2. k \in KeysOf(v)
      BY <2>1, <1>1 DEF KeysOf
    <2>3. c[1] = MemberValue(v, k)
      <3>1. /\ Min(Positions(v, k)) \in 1..N
            /\ v.members[Min(Positions(v, k))].key = k
            /\ MemberValue(v, k) = v.members[Min(Positions(v, k))].value
            /\ \A h \in 1..N : v.members[h].key = k => Min(Positions(v, k)) =< h
        BY <2>2, <1>1, FirstFacts DEF MemberValue
      <3>2. i <= Min(Positions(v, k)) /\ Min(Positions(v, k)) <= i
        BY <3>1, <2>1
      <3>3. i = Min(Positions(v, k))
        BY <3>1, <3>2, <1>1
      <3> QED BY <3>1, <3>3, <2>1
    <2>4. c[Len(c)].semantic = At(v.semantic, k)
      <3>1. Means(v.members, k, At(v.semantic, k))
        BY MeaningIs
      <3>2. \A h \in 1..N : h > j => v.members[h].key # k
        BY <2>1, <1>1
      <3>3. Means(v.members, k, v.members[j].value.semantic)
        BY <2>1, <3>2, <1>1 DEF Means
      <3>4. At(v.semantic, k) = v.members[j].value.semantic
        BY <3>1, <3>3, <1>1, MeansOne
      <3> QED BY <3>4, <2>1
    <2>5. Len(c) > 1 => ~Only(v, k)
      BY <2>1, <1>1 DEF Only
    <2> QED BY <2>2, <2>3, <2>4, <2>5, <1>11, <1>13 DEF InOrder
  <1> QED BY <1>12, <1>13 DEF c

\* The recursion of Descend has a solution.
DescendingTo(f, v, path, n) ==
  f = [k \in 0..n |-> IF k = 0 THEN <<v>> ELSE FlattenSeq([i \in DOMAIN f[k - 1] |-> Children(f[k - 1][i], path[k])])]

LEMMA DescendingToExists ==
  ASSUME NEW v, NEW path, NEW n \in Nat
  PROVE  \E f : DescendingTo(f, v, path, n)
  <1> DEFINE T == {m \in Nat : \E f : DescendingTo(f, v, path, m)}
  <1>1. 0 \in T
    <2>1. DescendingTo([k \in 0..0 |-> <<v>>], v, path, 0)
      BY DEF DescendingTo
    <2> QED BY <2>1
  <1>2. ASSUME NEW m \in 0..(n - 1), m \in T PROVE m + 1 \in T
    <2>1. PICK f : DescendingTo(f, v, path, m)
      BY <1>2
    <2>2. m \in Nat
      OBVIOUS
    <2> DEFINE last == FlattenSeq([i \in DOMAIN f[m] |-> Children(f[m][i], path[m + 1])])
    <2>3. PICK g : Extends(g, f, m, last)
      <3> HIDE DEF last
      <3> QED BY <2>2, Extension
    <2>4. g[m + 1] = last /\ \A k \in 0..m : g[k] = f[k]
      BY <2>3 DEF Extends
    <2>5. \A k \in 0..m : f[k] = IF k = 0 THEN <<v>> ELSE FlattenSeq([i \in DOMAIN f[k - 1] |-> Children(f[k - 1][i], path[k])])
      BY <2>1 DEF DescendingTo
    <2>6. ASSUME NEW k \in 0..(m + 1)
          PROVE  g[k] = IF k = 0 THEN <<v>> ELSE FlattenSeq([i \in DOMAIN g[k - 1] |-> Children(g[k - 1][i], path[k])])
      <3>1. CASE k = m + 1
        <4>1. k # 0 /\ k - 1 = m /\ g[m] = f[m]
          BY <3>1, <2>2, <2>4
        <4> QED BY <4>1, <3>1, <2>4
      <3>2. CASE k # m + 1
        <4>1. k \in 0..m /\ g[k] = f[k] /\ (k # 0 => g[k - 1] = f[k - 1])
          BY <3>2, <2>2, <2>4
        <4> QED BY <4>1, <2>5
      <3> QED BY <3>1, <3>2
    <2>7. DescendingTo(g, v, path, m + 1)
      BY <2>3, <2>6 DEF Extends, DescendingTo
    <2> QED BY <2>2, <2>7
  <1>3. n \in T
    <2> HIDE DEF T
    <2> QED BY <1>1, <1>2, UpTo
  <1> QED BY <1>3

LEMMA DescendSteps ==
  ASSUME NEW v
  PROVE  /\ Descend(v, <<>>) = <<v>>
         /\ \A p \in Seq(Keys), k \in Keys : Descend(v, Append(p, k)) = FlattenSeq([i \in DOMAIN Descend(v, p) |-> Children(Descend(v, p)[i], k)])
  <1> DEFINE F(p) == CHOOSE g : DescendingTo(g, v, p, Len(p))
  <1>1. \A p \in Seq(Keys) : DescendingTo(F(p), v, p, Len(p))
    <2> TAKE p \in Seq(Keys)
    <2>1. \E g : DescendingTo(g, v, p, Len(p))
      <3>1. Len(p) \in Nat
        OBVIOUS
      <3> QED BY <3>1, DescendingToExists
    <2> QED BY <2>1
  <1>2. \A p \in Seq(Keys) : Descend(v, p) = F(p)[Len(p)]
    BY DEF Descend, DescendingTo
  <1> HIDE DEF F
  <1>3. \A p \in Seq(Keys) : F(p)[0] = <<v>> /\ \A k \in 1..Len(p) : F(p)[k] = FlattenSeq([i \in DOMAIN F(p)[k - 1] |-> Children(F(p)[k - 1][i], p[k])])
    <2> TAKE p \in Seq(Keys)
    <2> DEFINE h == F(p)
    <2>1. DescendingTo(h, v, p, Len(p)) /\ Len(p) \in Nat
      BY <1>1
    <2> HIDE DEF h
    <2>2. 0 \in 0..Len(p) /\ \A k \in 1..Len(p) : k \in 0..Len(p) /\ k # 0
      BY <2>1
    <2>3. h[0] = <<v>>
      BY <2>1, <2>2 DEF DescendingTo
    <2>4. ASSUME NEW k \in 1..Len(p) PROVE h[k] = FlattenSeq([i \in DOMAIN h[k - 1] |-> Children(h[k - 1][i], p[k])])
      BY <2>1, <2>2 DEF DescendingTo
    <2> QED BY <2>3, <2>4 DEF h
  <1>4. Descend(v, <<>>) = <<v>>
    <2>1. <<>> \in Seq(Keys) /\ Len(<<>>) = 0
      OBVIOUS
    <2> QED BY <2>1, <1>2, <1>3
  <1>5. ASSUME NEW p \in Seq(Keys), NEW key \in Keys
        PROVE  Descend(v, Append(p, key)) = FlattenSeq([i \in DOMAIN Descend(v, p) |-> Children(Descend(v, p)[i], key)])
    <2> DEFINE q == Append(p, key)
               n == Len(p)
               f == F(p)
               g == F(q)
    <2>1. /\ q \in Seq(Keys) /\ Len(q) = n + 1 /\ n \in Nat /\ q[n + 1] = key
          /\ \A k \in 1..n : q[k] = p[k]
      OBVIOUS
    <2> HIDE DEF q, n
    <2>2. f[0] = <<v>> /\ g[0] = <<v>> /\ Len(p) = n
      BY <2>1, <1>3 DEF n
    <2>3. \A k \in 1..n : f[k] = FlattenSeq([i \in DOMAIN f[k - 1] |-> Children(f[k - 1][i], p[k])])
      BY <2>2, <1>3
    <2>4. \A k \in 1..(n + 1) : g[k] = FlattenSeq([i \in DOMAIN g[k - 1] |-> Children(g[k - 1][i], q[k])])
      BY <2>1, <1>3
    <2>5. Descend(v, p) = f[n] /\ Descend(v, q) = g[n + 1]
      BY <2>1, <2>2, <1>2
    <2> HIDE DEF f, g
    <2> DEFINE S == {k \in 0..n : f[k] = g[k]}
    <2>6. 0 \in S
      BY <2>1, <2>2
    <2>7. ASSUME NEW k \in 0..(n - 1), k \in S PROVE k + 1 \in S
      <3>1. k + 1 \in 1..n /\ k + 1 \in 1..(n + 1) /\ (k + 1) - 1 = k /\ k + 1 \in 0..n
        BY <2>1
      <3>2. f[k + 1] = FlattenSeq([i \in DOMAIN f[k] |-> Children(f[k][i], p[k + 1])]) /\ g[k + 1] = FlattenSeq([i \in DOMAIN g[k] |-> Children(g[k][i], q[k + 1])])
        BY <2>3, <2>4, <3>1
      <3> QED BY <2>1, <2>7, <3>1, <3>2
    <2>8. n \in S
      <3> HIDE DEF S
      <3>1. \A k \in 0..n : k \in S
        BY <2>1, <2>6, <2>7, UpTo
      <3> QED BY <3>1, <2>1
    <2>9. n + 1 \in 1..(n + 1) /\ (n + 1) - 1 = n
      BY <2>1
    <2>10. g[n + 1] = FlattenSeq([i \in DOMAIN g[n] |-> Children(g[n][i], q[n + 1])])
      BY <2>4, <2>9
    <2>11. g[n + 1] = FlattenSeq([i \in DOMAIN f[n] |-> Children(f[n][i], key)])
      BY <2>8, <2>10, <2>1
    <2> QED BY <2>5, <2>11 DEF q
  <1> QED BY <1>4, <1>5

LEMMA FlattenOne == ASSUME NEW c PROVE FlattenSeq(<<c>>) = c
  <1> DEFINE Flat(g) == g = [i \in 1..Len(<<c>>) |-> IF i = 1 THEN <<c>>[i] ELSE g[i - 1] \o <<c>>[i]]
             f == CHOOSE g : Flat(g)
  <1>1. Len(<<c>>) = 1 /\ <<c>>[1] = c
    OBVIOUS
  <1>2. \E g : Flat(g)
    <2> DEFINE g == [i \in 1..1 |-> c]
    <2>1. Flat(g)
      BY <1>1
    <2> HIDE DEF g
    <2> QED BY <2>1
  <1>3. FlattenSeq(<<c>>) = f[Len(<<c>>)]
    BY <1>1 DEF FlattenSeq
  <1>4. Flat(f)
    <2> HIDE DEF Flat
    <2> QED BY <1>2
  <1> HIDE DEF f
  <1>5. f[1] = c
    BY <1>1, <1>4
  <1> QED BY <1>1, <1>3, <1>5

\* Below a path that leads to one value are its members of that key.
LEMMA OneBelow ==
  ASSUME NEW v, NEW p \in Seq(Keys), NEW k \in Keys, NEW w, Descend(v, p) = <<w>>
  PROVE  Descend(v, Append(p, k)) = Children(w, k)
  <1> DEFINE D == Descend(v, p)
  <1>1. Descend(v, Append(p, k)) = FlattenSeq([i \in DOMAIN D |-> Children(D[i], k)])
    BY DescendSteps
  <1>2. [i \in DOMAIN D |-> Children(D[i], k)] = <<Children(w, k)>>
    <2>1. DOMAIN D = 1..1 /\ D[1] = w
      OBVIOUS
    <2> HIDE DEF D
    <2> DEFINE c == Children(w, k)
    <2>2. [i \in DOMAIN D |-> Children(D[i], k)] = [i \in 1..1 |-> c]
      BY <2>1
    <2> HIDE DEF c
    <2>3. [i \in 1..1 |-> c] = <<c>>
      OBVIOUS
    <2> QED BY <2>2, <2>3 DEF c
  <1> QED BY <1>1, <1>2, FlattenOne

\* A value that lookups and the listing of members agree on.
SameThere(v, p) ==
  /\ ValueAt(v, p).semantic = MeaningAt(v.semantic, p)
  /\ Kind(ValueAt(v, p)) = "object"
  /\ Descend(v, p) = <<ValueAt(v, p)>>

\* A value that lookups reach, and its members.
LEMMA ReachedWhole ==
  ASSUME NEW v, IsDocument(v), NEW p \in Seq(Keys), ValueAt(v, p) # NoValue
  PROVE  Whole(ValueAt(v, p)) /\ <<p, ValueAt(v, p)>> \in Nodes(v)
  <1> DEFINE w == ValueAt(v, p)
             node == <<p, w>>
  <1>1. node \in Nodes(v)
    BY ReachedValues
  <1>2. node[1] = p /\ node[2] = w
    OBVIOUS
  <1> HIDE DEF node, w
  <1>3. IsBuilt(w)
    BY <1>1, <1>2, DocumentNodes
  <1>4. \A m \in ToSet(w.members) : <<Append(p, m.key), m.value>> \in Nodes(v)
    BY <1>1, <1>2, DocumentNodes
  <1>5. \A m \in ToSet(w.members) : IsBuilt(m.value)
    <2> TAKE m \in ToSet(w.members)
    <2> DEFINE below == <<Append(p, m.key), m.value>>
    <2>1. below \in Nodes(v) /\ below[2] = m.value
      BY <1>4
    <2> HIDE DEF below
    <2>2. IsBuilt(below[2])
      BY <2>1, DocumentNodes
    <2> QED BY <2>1, <2>2
  <1> QED BY <1>1, <1>3, <1>5 DEF Whole, node, w

LEMMA ObjectThere ==
  ASSUME NEW v, IsDocument(v), NEW p \in Seq(Keys), SameThere(v, p)
  PROVE  /\ ValueAt(v, p) # NoValue /\ Whole(ValueAt(v, p)) /\ IsBuilt(ValueAt(v, p))
         /\ Kind(ValueAt(v, p)) = "object"
  <1>1. ValueAt(v, p) # NoValue
    BY DEF SameThere, Kind, NoValue, Absent
  <1> QED BY <1>1, ReachedWhole DEF Whole, SameThere

LEMMA OneElement ==
  ASSUME NEW U, NEW c \in Seq(U), Len(c) = 1
  PROVE  c = <<c[1]>>
  OBVIOUS

\* Where lookups agree, they agree on members that are not repeated.
LEMMA SameBelow ==
  ASSUME NEW v, IsDocument(v), NEW p \in Seq(Keys), SameThere(v, p), NEW k \in Keys,
         Only(ValueAt(v, p), k)
  PROVE  /\ MeaningAt(v.semantic, Append(p, k)) = ValueAt(v, Append(p, k)).semantic
         /\ MeaningAt(v.semantic, Append(p, k)).kind = "object" => SameThere(v, Append(p, k))
  <1> DEFINE w == ValueAt(v, p)
             x == MemberValue(w, k)
             q == Append(p, k)
  <1>1. Whole(w) /\ IsBuilt(w) /\ Kind(w) = "object" /\ Descend(v, p) = <<w>>
    BY ObjectThere DEF SameThere
  <1>2. ValueAt(v, q) = x
    BY ValueSteps
  <1>3. MeaningAt(v.semantic, q) = At(w.semantic, k)
    <2>1. MeaningAt(v.semantic, q) = At(MeaningAt(v.semantic, p), k)
      BY MeaningSteps
    <2> QED BY <2>1 DEF SameThere
  <1>4. Only(w, k)
    OBVIOUS
  <1> HIDE DEF w
  <1>5. x.semantic = At(w.semantic, k)
    BY <1>1, <1>4, MemberMeaning
  <1>6. Descend(v, q) = Children(w, k)
    BY <1>1, OneBelow
  <1>7. InOrder(Children(w, k), w, k)
    BY <1>1, ChildrenInOrder
  <1>8. ASSUME At(w.semantic, k).kind = "object" PROVE Descend(v, q) = <<x>>
    <2>1. At(w.semantic, k) # Absent
      BY <1>8 DEF Absent
    <2>2. k \in KeysOf(w)
      BY <1>1, <2>1, KeysMean
    <2> DEFINE c == Children(w, k)
    <2>3. Len(c) \in Nat /\ DOMAIN c = 1..Len(c) /\ Len(c) # 0 /\ ~(Len(c) > 1) /\ c[1] = x
      BY <1>4, <1>7, <2>2 DEF InOrder
    <2>4. Listed(c)
      BY <1>7 DEF InOrder
    <2> HIDE DEF c, x
    <2>5. Len(c) = 1
      BY <2>3
    <2>6. c = <<x>>
      <3>1. c = <<c[1]>>
        BY <2>4, <2>5, OneElement DEF Listed
      <3> QED BY <3>1, <2>3
    <2> QED BY <1>6, <2>6 DEF c
  <1>9. At(w.semantic, k).kind = "object" => SameThere(v, q)
    BY <1>2, <1>3, <1>5, <1>8 DEF SameThere, Kind
  <1> QED BY <1>2, <1>3, <1>5, <1>9

-----------------------------------------------------------------------------
(* What a three-way plan edits and adds *)

Under(p, q) == q \in Seq(Keys) /\ Len(p) <= Len(q) /\ \A i \in 1..Len(p) : q[i] = p[i]

\* An edit takes a value of theirs that ours had not changed; an addition a
\* member of theirs that ours and the base lack.
EditOf(e, b, o, t, p) ==
  /\ Under(p, e.at) /\ e.source = ValueAt(t, e.at)
  /\ ValueAt(o, e.at).semantic = ValueAt(b, e.at).semantic
AddOf(a, b, o, t, p) ==
  /\ Under(p, a.at) /\ a.before = AtEnd
  /\ \E k \in KeysOf(ValueAt(t, a.at)) :
       /\ a.member = FirstMember(ValueAt(t, a.at), k) /\ a.member.key = k
       /\ At(ValueAt(o, a.at).semantic, k) = Absent /\ At(ValueAt(b, a.at).semantic, k) = Absent
PartPlan(x, b, o, t, p) ==
  /\ Listed(x.adds)
  /\ \A e \in x.edits : EditOf(e, b, o, t, p)
  /\ \A a \in ToSet(x.adds) : AddOf(a, b, o, t, p)

LEMMA UnderSelf == ASSUME NEW p \in Seq(Keys) PROVE Under(p, p)
  BY DEF Under

LEMMA UnderAppend ==
  ASSUME NEW p \in Seq(Keys), NEW k \in Keys, NEW q, Under(Append(p, k), q)
  PROVE  Under(p, q)
  <1>1. Len(Append(p, k)) = Len(p) + 1 /\ Len(p) \in Nat /\ \A i \in 1..Len(p) : Append(p, k)[i] = p[i]
    OBVIOUS
  <1>2. q \in Seq(Keys) /\ Len(p) + 1 <= Len(q) /\ \A i \in 1..(Len(p) + 1) : q[i] = Append(p, k)[i]
    BY <1>1 DEF Under
  <1>3. Len(q) \in Nat
    BY <1>2
  <1> QED BY <1>1, <1>2, <1>3 DEF Under

\* A plan that edits and adds nothing.
Bare(x) == x.adds = <<>> /\ x.edits = {}

LEMMA BareFacts ==
  /\ \A v : Bare(Planned(v))
  /\ \A v, c : Bare([Planned(v) EXCEPT !.conflicts = c])
  /\ \A v, q, c : Bare(Conflicting(v, q, c))
  <1>1. \A v : Bare(Planned(v))
    BY DEF Planned, Bare
  <1>2. ASSUME NEW v, NEW c PROVE Bare([Planned(v) EXCEPT !.conflicts = c])
    BY DEF Planned, Bare
  <1>3. ASSUME NEW v, NEW q, NEW c PROVE Bare(Conflicting(v, q, c))
    BY DEF Planned, Bare, Conflicting
  <1> QED BY <1>1, <1>2, <1>3

LEMMA BarePart ==
  ASSUME NEW b, NEW o, NEW t, NEW p, NEW x, Bare(x) PROVE PartPlan(x, b, o, t, p)
  BY ListedFacts DEF Bare, PartPlan

LEMMA KeysReached ==
  ASSUME NEW v, IsDocument(v), NEW p \in Seq(Keys), NEW k \in Keys
  PROVE  k \in KeysOf(ValueAt(v, p)) <=> At(ValueAt(v, p).semantic, k) # Absent
  <1> DEFINE w == ValueAt(v, p)
  <1>1. CASE w = NoValue
    <2>1. KeysOf(NoValue) = {} /\ At(NoValue.semantic, k) = Absent
      BY DEF KeysOf, NoValue, At, Absent
    <2> QED BY <2>1, <1>1
  <1>2. CASE w # NoValue
    <2>1. Whole(w)
      BY <1>2, ReachedWhole
    <2> HIDE DEF w
    <2>2. k \in KeysOf(w) <=> At(w.semantic, k) # Absent
      BY <2>1, KeysMean
    <2> QED BY <2>2 DEF w
  <1> QED BY <1>1, <1>2

LEMMA MemberPart ==
  ASSUME NEW b, NEW o, NEW t, IsDocument(b), IsDocument(o), IsDocument(t),
         NEW p \in Seq(Keys), NEW k \in Keys, NEW inside, PartPlan(inside, b, o, t, Append(p, k))
  PROVE  PartPlan(MergeThreeMembers(ValueAt(b, p), ValueAt(o, p), ValueAt(t, p), k, p, inside), b, o, t, p)
  <1> DEFINE vb == ValueAt(b, p)
             vo == ValueAt(o, p)
             vt == ValueAt(t, p)
             sb == At(vb.semantic, k)
             so == At(vo.semantic, k)
             st == At(vt.semantic, k)
             x == MergeThreeMembers(vb, vo, vt, k, p, inside)
             y == [Planned(st) EXCEPT !.adds = <<AddMember(p, FirstMember(vt, k), AtEnd)>>]
  <1>1. \/ Bare(x)
        \/ x = inside
        \/ x = y /\ sb = Absent /\ so = Absent /\ st # Absent
    <2> HIDE DEF y, sb, so, st
    <2> DEFINE here == Append(p, k)
    <2>1. x = IF sb = Absent /\ st = Absent THEN Planned(so)
              ELSE IF sb = Absent /\ so = Absent THEN y
              ELSE IF sb = Absent /\ so = st THEN Planned(so)
              ELSE IF so = Absent /\ st = Absent THEN Planned(Absent)
              ELSE IF so = Absent /\ sb = st THEN Planned(Absent)
              ELSE IF st = Absent /\ sb = so THEN Conflicting(Absent, here, "delete_requires_owner_edit")
              ELSE IF Absent \notin {sb, so, st} THEN inside
              ELSE Conflicting(Absent, here, "ambiguous_owner_change")
      BY DEF MergeThreeMembers, y, sb, so, st
    <2> HIDE DEF x, here
    <2> QED BY <2>1, BareFacts
  <1>2. CASE Bare(x)
    BY <1>2, BarePart
  <1>4. CASE x = inside
    <2>1. \A q : Under(Append(p, k), q) => Under(p, q)
      BY UnderAppend
    <2>2. \A e : EditOf(e, b, o, t, Append(p, k)) => EditOf(e, b, o, t, p)
      BY <2>1 DEF EditOf
    <2>3. \A a : AddOf(a, b, o, t, Append(p, k)) => AddOf(a, b, o, t, p)
      BY <2>1 DEF AddOf
    <2>4. PartPlan(inside, b, o, t, p)
      BY <2>2, <2>3 DEF PartPlan
    <2> QED BY <2>4, <1>4
  <1>5. CASE x = y /\ sb = Absent /\ so = Absent /\ st # Absent
    <2> DEFINE a == AddMember(p, FirstMember(vt, k), AtEnd)
    <2>1. k \in KeysOf(vt)
      BY <1>5, KeysReached
    <2>2. FirstMember(vt, k).key = k
      <3>1. vt # NoValue
        BY <2>1 DEF KeysOf, NoValue
      <3>2. IsBuilt(vt)
        BY <3>1, ReachedWhole DEF Whole
      <3> HIDE DEF vt
      <3>3. FirstMember(vt, k) = [key |-> k, value |-> MemberValue(vt, k)]
        BY <2>1, <3>2, FirstFacts
      <3> QED BY <3>3
    <2>3. a.at = p /\ a.member = FirstMember(vt, k) /\ a.before = AtEnd
      BY DEF AddMember
    <2>4. y.adds = <<a>> /\ y.edits = {}
      BY DEF Planned
    <2> HIDE DEF a, y, x
    <2>5. AddOf(a, b, o, t, p)
      BY <2>1, <2>2, <2>3, <1>5, UnderSelf DEF AddOf
    <2>6. Listed(<<a>>) /\ ToSet(<<a>>) = {a}
      BY ListedFacts
    <2>7. PartPlan(y, b, o, t, p)
      BY <2>4, <2>5, <2>6 DEF PartPlan
    <2> QED BY <2>7, <1>5 DEF x
  <1> QED BY <1>1, <1>2, <1>4, <1>5

LEMMA PlanParts ==
  ASSUME NEW b, NEW o, NEW t, IsDocument(b), IsDocument(o), IsDocument(t),
         NEW f, Merging(f, b, o, t)
  PROVE  \A p \in Seq(Keys) : PartPlan(f[p], b, o, t, p)
  <1> DEFINE T == {p \in Seq(Keys) : PartPlan(f[p], b, o, t, p)}
  <1>1. ASSUME NEW p \in Seq(Keys), Len(p) >= MaxDepth + 1 PROVE p \in T
    <2>1. ValueAt(b, p) = NoValue /\ ValueAt(o, p) = NoValue /\ ValueAt(t, p) = NoValue
      BY <1>1, BeyondDepth
    <2>2. f[p] = MergeThree(NoValue, NoValue, NoValue, p, Inside(f, p))
      BY <2>1 DEF Merging, MergeAt
    <2>3. f[p] = Planned(NoValue.semantic)
      BY <2>2 DEF MergeThree
    <2>4. Bare(f[p])
      BY <2>3, BareFacts
    <2> QED BY <2>4, BarePart
  <1>2. ASSUME NEW p \in Seq(Keys), \A k \in Keys : Append(p, k) \in T PROVE p \in T
    <2> DEFINE vb == ValueAt(b, p)
               vo == ValueAt(o, p)
               vt == ValueAt(t, p)
               parts == [k \in Keys |-> MergeThreeMembers(vb, vo, vt, k, p, Inside(f, p)[k])]
               y == [Planned(vt.semantic) EXCEPT !.edits = {[at |-> p, source |-> vt]}]
    <2>1. f[p] = MergeThree(vb, vo, vt, p, Inside(f, p))
      BY DEF Merging, MergeAt
    <2>2. \/ Bare(f[p])
          \/ f[p] = y /\ vo.semantic = vb.semantic
          \/ f[p] = Joined(parts)
      <3> HIDE DEF vb, vo, vt, parts, y
      <3> DEFINE x == f[p]
      <3>1. x = IF vo.semantic = vt.semantic THEN Planned(vo.semantic)
                ELSE IF vo.semantic = vb.semantic THEN y
                ELSE IF vt.semantic = vb.semantic THEN Planned(vo.semantic)
                ELSE IF {Kind(vb), Kind(vo), Kind(vt)} = {"array"} THEN
                  [Planned(vo.semantic) EXCEPT !.conflicts = ArrayConflicts(vb, vo, vt, p)]
                ELSE IF {Kind(vb), Kind(vo), Kind(vt)} # {"object"}
                  THEN Conflicting(vo.semantic, p, "modify_modify")
                ELSE Joined(parts)
        BY <2>1 DEF MergeThree, y, parts
      <3> HIDE DEF x
      <3>2. \/ Bare(x)
            \/ x = y /\ vo.semantic = vb.semantic
            \/ x = Joined(parts)
        BY <3>1, BareFacts
      <3> QED BY <3>2 DEF x
    <2>3. CASE Bare(f[p])
      BY <2>3, BarePart
    <2>4. CASE f[p] = y /\ vo.semantic = vb.semantic
      <3> DEFINE e == [at |-> p, source |-> vt]
      <3>1. y.adds = <<>> /\ y.edits = {e}
        BY DEF Planned
      <3>2. EditOf(e, b, o, t, p)
        BY <2>4, UnderSelf DEF EditOf
      <3> HIDE DEF e, y
      <3>3. PartPlan(y, b, o, t, p)
        BY <3>1, <3>2, ListedFacts DEF PartPlan
      <3> QED BY <3>3, <2>4
    <2>5. CASE f[p] = Joined(parts)
      <3>1. ASSUME NEW k \in Keys PROVE PartPlan(parts[k], b, o, t, p)
        <4> DEFINE inside == f[Append(p, k)]
        <4>1. PartPlan(inside, b, o, t, Append(p, k))
          BY <1>2
        <4>2. parts[k] = MergeThreeMembers(vb, vo, vt, k, p, inside)
          BY DEF Inside
        <4> HIDE DEF inside, parts
        <4> QED BY <4>1, <4>2, MemberPart
      <3> HIDE DEF parts
      <3> DEFINE j == Joined(parts)
      <3>2. \A k \in Keys : Listed(parts[k].adds)
        BY <3>1 DEF PartPlan
      <3>3. /\ Listed(j.adds) /\ ToSet(j.adds) = UNION {ToSet(parts[k].adds) : k \in Keys}
            /\ j.edits = UNION {parts[k].edits : k \in Keys}
        BY <3>2, JoinedFacts
      <3> HIDE DEF j
      <3>4. \A e \in j.edits : EditOf(e, b, o, t, p)
        BY <3>1, <3>3 DEF PartPlan
      <3>5. \A a \in ToSet(j.adds) : AddOf(a, b, o, t, p)
        BY <3>1, <3>3 DEF PartPlan
      <3>6. PartPlan(j, b, o, t, p)
        BY <3>3, <3>4, <3>5 DEF PartPlan
      <3> QED BY <3>6, <2>5 DEF j
    <2> QED BY <2>2, <2>3, <2>4, <2>5
  <1>3. MaxDepth + 1 \in Nat
    BY JsonAssumption
  <1>4. \A p \in Seq(Keys) : p \in T
    <2> HIDE DEF T
    <2> QED BY <1>1, <1>2, <1>3, Upwards
  <1> QED BY <1>4

-----------------------------------------------------------------------------
(* The members of a rendered object *)

\* The recursion of Group has a solution.
Grouping(f, adds, path, before, n) ==
  f = [k \in 0..n |-> IF k = 0 THEN <<>> ELSE IF adds[k].at = path /\ adds[k].before = before THEN Append(f[k - 1], adds[k].member) ELSE f[k - 1]]

LEMMA GroupingExists ==
  ASSUME NEW adds, NEW path, NEW before, NEW n \in Nat
  PROVE  \E f : Grouping(f, adds, path, before, n)
  <1> DEFINE T == {m \in Nat : \E f : Grouping(f, adds, path, before, m)}
  <1>1. 0 \in T
    <2>1. Grouping([k \in 0..0 |-> <<>>], adds, path, before, 0)
      BY DEF Grouping
    <2> QED BY <2>1
  <1>2. ASSUME NEW m \in 0..(n - 1), m \in T PROVE m + 1 \in T
    <2>1. PICK f : Grouping(f, adds, path, before, m)
      BY <1>2
    <2>2. m \in Nat
      OBVIOUS
    <2> DEFINE last == IF adds[m + 1].at = path /\ adds[m + 1].before = before THEN Append(f[m], adds[m + 1].member) ELSE f[m]
    <2>3. PICK g : Extends(g, f, m, last)
      <3> HIDE DEF last
      <3> QED BY <2>2, Extension
    <2>4. g[m + 1] = last /\ \A k \in 0..m : g[k] = f[k]
      BY <2>3 DEF Extends
    <2>5. \A k \in 0..m : f[k] = IF k = 0 THEN <<>> ELSE IF adds[k].at = path /\ adds[k].before = before THEN Append(f[k - 1], adds[k].member) ELSE f[k - 1]
      BY <2>1 DEF Grouping
    <2>6. ASSUME NEW k \in 0..(m + 1)
          PROVE  g[k] = IF k = 0 THEN <<>> ELSE IF adds[k].at = path /\ adds[k].before = before THEN Append(g[k - 1], adds[k].member) ELSE g[k - 1]
      <3>1. CASE k = m + 1
        <4>1. k # 0 /\ k - 1 = m /\ g[m] = f[m]
          BY <3>1, <2>2, <2>4
        <4> QED BY <4>1, <3>1, <2>4
      <3>2. CASE k # m + 1
        <4>1. k \in 0..m /\ g[k] = f[k] /\ (k # 0 => g[k - 1] = f[k - 1])
          BY <3>2, <2>2, <2>4
        <4> QED BY <4>1, <2>5
      <3> QED BY <3>1, <3>2
    <2>7. Grouping(g, adds, path, before, m + 1)
      BY <2>3, <2>6 DEF Extends, Grouping
    <2> QED BY <2>2, <2>7
  <1>3. n \in T
    <2> HIDE DEF T
    <2> QED BY <1>1, <1>2, UpTo
  <1> QED BY <1>3

\* A group, addition by addition.
LEMMA GroupSteps ==
  ASSUME NEW adds, NEW path, NEW before, Len(adds) \in Nat
  PROVE  \E f : /\ f[0] = <<>> /\ Group(adds, path, before) = f[Len(adds)]
                /\ \A k \in 1..Len(adds) : f[k] = IF adds[k].at = path /\ adds[k].before = before THEN Append(f[k - 1], adds[k].member) ELSE f[k - 1]
  <1> DEFINE f == CHOOSE g : Grouping(g, adds, path, before, Len(adds))
  <1>1. \E g : Grouping(g, adds, path, before, Len(adds))
    BY GroupingExists
  <1>2. Grouping(f, adds, path, before, Len(adds))
    BY <1>1
  <1>3. Group(adds, path, before) = f[Len(adds)]
    BY DEF Group, Grouping
  <1> HIDE DEF f
  <1>4. f[0] = <<>>
    BY <1>2 DEF Grouping
  <1>5. \A k \in 1..Len(adds) : f[k] = IF adds[k].at = path /\ adds[k].before = before THEN Append(f[k - 1], adds[k].member) ELSE f[k - 1]
    <2>1. f = [k \in 0..Len(adds) |-> IF k = 0 THEN <<>> ELSE IF adds[k].at = path /\ adds[k].before = before THEN Append(f[k - 1], adds[k].member) ELSE f[k - 1]]
      BY <1>2 DEF Grouping
    <2>2. \A k \in 1..Len(adds) : k \in 0..Len(adds) /\ k # 0
      OBVIOUS
    <2> QED BY <2>1, <2>2
  <1> QED BY <1>3, <1>4, <1>5

LEMMA GroupFacts ==
  ASSUME NEW adds, Listed(adds), NEW path, NEW before
  PROVE  /\ Listed(Group(adds, path, before))
         /\ ToSet(Group(adds, path, before))
              = {a.member : a \in {x \in ToSet(adds) : x.at = path /\ x.before = before}}
  <1> DEFINE N == Len(adds)
             G == Group(adds, path, before)
             Fits(a) == a.at = path /\ a.before = before
  <1>1. N \in Nat /\ DOMAIN adds = 1..N
    BY ListedFacts
  <1>2. PICK f : /\ f[0] = <<>> /\ Group(adds, path, before) = f[Len(adds)]
                 /\ \A k \in 1..Len(adds) :
                      f[k] = IF adds[k].at = path /\ adds[k].before = before
                             THEN Append(f[k - 1], adds[k].member) ELSE f[k - 1]
    <2>1. Len(adds) \in Nat
      BY <1>1
    <2> HIDE DEF N, G, Fits
    <2> QED BY <2>1, GroupSteps
  <1>3. \A k \in 1..N : f[k] = IF Fits(adds[k]) THEN Append(f[k - 1], adds[k].member) ELSE f[k - 1]
    BY <1>2
  <1>4. G = f[N]
    BY <1>2
  <1> DEFINE D(n) == {adds[k].member : k \in {h \in 1..n : Fits(adds[h])}}
  <1>5. D(N) = {a.member : a \in {x \in ToSet(adds) : Fits(x)}}
    BY <1>1 DEF ToSet
  <1> HIDE DEF N, G, Fits
  <1> DEFINE S == {n \in 0..N : Listed(f[n]) /\ ToSet(f[n]) = D(n)}
  <1>6. 0 \in S
    <2>1. D(0) = {}
      OBVIOUS
    <2> QED BY <2>1, <1>1, <1>2, ListedFacts
  <1>7. ASSUME NEW n \in 0..(N - 1), n \in S PROVE n + 1 \in S
    <2> DEFINE a == adds[n + 1]
               s == f[n]
    <2>1. n + 1 \in 1..N /\ (n + 1) - 1 = n /\ n + 1 \in 0..N /\ n \in Nat
      BY <1>1
    <2>2. f[n + 1] = IF Fits(a) THEN Append(s, a.member) ELSE s
      BY <1>3, <2>1
    <2>3. Listed(s) /\ ToSet(s) = D(n)
      BY <1>7
    <2>4. 1..(n + 1) = (1..n) \cup {n + 1}
      BY <2>1
    <2>5. CASE Fits(a)
      <3>1. D(n + 1) = D(n) \cup {a.member}
        BY <2>4, <2>5
      <3> HIDE DEF a, s, D
      <3>2. Listed(Append(s, a.member)) /\ ToSet(Append(s, a.member)) = ToSet(s) \cup {a.member}
        BY <2>3, ListedAppend
      <3> QED BY <3>1, <3>2, <2>1, <2>2, <2>3, <2>5
    <2>6. CASE ~Fits(a)
      <3>1. D(n + 1) = D(n)
        BY <2>4, <2>6
      <3> HIDE DEF a, D
      <3> QED BY <3>1, <2>1, <2>2, <2>3, <2>6
    <2> QED BY <2>5, <2>6
  <1>8. N \in S
    <2> HIDE DEF S
    <2>1. \A n \in 0..N : n \in S
      BY <1>1, <1>6, <1>7, UpTo
    <2> QED BY <2>1, <1>1
  <1>9. Listed(G) /\ ToSet(G) = D(N)
    BY <1>8, <1>4
  <1> QED BY <1>9, <1>5 DEF G, Fits

\* What member i adds to the text before it.
MemberText(v, p, path, inside, before, i) ==
  LET m == v.members[i]
  IN  IF i = Min(Positions(v, m.key))
      THEN before \o Append(Group(p.adds, path, InFrontOf(m.key)),
                            [key |-> m.key, value |-> inside[m.key]])
      ELSE Append(before, m)

\* The recursion of RenderMembers has a solution.
Writing(f, v, p, path, inside, n) ==
  f = [k \in 0..n |-> IF k = 0 THEN <<>> ELSE MemberText(v, p, path, inside, f[k - 1], k)]

LEMMA WritingExists ==
  ASSUME NEW v, NEW p, NEW path, NEW inside, NEW n \in Nat
  PROVE  \E f : Writing(f, v, p, path, inside, n)
  <1> DEFINE T == {m \in Nat : \E f : Writing(f, v, p, path, inside, m)}
  <1>1. 0 \in T
    <2>1. Writing([k \in 0..0 |-> <<>>], v, p, path, inside, 0)
      BY DEF Writing
    <2> QED BY <2>1
  <1>2. ASSUME NEW m \in 0..(n - 1), m \in T PROVE m + 1 \in T
    <2>1. PICK f : Writing(f, v, p, path, inside, m)
      BY <1>2
    <2>2. m \in Nat
      OBVIOUS
    <2> DEFINE last == MemberText(v, p, path, inside, f[m], m + 1)
    <2>3. PICK g : Extends(g, f, m, last)
      <3> HIDE DEF last
      <3> QED BY <2>2, Extension
    <2>4. g[m + 1] = last /\ \A k \in 0..m : g[k] = f[k]
      BY <2>3 DEF Extends
    <2>5. \A k \in 0..m : f[k] = IF k = 0 THEN <<>> ELSE MemberText(v, p, path, inside, f[k - 1], k)
      BY <2>1 DEF Writing
    <2>6. ASSUME NEW k \in 0..(m + 1)
          PROVE  g[k] = IF k = 0 THEN <<>> ELSE MemberText(v, p, path, inside, g[k - 1], k)
      <3>1. CASE k = m + 1
        <4>1. k # 0 /\ k - 1 = m /\ g[m] = f[m]
          BY <3>1, <2>2, <2>4
        <4> QED BY <4>1, <3>1, <2>4
      <3>2. CASE k # m + 1
        <4>1. k \in 0..m /\ g[k] = f[k] /\ (k # 0 => g[k - 1] = f[k - 1])
          BY <3>2, <2>2, <2>4
        <4> QED BY <4>1, <2>5
      <3> QED BY <3>1, <3>2
    <2>7. Writing(g, v, p, path, inside, m + 1)
      BY <2>3, <2>6 DEF Extends, Writing
    <2> QED BY <2>2, <2>7
  <1>3. n \in T
    <2> HIDE DEF T
    <2> QED BY <1>1, <1>2, UpTo
  <1> QED BY <1>3

\* The text of an object, member by member.
Texts(f, v, p, path, inside) ==
  /\ f[0] = <<>>
  /\ RenderMembers(v, p, path, inside) = f[Len(v.members)] \o Group(p.adds, path, AtEnd)
  /\ \A i \in 1..Len(v.members) : f[i] = MemberText(v, p, path, inside, f[i - 1], i)

LEMMA MemberTexts ==
  ASSUME NEW v, NEW p, NEW path, NEW inside, Len(v.members) \in Nat
  PROVE  \E f : Texts(f, v, p, path, inside)
  <1> DEFINE Text(g) ==
               g = [i \in 0..Len(v.members) |->
                      IF i = 0 THEN <<>>
                      ELSE LET m == v.members[i]
                           IN  IF i = Min(Positions(v, m.key))
                               THEN g[i - 1] \o Append(Group(p.adds, path, InFrontOf(m.key)),
                                                       [key |-> m.key, value |-> inside[m.key]])
                               ELSE Append(g[i - 1], m)]
             f == CHOOSE g : Text(g)
  <1>1. RenderMembers(v, p, path, inside) = f[Len(v.members)] \o Group(p.adds, path, AtEnd)
    BY DEF RenderMembers
  <1>2. \A g : Text(g) <=> g = [i \in 0..Len(v.members) |->
                                  IF i = 0 THEN <<>> ELSE MemberText(v, p, path, inside, g[i - 1], i)]
    BY DEF MemberText
  <1>3. \E g : Text(g)
    <2>1. PICK g : Writing(g, v, p, path, inside, Len(v.members))
      BY WritingExists
    <2>2. Text(g)
      <3> HIDE DEF Text
      <3> QED BY <2>1, <1>2 DEF Writing
    <2> HIDE DEF Text
    <2> QED BY <2>2
  <1>4. Text(f)
    <2> HIDE DEF Text
    <2> QED BY <1>3
  <1> HIDE DEF Text, f
  <1>5. f = [i \in 0..Len(v.members) |->
               IF i = 0 THEN <<>> ELSE MemberText(v, p, path, inside, f[i - 1], i)]
    BY <1>2, <1>4
  <1>6. f[0] = <<>> /\ \A i \in 1..Len(v.members) : f[i] = MemberText(v, p, path, inside, f[i - 1], i)
    BY <1>5
  <1>7. Texts(f, v, p, path, inside)
    BY <1>1, <1>6 DEF Texts
  <1> QED BY <1>7

\* A member of an object and what its text is after the edits.
Rewritten(v, inside, i) ==
  IF i = Min(Positions(v, v.members[i].key))
  THEN [key |-> v.members[i].key, value |-> inside[v.members[i].key]]
  ELSE v.members[i]

\* A text ends in a member and names a key nowhere else.
Tip(u, r, k) ==
  /\ Listed(u) /\ Len(u) # 0 /\ u[Len(u)] = r
  /\ \A i \in 1..(Len(u) - 1) : u[i].key # k

LEMMA MeansTip ==
  ASSUME NEW s, Listed(s), NEW u, NEW r, NEW k, Tip(u, r, k), NEW m, Means(s, k, m)
  PROVE  Means(s \o u, k, IF r.key = k THEN r.value.semantic ELSE m)
  <1> DEFINE L == Len(s)
             U == Len(u)
             c == s \o u
  <1>1. /\ L \in Nat /\ DOMAIN s = 1..L /\ U \in Nat /\ DOMAIN u = 1..U /\ U # 0
        /\ u[U] = r /\ \A i \in 1..(U - 1) : u[i].key # k
    BY ListedFacts DEF Tip
  <1>2. /\ DOMAIN c = 1..(L + U) /\ (\A i \in 1..L : c[i] = s[i])
        /\ \A i \in 1..U : c[L + i] = u[i]
    BY ListedConcat DEF Tip
  <1> HIDE DEF c, L, U
  <1>3. \A i \in 1..(L + U) : i \in 1..L \/ i = L + U \/ (i - L \in 1..(U - 1) /\ i - L \in 1..U /\ L + (i - L) = i)
    BY <1>1
  <1>4. \A i \in 1..(L + U) : i \in 1..L \/ i = L + U \/ c[i].key # k
    <2> SUFFICES ASSUME NEW i \in 1..(L + U), i \notin 1..L, i # L + U PROVE c[i].key # k
      OBVIOUS
    <2> DEFINE j == i - L
    <2>1. j \in 1..(U - 1) /\ j \in 1..U /\ L + j = i
      BY <1>3
    <2> HIDE DEF j
    <2>2. c[i] = u[j]
      BY <2>1, <1>2
    <2>3. u[j].key # k
      BY <2>1, <1>1
    <2> QED BY <2>2, <2>3
  <1>5. c[L + U] = r /\ L + U \in 1..(L + U)
    BY <1>1, <1>2
  <1>6. CASE r.key = k
    <2>1. \A j \in DOMAIN c : ~(j > L + U)
      BY <1>2, <1>1
    <2>2. Means(c, k, r.value.semantic)
      BY <1>2, <1>5, <1>6, <2>1 DEF Means
    <2> QED BY <2>2, <1>6 DEF c
  <1>7. CASE r.key # k
    <2>1. CASE m = Absent /\ \A i \in DOMAIN s : s[i].key # k
      <3>1. \A i \in DOMAIN c : c[i].key # k
        BY <2>1, <1>1, <1>2, <1>4, <1>5, <1>7
      <3>2. Means(c, k, m)
        BY <3>1, <2>1 DEF Means
      <3> QED BY <3>2, <1>7 DEF c
    <2>2. CASE \E i \in DOMAIN s : /\ s[i].key = k /\ m = s[i].value.semantic
                                   /\ \A j \in DOMAIN s : j > i => s[j].key # k
      <3>1. PICK i \in 1..L : /\ s[i].key = k /\ m = s[i].value.semantic
                              /\ \A j \in 1..L : j > i => s[j].key # k
        BY <2>2, <1>1
      <3>2. i \in DOMAIN c /\ c[i] = s[i]
        BY <1>1, <1>2
      <3>3. \A j \in DOMAIN c : j > i => c[j].key # k
        BY <3>1, <1>1, <1>2, <1>4, <1>5, <1>7
      <3>4. Means(c, k, m)
        BY <3>1, <3>2, <3>3 DEF Means
      <3> QED BY <3>4, <1>7 DEF c
    <2> QED BY <2>1, <2>2 DEF Means
  <1> QED BY <1>6, <1>7

LEMMA AppendIsJoined == ASSUME NEW s, NEW x, Listed(s) PROVE Append(s, x) = s \o <<x>>
  <1>1. s \in Seq(ToSet(s) \cup {x}) /\ x \in ToSet(s) \cup {x}
    <2>1. s \in Seq(ToSet(s))
      BY DEF Listed
    <2> QED BY <2>1, SeqMonotonic
  <1> QED BY <1>1, AppendIsConcat

LEMMA MeansFollowed ==
  ASSUME NEW s, Listed(s), NEW u, Listed(u), NEW k, \A i \in DOMAIN u : u[i].key # k,
         NEW m, Means(s, k, m)
  PROVE  Means(s \o u, k, m)
  <1> DEFINE L == Len(s)
             U == Len(u)
             c == s \o u
  <1>1. L \in Nat /\ DOMAIN s = 1..L /\ U \in Nat /\ DOMAIN u = 1..U
    BY ListedFacts
  <1>2. /\ DOMAIN c = 1..(L + U) /\ (\A i \in 1..L : c[i] = s[i])
        /\ \A i \in 1..U : c[L + i] = u[i]
    BY ListedConcat
  <1> HIDE DEF c, L, U
  <1>3. \A i \in 1..(L + U) : i \in 1..L \/ (i - L \in 1..U /\ L + (i - L) = i)
    BY <1>1
  <1>4. \A i \in 1..(L + U) : i \in 1..L \/ c[i].key # k
    <2> SUFFICES ASSUME NEW i \in 1..(L + U), i \notin 1..L PROVE c[i].key # k
      OBVIOUS
    <2> DEFINE j == i - L
    <2>1. j \in 1..U /\ L + j = i
      BY <1>3
    <2> HIDE DEF j
    <2>2. c[i] = u[j]
      BY <2>1, <1>2
    <2>3. u[j].key # k
      BY <2>1, <1>1
    <2> QED BY <2>2, <2>3
  <1>5. CASE m = Absent /\ \A i \in DOMAIN s : s[i].key # k
    <2>1. \A i \in DOMAIN c : c[i].key # k
      BY <1>5, <1>1, <1>2, <1>4
    <2> QED BY <2>1, <1>5 DEF Means, c
  <1>6. CASE \E i \in DOMAIN s : /\ s[i].key = k /\ m = s[i].value.semantic
                                 /\ \A j \in DOMAIN s : j > i => s[j].key # k
    <2>1. PICK i \in 1..L : /\ s[i].key = k /\ m = s[i].value.semantic
                            /\ \A j \in 1..L : j > i => s[j].key # k
      BY <1>6, <1>1
    <2>2. i \in DOMAIN c /\ c[i] = s[i]
      BY <1>1, <1>2
    <2>3. \A j \in DOMAIN c : j > i => c[j].key # k
      BY <2>1, <1>1, <1>2, <1>4
    <2>4. Means(c, k, m)
      BY <2>1, <2>2, <2>3 DEF Means
    <2> QED BY <2>4 DEF c
  <1> QED BY <1>5, <1>6 DEF Means

\* Nothing is added to the object at path under the key k.
NotAdded(adds, path, k) == \A a \in ToSet(adds) : a.at = path => a.member.key # k

LEMMA GroupWithout ==
  ASSUME NEW adds, Listed(adds), NEW path, NEW k, NotAdded(adds, path, k), NEW before
  PROVE  LET G == Group(adds, path, before)
         IN  /\ Listed(G) /\ \A i \in DOMAIN G : G[i].key # k
             /\ Len(G) \in Nat /\ DOMAIN G = 1..Len(G)
  <1> DEFINE G == Group(adds, path, before)
  <1>1. /\ Listed(G)
        /\ ToSet(G) = {a.member : a \in {x \in ToSet(adds) : x.at = path /\ x.before = before}}
    BY GroupFacts
  <1> HIDE DEF G
  <1>2. \A m \in ToSet(G) : m.key # k
    BY <1>1 DEF NotAdded
  <1>3. \A i \in DOMAIN G : G[i] \in ToSet(G)
    BY DEF ToSet
  <1> QED BY <1>1, <1>2, <1>3, ListedFacts DEF G

\* What a rendered object means for a key that nothing is added under: what
\* the text of the last member of that key means.
LEMMA MembersMean ==
  ASSUME NEW v, Len(v.members) \in Nat, NEW p, Listed(p.adds), NEW path, NEW inside,
         NEW k, NotAdded(p.adds, path, k)
  PROVE  /\ Listed(RenderMembers(v, p, path, inside))
         /\ \/ /\ Means(RenderMembers(v, p, path, inside), k, Absent)
               /\ \A i \in 1..Len(v.members) : v.members[i].key # k
            \/ \E j \in 1..Len(v.members) :
                 /\ v.members[j].key = k /\ \A h \in 1..Len(v.members) : h > j => v.members[h].key # k
                 /\ Means(RenderMembers(v, p, path, inside), k, Rewritten(v, inside, j).value.semantic)
  <1> DEFINE N == Len(v.members)
             R(i) == Rewritten(v, inside, i)
             key(i) == v.members[i].key
             G(i) == Group(p.adds, path, InFrontOf(key(i)))
             last == Group(p.adds, path, AtEnd)
             whole == RenderMembers(v, p, path, inside)
  <1>1. PICK f : Texts(f, v, p, path, inside)
    BY MemberTexts
  <1>2. /\ N \in Nat /\ f[0] = <<>> /\ whole = f[N] \o last
        /\ \A i \in 1..N : f[i] = IF i = Min(Positions(v, key(i))) THEN f[i - 1] \o Append(G(i), R(i))
                                  ELSE Append(f[i - 1], R(i))
    <2>1. \A i \in 1..N : f[i] = MemberText(v, p, path, inside, f[i - 1], i)
      BY <1>1 DEF Texts
    <2>2. \A i, s : MemberText(v, p, path, inside, s, i)
            = IF i = Min(Positions(v, key(i))) THEN s \o Append(G(i), R(i)) ELSE Append(s, R(i))
      BY DEF MemberText, Rewritten
    <2>3. f[0] = <<>> /\ whole = f[N] \o last
      BY <1>1 DEF Texts
    <2> HIDE DEF key, G, R, whole, last
    <2> QED BY <2>1, <2>2, <2>3
  <1>3. \A i \in 1..N : R(i).key = key(i)
    BY DEF Rewritten
  <1>4. \A i \in 1..N : Listed(G(i)) /\ \A h \in DOMAIN G(i) : G(i)[h].key # k
    <2> TAKE i \in 1..N
    <2>1. LET g == Group(p.adds, path, InFrontOf(key(i)))
          IN  /\ Listed(g) /\ \A h \in DOMAIN g : g[h].key # k
              /\ Len(g) \in Nat /\ DOMAIN g = 1..Len(g)
      BY GroupWithout
    <2> QED BY <2>1
  <1>5. /\ Listed(last) /\ (\A h \in DOMAIN last : last[h].key # k)
        /\ Len(last) \in Nat /\ DOMAIN last = 1..Len(last)
    BY GroupWithout
  <1> HIDE DEF N, R, G, last, key, whole
  \* What the first n members leave of the key.
  <1> DEFINE Shown(n, m) ==
               \/ m = Absent /\ \A j \in 1..n : key(j) # k
               \/ \E j \in 1..n : /\ key(j) = k /\ \A h \in 1..n : h > j => key(h) # k
                                  /\ m = R(j).value.semantic
             S == {n \in 0..N : Listed(f[n]) /\ \E m : Shown(n, m) /\ Means(f[n], k, m)}
  <1>6. 0 \in S
    <2>1. Shown(0, Absent)
      OBVIOUS
    <2>2. Means(<<>>, k, Absent)
      <3>1. DOMAIN <<>> = {}
        OBVIOUS
      <3> QED BY <3>1 DEF Means
    <2> HIDE DEF Shown
    <2> QED BY <2>1, <2>2, <1>2, ListedFacts
  <1>7. ASSUME NEW n \in 0..(N - 1), n \in S PROVE n + 1 \in S
    <2> DEFINE s == f[n]
               r == R(n + 1)
               u == IF n + 1 = Min(Positions(v, key(n + 1))) THEN Append(G(n + 1), r) ELSE <<r>>
    <2>1. n + 1 \in 1..N /\ (n + 1) - 1 = n /\ n + 1 \in 0..N /\ n \in Nat
      BY <1>2
    <2>2. Listed(s)
      BY <1>7
    <2>3. PICK m : Shown(n, m) /\ Means(s, k, m)
      BY <1>7
    <2>4. Tip(u, r, k)
      <3>1. CASE n + 1 = Min(Positions(v, key(n + 1)))
        <4> DEFINE g == G(n + 1)
        <4>1. Listed(g) /\ \A h \in DOMAIN g : g[h].key # k
          BY <1>4, <2>1
        <4> HIDE DEF g, r
        <4>2. /\ Listed(Append(g, r)) /\ Len(Append(g, r)) = Len(g) + 1
              /\ (\A i \in 1..Len(g) : Append(g, r)[i] = g[i]) /\ Append(g, r)[Len(g) + 1] = r
              /\ Len(g) \in Nat /\ DOMAIN g = 1..Len(g)
          BY <4>1, ListedAppend, ListedFacts
        <4>3. Tip(Append(g, r), r, k)
          <5>1. (Len(g) + 1) - 1 = Len(g) /\ Len(g) + 1 # 0
            BY <4>2
          <5> QED BY <4>1, <4>2, <5>1 DEF Tip
        <4> QED BY <3>1, <4>3 DEF g
      <3>2. CASE n + 1 # Min(Positions(v, key(n + 1)))
        <4> HIDE DEF r
        <4>1. Listed(<<r>>) /\ Len(<<r>>) = 1 /\ <<r>>[1] = r
          BY ListedFacts
        <4>2. Tip(<<r>>, r, k)
          BY <4>1 DEF Tip
        <4> QED BY <3>2, <4>2
      <3> QED BY <3>1, <3>2
    <2>5. f[n + 1] = s \o u
      <3>1. f[n + 1] = IF n + 1 = Min(Positions(v, key(n + 1))) THEN s \o Append(G(n + 1), r)
                       ELSE Append(s, r)
        BY <1>2, <2>1
      <3>2. Append(s, r) = s \o <<r>>
        <4> HIDE DEF s, r
        <4> QED BY <2>2, AppendIsJoined
      <3> QED BY <3>1, <3>2
    <2>6. r.key = key(n + 1)
      BY <1>3, <2>1
    <2> HIDE DEF u, s, r
    <2> DEFINE x == IF r.key = k THEN r.value.semantic ELSE m
    <2>7. Means(s \o u, k, x)
      BY <2>2, <2>3, <2>4, MeansTip
    <2>8. Listed(s \o u)
      BY <2>2, <2>4, ListedConcat DEF Tip
    <2>9. Shown(n + 1, x)
      <3>1. \A j \in 1..(n + 1) : j \in 1..n \/ j = n + 1
        BY <2>1
      <3>2. 1..n \subseteq 1..(n + 1) /\ n + 1 \in 1..(n + 1)
        BY <2>1
      <3>3. CASE r.key = k
        <4>1. \A h \in 1..(n + 1) : ~(h > n + 1)
          BY <2>1
        <4> QED BY <3>2, <3>3, <4>1, <2>6 DEF r
      <3>4. CASE r.key # k
        <4>1. CASE m = Absent /\ \A j \in 1..n : key(j) # k
          BY <3>1, <3>4, <4>1, <2>6
        <4>2. CASE \E j \in 1..n : /\ key(j) = k /\ \A h \in 1..n : h > j => key(h) # k
                                   /\ m = R(j).value.semantic
          BY <3>1, <3>2, <3>4, <4>2, <2>6
        <4> QED BY <4>1, <4>2, <2>3
      <3> QED BY <3>3, <3>4
    <2> HIDE DEF x, Shown
    <2> QED BY <2>1, <2>5, <2>7, <2>8, <2>9
  <1>8. N \in S
    <2> HIDE DEF S
    <2>1. \A n \in 0..N : n \in S
      BY <1>2, <1>6, <1>7, UpTo
    <2> QED BY <2>1, <1>2
  <1>9. PICK m : Shown(N, m) /\ Means(f[N], k, m) /\ Listed(f[N])
    <2> HIDE DEF Shown
    <2> QED BY <1>8
  <1>10. Listed(whole) /\ Means(whole, k, m)
    BY <1>2, <1>5, <1>9, MeansFollowed, ListedConcat
  <1>11. \/ m = Absent /\ \A i \in 1..N : v.members[i].key # k
         \/ \E j \in 1..N : /\ v.members[j].key = k /\ \A h \in 1..N : h > j => v.members[h].key # k
                            /\ m = Rewritten(v, inside, j).value.semantic
    BY <1>9 DEF key, R
  <1> QED BY <1>10, <1>11 DEF whole, N

-----------------------------------------------------------------------------
(* Clean merges *)

\* x has the change of the side that has one.
Follows(sb, so, st, x) ==
  /\ so = st => x = so
  /\ so = sb => x = st
  /\ st = sb => x = so
Apart(sb, so, st) == so # st /\ so # sb /\ st # sb

\* A key without conflict: its members are merged, or one side wins.
LEMMA MembersResolved ==
  ASSUME NEW b, NEW o, NEW t, NEW k, NEW p, NEW inside,
         MergeThreeMembers(b, o, t, k, p, inside).conflicts = {}
  PROVE  LET sb == At(b.semantic, k)
             so == At(o.semantic, k)
             st == At(t.semantic, k)
             x == MergeThreeMembers(b, o, t, k, p, inside)
         IN  \/ Absent \notin {sb, so, st} /\ x = inside
             \/ Absent \in {sb, so, st} /\ Follows(sb, so, st, x.value) /\ ~Apart(sb, so, st)
  <1> DEFINE sb == At(b.semantic, k)
             so == At(o.semantic, k)
             st == At(t.semantic, k)
             here == Append(p, k)
             x == MergeThreeMembers(b, o, t, k, p, inside)
             y == [Planned(st) EXCEPT !.adds = <<AddMember(p, FirstMember(t, k), AtEnd)>>]
  <1>1. x = IF sb = Absent /\ st = Absent THEN Planned(so)
            ELSE IF sb = Absent /\ so = Absent THEN y
            ELSE IF sb = Absent /\ so = st THEN Planned(so)
            ELSE IF so = Absent /\ st = Absent THEN Planned(Absent)
            ELSE IF so = Absent /\ sb = st THEN Planned(Absent)
            ELSE IF st = Absent /\ sb = so THEN Conflicting(Absent, here, "delete_requires_owner_edit")
            ELSE IF Absent \notin {sb, so, st} THEN inside
            ELSE Conflicting(Absent, here, "ambiguous_owner_change")
    BY DEF MergeThreeMembers
  <1>2. x.conflicts = {}
    OBVIOUS
  <1>3. \A v, q, c : Conflicting(v, q, c).conflicts # {}
    BY DEF Conflicting, Planned
  <1>4. (\A v : Planned(v).value = v) /\ y.value = st
    BY DEF Planned
  <1> HIDE DEF sb, so, st, here, x, y
  <1>5. \/ Absent \notin {sb, so, st} /\ x = inside
        \/ Absent \in {sb, so, st} /\ Follows(sb, so, st, x.value) /\ ~Apart(sb, so, st)
    <2>1. CASE sb = Absent /\ st = Absent
      BY <1>1, <1>4, <2>1 DEF Follows, Apart
    <2>2. CASE ~(sb = Absent /\ st = Absent) /\ sb = Absent /\ so = Absent
      BY <1>1, <1>4, <2>2 DEF Follows, Apart
    <2>3. CASE sb = Absent /\ so # Absent /\ st # Absent
      BY <1>1, <1>2, <1>3, <1>4, <2>3 DEF Follows, Apart
    <2>4. CASE sb # Absent /\ so = Absent
      BY <1>1, <1>2, <1>3, <1>4, <2>4 DEF Follows, Apart
    <2>5. CASE sb # Absent /\ so # Absent /\ st = Absent
      BY <1>1, <1>2, <1>3, <1>4, <2>5 DEF Follows, Apart
    <2>6. CASE sb # Absent /\ so # Absent /\ st # Absent
      BY <1>1, <2>6
    <2> QED BY <2>1, <2>2, <2>3, <2>4, <2>5, <2>6
  <1> QED BY <1>5 DEF sb, so, st, x

LEMMA SomeArrayConflict ==
  ASSUME NEW b, NEW o, NEW t, NEW p PROVE ArrayConflicts(b, o, t, p) # {}
  <1> DEFINE found == AnalyzeThreeWaySequence(JsonSequenceNodes(b.elements),
                        JsonSequenceNodes(o.elements), JsonSequenceNodes(t.elements))
             all == {[path |-> p, index |-> c.index, category |-> c.category] : c \in found}
             one == {[path |-> p, index |-> 0, category |-> "atomic_array_edit"]}
  <1>1. ArrayConflicts(b, o, t, p) = IF found = {} THEN one ELSE all
    BY DEF ArrayConflicts
  <1>2. found # {} => all # {}
    <2> HIDE DEF found
    <2> QED OBVIOUS
  <1>3. one # {}
    OBVIOUS
  <1> HIDE DEF found, all, one
  <1> QED BY <1>1, <1>2, <1>3

\* Three values without conflict: one side wins, or they are three objects
\* that are merged.
LEMMA ValuesResolved ==
  ASSUME NEW b, NEW o, NEW t, NEW p, NEW inside, MergeThree(b, o, t, p, inside).conflicts = {}
  PROVE  LET x == MergeThree(b, o, t, p, inside)
         IN  \/ ~Apart(b.semantic, o.semantic, t.semantic)
                /\ Follows(b.semantic, o.semantic, t.semantic, x.value)
             \/ /\ Apart(b.semantic, o.semantic, t.semantic)
                /\ Kind(b) = "object" /\ Kind(o) = "object" /\ Kind(t) = "object"
                /\ x = Joined([k \in Keys |-> MergeThreeMembers(b, o, t, k, p, inside[k])])
  <1> DEFINE sb == b.semantic
             so == o.semantic
             st == t.semantic
             kinds == {Kind(b), Kind(o), Kind(t)}
             x == MergeThree(b, o, t, p, inside)
             y == [Planned(st) EXCEPT !.edits = {[at |-> p, source |-> t]}]
             z == [Planned(so) EXCEPT !.conflicts = ArrayConflicts(b, o, t, p)]
             j == Joined([k \in Keys |-> MergeThreeMembers(b, o, t, k, p, inside[k])])
  <1>1. x = IF so = st THEN Planned(so)
            ELSE IF so = sb THEN y
            ELSE IF st = sb THEN Planned(so)
            ELSE IF kinds = {"array"} THEN z
            ELSE IF kinds # {"object"} THEN Conflicting(so, p, "modify_modify")
            ELSE j
    BY DEF MergeThree
  <1>2. x.conflicts = {}
    OBVIOUS
  <1>3. Conflicting(so, p, "modify_modify").conflicts # {}
    BY DEF Conflicting, Planned
  <1>4. z.conflicts # {}
    <2>1. z.conflicts = ArrayConflicts(b, o, t, p)
      BY DEF Planned
    <2> QED BY <2>1, SomeArrayConflict
  <1>5. (\A v : Planned(v).value = v) /\ y.value = st
    BY DEF Planned
  <1>6. kinds = {"object"} => Kind(b) = "object" /\ Kind(o) = "object" /\ Kind(t) = "object"
    OBVIOUS
  <1> HIDE DEF sb, so, st, kinds, x, y, z, j
  <1>7. \/ ~Apart(sb, so, st) /\ Follows(sb, so, st, x.value)
        \/ /\ Apart(sb, so, st) /\ kinds = {"object"} /\ x = j
    <2>1. CASE so = st \/ so = sb \/ st = sb
      BY <1>1, <1>5, <2>1 DEF Follows, Apart
    <2>2. CASE Apart(sb, so, st)
      BY <1>1, <1>2, <1>3, <1>4, <2>2 DEF Apart
    <2> QED BY <2>1, <2>2 DEF Apart
  <1> QED BY <1>6, <1>7 DEF sb, so, st, x, j

\* The parts of a joined plan without conflicts have none.
LEMMA PartsResolved ==
  ASSUME NEW parts, Joined(parts).conflicts = {}, NEW k \in Keys
  PROVE  /\ parts[k].conflicts = {}
         /\ Joined(parts).value.kind = "object" /\ At(Joined(parts).value, k) = parts[k].value
  <1>1. Joined(parts).conflicts = UNION {parts[l].conflicts : l \in Keys}
    BY DEF Joined
  <1>2. parts[k].conflicts \subseteq Joined(parts).conflicts
    BY <1>1
  <1>3. Joined(parts).value = [kind |-> "object", members |-> [l \in Keys |-> parts[l].value]]
    BY DEF Joined
  <1>4. Joined(parts).value.kind = "object"
        /\ Joined(parts).value.members = [l \in Keys |-> parts[l].value]
    BY <1>3
  <1>5. At(Joined(parts).value, k) = parts[k].value
    BY <1>4 DEF At
  <1> QED BY <1>2, <1>4, <1>5

\* A key that is repeated where lookups agree is a duplicate of the document.
LEMMA RepeatedThere ==
  ASSUME NEW v, IsDocument(v), NEW p \in Seq(Keys), SameThere(v, p), NEW k \in Keys,
         ~Only(ValueAt(v, p), k)
  PROVE  Append(p, k) \in DuplicateMemberPaths(v)
  <1> DEFINE w == ValueAt(v, p)
             node == <<p, w>>
             P == Positions(w, k)
  <1>1. IsBuilt(w) /\ node \in Nodes(v) /\ node[1] = p /\ node[2] = w
    <2>1. w # NoValue
      BY ObjectThere
    <2> QED BY <2>1, ReachedWhole DEF Whole
  <1>2. Len(w.members) \in Nat /\ DOMAIN w.members = 1..Len(w.members)
    BY <1>1, BuiltFacts
  <1>3. ~Only(w, k)
    OBVIOUS
  <1> HIDE DEF w, node
  <1>4. PICK i \in DOMAIN w.members, j \in DOMAIN w.members :
          w.members[i].key = k /\ w.members[j].key = k /\ i # j
    BY <1>3 DEF Only
  <1>5. P \subseteq 1..Len(w.members) /\ i \in P /\ j \in P
    BY <1>2, <1>4 DEF Positions
  <1>6. k \in KeysOf(w)
    BY <1>4 DEF KeysOf
  <1> HIDE DEF P
  <1>7. Cardinality(P) > 1
    <2>1. ~(Cardinality(P) <= 1)
      BY <1>2, <1>4, <1>5, AtMostOne
    <2>2. IsFiniteSet(P)
      <3>1. IsFiniteSet(1..Len(w.members))
        BY <1>2, FS_Interval
      <3> QED BY <3>1, <1>5, FS_Subset
    <2>3. Cardinality(P) \in Nat
      BY <2>2, FS_CardinalityType
    <2> QED BY <2>1, <2>3
  <1>8. k \in {x \in KeysOf(node[2]) : Cardinality(Positions(node[2], x)) > 1}
    BY <1>1, <1>6, <1>7 DEF P
  <1> DEFINE all == {Append(node[1], x) : x \in {y \in KeysOf(node[2]) : Cardinality(Positions(node[2], y)) > 1}}
  <1>9. Append(p, k) \in all
    BY <1>1, <1>8
  <1>10. all \subseteq DuplicateMemberPaths(v)
    BY <1>1 DEF DuplicateMemberPaths
  <1> QED BY <1>9, <1>10

\* Documents with the same values of a key mean the same for it.
LEMMA SameLists ==
  ASSUME NEW o, NEW t, IsDocument(o), IsDocument(t), NEW p \in Seq(Keys),
         SameThere(o, p), SameThere(t, p), NEW k \in Keys,
         MemberValuesAtPath(o, Append(p, k)) = MemberValuesAtPath(t, Append(p, k))
  PROVE  /\ At(ValueAt(o, p).semantic, k) = At(ValueAt(t, p).semantic, k)
         /\ MemberValue(ValueAt(o, p), k).semantic = MemberValue(ValueAt(t, p), k).semantic
  <1> DEFINE vo == ValueAt(o, p)
             vt == ValueAt(t, p)
             c == Children(vo, k)
             d == Children(vt, k)
  <1>1. Whole(vo) /\ IsBuilt(vo) /\ Kind(vo) = "object" /\ Descend(o, p) = <<vo>>
    BY ObjectThere DEF SameThere
  <1>2. Whole(vt) /\ IsBuilt(vt) /\ Kind(vt) = "object" /\ Descend(t, p) = <<vt>>
    BY ObjectThere DEF SameThere
  <1> HIDE DEF vo, vt
  <1>3. Descend(o, Append(p, k)) = c
    BY <1>1, OneBelow
  <1>4. Descend(t, Append(p, k)) = d
    BY <1>2, OneBelow
  <1>5. [i \in DOMAIN c |-> c[i].semantic] = [i \in DOMAIN d |-> d[i].semantic]
    BY <1>3, <1>4 DEF MemberValuesAtPath
  <1>6. InOrder(c, vo, k) /\ InOrder(d, vt, k)
    <2>1. InOrder(c, vo, k)
      BY <1>1, ChildrenInOrder
    <2>2. InOrder(d, vt, k)
      BY <1>2, ChildrenInOrder
    <2> QED BY <2>1, <2>2
  <1> HIDE DEF c, d
  <1>7. DOMAIN c = DOMAIN d /\ \A i \in DOMAIN c : c[i].semantic = d[i].semantic
    <2> DEFINE x == [i \in DOMAIN c |-> c[i].semantic]
               y == [i \in DOMAIN d |-> d[i].semantic]
    <2>1. DOMAIN x = DOMAIN c /\ DOMAIN y = DOMAIN d
      OBVIOUS
    <2>2. DOMAIN c = DOMAIN d
      BY <2>1, <1>5
    <2>3. \A i \in DOMAIN c : x[i] = c[i].semantic /\ y[i] = d[i].semantic
      BY <2>2
    <2> HIDE DEF x, y
    <2> QED BY <2>2, <2>3, <1>5 DEF x, y
  <1>8. Len(c) = Len(d) /\ Len(c) \in Nat /\ DOMAIN c = 1..Len(c)
    <2>1. Len(c) \in Nat /\ DOMAIN c = 1..Len(c) /\ Len(d) \in Nat /\ DOMAIN d = 1..Len(d)
      BY <1>6 DEF InOrder
    <2>2. 1..Len(c) = 1..Len(d)
      BY <2>1, <1>7
    <2>3. Len(c) = Len(d)
      <3> DEFINE m == Len(c)
                 n == Len(d)
      <3>1. m \in Nat /\ n \in Nat /\ 1..m = 1..n
        BY <2>1, <2>2
      <3> HIDE DEF m, n
      <3>2. n \in 1..n => n \in 1..m
        BY <3>1
      <3>3. m \in 1..m => m \in 1..n
        BY <3>1
      <3>4. m = n
        BY <3>1, <3>2, <3>3
      <3> QED BY <3>4 DEF m, n
    <2> QED BY <2>1, <2>3
  <1>9. CASE Len(c) = 0
    <2>1. k \notin KeysOf(vo) /\ k \notin KeysOf(vt)
      BY <1>6, <1>8, <1>9 DEF InOrder
    <2>2. At(vo.semantic, k) = Absent /\ At(vt.semantic, k) = Absent
      BY <2>1, <1>1, <1>2, KeysMean
    <2> QED BY <2>1, <2>2 DEF MemberValue, vo, vt
  <1>10. CASE Len(c) # 0
    <2>1. 1 \in DOMAIN c /\ Len(c) \in DOMAIN c
      BY <1>8, <1>10
    <2>2. c[1].semantic = d[1].semantic /\ c[Len(c)].semantic = d[Len(c)].semantic
      BY <2>1, <1>7
    <2>3. c[1] = MemberValue(vo, k) /\ c[Len(c)].semantic = At(vo.semantic, k)
      BY <1>6, <1>10 DEF InOrder
    <2>4. d[1] = MemberValue(vt, k) /\ d[Len(c)].semantic = At(vt.semantic, k)
      BY <1>6, <1>8, <1>10 DEF InOrder
    <2> QED BY <2>2, <2>3, <2>4 DEF vo, vt
  <1> QED BY <1>9, <1>10

\* What the rendering of an object means for a key of its own.
LEMMA RenderedKey ==
  ASSUME NEW o, IsDocument(o), NEW x, Listed(x.adds), NEW g, Rendering(g, o, x),
         NEW p \in Seq(Keys), SameThere(o, p), \A e \in x.edits : e.at # p,
         NEW k \in KeysOf(ValueAt(o, p)), NotAdded(x.adds, p, k)
  PROVE  At(g[p].semantic, k) = IF Only(ValueAt(o, p), k) THEN g[Append(p, k)].semantic
                                ELSE At(ValueAt(o, p).semantic, k)
  <1> DEFINE w == ValueAt(o, p)
             inside == Inside(g, p)
             R == RenderMembers(w, x, p, inside)
             notes == IF WrittenAnew(w, AddedAt(x, p)) THEN {} ELSE w.notes
  <1>1. IsBuilt(w) /\ Kind(w) = "object"
    BY ObjectThere
  <1>2. Len(w.members) \in Nat /\ DOMAIN w.members = 1..Len(w.members) /\ k \in Keys
    BY <1>1, BuiltFacts
  <1>3. g[p] = Object(R, w.inline, notes)
    <2>1. g[p] = Render(w, x, p, inside)
      BY DEF Rendering, RenderAt
    <2>2. {e \in x.edits : e.at = p} = {}
      OBVIOUS
    <2> HIDE DEF w, inside
    <2> QED BY <2>1, <2>2, <1>1 DEF Render
  <1>4. inside[k] = g[Append(p, k)]
    BY <1>2 DEF Inside
  <1>5. k \in KeysOf(w)
    OBVIOUS
  <1> HIDE DEF w, notes, inside
  <1>6. At(g[p].semantic, k) = MeaningOf(R)[k]
    <2>1. g[p].semantic = [kind |-> "object", members |-> MeaningOf(R)]
      BY <1>3 DEF Object
    <2> HIDE DEF R
    <2> QED BY <2>1, <1>2 DEF At
  <1>7. /\ Listed(R)
        /\ \/ /\ Means(R, k, Absent)
              /\ \A i \in 1..Len(w.members) : w.members[i].key # k
           \/ \E j \in 1..Len(w.members) :
                /\ w.members[j].key = k /\ \A h \in 1..Len(w.members) : h > j => w.members[h].key # k
                /\ Means(R, k, Rewritten(w, inside, j).value.semantic)
    BY <1>2, MembersMean
  <1> HIDE DEF R
  <1>8. Len(R) \in Nat /\ DOMAIN R = 1..Len(R)
    BY <1>7, ListedFacts
  <1>9. PICK j \in 1..Len(w.members) :
          /\ w.members[j].key = k /\ \A h \in 1..Len(w.members) : h > j => w.members[h].key # k
          /\ Means(R, k, Rewritten(w, inside, j).value.semantic)
    BY <1>2, <1>5, <1>7 DEF KeysOf
  <1>10. MeaningOf(R)[k] = Rewritten(w, inside, j).value.semantic
    <2>1. Means(R, k, MeaningOf(R)[k])
      BY <1>2, <1>8, MeaningMeans
    <2> QED BY <2>1, <1>8, <1>9, MeansOne
  <1> DEFINE i == Min(Positions(w, k))
  <1>11. /\ i \in 1..Len(w.members) /\ w.members[i].key = k
         /\ \A h \in 1..Len(w.members) : w.members[h].key = k => i =< h
    BY <1>1, <1>2, <1>5, FirstFacts
  <1> HIDE DEF i
  <1>12. CASE Only(w, k)
    <2>1. j = i
      BY <1>2, <1>9, <1>11, <1>12 DEF Only
    <2>2. Rewritten(w, inside, j) = [key |-> k, value |-> inside[k]]
      BY <2>1, <1>9 DEF Rewritten, i
    <2> QED BY <2>2, <1>4, <1>6, <1>10, <1>12 DEF w
  <1>13. CASE ~Only(w, k)
    <2>1. PICK h \in 1..Len(w.members), l \in 1..Len(w.members) :
            w.members[h].key = k /\ w.members[l].key = k /\ h # l
      BY <1>2, <1>13 DEF Only
    <2>2. j # i
      <3>1. i =< h /\ i =< l /\ ~(h > j) /\ ~(l > j)
        BY <2>1, <1>9, <1>11
      <3> QED BY <3>1, <2>1, <1>11
    <2>3. Rewritten(w, inside, j) = w.members[j]
      BY <2>2, <1>9 DEF Rewritten, i
    <2>4. At(w.semantic, k) = w.members[j].value.semantic
      <3>1. Means(w.members, k, At(w.semantic, k))
        BY <1>1, <1>2, MeaningIs
      <3>2. Means(w.members, k, w.members[j].value.semantic)
        BY <1>9, <1>2 DEF Means
      <3> QED BY <3>1, <3>2, <1>2, MeansOne
    <2> QED BY <2>3, <2>4, <1>6, <1>10, <1>13 DEF w
  <1> QED BY <1>12, <1>13

\* Values of a member that ours and theirs agree on wherever it is repeated.
Settled(i) ==
  \A p \in Duplicates(i) : MemberValuesAtPath(i.ours, p) = MemberValuesAtPath(i.theirs, p)

LEMMA SettledInput ==
  ASSUME input.lane \in {"typed", "untyped"}, ~Contested,
         IF input.lane = "typed" THEN ChangedByOneSide(input) = {} ELSE Duplicates(input) = {}
  PROVE  Settled(input)
  <1>1. CASE Duplicates(input) = {}
    BY <1>1 DEF Settled
  <1>2. CASE input.lane = "typed" /\ ChangedByOneSide(input) = {} /\ ContestedPaths(input) = {}
    <2>1. ASSUME NEW p \in Duplicates(input)
          PROVE  MemberValuesAtPath(input.ours, p) = MemberValuesAtPath(input.theirs, p)
      <3> DEFINE b == MemberValuesAtPath(input.base, p)
                 o == MemberValuesAtPath(input.ours, p)
                 t == MemberValuesAtPath(input.theirs, p)
      <3>1. ~(o # b /\ t # b /\ o # t)
        <4>1. p \notin ContestedPaths(input)
          BY <1>2
        <4> QED BY <4>1 DEF ContestedPaths
      <3>2. (o = b) = (t = b)
        <4>1. p \notin ChangedByOneSide(input)
          BY <1>2
        <4> QED BY <4>1 DEF ChangedByOneSide
      <3> HIDE DEF b, o, t
      <3>3. o = t
        BY <3>1, <3>2
      <3> QED BY <3>3 DEF o, t
    <2> QED BY <2>1 DEF Settled
  <1> QED BY <1>1, <1>2 DEF Contested

\* The prefixes of a path with one more key.
LEMMA PathPrefixes ==
  ASSUME NEW p \in Seq(Keys), NEW k \in Keys
  PROVE  /\ \A n \in 0..Len(p) : SubSeq(Append(p, k), 1, n) = SubSeq(p, 1, n)
         /\ SubSeq(p, 1, Len(p)) = p
         /\ Len(p) \in Nat /\ Len(Append(p, k)) = Len(p) + 1
  <1> DEFINE q == Append(p, k)
             N == Len(p)
  <1>1. N \in Nat /\ Len(q) = N + 1 /\ q \in Seq(Keys)
    OBVIOUS
  <1>2. \A n \in 0..N : SubSeq(q, 1, n) = SubSeq(p, 1, n)
    <2> TAKE n \in 0..N
    <2> DEFINE x == SubSeq(q, 1, n)
               y == SubSeq(p, 1, n)
    <2>1. /\ x \in Seq(Keys) /\ Len(x) = n /\ y \in Seq(Keys) /\ Len(y) = n
          /\ (\A i \in 1..n : x[i] = q[i]) /\ \A i \in 1..n : y[i] = p[i]
      BY <1>1
    <2>2. \A i \in 1..n : q[i] = p[i]
      OBVIOUS
    <2> HIDE DEF x, y, q
    <2>3. \A i \in 1..n : x[i] = y[i]
      BY <2>1, <2>2
    <2>4. x = y
      BY <2>1, <2>3, SeqEqual
    <2> QED BY <2>4 DEF x, y, q
  <1>3. SubSeq(p, 1, N) = p
    OBVIOUS
  <1> QED BY <1>1, <1>2, <1>3

\* Both sides changed all that leads to a path.
Along(b, o, t, p) ==
  \A n \in 0..(Len(p) - 1) : Diverged(b.semantic, o.semantic, t.semantic, SubSeq(p, 1, n))

LEMMA AlongAppend ==
  ASSUME NEW b, NEW o, NEW t, NEW p \in Seq(Keys), NEW k \in Keys, Along(b, o, t, Append(p, k))
  PROVE  Along(b, o, t, p) /\ Diverged(b.semantic, o.semantic, t.semantic, p)
  <1> DEFINE q == Append(p, k)
             N == Len(p)
             D(x) == Diverged(b.semantic, o.semantic, t.semantic, x)
  <1>1. N \in Nat /\ Len(q) = N + 1
    BY PathPrefixes
  <1>2. \A n \in 0..N : SubSeq(q, 1, n) = SubSeq(p, 1, n)
    BY PathPrefixes
  <1>3. SubSeq(p, 1, N) = p
    BY PathPrefixes
  <1>4. \A n \in 0..((N + 1) - 1) : D(SubSeq(q, 1, n))
    BY <1>1 DEF Along
  <1> HIDE DEF q, D
  <1>5. \A n \in 0..N : n \in 0..((N + 1) - 1)
    BY <1>1
  <1>6. \A n \in 0..N : D(SubSeq(p, 1, n))
    BY <1>2, <1>4, <1>5
  <1>7. D(p)
    <2>1. N \in 0..N
      BY <1>1
    <2> QED BY <2>1, <1>3, <1>6
  <1>8. \A n \in 0..(N - 1) : n \in 0..N
    BY <1>1
  <1>9. \A n \in 0..(N - 1) : D(SubSeq(p, 1, n))
    BY <1>6, <1>8
  <1> QED BY <1>7, <1>9 DEF D, Along

\* A clean merge of three documents: f are the plans of its paths, g what is
\* rendered there, x the whole plan.
CleanMerge(b, o, t, f, g, x) ==
  /\ IsDocument(b) /\ IsDocument(o) /\ IsDocument(t)
  /\ \A p \in DuplicateMemberPaths(b) \cup DuplicateMemberPaths(o) \cup DuplicateMemberPaths(t) :
       MemberValuesAtPath(o, p) = MemberValuesAtPath(t, p)
  /\ Merging(f, b, o, t) /\ Rendering(g, o, x)
  /\ f[<<>>] = x /\ x.conflicts = {} /\ g[<<>>].semantic = x.value

\* What is true of a path that both sides changed all the way.
HasThreeWayValue(b, o, t, v, p) ==
  LET mb == MeaningAt(b.semantic, p)
      mo == MeaningAt(o.semantic, p)
      mt == MeaningAt(t.semantic, p)
  IN  /\ Follows(mb, mo, mt, MeaningAt(v, p))
      /\ Apart(mb, mo, mt) => {mb.kind, mo.kind, mt.kind, MeaningAt(v, p).kind} = {"object"}

\* Where both sides changed an object, all there is meets the lookups: the
\* three values, what is planned and what is rendered.
Meets(b, o, t, f, g, v, p) ==
  /\ SameThere(b, p) /\ SameThere(o, p) /\ SameThere(t, p)
  /\ f[p].conflicts = {} /\ f[p].value = MeaningAt(v, p) /\ g[p].semantic = MeaningAt(v, p)

OnTheWay(b, o, t, f, g, v, p) ==
  /\ HasThreeWayValue(b, o, t, v, p)
  /\ Diverged(b.semantic, o.semantic, t.semantic, p) => Meets(b, o, t, f, g, v, p)

LEMMA DivergedApart ==
  ASSUME NEW b, NEW o, NEW t, NEW p
  PROVE  Diverged(b.semantic, o.semantic, t.semantic, p)
           <=> Apart(MeaningAt(b.semantic, p), MeaningAt(o.semantic, p), MeaningAt(t.semantic, p))
  BY DEF Diverged, Apart

\* Where lookups find what counts, a plan without conflict is the three-way
\* merge.
LEMMA PlanValue ==
  ASSUME NEW b, NEW o, NEW t, NEW f, Merging(f, b, o, t), NEW p \in Seq(Keys), NEW v,
         ValueAt(b, p).semantic = MeaningAt(b.semantic, p),
         ValueAt(o, p).semantic = MeaningAt(o.semantic, p),
         ValueAt(t, p).semantic = MeaningAt(t.semantic, p),
         f[p].conflicts = {}, f[p].value = MeaningAt(v, p)
  PROVE  HasThreeWayValue(b, o, t, v, p)
  <1> DEFINE vb == ValueAt(b, p)
             vo == ValueAt(o, p)
             vt == ValueAt(t, p)
             parts == [k \in Keys |-> MergeThreeMembers(vb, vo, vt, k, p, Inside(f, p)[k])]
  <1>1. f[p] = MergeThree(vb, vo, vt, p, Inside(f, p))
    BY DEF Merging, MergeAt
  <1>2. \/ /\ ~Apart(vb.semantic, vo.semantic, vt.semantic)
           /\ Follows(vb.semantic, vo.semantic, vt.semantic, f[p].value)
        \/ /\ Apart(vb.semantic, vo.semantic, vt.semantic)
           /\ Kind(vb) = "object" /\ Kind(vo) = "object" /\ Kind(vt) = "object"
           /\ f[p] = Joined(parts)
    <2> DEFINE i == Inside(f, p)
    <2>1. MergeThree(vb, vo, vt, p, i).conflicts = {}
      BY <1>1
    <2> HIDE DEF i, vb, vo, vt
    <2> QED BY <1>1, <2>1, ValuesResolved DEF i
  <1>3. f[p] = Joined(parts) => f[p].value.kind = "object"
    <2> HIDE DEF parts
    <2>1. Joined(parts).value = [kind |-> "object", members |-> [k \in Keys |-> parts[k].value]]
      BY DEF Joined
    <2>2. Joined(parts).value.kind = "object"
      BY <2>1
    <2> QED BY <2>2
  <1> HIDE DEF parts
  <1>4. CASE ~Apart(vb.semantic, vo.semantic, vt.semantic)
    BY <1>2, <1>4 DEF HasThreeWayValue
  <1>5. CASE Apart(vb.semantic, vo.semantic, vt.semantic)
    <2>1. Follows(vb.semantic, vo.semantic, vt.semantic, f[p].value)
      BY <1>5 DEF Apart, Follows
    <2>2. vb.semantic.kind = "object" /\ vo.semantic.kind = "object" /\ vt.semantic.kind = "object"
          /\ f[p].value.kind = "object"
      BY <1>2, <1>3, <1>5 DEF Kind
    <2> QED BY <2>1, <2>2 DEF HasThreeWayValue
  <1> QED BY <1>4, <1>5

\* A clean plan leaves alone what both sides changed, and what ours has.
LEMMA LeftAlone ==
  ASSUME NEW b, NEW o, NEW t, NEW f, NEW g, NEW x, CleanMerge(b, o, t, f, g, x), NEW p \in Seq(Keys),
         ValueAt(o, p).semantic # ValueAt(b, p).semantic,
         NEW k \in Keys, At(ValueAt(o, p).semantic, k) # Absent
  PROVE  Listed(x.adds) /\ (\A e \in x.edits : e.at # p) /\ NotAdded(x.adds, p, k)
  <1>1. PartPlan(x, b, o, t, <<>>)
    <2>1. \A r \in Seq(Keys) : PartPlan(f[r], b, o, t, r)
      BY PlanParts DEF CleanMerge
    <2>2. <<>> \in Seq(Keys)
      OBVIOUS
    <2> QED BY <2>1, <2>2 DEF CleanMerge
  <1>2. \A e \in x.edits : e.at # p
    BY <1>1 DEF PartPlan, EditOf
  <1>3. NotAdded(x.adds, p, k)
    <2>1. SUFFICES ASSUME NEW a \in ToSet(x.adds), a.at = p, a.member.key = k PROVE FALSE
      BY DEF NotAdded
    <2>2. AddOf(a, b, o, t, <<>>)
      BY <1>1 DEF PartPlan
    <2> QED BY <2>1, <2>2 DEF AddOf
  <1> QED BY <1>1, <1>2, <1>3 DEF PartPlan

LEMMA CleanStep ==
  ASSUME NEW b, NEW o, NEW t, NEW f, NEW g, NEW x, CleanMerge(b, o, t, f, g, x), NEW v,
         NEW p \in Seq(Keys), NEW k \in Keys, Meets(b, o, t, f, g, v, p),
         Diverged(b.semantic, o.semantic, t.semantic, p)
  PROVE  OnTheWay(b, o, t, f, g, v, Append(p, k))
  <1> DEFINE q == Append(p, k)
             vb == ValueAt(b, p)
             vo == ValueAt(o, p)
             vt == ValueAt(t, p)
             sb == At(vb.semantic, k)
             so == At(vo.semantic, k)
             st == At(vt.semantic, k)
             mv == MeaningAt(v, q)
             parts == [l \in Keys |-> MergeThreeMembers(vb, vo, vt, l, p, Inside(f, p)[l])]
  <1>0. /\ SameThere(b, p) /\ SameThere(o, p) /\ SameThere(t, p)
        /\ IsDocument(b) /\ IsDocument(o) /\ IsDocument(t) /\ q \in Seq(Keys)
        /\ Merging(f, b, o, t) /\ Rendering(g, o, x)
    BY DEF Meets, CleanMerge
  <1>1. /\ ValueAt(b, q) = MemberValue(vb, k) /\ ValueAt(o, q) = MemberValue(vo, k)
        /\ ValueAt(t, q) = MemberValue(vt, k)
    BY ValueSteps
  <1>2. /\ MeaningAt(b.semantic, q) = sb /\ MeaningAt(o.semantic, q) = so
        /\ MeaningAt(t.semantic, q) = st /\ mv = At(MeaningAt(v, p), k)
    <2>1. \A m : MeaningAt(m, q) = At(MeaningAt(m, p), k)
      BY MeaningSteps
    <2> QED BY <2>1, <1>0 DEF SameThere
  <1>3. Apart(vb.semantic, vo.semantic, vt.semantic)
    BY <1>0 DEF SameThere, Diverged, Apart
  <1>4. f[p] = Joined(parts)
    <2> DEFINE i == Inside(f, p)
    <2>1. f[p] = MergeThree(vb, vo, vt, p, i) /\ f[p].conflicts = {}
      BY <1>0 DEF Merging, MergeAt, Meets
    <2> HIDE DEF i, vb, vo, vt
    <2>2. f[p] = Joined([l \in Keys |-> MergeThreeMembers(vb, vo, vt, l, p, i[l])])
      BY <2>1, <1>3, ValuesResolved
    <2> QED BY <2>2 DEF i
  <1>5. parts[k] = MergeThreeMembers(vb, vo, vt, k, p, f[q])
    BY DEF Inside
  <1> HIDE DEF vb, vo, vt, parts
  <1>6. parts[k].conflicts = {} /\ mv = parts[k].value
    <2>1. Joined(parts).conflicts = {} /\ Joined(parts).value = MeaningAt(v, p)
      BY <1>4 DEF Meets
    <2> QED BY <2>1, <1>2, PartsResolved
  <1>7. \/ Absent \notin {sb, so, st} /\ parts[k] = f[q]
        \/ Absent \in {sb, so, st} /\ Follows(sb, so, st, mv) /\ ~Apart(sb, so, st)
    <2> DEFINE z == MergeThreeMembers(vb, vo, vt, k, p, f[q])
    <2>1. z.conflicts = {}
      BY <1>5, <1>6
    <2>2. \/ Absent \notin {sb, so, st} /\ z = f[q]
          \/ Absent \in {sb, so, st} /\ Follows(sb, so, st, z.value) /\ ~Apart(sb, so, st)
      BY <2>1, MembersResolved
    <2> HIDE DEF z, sb, so, st
    <2> QED BY <2>2, <1>5, <1>6 DEF z
  <1>8. Diverged(b.semantic, o.semantic, t.semantic, q) <=> Apart(sb, so, st)
    BY <1>2 DEF Diverged, Apart
  <1> HIDE DEF q, mv, sb, so, st
  <1>9. CASE Absent \in {sb, so, st}
    <2>1. Follows(sb, so, st, mv) /\ ~Apart(sb, so, st)
      BY <1>7, <1>9
    <2>2. HasThreeWayValue(b, o, t, v, q)
      BY <2>1, <1>2 DEF HasThreeWayValue, mv
    <2> QED BY <2>1, <2>2, <1>8 DEF OnTheWay, q
  <1>10. CASE Absent \notin {sb, so, st}
    <2>1. f[q].conflicts = {} /\ f[q].value = mv
      BY <1>6, <1>7, <1>10
    <2>2. Listed(x.adds) /\ (\A e \in x.edits : e.at # p) /\ NotAdded(x.adds, p, k)
      <3>1. ValueAt(o, p).semantic # ValueAt(b, p).semantic
        BY <1>3 DEF Apart, vo, vb
      <3>2. At(ValueAt(o, p).semantic, k) # Absent
        BY <1>10 DEF so, vo
      <3> QED BY <3>1, <3>2, LeftAlone
    <2>3. k \in KeysOf(vo)
      <3>1. At(ValueAt(o, p).semantic, k) # Absent
        BY <1>10 DEF so, vo
      <3> QED BY <3>1, <1>0, KeysReached DEF vo
    <2>4. mv = IF Only(vo, k) THEN g[q].semantic ELSE so
      <3>1. At(g[p].semantic, k) = IF Only(ValueAt(o, p), k) THEN g[Append(p, k)].semantic
                                   ELSE At(ValueAt(o, p).semantic, k)
        BY <2>2, <2>3, <1>0, RenderedKey DEF vo
      <3>2. At(g[p].semantic, k) = mv
        BY <1>2 DEF Meets
      <3> QED BY <3>1, <3>2 DEF vo, so, q
    <2>5. CASE Only(vb, k) /\ Only(vo, k) /\ Only(vt, k)
      <3>1. /\ MeaningAt(b.semantic, q) = ValueAt(b, q).semantic
            /\ MeaningAt(b.semantic, q).kind = "object" => SameThere(b, q)
        BY <2>5, <1>0, SameBelow DEF vb, q
      <3>2. /\ MeaningAt(o.semantic, q) = ValueAt(o, q).semantic
            /\ MeaningAt(o.semantic, q).kind = "object" => SameThere(o, q)
        BY <2>5, <1>0, SameBelow DEF vo, q
      <3>3. /\ MeaningAt(t.semantic, q) = ValueAt(t, q).semantic
            /\ MeaningAt(t.semantic, q).kind = "object" => SameThere(t, q)
        BY <2>5, <1>0, SameBelow DEF vt, q
      <3>4. HasThreeWayValue(b, o, t, v, q)
        BY <3>1, <3>2, <3>3, <2>1, <1>0, PlanValue DEF mv
      <3>5. ASSUME Apart(sb, so, st) PROVE Meets(b, o, t, f, g, v, q)
        <4>1. {sb.kind, so.kind, st.kind, mv.kind} = {"object"}
          BY <3>4, <3>5, <1>2 DEF HasThreeWayValue, mv
        <4>2. sb.kind = "object" /\ so.kind = "object" /\ st.kind = "object"
          BY <4>1
        <4>3. SameThere(b, q) /\ SameThere(o, q) /\ SameThere(t, q)
          BY <4>2, <3>1, <3>2, <3>3, <1>2
        <4> QED BY <4>3, <2>1, <2>4, <2>5 DEF Meets, mv
      <3> QED BY <3>4, <3>5, <1>8 DEF OnTheWay, q
    <2>6. CASE ~(Only(vb, k) /\ Only(vo, k) /\ Only(vt, k))
      <3>1. q \in DuplicateMemberPaths(b) \cup DuplicateMemberPaths(o) \cup DuplicateMemberPaths(t)
        <4>1. CASE ~Only(vb, k)
          BY <4>1, <1>0, RepeatedThere DEF vb, q
        <4>2. CASE ~Only(vo, k)
          BY <4>2, <1>0, RepeatedThere DEF vo, q
        <4>3. CASE ~Only(vt, k)
          BY <4>3, <1>0, RepeatedThere DEF vt, q
        <4> QED BY <4>1, <4>2, <4>3, <2>6
      <3>2. MemberValuesAtPath(o, q) = MemberValuesAtPath(t, q)
        BY <3>1 DEF CleanMerge
      <3>3. so = st /\ ValueAt(o, q).semantic = ValueAt(t, q).semantic
        <4>1. /\ At(ValueAt(o, p).semantic, k) = At(ValueAt(t, p).semantic, k)
              /\ MemberValue(ValueAt(o, p), k).semantic = MemberValue(ValueAt(t, p), k).semantic
          BY <3>2, <1>0, SameLists DEF q
        <4> QED BY <4>1, <1>1 DEF so, st, vo, vt
      <3>4. mv = ValueAt(o, q).semantic
        <4>1. f[q] = MergeThree(ValueAt(b, q), ValueAt(o, q), ValueAt(t, q), q, Inside(f, q))
          BY <1>0 DEF Merging, MergeAt
        <4>2. f[q] = Planned(ValueAt(o, q).semantic)
          BY <4>1, <3>3 DEF MergeThree
        <4> QED BY <4>2, <2>1 DEF Planned
      <3>5. mv = so
        <4>1. CASE Only(vo, k)
          <5>1. MeaningAt(o.semantic, q) = ValueAt(o, q).semantic
            BY <4>1, <1>0, SameBelow DEF vo, q
          <5> QED BY <5>1, <3>4, <1>2
        <4>2. CASE ~Only(vo, k)
          BY <4>2, <2>4
        <4> QED BY <4>1, <4>2
      <3>6. Follows(sb, so, st, mv) /\ ~Apart(sb, so, st)
        BY <3>3, <3>5 DEF Follows, Apart
      <3>7. HasThreeWayValue(b, o, t, v, q)
        BY <3>6, <1>2 DEF HasThreeWayValue, mv
      <3> QED BY <3>6, <3>7, <1>8 DEF OnTheWay, q
    <2> QED BY <2>5, <2>6
  <1> QED BY <1>9, <1>10

LEMMA CleanRoot ==
  ASSUME NEW b, NEW o, NEW t, NEW f, NEW g, NEW x, CleanMerge(b, o, t, f, g, x)
  PROVE  OnTheWay(b, o, t, f, g, x.value, <<>>)
  <1>1. <<>> \in Seq(Keys)
    OBVIOUS
  <1>2. \A m : MeaningAt(m, <<>>) = m
    BY MeaningSteps
  <1>3. \A m : ValueAt(m, <<>>) = m /\ Descend(m, <<>>) = <<m>>
    BY ValueSteps, DescendSteps
  <1>4. HasThreeWayValue(b, o, t, x.value, <<>>)
    <2>1. f[<<>>].conflicts = {} /\ f[<<>>].value = MeaningAt(x.value, <<>>)
      BY <1>2 DEF CleanMerge
    <2>2. /\ ValueAt(b, <<>>).semantic = MeaningAt(b.semantic, <<>>)
          /\ ValueAt(o, <<>>).semantic = MeaningAt(o.semantic, <<>>)
          /\ ValueAt(t, <<>>).semantic = MeaningAt(t.semantic, <<>>)
      BY <1>2, <1>3
    <2>3. Merging(f, b, o, t)
      BY DEF CleanMerge
    <2> QED BY <1>1, <2>1, <2>2, <2>3, PlanValue
  <1>5. ASSUME Diverged(b.semantic, o.semantic, t.semantic, <<>>)
        PROVE  Meets(b, o, t, f, g, x.value, <<>>)
    <2>1. {b.semantic.kind, o.semantic.kind, t.semantic.kind, x.value.kind} = {"object"}
      BY <1>2, <1>4, <1>5 DEF HasThreeWayValue, Diverged, Apart
    <2>2. Kind(b) = "object" /\ Kind(o) = "object" /\ Kind(t) = "object"
      BY <2>1 DEF Kind
    <2>3. SameThere(b, <<>>) /\ SameThere(o, <<>>) /\ SameThere(t, <<>>)
      BY <2>2, <1>2, <1>3 DEF SameThere
    <2> QED BY <2>3, <1>2 DEF Meets, CleanMerge
  <1> QED BY <1>4, <1>5 DEF OnTheWay

LEMMA CleanPaths ==
  ASSUME NEW b, NEW o, NEW t, NEW f, NEW g, NEW x, CleanMerge(b, o, t, f, g, x)
  PROVE  \A p \in Seq(Keys) : Along(b, o, t, p) => OnTheWay(b, o, t, f, g, x.value, p)
  <1> DEFINE T == {p \in Seq(Keys) : Along(b, o, t, p) => OnTheWay(b, o, t, f, g, x.value, p)}
  <1>1. <<>> \in T
    BY CleanRoot
  <1>2. ASSUME NEW p \in Seq(Keys), NEW k \in Keys, p \in T PROVE Append(p, k) \in T
    <2>1. SUFFICES ASSUME Along(b, o, t, Append(p, k))
                   PROVE  OnTheWay(b, o, t, f, g, x.value, Append(p, k))
      OBVIOUS
    <2>2. Along(b, o, t, p) /\ Diverged(b.semantic, o.semantic, t.semantic, p)
      BY <2>1, AlongAppend
    <2>3. Meets(b, o, t, f, g, x.value, p)
      BY <2>2, <1>2 DEF OnTheWay
    <2> QED BY <2>2, <2>3, CleanStep
  <1>3. \A p \in Seq(Keys) : p \in T
    <2> HIDE DEF T
    <2> QED BY <1>1, <1>2, Downwards
  <1> QED BY <1>3

LEMMA KeyPathsAre == KeyPaths \subseteq Seq(Keys)
  BY DEF KeyPaths, BoundedSeq, SeqOf

\* A path with one more key is a path.
LEMMA GrownPath ==
  ASSUME NEW p \in Seq(Keys), NEW k \in Keys
  PROVE  Append(p, k) # <<>> /\ Append(p, k) \in Seq(Keys)
<1>1. Append(p, k) \in Seq(Keys)
  OBVIOUS
<1>2. Len(Append(p, k)) = Len(p) + 1 /\ Len(p) \in Nat
  OBVIOUS
<1>3. Len(<<>>) = 0
  OBVIOUS
<1>4. Append(p, k) # <<>>
  BY <1>2, <1>3
<1> QED BY <1>1, <1>4

\* Every clean merge of three revisions.
LEMMA CleanMerges == Inv => CleanIsThreeWayMerge
  <1> SUFFICES ASSUME Inv, outcome = "clean", input.lane # "template",
                      IF input.lane = "typed" THEN ChangedByOneSide(input) = {}
                      ELSE Duplicates(input) = {}
               PROVE  IsThreeWayMerge(input.base.semantic, input.ours.semantic,
                                      input.theirs.semantic, rendered.semantic)
    BY DEF CleanIsThreeWayMerge
  <1> DEFINE b == input.base
             o == input.ours
             t == input.theirs
             v == rendered.semantic
  <1>1. IsDocument(b) /\ IsDocument(o) /\ IsDocument(t) /\ input.lane \in {"typed", "untyped"}
    BY DEF Inv, InputInv, Lanes
  <1>2. Candidate /\ v = plan.value
    BY DEF Inv, PhaseInv, Accepts
  <1>3. SUFFICES \A p \in Seq(Keys) : Along(b, o, t, p) => HasThreeWayValue(b, o, t, v, p)
    <2>1. ASSUME NEW p \in KeyPaths,
                 \A n \in 0..(Len(p) - 1) : Diverged(b.semantic, o.semantic, t.semantic, SubSeq(p, 1, n))
          PROVE  LET mb == MeaningAt(b.semantic, p)
                     mo == MeaningAt(o.semantic, p)
                     mt == MeaningAt(t.semantic, p)
                     mv == MeaningAt(v, p)
                 IN  /\ mo = mt => mv = mo
                     /\ mo = mb => mv = mt
                     /\ mt = mb => mv = mo
                     /\ Diverged(b.semantic, o.semantic, t.semantic, p)
                          => {mb.kind, mo.kind, mt.kind, mv.kind} = {"object"}
      <3>1. HasThreeWayValue(b, o, t, v, p)
        BY <1>3, <2>1, KeyPathsAre DEF Along
      <3> QED BY <3>1, DivergedApart DEF HasThreeWayValue, Follows
    <2> HIDE DEF b, o, t, v
    <2>2. IsThreeWayMerge(b.semantic, o.semantic, t.semantic, v)
      BY <2>1 DEF IsThreeWayMerge
    <2> QED BY <2>2 DEF b, o, t, v
  <1>4. CASE IsSelected
    <2>1. v = Selected[1].semantic /\ Selected # <<>>
      BY <1>4 DEF IsSelected
    <2>2. ~Apart(b.semantic, o.semantic, t.semantic) /\ Follows(b.semantic, o.semantic, t.semantic, v)
      BY <2>1 DEF Selected, Apart, Follows
    <2> DEFINE T == {p \in Seq(Keys) : IF p = <<>> THEN HasThreeWayValue(b, o, t, v, p)
                                       ELSE ~Along(b, o, t, p)}
    <2> HIDE DEF b, o, t, v
    <2>3. \A m : MeaningAt(m, <<>>) = m
      BY MeaningSteps
    <2>4. <<>> \in T
      BY <2>2, <2>3 DEF HasThreeWayValue
    <2>5. ASSUME NEW p \in Seq(Keys), NEW k \in Keys, p \in T PROVE Append(p, k) \in T
      <3>1. Append(p, k) # <<>> /\ Append(p, k) \in Seq(Keys)
        BY GrownPath
      <3>2. ~Along(b, o, t, Append(p, k))
        <4>1. SUFFICES ASSUME Along(b, o, t, Append(p, k)) PROVE FALSE
          OBVIOUS
        <4>2. Along(b, o, t, p) /\ Diverged(b.semantic, o.semantic, t.semantic, p)
          BY <4>1, AlongAppend
        <4>3. p = <<>>
          BY <4>2, <2>5
        <4> QED BY <4>2, <4>3, <2>2, <2>3 DEF Diverged, Apart
      <3> QED BY <3>1, <3>2
    <2>6. \A p \in Seq(Keys) : p \in T
      <3> HIDE DEF T
      <3> QED BY <2>4, <2>5, Downwards
    <2> QED BY <2>6
  <1>5. CASE IsRendered
    <2>1. /\ MustPlan /\ IsThePlan /\ plan.conflicts = {}
          /\ rendered = RenderValue(o, plan) /\ plan = MergeThreeValues(b, o, t)
      BY <1>1, <1>5 DEF IsRendered, IsThePlan
    <2>2. Settled(input)
      <3>1. ~Contested
        BY <1>1, <2>1 DEF MustPlan
      <3> QED BY <3>1, <1>1, SettledInput
    <2>3. PICK f : Merging(f, b, o, t)
      BY <1>1, MergeSteps
    <2>4. PICK g : Rendering(g, o, plan)
      BY <1>1, RenderSteps
    <2>5. \A p \in DuplicateMemberPaths(b) \cup DuplicateMemberPaths(o) \cup DuplicateMemberPaths(t) :
            MemberValuesAtPath(o, p) = MemberValuesAtPath(t, p)
      BY <2>2 DEF Settled, Duplicates
    <2>6. CleanMerge(b, o, t, f, g, plan)
      BY <1>1, <1>2, <2>1, <2>3, <2>4, <2>5 DEF CleanMerge, Merging, Rendering
    <2> HIDE DEF b, o, t, v
    <2>7. \A p \in Seq(Keys) : Along(b, o, t, p) => OnTheWay(b, o, t, f, g, plan.value, p)
      BY <2>6, CleanPaths
    <2> QED BY <2>7, <1>2 DEF OnTheWay
  <1> QED BY <1>2, <1>4, <1>5 DEF Candidate

\* A clean merge means what a three-way merge of the meanings does, with
\* repeated members too, unless only one side changed those.
THEOREM CleanMergeIsRight == Spec => []CleanIsThreeWayMerge
  BY Invariance, CleanMerges, PTL

-----------------------------------------------------------------------------
(* Documents without repeated members *)

\* Then lookups find what the document means, at every path.
Distinct(w) == w = NoValue \/ (Whole(w) /\ Unrepeated(w))

LEMMA NoRepeats ==
  ASSUME NEW v, IsDocument(v), DuplicateMemberPaths(v) = {}
  PROVE  \A p \in Seq(Keys) : /\ Distinct(ValueAt(v, p))
                              /\ ValueAt(v, p).semantic = MeaningAt(v.semantic, p)
  <1>1. ASSUME NEW p \in Seq(Keys) PROVE Distinct(ValueAt(v, p))
    <2>1. CASE ValueAt(v, p) = NoValue
      BY <2>1 DEF Distinct
    <2>2. CASE ValueAt(v, p) # NoValue
      <3>1. Whole(ValueAt(v, p)) /\ <<p, ValueAt(v, p)>> \in Nodes(v)
        BY <2>2, ReachedWhole
      <3>2. Unrepeated(<<p, ValueAt(v, p)>>[2])
        BY <3>1, DocumentNodes
      <3> QED BY <3>1, <3>2 DEF Distinct
    <2> QED BY <2>1, <2>2
  <1> DEFINE T == {p \in Seq(Keys) : ValueAt(v, p).semantic = MeaningAt(v.semantic, p)}
  <1>2. <<>> \in T
    BY ValueSteps, MeaningSteps
  <1>3. ASSUME NEW p \in Seq(Keys), NEW k \in Keys, p \in T PROVE Append(p, k) \in T
    <2> DEFINE w == ValueAt(v, p)
    <2>1. ValueAt(v, Append(p, k)) = MemberValue(w, k)
      BY ValueSteps
    <2>2. MeaningAt(v.semantic, Append(p, k)) = At(w.semantic, k)
      <3>1. MeaningAt(v.semantic, Append(p, k)) = At(MeaningAt(v.semantic, p), k)
        BY MeaningSteps
      <3>2. w.semantic = MeaningAt(v.semantic, p)
        BY <1>3
      <3> QED BY <3>1, <3>2
    <2>3. Distinct(w)
      BY <1>1
    <2> HIDE DEF w
    <2>4. MemberValue(w, k).semantic = At(w.semantic, k)
      <3>1. CASE w = NoValue
        <4>1. KeysOf(NoValue) = {} /\ At(NoValue.semantic, k) = Absent /\ NoValue.semantic = Absent
          BY DEF KeysOf, NoValue, At, Absent
        <4> QED BY <3>1, <4>1 DEF MemberValue
      <3>2. CASE Whole(w) /\ Unrepeated(w)
        <4>1. Only(w, k) /\ IsBuilt(w)
          BY <3>2 DEF Unrepeated, Only, Whole
        <4> QED BY <4>1, MemberMeaning
      <3> QED BY <2>3, <3>1, <3>2 DEF Distinct
    <2>5. Append(p, k) \in Seq(Keys)
      OBVIOUS
    <2> QED BY <2>1, <2>2, <2>4, <2>5
  <1>4. \A p \in Seq(Keys) : p \in T
    <2> HIDE DEF T
    <2> QED BY <1>2, <1>3, Downwards
  <1> QED BY <1>1, <1>4

\* What lookups reach is something, and what they do not is nothing.
LEMMA Reached ==
  ASSUME NEW v, IsDocument(v), NEW p \in Seq(Keys)
  PROVE  /\ ValueAt(v, p) = NoValue <=> ValueAt(v, p).semantic = Absent
         /\ ValueAt(v, p) # NoValue => IsBuilt(ValueAt(v, p))
  <1>1. CASE ValueAt(v, p) = NoValue
    BY <1>1 DEF NoValue
  <1>2. CASE ValueAt(v, p) # NoValue
    <2>1. IsBuilt(ValueAt(v, p))
      BY <1>2, ReachedWhole DEF Whole
    <2> QED BY <1>2, <2>1, BuiltFacts
  <1> QED BY <1>1, <1>2

\* A path under p is p, or its parent is under p.
LEMMA UnderStep ==
  ASSUME NEW p \in Seq(Keys), NEW q \in Seq(Keys), NEW k \in Keys, Under(p, Append(q, k))
  PROVE  p = Append(q, k) \/ Under(p, q)
  <1> DEFINE r == Append(q, k)
  <1>1. /\ r \in Seq(Keys) /\ Len(r) = Len(q) + 1 /\ Len(q) \in Nat /\ Len(p) \in Nat
        /\ \A i \in 1..Len(q) : r[i] = q[i]
    OBVIOUS
  <1>2. Len(p) <= Len(r) /\ \A i \in 1..Len(p) : r[i] = p[i]
    BY DEF Under
  <1> HIDE DEF r
  <1>3. CASE Len(p) = Len(r)
    <2>1. \A i \in 1..Len(p) : p[i] = r[i]
      BY <1>2
    <2>2. p = r
      BY <1>1, <1>3, <2>1, SeqEqual
    <2> QED BY <2>2 DEF r
  <1>4. CASE Len(p) # Len(r)
    <2>1. Len(p) <= Len(q) /\ 1..Len(p) \subseteq 1..Len(q)
      BY <1>1, <1>2, <1>4
    <2> QED BY <1>1, <1>2, <2>1 DEF Under
  <1> QED BY <1>3, <1>4

\* Where two documents mean the same, they do so below.
LEMMA SameMeaningBelow ==
  ASSUME NEW m, NEW l, NEW p \in Seq(Keys), MeaningAt(m, p) = MeaningAt(l, p)
  PROVE  \A q : Under(p, q) => MeaningAt(m, q) = MeaningAt(l, q)
  <1> DEFINE T == {q \in Seq(Keys) : Under(p, q) => MeaningAt(m, q) = MeaningAt(l, q)}
  <1>1. <<>> \in T
    <2>1. ASSUME Under(p, <<>>) PROVE p = <<>>
      <3>1. Len(p) \in Nat /\ Len(<<>>) = 0
        OBVIOUS
      <3>2. Len(p) = 0
        BY <2>1, <3>1 DEF Under
      <3> QED BY <3>2
    <2> QED BY <2>1
  <1>2. ASSUME NEW q \in Seq(Keys), NEW k \in Keys, q \in T PROVE Append(q, k) \in T
    <2>1. Append(q, k) \in Seq(Keys)
      OBVIOUS
    <2>2. SUFFICES ASSUME Under(p, Append(q, k)) PROVE MeaningAt(m, Append(q, k)) = MeaningAt(l, Append(q, k))
      BY <2>1
    <2>3. p = Append(q, k) \/ Under(p, q)
      BY <2>2, UnderStep
    <2>4. CASE p = Append(q, k)
      BY <2>4
    <2>5. CASE Under(p, q)
      <3>1. MeaningAt(m, q) = MeaningAt(l, q)
        BY <1>2, <2>5
      <3>2. MeaningAt(m, Append(q, k)) = At(MeaningAt(m, q), k)
        BY MeaningSteps
      <3>3. MeaningAt(l, Append(q, k)) = At(MeaningAt(l, q), k)
        BY MeaningSteps
      <3> QED BY <3>1, <3>2, <3>3
    <2> QED BY <2>3, <2>4, <2>5
  <1>3. \A q \in Seq(Keys) : q \in T
    <2> HIDE DEF T
    <2> QED BY <1>1, <1>2, Downwards
  <1> QED BY <1>3 DEF Under

\* Without repeated members, a member found at a path is what the key means.
LEMMA KeyThere ==
  ASSUME NEW v, IsDocument(v), DuplicateMemberPaths(v) = {}, NEW p \in Seq(Keys), NEW k \in Keys
  PROVE  /\ ValueAt(v, Append(p, k)).semantic = At(ValueAt(v, p).semantic, k)
         /\ ValueAt(v, Append(p, k)) = MemberValue(ValueAt(v, p), k)
         /\ MeaningAt(v.semantic, p) = ValueAt(v, p).semantic
         /\ MeaningAt(v.semantic, Append(p, k)) = At(ValueAt(v, p).semantic, k)
         /\ Append(p, k) \in Seq(Keys)
  <1>1. Append(p, k) \in Seq(Keys)
    OBVIOUS
  <1>2. /\ ValueAt(v, p).semantic = MeaningAt(v.semantic, p)
        /\ ValueAt(v, Append(p, k)).semantic = MeaningAt(v.semantic, Append(p, k))
    BY <1>1, NoRepeats
  <1>3. MeaningAt(v.semantic, Append(p, k)) = At(MeaningAt(v.semantic, p), k)
    BY MeaningSteps
  <1>4. ValueAt(v, Append(p, k)) = MemberValue(ValueAt(v, p), k)
    BY ValueSteps
  <1> QED BY <1>1, <1>2, <1>3, <1>4

\* A three-way merge of documents without repeated members.
ClearMerge(b, o, t, f) ==
  /\ IsDocument(b) /\ IsDocument(o) /\ IsDocument(t)
  /\ DuplicateMemberPaths(b) = {} /\ DuplicateMemberPaths(o) = {} /\ DuplicateMemberPaths(t) = {}
  /\ Merging(f, b, o, t)

Present(b, o, t, p) ==
  Absent \notin {ValueAt(b, p).semantic, ValueAt(o, p).semantic, ValueAt(t, p).semantic}

\* The reason of a conflict.
Explained(b, o, t, p) ==
  LET mb == MeaningAt(b.semantic, p)
      mo == MeaningAt(o.semantic, p)
      mt == MeaningAt(t.semantic, p)
  IN  mo # mt /\ (mo = mb => mt = Absent) /\ mt # mb

\* A plan edits only what theirs changed in a value that all have, adds only
\* to objects that all have, and has a reason for each conflict.
EditJustified(e, b, o, t) ==
  Present(b, o, t, e.at) /\ ValueAt(o, e.at).semantic # ValueAt(t, e.at).semantic
AddJustified(a, b, o, t) ==
  {Kind(ValueAt(b, a.at)), Kind(ValueAt(o, a.at)), Kind(ValueAt(t, a.at))} = {"object"}
ConflictJustified(c, b, o, t) == c.path \in Seq(Keys) /\ Explained(b, o, t, c.path)
Justified(x, b, o, t) ==
  /\ \A e \in x.edits : EditJustified(e, b, o, t)
  /\ \A a \in ToSet(x.adds) : AddJustified(a, b, o, t)
  /\ \A c \in x.conflicts : ConflictJustified(c, b, o, t)

\* A plan that only has conflicts, and where they are.
Disputed(x, p) == Bare(x) /\ \A c \in x.conflicts : c.path = p

LEMMA DisputedFacts ==
  /\ \A v, p : Disputed(Planned(v), p) /\ Planned(v).conflicts = {}
  /\ \A v, p, q : Disputed(Conflicting(v, p, q), p)
  /\ \A v, b, o, t, p : Disputed([Planned(v) EXCEPT !.conflicts = ArrayConflicts(b, o, t, p)], p)
  <1>1. \A v, p : Disputed(Planned(v), p) /\ Planned(v).conflicts = {}
    BY BareFacts DEF Disputed, Planned
  <1>2. ASSUME NEW v, NEW p, NEW q PROVE Disputed(Conflicting(v, p, q), p)
    <2>1. Conflicting(v, p, q).conflicts = {[path |-> p, index |-> 0, category |-> q]}
      BY DEF Conflicting, Planned
    <2> QED BY <2>1, BareFacts DEF Disputed
  <1>3. ASSUME NEW v, NEW b, NEW o, NEW t, NEW p
        PROVE  Disputed([Planned(v) EXCEPT !.conflicts = ArrayConflicts(b, o, t, p)], p)
    <2>1. \A c \in ArrayConflicts(b, o, t, p) : c.path = p
      BY DEF ArrayConflicts
    <2>2. \A c : [Planned(v) EXCEPT !.conflicts = c].conflicts = c
      BY DEF Planned
    <2> HIDE DEF ArrayConflicts
    <2> QED BY <2>1, <2>2, BareFacts DEF Disputed
  <1> QED BY <1>1, <1>2, <1>3

LEMMA DisputedIsJustified ==
  ASSUME NEW b, NEW o, NEW t, NEW p \in Seq(Keys), NEW x, Disputed(x, p),
         x.conflicts = {} \/ Explained(b, o, t, p)
  PROVE  Justified(x, b, o, t)
  BY ListedFacts DEF Disputed, Bare, Justified, ConflictJustified

\* The cases of a key.
LEMMA MemberJustified ==
  ASSUME NEW b, NEW o, NEW t, NEW f, ClearMerge(b, o, t, f), NEW p \in Seq(Keys), NEW k \in Keys,
         Kind(ValueAt(b, p)) = "object", Kind(ValueAt(o, p)) = "object", Kind(ValueAt(t, p)) = "object",
         NEW inside, Present(b, o, t, Append(p, k)) => Justified(inside, b, o, t)
  PROVE  Justified(MergeThreeMembers(ValueAt(b, p), ValueAt(o, p), ValueAt(t, p), k, p, inside), b, o, t)
  <1> DEFINE vb == ValueAt(b, p)
             vo == ValueAt(o, p)
             vt == ValueAt(t, p)
             sb == At(vb.semantic, k)
             so == At(vo.semantic, k)
             st == At(vt.semantic, k)
             here == Append(p, k)
             x == MergeThreeMembers(vb, vo, vt, k, p, inside)
             y == [Planned(st) EXCEPT !.adds = <<AddMember(p, FirstMember(vt, k), AtEnd)>>]
  <1>1. IsDocument(b) /\ IsDocument(o) /\ IsDocument(t)
        /\ DuplicateMemberPaths(b) = {} /\ DuplicateMemberPaths(o) = {} /\ DuplicateMemberPaths(t) = {}
    BY DEF ClearMerge
  <1>2. here \in Seq(Keys) /\ MeaningAt(b.semantic, here) = sb /\ ValueAt(b, here).semantic = sb
    BY <1>1, KeyThere
  <1>3. MeaningAt(o.semantic, here) = so /\ ValueAt(o, here).semantic = so
    BY <1>1, KeyThere
  <1>4. MeaningAt(t.semantic, here) = st /\ ValueAt(t, here).semantic = st
    BY <1>1, KeyThere
  <1>5. x = IF sb = Absent /\ st = Absent THEN Planned(so)
            ELSE IF sb = Absent /\ so = Absent THEN y
            ELSE IF sb = Absent /\ so = st THEN Planned(so)
            ELSE IF so = Absent /\ st = Absent THEN Planned(Absent)
            ELSE IF so = Absent /\ sb = st THEN Planned(Absent)
            ELSE IF st = Absent /\ sb = so THEN Conflicting(Absent, here, "delete_requires_owner_edit")
            ELSE IF Absent \notin {sb, so, st} THEN inside
            ELSE Conflicting(Absent, here, "ambiguous_owner_change")
    BY DEF MergeThreeMembers
  <1>6. y.edits = {} /\ y.conflicts = {} /\ y.adds = <<AddMember(p, FirstMember(vt, k), AtEnd)>>
    BY DEF Planned
  <1>7. AddMember(p, FirstMember(vt, k), AtEnd).at = p
    BY DEF AddMember
  <1>8. Justified(y, b, o, t)
    <2>1. ToSet(y.adds) = {AddMember(p, FirstMember(vt, k), AtEnd)}
      BY <1>6, ListedFacts
    <2> HIDE DEF y
    <2> QED BY <1>6, <1>7, <2>1 DEF Justified, AddJustified
  <1> HIDE DEF x, y, sb, so, st, here
  <1>9. \/ x = inside /\ Absent \notin {sb, so, st}
        \/ x = y
        \/ Disputed(x, here) /\ x.conflicts = {}
        \/ Disputed(x, here) /\ so # st /\ (so = sb => st = Absent) /\ st # sb
    BY <1>5, DisputedFacts
  <1>10. CASE x = inside /\ Absent \notin {sb, so, st}
    <2>1. Present(b, o, t, here)
      BY <1>2, <1>3, <1>4, <1>10 DEF Present
    <2> QED BY <1>10, <2>1 DEF x, here
  <1>11. CASE x = y
    BY <1>8, <1>11 DEF x
  <1>12. CASE Disputed(x, here) /\ (x.conflicts = {} \/ (so # st /\ (so = sb => st = Absent) /\ st # sb))
    <2>1. x.conflicts = {} \/ Explained(b, o, t, here)
      BY <1>2, <1>3, <1>4, <1>12 DEF Explained
    <2>2. Justified(x, b, o, t)
      BY <1>2, <1>12, <2>1, DisputedIsJustified
    <2> QED BY <2>2 DEF x
  <1> QED BY <1>9, <1>10, <1>11, <1>12

LEMMA PlansJustified ==
  ASSUME NEW b, NEW o, NEW t, NEW f, ClearMerge(b, o, t, f)
  PROVE  \A p \in Seq(Keys) : Present(b, o, t, p) => Justified(f[p], b, o, t)
  <1> DEFINE T == {p \in Seq(Keys) : Present(b, o, t, p) => Justified(f[p], b, o, t)}
  <1>0. /\ IsDocument(b) /\ IsDocument(o) /\ IsDocument(t) /\ Merging(f, b, o, t)
        /\ DuplicateMemberPaths(b) = {} /\ DuplicateMemberPaths(o) = {} /\ DuplicateMemberPaths(t) = {}
    BY DEF ClearMerge
  <1>1. ASSUME NEW p \in Seq(Keys), Len(p) >= MaxDepth + 1 PROVE p \in T
    <2>1. ValueAt(b, p) = NoValue
      BY <1>0, <1>1, BeyondDepth
    <2>2. ~Present(b, o, t, p)
      BY <2>1 DEF Present, NoValue
    <2> QED BY <2>2
  <1>2. ASSUME NEW p \in Seq(Keys), \A k \in Keys : Append(p, k) \in T PROVE p \in T
    <2> SUFFICES ASSUME Present(b, o, t, p) PROVE Justified(f[p], b, o, t)
      OBVIOUS
    <2> DEFINE vb == ValueAt(b, p)
               vo == ValueAt(o, p)
               vt == ValueAt(t, p)
               x == f[p]
               parts == [k \in Keys |-> MergeThreeMembers(vb, vo, vt, k, p, Inside(f, p)[k])]
               y == [Planned(vt.semantic) EXCEPT !.edits = {[at |-> p, source |-> vt]}]
    <2>1. x = MergeThree(vb, vo, vt, p, Inside(f, p))
      BY <1>0 DEF Merging, MergeAt
    <2>2. /\ MeaningAt(b.semantic, p) = vb.semantic /\ MeaningAt(o.semantic, p) = vo.semantic
          /\ MeaningAt(t.semantic, p) = vt.semantic
      BY <1>0, NoRepeats
    <2>3. y.edits = {[at |-> p, source |-> vt]} /\ y.conflicts = {} /\ y.adds = <<>>
      BY DEF Planned
    <2>4. x = IF vo.semantic = vt.semantic THEN Planned(vo.semantic)
              ELSE IF vo.semantic = vb.semantic THEN y
              ELSE IF vt.semantic = vb.semantic THEN Planned(vo.semantic)
              ELSE IF {Kind(vb), Kind(vo), Kind(vt)} = {"array"} THEN
                [Planned(vo.semantic) EXCEPT !.conflicts = ArrayConflicts(vb, vo, vt, p)]
              ELSE IF {Kind(vb), Kind(vo), Kind(vt)} # {"object"}
                THEN Conflicting(vo.semantic, p, "modify_modify")
              ELSE Joined(parts)
      BY <2>1 DEF MergeThree
    <2> HIDE DEF x, y, parts
    <2>5. \/ Disputed(x, p) /\ (x.conflicts = {} \/ Apart(vb.semantic, vo.semantic, vt.semantic))
          \/ x = y /\ vo.semantic # vt.semantic
          \/ x = Joined(parts) /\ {Kind(vb), Kind(vo), Kind(vt)} = {"object"}
      BY <2>4, DisputedFacts DEF Apart
    <2>6. CASE Disputed(x, p) /\ (x.conflicts = {} \/ Apart(vb.semantic, vo.semantic, vt.semantic))
      <3>1. x.conflicts = {} \/ Explained(b, o, t, p)
        BY <2>2, <2>6 DEF Apart, Explained
      <3>2. Justified(x, b, o, t)
        BY <2>6, <3>1, DisputedIsJustified
      <3> QED BY <3>2 DEF x
    <2>7. CASE x = y /\ vo.semantic # vt.semantic
      <3> DEFINE e == [at |-> p, source |-> vt]
      <3>1. e.at = p
        OBVIOUS
      <3> HIDE DEF e
      <3>2. EditJustified(e, b, o, t)
        BY <3>1, <2>7 DEF EditJustified
      <3>3. Justified(y, b, o, t)
        BY <2>3, <3>2, ListedFacts DEF Justified, e
      <3> QED BY <2>7, <3>3 DEF x
    <2>8. CASE x = Joined(parts) /\ {Kind(vb), Kind(vo), Kind(vt)} = {"object"}
      <3>1. ASSUME NEW k \in Keys
            PROVE  /\ Listed(parts[k].adds)
                   /\ Justified(parts[k], b, o, t)
        <4> DEFINE inside == f[Append(p, k)]
        <4>1. Present(b, o, t, Append(p, k)) => Justified(inside, b, o, t)
          BY <1>2
        <4>2. parts[k] = MergeThreeMembers(vb, vo, vt, k, p, inside)
          BY DEF Inside, parts
        <4>3. Append(p, k) \in Seq(Keys)
          OBVIOUS
        <4>4. PartPlan(inside, b, o, t, Append(p, k))
          BY <1>0, <4>3, PlanParts
        <4> HIDE DEF inside
        <4>5. PartPlan(parts[k], b, o, t, p)
          BY <1>0, <4>2, <4>4, MemberPart
        <4>6. Justified(parts[k], b, o, t)
          BY <2>8, <4>1, <4>2, MemberJustified
        <4> QED BY <4>5, <4>6 DEF PartPlan
      <3> DEFINE j == Joined(parts)
      <3>2. /\ ToSet(j.adds) = UNION {ToSet(parts[k].adds) : k \in Keys}
            /\ j.edits = UNION {parts[k].edits : k \in Keys}
            /\ j.conflicts = UNION {parts[k].conflicts : k \in Keys}
        BY <3>1, JoinedFacts
      <3> HIDE DEF j
      <3>3. Justified(j, b, o, t)
        BY <3>1, <3>2 DEF Justified
      <3> QED BY <3>3, <2>8 DEF j, x
    <2> QED BY <2>5, <2>6, <2>7, <2>8
  <1>3. MaxDepth + 1 \in Nat
    BY JsonAssumption
  <1>4. \A p \in Seq(Keys) : p \in T
    <2> HIDE DEF T
    <2> QED BY <1>1, <1>2, <1>3, Upwards
  <1> QED BY <1>4

-----------------------------------------------------------------------------
(* What rendering does to an object *)

LEMMA ObjectsMeet ==
  ASSUME NEW v, IsDocument(v), DuplicateMemberPaths(v) = {}
  PROVE  \A p \in Seq(Keys) : Kind(ValueAt(v, p)) = "object" => SameThere(v, p)
  <1> DEFINE T == {p \in Seq(Keys) : Kind(ValueAt(v, p)) = "object" => SameThere(v, p)}
  <1>1. <<>> \in T
    <2>1. Descend(v, <<>>) = <<v>> /\ ValueAt(v, <<>>) = v /\ MeaningAt(v.semantic, <<>>) = v.semantic
      BY DescendSteps, ValueSteps, MeaningSteps
    <2> QED BY <2>1 DEF SameThere
  <1>2. ASSUME NEW p \in Seq(Keys), NEW k \in Keys, p \in T PROVE Append(p, k) \in T
    <2> DEFINE w == ValueAt(v, p)
    <2>1. Append(p, k) \in Seq(Keys)
      OBVIOUS
    <2>2. SUFFICES ASSUME Kind(ValueAt(v, Append(p, k))) = "object" PROVE SameThere(v, Append(p, k))
      BY <2>1
    <2>3. ValueAt(v, Append(p, k)) = MemberValue(w, k)
      BY ValueSteps
    <2>4. /\ ValueAt(v, Append(p, k)).semantic = MeaningAt(v.semantic, Append(p, k))
          /\ Distinct(w)
      BY <2>1, NoRepeats
    <2> HIDE DEF w
    <2>5. NoValue.semantic.kind = "absent" /\ KeysOf(NoValue) = {}
      BY DEF NoValue, Absent, KeysOf
    <2>6. w # NoValue
      BY <2>2, <2>3, <2>5 DEF MemberValue, Kind
    <2>7. IsBuilt(w) /\ Only(w, k)
      BY <2>4, <2>6 DEF Distinct, Whole, Unrepeated, Only
    <2>8. Kind(w) = "object"
      <3>1. k \in KeysOf(w)
        BY <2>2, <2>3, <2>5 DEF MemberValue, Kind
      <3>2. w.members # <<>>
        BY <3>1 DEF KeysOf
      <3> QED BY <3>2, <2>7, BuiltFacts
    <2>9. SameThere(v, p)
      BY <1>2, <2>8 DEF w
    <2>10. MeaningAt(v.semantic, Append(p, k)).kind = "object"
      BY <2>2, <2>4 DEF Kind
    <2> QED BY <2>7, <2>9, <2>10, SameBelow DEF w
  <1>3. \A p \in Seq(Keys) : p \in T
    <2> HIDE DEF T
    <2> QED BY <1>1, <1>2, Downwards
  <1> QED BY <1>3

\* What is in a rendered object: its own keys and what was added.
InText(m, v, adds, path, inside) ==
  \/ m.key \in KeysOf(v) /\ (Only(v, m.key) => m = [key |-> m.key, value |-> inside[m.key]])
  \/ \E a \in ToSet(adds) : a.at = path /\ m = a.member
\* Where an addition is rendered.
HasPlace(a, v) == a.before = AtEnd \/ \E k \in KeysOf(v) : a.before = InFrontOf(k)
TextHas(s, v, adds, path, inside, n) ==
  /\ Listed(s)
  /\ \A m \in ToSet(s) : InText(m, v, adds, path, inside)
  /\ \A i \in 1..n : i = Min(Positions(v, v.members[i].key)) =>
       /\ ToSet(Group(adds, path, InFrontOf(v.members[i].key))) \subseteq ToSet(s)
       /\ [key |-> v.members[i].key, value |-> inside[v.members[i].key]] \in ToSet(s)

LEMMA MemberTextHas ==
  ASSUME NEW v, Len(v.members) \in Nat, DOMAIN v.members = 1..Len(v.members),
         NEW p, Listed(p.adds), NEW path, NEW inside, NEW n \in Nat, n + 1 \in 1..Len(v.members),
         NEW s, TextHas(s, v, p.adds, path, inside, n)
  PROVE  TextHas(MemberText(v, p, path, inside, s, n + 1), v, p.adds, path, inside, n + 1)
  <1> DEFINE m == v.members[n + 1]
             G == Group(p.adds, path, InFrontOf(m.key))
             r == [key |-> m.key, value |-> inside[m.key]]
             u == MemberText(v, p, path, inside, s, n + 1)
  <1>1. m.key \in KeysOf(v)
    BY DEF KeysOf
  <1>2. r.key = m.key
    OBVIOUS
  <1>3. u = IF n + 1 = Min(Positions(v, m.key)) THEN s \o Append(G, r) ELSE Append(s, m)
    BY DEF MemberText
  <1>4. Listed(G) /\ ToSet(G) = {a.member : a \in {x \in ToSet(p.adds) : x.at = path /\ x.before = InFrontOf(m.key)}}
    BY GroupFacts
  <1> HIDE DEF m, G, r, u
  <1>5. Listed(Append(G, r)) /\ ToSet(Append(G, r)) = ToSet(G) \cup {r}
    BY <1>4, ListedAppend
  <1>6. Listed(s)
    BY DEF TextHas
  <1>7. Listed(u) /\ ToSet(s) \subseteq ToSet(u) /\ \A y \in ToSet(u) \ ToSet(s) : InText(y, v, p.adds, path, inside)
    <2>1. CASE n + 1 = Min(Positions(v, m.key))
      <3>1. Listed(u) /\ ToSet(u) = ToSet(s) \cup ToSet(Append(G, r))
        BY <1>3, <1>5, <1>6, <2>1, ListedConcat
      <3>2. r = [key |-> r.key, value |-> inside[r.key]]
        BY <1>2 DEF r
      <3>3. \A y \in ToSet(G) \cup {r} : InText(y, v, p.adds, path, inside)
        BY <1>1, <1>2, <1>4, <3>2 DEF InText
      <3> QED BY <3>1, <3>3, <1>5
    <2>2. CASE n + 1 # Min(Positions(v, m.key))
      <3>1. Listed(u) /\ ToSet(u) = ToSet(s) \cup {m}
        BY <1>3, <1>6, <2>2, ListedAppend
      <3> DEFINE S == Positions(v, m.key)
                 j == Min(S)
      <3>2. S \subseteq Nat /\ S # {} /\ n + 1 \in DOMAIN v.members /\ v.members[n + 1].key = m.key
        BY DEF Positions, m
      <3>3. j \in S
        <4> HIDE DEF S
        <4> QED BY <3>2, MinIn
      <3>4. j \in DOMAIN v.members /\ v.members[j].key = m.key
        BY <3>3 DEF Positions
      <3>5. j # n + 1
        BY <2>2
      <3> HIDE DEF S, j
      <3>6. ~Only(v, m.key)
        BY <3>2, <3>4, <3>5 DEF Only
      <3> QED BY <3>1, <3>6, <1>1 DEF InText
    <2> QED BY <2>1, <2>2
  <1>8. n + 1 = Min(Positions(v, m.key)) => ToSet(G) \subseteq ToSet(u) /\ r \in ToSet(u)
    <2>1. ASSUME n + 1 = Min(Positions(v, m.key)) PROVE ToSet(u) = ToSet(s) \cup ToSet(Append(G, r))
      BY <1>3, <1>5, <1>6, <2>1, ListedConcat
    <2> QED BY <2>1, <1>5
  <1>9. \A i \in 1..(n + 1) : i = n + 1 \/ i \in 1..n
    OBVIOUS
  <1>10. ASSUME NEW i \in 1..(n + 1), i = Min(Positions(v, v.members[i].key))
         PROVE  /\ ToSet(Group(p.adds, path, InFrontOf(v.members[i].key))) \subseteq ToSet(u)
                /\ [key |-> v.members[i].key, value |-> inside[v.members[i].key]] \in ToSet(u)
    <2>1. CASE i = n + 1
      BY <1>8, <1>10, <2>1 DEF m, G, r
    <2>2. CASE i \in 1..n
      <3>1. /\ ToSet(Group(p.adds, path, InFrontOf(v.members[i].key))) \subseteq ToSet(s)
            /\ [key |-> v.members[i].key, value |-> inside[v.members[i].key]] \in ToSet(s)
        BY <1>10, <2>2 DEF TextHas
      <3> QED BY <3>1, <1>7
    <2> QED BY <1>9, <2>1, <2>2
  <1>11. \A y \in ToSet(u) : InText(y, v, p.adds, path, inside)
    BY <1>7 DEF TextHas
  <1>12. TextHas(u, v, p.adds, path, inside, n + 1)
    BY <1>7, <1>10, <1>11 DEF TextHas
  <1> QED BY <1>12 DEF u

LEMMA RenderedMembers ==
  ASSUME NEW v, Len(v.members) \in Nat, DOMAIN v.members = 1..Len(v.members),
         NEW p, Listed(p.adds), NEW path, NEW inside
  PROVE  LET R == RenderMembers(v, p, path, inside)
         IN  /\ Listed(R) /\ \A m \in ToSet(R) : InText(m, v, p.adds, path, inside)
             /\ \A a \in ToSet(p.adds) : a.at = path /\ HasPlace(a, v) => a.member \in ToSet(R)
             /\ \A k \in KeysOf(v) : [key |-> k, value |-> inside[k]] \in ToSet(R)
  <1> DEFINE R == RenderMembers(v, p, path, inside)
             L == Len(v.members)
             E == Group(p.adds, path, AtEnd)
  <1>1. PICK f : Texts(f, v, p, path, inside)
    BY MemberTexts
  <1> DEFINE T == {n \in 0..L : TextHas(f[n], v, p.adds, path, inside, n)}
  <1>2. 0 \in T
    <2>1. f[0] = <<>>
      BY <1>1 DEF Texts
    <2>2. 1..0 = {} /\ 0 \in 0..L
      OBVIOUS
    <2> QED BY <2>1, <2>2, ListedFacts DEF TextHas
  <1>3. ASSUME NEW n \in 0..(L - 1), n \in T PROVE n + 1 \in T
    <2>1. n \in Nat /\ n + 1 \in 1..L /\ n + 1 \in 0..L /\ (n + 1) - 1 = n
      OBVIOUS
    <2>2. f[n + 1] = MemberText(v, p, path, inside, f[n], n + 1)
      BY <1>1, <2>1 DEF Texts
    <2>3. TextHas(f[n], v, p.adds, path, inside, n)
      BY <1>3
    <2>4. TextHas(f[n + 1], v, p.adds, path, inside, n + 1)
      BY <2>1, <2>2, <2>3, MemberTextHas
    <2> QED BY <2>1, <2>4
  <1>4. \A n \in 0..L : n \in T
    <2> HIDE DEF T
    <2> QED BY <1>2, <1>3, UpTo
  <1>5. TextHas(f[L], v, p.adds, path, inside, L)
    BY <1>4
  <1>6. R = f[L] \o E
    BY <1>1 DEF Texts
  <1>7. Listed(E) /\ ToSet(E) = {a.member : a \in {x \in ToSet(p.adds) : x.at = path /\ x.before = AtEnd}}
    BY GroupFacts
  <1> HIDE DEF R, E
  <1>8. Listed(R) /\ ToSet(R) = ToSet(f[L]) \cup ToSet(E)
    BY <1>5, <1>6, <1>7, ListedConcat DEF TextHas
  <1>9. \A m \in ToSet(R) : InText(m, v, p.adds, path, inside)
    BY <1>5, <1>7, <1>8 DEF TextHas, InText
  <1>10. ASSUME NEW k \in KeysOf(v)
         PROVE  /\ ToSet(Group(p.adds, path, InFrontOf(k))) \subseteq ToSet(f[L])
                /\ [key |-> k, value |-> inside[k]] \in ToSet(f[L])
    <2> DEFINE S == Positions(v, k)
               i == Min(S)
    <2>1. S \subseteq 1..L /\ S # {} /\ \A j \in S : v.members[j].key = k
      BY DEF Positions, KeysOf
    <2>2. S \subseteq Nat
      BY <2>1
    <2>3. i \in S
      <3> HIDE DEF S
      <3> QED BY <2>1, <2>2, MinIn
    <2>4. i \in 1..L /\ v.members[i].key = k
      BY <2>1, <2>3
    <2>5. i = Min(Positions(v, v.members[i].key))
      BY <2>4
    <2> HIDE DEF i
    <2> QED BY <2>4, <2>5, <1>5 DEF TextHas
  <1>11. ASSUME NEW a \in ToSet(p.adds), a.at = path, HasPlace(a, v) PROVE a.member \in ToSet(R)
    <2>1. CASE a.before = AtEnd
      BY <2>1, <1>7, <1>8, <1>11
    <2>2. ASSUME NEW k \in KeysOf(v), a.before = InFrontOf(k) PROVE a.member \in ToSet(R)
      <3>1. ToSet(Group(p.adds, path, InFrontOf(k))) \subseteq ToSet(f[L])
        BY <1>10
      <3>2. a.member \in ToSet(Group(p.adds, path, InFrontOf(k)))
        BY GroupFacts, <1>11, <2>2
      <3> QED BY <3>1, <3>2, <1>8
    <2> QED BY <2>1, <2>2, <1>11 DEF HasPlace
  <1>12. \A k \in KeysOf(v) : [key |-> k, value |-> inside[k]] \in ToSet(R)
    BY <1>8, <1>10
  <1> QED BY <1>8, <1>9, <1>11, <1>12 DEF R

\* The object that is rendered where nothing is edited.
IsRewritten(y, w, x, p, inside) ==
  LET R == RenderMembers(w, x, p, inside)
  IN  /\ y.semantic = [kind |-> "object", members |-> MeaningOf(R)]
      /\ y.members = R /\ y.inline = w.inline /\ Kind(y) = "object"
      /\ y.notes = IF WrittenAnew(w, AddedAt(x, p)) THEN {} ELSE w.notes
      /\ \A k \in Keys : At(y.semantic, k) = MeaningOf(R)[k]

LEMMA RenderedObject ==
  ASSUME NEW o, NEW x, NEW g, Rendering(g, o, x), NEW p \in Seq(Keys),
         Kind(ValueAt(o, p)) = "object", \A e \in x.edits : e.at # p
  PROVE  IsRewritten(g[p], ValueAt(o, p), x, p, Inside(g, p))
  <1> DEFINE w == ValueAt(o, p)
             inside == Inside(g, p)
             R == RenderMembers(w, x, p, inside)
             notes == IF WrittenAnew(w, AddedAt(x, p)) THEN {} ELSE w.notes
  <1>1. g[p] = Object(R, w.inline, notes)
    <2>1. g[p] = Render(w, x, p, inside)
      BY DEF Rendering, RenderAt
    <2>2. {e \in x.edits : e.at = p} = {}
      OBVIOUS
    <2>3. Kind(w) = "object"
      OBVIOUS
    <2> HIDE DEF w, inside
    <2> QED BY <2>1, <2>2, <2>3 DEF Render
  <1> HIDE DEF R, notes, w
  <1>2. /\ g[p].semantic = [kind |-> "object", members |-> MeaningOf(R)]
        /\ g[p].members = R /\ g[p].inline = w.inline /\ g[p].notes = notes
    BY <1>1 DEF Object
  <1>3. Kind(g[p]) = "object" /\ \A k \in Keys : At(g[p].semantic, k) = MeaningOf(R)[k]
    BY <1>2 DEF Kind, At
  <1> QED BY <1>2, <1>3 DEF R, notes, w, IsRewritten

\* What is added to w under the key k means m.
AddedMeans(x, w, p, k, m) ==
  /\ \A a \in ToSet(x.adds) : a.at = p /\ a.member.key = k => a.member.value.semantic = m
  /\ \/ m = Absent /\ NotAdded(x.adds, p, k)
     \/ \E a \in ToSet(x.adds) : a.at = p /\ a.member.key = k /\ HasPlace(a, w)

\* What a rendered object means for a key that is not its own.
LEMMA RenderedNew ==
  ASSUME NEW o, IsDocument(o), NEW x, Listed(x.adds), NEW g, Rendering(g, o, x),
         NEW p \in Seq(Keys), Kind(ValueAt(o, p)) = "object", \A e \in x.edits : e.at # p,
         NEW k \in Keys, k \notin KeysOf(ValueAt(o, p)),
         NEW m, AddedMeans(x, ValueAt(o, p), p, k, m)
  PROVE  At(g[p].semantic, k) = m
  <1> DEFINE w == ValueAt(o, p)
             inside == Inside(g, p)
             R == RenderMembers(w, x, p, inside)
             l == MeaningOf(R)[k]
  <1>1. At(g[p].semantic, k) = l
    <2>1. Rendering(g, o, x) /\ p \in Seq(Keys) /\ Kind(ValueAt(o, p)) = "object" /\ \A e \in x.edits : e.at # p
      OBVIOUS
    <2>2. IsRewritten(g[p], w, x, p, inside)
      BY <2>1, RenderedObject
    <2> HIDE DEF w, inside
    <2> QED BY <2>2 DEF IsRewritten
  <1>2. IsBuilt(w)
    <2>1. w # NoValue
      BY DEF NoValue, Kind, Absent
    <2> QED BY <2>1, Reached
  <1>3. Len(w.members) \in Nat /\ DOMAIN w.members = 1..Len(w.members)
    BY <1>2, BuiltFacts
  <1>4. k \notin KeysOf(w) /\ AddedMeans(x, w, p, k, m)
    OBVIOUS
  <1> HIDE DEF w, inside
  <1>5. /\ Listed(R) /\ \A y \in ToSet(R) : InText(y, w, x.adds, p, inside)
        /\ \A a \in ToSet(x.adds) : a.at = p /\ HasPlace(a, w) => a.member \in ToSet(R)
    BY <1>3, RenderedMembers
  <1> HIDE DEF R
  <1>6. Len(R) \in Nat /\ DOMAIN R = 1..Len(R) /\ ToSet(R) = {R[i] : i \in 1..Len(R)}
    BY <1>5, ListedFacts DEF ToSet
  <1>7. Means(R, k, l)
    BY <1>6, MeaningMeans
  <1> HIDE DEF l
  <1>8. \A i \in 1..Len(R) : R[i].key = k => \E a \in ToSet(x.adds) : a.at = p /\ a.member = R[i]
    BY <1>4, <1>5, <1>6 DEF InText
  <1>9. CASE l = Absent /\ \A i \in 1..Len(R) : R[i].key # k
    <2>1. \A a \in ToSet(x.adds) : a.at = p /\ HasPlace(a, w) => a.member.key # k
      BY <1>5, <1>6, <1>9
    <2>2. m = Absent
      BY <2>1, <1>4 DEF AddedMeans
    <2> QED BY <1>1, <1>9, <2>2
  <1>10. ASSUME NEW i \in 1..Len(R), R[i].key = k, l = R[i].value.semantic PROVE l = m
    BY <1>4, <1>8, <1>10 DEF AddedMeans
  <1>11. l = m
    BY <1>6, <1>7, <1>9, <1>10, <1>1 DEF Means
  <1> QED BY <1>1, <1>11

-----------------------------------------------------------------------------
(* The output means what was planned *)

\* Objects that mean the same for every key.
LEMMA ObjectsEqual ==
  ASSUME NEW F, NEW G, F = [k \in Keys |-> F[k]], G = [k \in Keys |-> G[k]],
         NEW m, m = [kind |-> "object", members |-> F],
         NEW l, l = [kind |-> "object", members |-> G],
         \A k \in Keys : At(m, k) = At(l, k)
  PROVE  m = l
  <1>1. \A k \in Keys : F[k] = G[k]
    BY DEF At
  <1>2. F = G
    BY <1>1
  <1> QED BY <1>2

LEMMA UnderGrown ==
  ASSUME NEW p \in Seq(Keys), NEW q, Under(p, q), NEW k \in Keys
  PROVE  Under(p, Append(q, k))
  <1>1. /\ q \in Seq(Keys) /\ Len(p) \in Nat /\ Len(q) \in Nat /\ Len(p) <= Len(q)
        /\ \A i \in 1..Len(p) : q[i] = p[i]
    BY DEF Under
  <1>2. /\ Append(q, k) \in Seq(Keys) /\ Len(Append(q, k)) = Len(q) + 1
        /\ \A i \in 1..Len(q) : Append(q, k)[i] = q[i]
    BY <1>1
  <1>3. 1..Len(p) \subseteq 1..Len(q)
    BY <1>1
  <1> QED BY <1>1, <1>2, <1>3 DEF Under

\* A plan that touches nothing at or below a path.
Spared(x, p) == /\ \A e \in x.edits : ~Under(p, e.at)
                /\ \A a \in ToSet(x.adds) : ~Under(p, a.at)

\* What is no object is rendered as it is.
LEMMA RenderedLeaf ==
  ASSUME NEW o, NEW x, NEW g, Rendering(g, o, x), NEW p \in Seq(Keys),
         Kind(ValueAt(o, p)) # "object", \A e \in x.edits : e.at # p
  PROVE  g[p] = ValueAt(o, p)
  <1> DEFINE w == ValueAt(o, p)
             inside == Inside(g, p)
  <1>1. g[p] = Render(w, x, p, inside)
    BY DEF Rendering, RenderAt
  <1>2. {e \in x.edits : e.at = p} = {} /\ Kind(w) # "object"
    OBVIOUS
  <1> HIDE DEF w, inside
  <1>3. g[p] = w
    BY <1>1, <1>2 DEF Render
  <1> QED BY <1>3 DEF w

\* What the plan spares means what it did.
LEMMA SparedStays ==
  ASSUME NEW o, IsDocument(o), DuplicateMemberPaths(o) = {}, NEW x, Listed(x.adds),
         NEW g, Rendering(g, o, x), NEW p \in Seq(Keys), Spared(x, p)
  PROVE  g[p].semantic = ValueAt(o, p).semantic
  <1> DEFINE T == {q \in Seq(Keys) : Under(p, q) => g[q].semantic = ValueAt(o, q).semantic}
  <1>1. ASSUME NEW q \in Seq(Keys), Under(p, q)
        PROVE  (\A e \in x.edits : e.at # q) /\ \A k : NotAdded(x.adds, q, k)
    BY <1>1 DEF Spared, NotAdded
  <1>2. ASSUME NEW q \in Seq(Keys), Len(q) >= MaxDepth + 1 PROVE q \in T
    <2>1. ValueAt(o, q) = NoValue
      BY <1>2, BeyondDepth
    <2>2. Kind(ValueAt(o, q)) # "object"
      BY <2>1 DEF NoValue, Kind, Absent
    <2> QED BY <1>1, <2>2, RenderedLeaf
  <1>3. ASSUME NEW q \in Seq(Keys), \A k \in Keys : Append(q, k) \in T PROVE q \in T
    <2> SUFFICES ASSUME Under(p, q) PROVE g[q].semantic = ValueAt(o, q).semantic
      OBVIOUS
    <2> DEFINE w == ValueAt(o, q)
               R == RenderMembers(w, x, q, Inside(g, q))
    <2>1. (\A e \in x.edits : e.at # q) /\ \A k : NotAdded(x.adds, q, k)
      BY <1>1
    <2>2. CASE Kind(w) # "object"
      BY <2>1, <2>2, RenderedLeaf
    <2>3. CASE Kind(w) = "object"
      <3>1. SameThere(o, q)
        BY <2>3, ObjectsMeet
      <3>2. IsBuilt(w) /\ Distinct(w)
        BY <3>1, ObjectThere, NoRepeats
      <3>3. w.semantic = [kind |-> "object", members |-> MeaningOf(w.members)]
        BY <3>2, <2>3, BuiltFacts
      <3>4. IsRewritten(g[q], w, x, q, Inside(g, q))
        BY <2>1, <2>3, RenderedObject
      <3>5. g[q].semantic = [kind |-> "object", members |-> MeaningOf(R)]
        BY <3>4 DEF IsRewritten
      <3>6. \A s : MeaningOf(s) = [k \in Keys |-> MeaningOf(s)[k]]
        BY DEF MeaningOf
      <3>7. ASSUME NEW k \in Keys PROVE At(g[q].semantic, k) = At(w.semantic, k)
        <4>1. CASE k \in KeysOf(w)
          <5>1. Only(w, k)
            <6>1. w # NoValue
              BY <2>3 DEF NoValue, Kind, Absent
            <6> HIDE DEF w
            <6> QED BY <3>2, <6>1 DEF Distinct, Unrepeated, Only
          <5>2. At(g[q].semantic, k) = g[Append(q, k)].semantic
            BY <2>1, <3>1, <4>1, <5>1, RenderedKey
          <5>3. Under(p, Append(q, k)) /\ Append(q, k) \in T
            BY <1>3, UnderGrown
          <5>4. g[Append(q, k)].semantic = ValueAt(o, Append(q, k)).semantic
            BY <5>3
          <5>5. ValueAt(o, Append(q, k)).semantic = At(w.semantic, k)
            BY KeyThere
          <5> QED BY <5>2, <5>4, <5>5
        <4>2. CASE k \notin KeysOf(w)
          <5>1. At(w.semantic, k) = Absent
            BY <4>2, KeysReached
          <5>2. NotAdded(x.adds, q, k)
            BY <2>1
          <5>3. AddedMeans(x, w, q, k, Absent)
            BY <5>2 DEF AddedMeans, NotAdded
          <5>4. At(g[q].semantic, k) = Absent
            BY <2>1, <2>3, <4>2, <5>3, RenderedNew
          <5> QED BY <5>1, <5>4
        <4> QED BY <4>1, <4>2
      <3> HIDE DEF w, R
      <3>8. g[q].semantic = w.semantic
        BY <3>3, <3>5, <3>6, <3>7, ObjectsEqual
      <3> QED BY <3>8 DEF w
    <2> QED BY <2>2, <2>3
  <1>4. MaxDepth + 1 \in Nat
    BY JsonAssumption
  <1>5. \A q \in Seq(Keys) : q \in T
    <2> HIDE DEF T
    <2> QED BY <1>2, <1>3, <1>4, Upwards
  <1> QED BY <1>5, UnderSelf

\* A plan without conflicts, and what is rendered.
ClearPlan(b, o, t, f, g, x) ==
  /\ ClearMerge(b, o, t, f) /\ Rendering(g, o, x)
  /\ f[<<>>] = x /\ x.conflicts = {}

\* What is known of the edits and additions of the whole plan.
LEMMA WholePlan ==
  ASSUME NEW b, NEW o, NEW t, NEW f, ClearMerge(b, o, t, f)
  PROVE  /\ Present(b, o, t, <<>>)
         /\ PartPlan(f[<<>>], b, o, t, <<>>)
         /\ Justified(f[<<>>], b, o, t)
  <1>1. ASSUME NEW v, IsDocument(v) PROVE ValueAt(v, <<>>).semantic # Absent
    <2>1. <<<<>>, v>> \in Nodes(v)
      BY <1>1, DocumentNodes
    <2>2. IsBuilt(<<<<>>, v>>[2])
      BY <1>1, <2>1, DocumentNodes
    <2>3. IsBuilt(v)
      BY <2>2
    <2> QED BY <2>3, BuiltFacts, ValueSteps
  <1>2. Present(b, o, t, <<>>)
    BY <1>1 DEF Present, ClearMerge
  <1>3. <<>> \in Seq(Keys)
    OBVIOUS
  <1> QED BY <1>2, <1>3, PlanParts, PlansJustified DEF ClearMerge

\* What one side alone brought to ours is spared.
LEMMA SparedPaths ==
  ASSUME NEW b, NEW o, NEW t, NEW f, ClearMerge(b, o, t, f), NEW p \in Seq(Keys),
         \/ ValueAt(o, p).semantic = ValueAt(t, p).semantic
         \/ ValueAt(t, p).semantic = ValueAt(b, p).semantic
  PROVE  Spared(f[<<>>], p)
  <1> DEFINE x == f[<<>>]
  <1>1. IsDocument(b) /\ IsDocument(o) /\ IsDocument(t)
        /\ DuplicateMemberPaths(b) = {} /\ DuplicateMemberPaths(o) = {} /\ DuplicateMemberPaths(t) = {}
    BY DEF ClearMerge
  <1>2. ASSUME NEW q, Under(p, q)
        PROVE  /\ q \in Seq(Keys)
               /\ \/ ValueAt(o, q).semantic = ValueAt(t, q).semantic
                  \/ ValueAt(t, q).semantic = ValueAt(b, q).semantic
    <2>1. q \in Seq(Keys)
      BY <1>2 DEF Under
    <2>2. /\ ValueAt(b, p).semantic = MeaningAt(b.semantic, p)
          /\ ValueAt(b, q).semantic = MeaningAt(b.semantic, q)
      BY <1>1, <2>1, NoRepeats
    <2>3. /\ ValueAt(o, p).semantic = MeaningAt(o.semantic, p)
          /\ ValueAt(o, q).semantic = MeaningAt(o.semantic, q)
      BY <1>1, <2>1, NoRepeats
    <2>4. /\ ValueAt(t, p).semantic = MeaningAt(t.semantic, p)
          /\ ValueAt(t, q).semantic = MeaningAt(t.semantic, q)
      BY <1>1, <2>1, NoRepeats
    <2>5. CASE MeaningAt(o.semantic, p) = MeaningAt(t.semantic, p)
      BY <1>2, <2>1, <2>3, <2>4, <2>5, SameMeaningBelow
    <2>6. CASE MeaningAt(t.semantic, p) = MeaningAt(b.semantic, p)
      BY <1>2, <2>1, <2>2, <2>4, <2>6, SameMeaningBelow
    <2> QED BY <2>2, <2>3, <2>4, <2>5, <2>6
  <1>3. PartPlan(x, b, o, t, <<>>) /\ Justified(x, b, o, t)
    BY WholePlan
  <1> HIDE DEF x
  <1>4. ASSUME NEW e \in x.edits, Under(p, e.at) PROVE FALSE
    <2>1. ValueAt(o, e.at).semantic = ValueAt(b, e.at).semantic
      BY <1>3 DEF PartPlan, EditOf
    <2>2. ValueAt(o, e.at).semantic # ValueAt(t, e.at).semantic
      BY <1>3 DEF Justified, EditJustified
    <2> QED BY <1>2, <1>4, <2>1, <2>2
  <1>5. ASSUME NEW a \in ToSet(x.adds), Under(p, a.at) PROVE FALSE
    <2>1. AddOf(a, b, o, t, <<>>)
      BY <1>3 DEF PartPlan
    <2>2. PICK k \in KeysOf(ValueAt(t, a.at)) :
            At(ValueAt(o, a.at).semantic, k) = Absent /\ At(ValueAt(b, a.at).semantic, k) = Absent
      BY <2>1 DEF AddOf
    <2>3. a.at \in Seq(Keys)
      BY <1>2, <1>5
    <2>4. k \in Keys
      <3>1. ValueAt(t, a.at) # NoValue
        BY <2>2 DEF KeysOf, NoValue
      <3> QED BY <1>1, <2>2, <2>3, <3>1, Reached, BuiltFacts
    <2>5. At(ValueAt(t, a.at).semantic, k) # Absent
      BY <1>1, <2>2, <2>3, <2>4, KeysReached
    <2> QED BY <1>2, <1>5, <2>2, <2>5
  <1> QED BY <1>4, <1>5 DEF Spared, x

\* Additions to the object at p under the key k: the base and ours have no
\* such member, and what it means is what theirs means.
FromTheirs(a, b, o, t, p, k) ==
  /\ At(ValueAt(b, p).semantic, k) = Absent /\ At(ValueAt(o, p).semantic, k) = Absent
  /\ At(ValueAt(t, p).semantic, k) # Absent
  /\ a.member.value.semantic = At(ValueAt(t, p).semantic, k)

LEMMA TheirMember ==
  ASSUME NEW t, IsDocument(t), DuplicateMemberPaths(t) = {}, NEW p \in Seq(Keys), NEW k \in Keys,
         k \in KeysOf(ValueAt(t, p))
  PROVE  /\ FirstMember(ValueAt(t, p), k).key = k
         /\ FirstMember(ValueAt(t, p), k).value.semantic = At(ValueAt(t, p).semantic, k)
         /\ FirstMember(ValueAt(t, p), k) \in ToSet(ValueAt(t, p).members)
  <1> DEFINE w == ValueAt(t, p)
  <1>1. w # NoValue
    BY DEF KeysOf, NoValue
  <1>2. IsBuilt(w)
    BY <1>1, Reached
  <1>3. FirstMember(w, k) = [key |-> k, value |-> MemberValue(w, k)] /\ FirstMember(w, k) \in ToSet(w.members)
    BY <1>2, FirstFacts
  <1>4. MemberValue(w, k).semantic = At(w.semantic, k)
    BY KeyThere
  <1> HIDE DEF w
  <1>5. FirstMember(w, k).key = k /\ FirstMember(w, k).value.semantic = At(w.semantic, k)
    BY <1>3, <1>4
  <1> QED BY <1>3, <1>5 DEF w

LEMMA AddedAre ==
  ASSUME NEW b, NEW o, NEW t, NEW f, ClearMerge(b, o, t, f), NEW p \in Seq(Keys), NEW k \in Keys,
         NEW a \in ToSet(f[<<>>].adds), a.at = p, a.member.key = k
  PROVE  FromTheirs(a, b, o, t, p, k)
  <1>1. IsDocument(t) /\ DuplicateMemberPaths(t) = {}
    BY DEF ClearMerge
  <1>2. AddOf(a, b, o, t, <<>>)
    BY WholePlan DEF PartPlan
  <1>3. /\ k \in KeysOf(ValueAt(t, p)) /\ a.member = FirstMember(ValueAt(t, p), k)
        /\ At(ValueAt(o, p).semantic, k) = Absent /\ At(ValueAt(b, p).semantic, k) = Absent
    BY <1>2 DEF AddOf
  <1>4. At(ValueAt(t, p).semantic, k) # Absent
    BY <1>1, <1>3, KeysReached
  <1>5. a.member.value.semantic = At(ValueAt(t, p).semantic, k)
    BY <1>1, <1>3, TheirMember
  <1> QED BY <1>3, <1>4, <1>5 DEF FromTheirs

\* The ways a key has no conflict.
LEMMA MemberCases ==
  ASSUME NEW b, NEW o, NEW t, NEW k, NEW p, NEW inside,
         MergeThreeMembers(b, o, t, k, p, inside).conflicts = {}
  PROVE  LET sb == At(b.semantic, k)
             so == At(o.semantic, k)
             st == At(t.semantic, k)
             x == MergeThreeMembers(b, o, t, k, p, inside)
         IN  \/ Absent \notin {sb, so, st} /\ x = inside
             \/ so # Absent /\ x.value = so /\ (so = st \/ st = sb)
             \/ so = Absent /\ x.value = Absent /\ (st = Absent \/ sb # Absent)
             \/ /\ sb = Absent /\ so = Absent /\ st # Absent /\ x.value = st
                /\ x.adds = <<AddMember(p, FirstMember(t, k), AtEnd)>>
  <1> DEFINE sb == At(b.semantic, k)
             so == At(o.semantic, k)
             st == At(t.semantic, k)
             here == Append(p, k)
             x == MergeThreeMembers(b, o, t, k, p, inside)
             y == [Planned(st) EXCEPT !.adds = <<AddMember(p, FirstMember(t, k), AtEnd)>>]
  <1>1. x = IF sb = Absent /\ st = Absent THEN Planned(so)
            ELSE IF sb = Absent /\ so = Absent THEN y
            ELSE IF sb = Absent /\ so = st THEN Planned(so)
            ELSE IF so = Absent /\ st = Absent THEN Planned(Absent)
            ELSE IF so = Absent /\ sb = st THEN Planned(Absent)
            ELSE IF st = Absent /\ sb = so THEN Conflicting(Absent, here, "delete_requires_owner_edit")
            ELSE IF Absent \notin {sb, so, st} THEN inside
            ELSE Conflicting(Absent, here, "ambiguous_owner_change")
    BY DEF MergeThreeMembers
  <1>2. y.value = st /\ y.adds = <<AddMember(p, FirstMember(t, k), AtEnd)>>
    BY DEF Planned
  <1>3. \A v : Planned(v).value = v
    BY DEF Planned
  <1>4. \A v, q, c : Conflicting(v, q, c).conflicts # {}
    BY DEF Conflicting, Planned
  <1>5. x.conflicts = {}
    OBVIOUS
  <1> HIDE DEF x, y, sb, so, st, here
  <1>6. \/ Absent \notin {sb, so, st} /\ x = inside
        \/ so # Absent /\ x.value = so /\ (so = st \/ st = sb)
        \/ so = Absent /\ x.value = Absent /\ (st = Absent \/ sb # Absent)
        \/ sb = Absent /\ so = Absent /\ st # Absent /\ x = y
    BY <1>1, <1>3, <1>4, <1>5
  <1>7. x = y => x.value = st /\ x.adds = <<AddMember(p, FirstMember(t, k), AtEnd)>>
    BY <1>2
  <1>8. \/ Absent \notin {sb, so, st} /\ x = inside
        \/ so # Absent /\ x.value = so /\ (so = st \/ st = sb)
        \/ so = Absent /\ x.value = Absent /\ (st = Absent \/ sb # Absent)
        \/ /\ sb = Absent /\ so = Absent /\ st # Absent /\ x.value = st
           /\ x.adds = <<AddMember(p, FirstMember(t, k), AtEnd)>>
    BY <1>6, <1>7
  <1> QED BY <1>8 DEF x, sb, so, st

\* A key of a rendered object means what its plan says.
LEMMA MemberRendered ==
  ASSUME NEW b, NEW o, NEW t, NEW f, NEW g, NEW x, ClearPlan(b, o, t, f, g, x),
         NEW p \in Seq(Keys), Kind(ValueAt(o, p)) = "object", \A e \in x.edits : e.at # p,
         NEW k \in Keys, NEW y,
         y = MergeThreeMembers(ValueAt(b, p), ValueAt(o, p), ValueAt(t, p), k, p, f[Append(p, k)]),
         y.conflicts = {}, ToSet(y.adds) \subseteq ToSet(x.adds),
         Present(b, o, t, Append(p, k)) /\ y = f[Append(p, k)] => g[Append(p, k)].semantic = y.value
  PROVE  At(g[p].semantic, k) = y.value
  <1> DEFINE vb == ValueAt(b, p)
             vo == ValueAt(o, p)
             vt == ValueAt(t, p)
             sb == At(vb.semantic, k)
             so == At(vo.semantic, k)
             st == At(vt.semantic, k)
             here == Append(p, k)
             inside == f[here]
  <1>1. /\ IsDocument(b) /\ IsDocument(o) /\ IsDocument(t)
        /\ DuplicateMemberPaths(b) = {} /\ DuplicateMemberPaths(o) = {} /\ DuplicateMemberPaths(t) = {}
        /\ ClearMerge(b, o, t, f) /\ Rendering(g, o, x) /\ f[<<>>] = x
    BY DEF ClearPlan, ClearMerge
  <1>2. Listed(x.adds)
    BY <1>1, WholePlan DEF PartPlan
  <1>3. here \in Seq(Keys) /\ ValueAt(b, here).semantic = sb
    BY <1>1, KeyThere
  <1>4. ValueAt(o, here).semantic = so /\ ValueAt(t, here).semantic = st
    BY <1>1, KeyThere
  <1>5. ASSUME NEW a \in ToSet(x.adds), a.at = p, a.member.key = k
        PROVE  sb = Absent /\ so = Absent /\ st # Absent /\ a.member.value.semantic = st
    BY <1>1, <1>5, AddedAre DEF FromTheirs
  <1>6. k \in KeysOf(vo) <=> so # Absent
    BY <1>1, KeysReached
  <1>7. ASSUME so # Absent PROVE At(g[p].semantic, k) = g[here].semantic
    <2>1. SameThere(o, p)
      BY <1>1, ObjectsMeet
    <2>2. vo # NoValue
      BY DEF NoValue, Kind, Absent
    <2>3. Only(vo, k)
      <3>1. Distinct(vo)
        BY <1>1, NoRepeats
      <3> HIDE DEF vo
      <3> QED BY <3>1, <2>2 DEF Distinct, Unrepeated, Only
    <2>4. NotAdded(x.adds, p, k)
      BY <1>5, <1>7 DEF NotAdded
    <2>5. k \in KeysOf(ValueAt(o, p))
      BY <1>6, <1>7
    <2>6. At(g[p].semantic, k) = IF Only(ValueAt(o, p), k) THEN g[Append(p, k)].semantic
                                 ELSE At(ValueAt(o, p).semantic, k)
      BY <1>1, <1>2, <2>1, <2>4, <2>5, RenderedKey
    <2> QED BY <2>3, <2>6
  <1>8. ASSUME NEW m, so = Absent, AddedMeans(x, vo, p, k, m) PROVE At(g[p].semantic, k) = m
    BY <1>1, <1>2, <1>6, <1>8, RenderedNew
  <1>9. \/ Absent \notin {sb, so, st} /\ y = inside
        \/ so # Absent /\ y.value = so /\ (so = st \/ st = sb)
        \/ so = Absent /\ y.value = Absent /\ (st = Absent \/ sb # Absent)
        \/ /\ sb = Absent /\ so = Absent /\ st # Absent /\ y.value = st
           /\ y.adds = <<AddMember(p, FirstMember(vt, k), AtEnd)>>
    <2>1. MergeThreeMembers(vb, vo, vt, k, p, inside).conflicts = {}
      OBVIOUS
    <2> HIDE DEF vb, vo, vt, inside
    <2>2. y = MergeThreeMembers(vb, vo, vt, k, p, inside)
      BY DEF vb, vo, vt, inside
    <2> QED BY <2>1, <2>2, MemberCases
  <1>10. CASE Absent \notin {sb, so, st} /\ y = inside
    <2>1. Present(b, o, t, here)
      BY <1>3, <1>4, <1>10 DEF Present
    <2>2. g[here].semantic = y.value
      BY <1>10, <2>1
    <2> QED BY <1>7, <1>10, <2>2
  <1>11. CASE so # Absent /\ y.value = so /\ (so = st \/ st = sb)
    <2>1. Spared(x, here)
      BY <1>1, <1>3, <1>4, <1>11, SparedPaths
    <2>2. g[here].semantic = so
      <3> HIDE DEF here, so
      <3>1. g[here].semantic = ValueAt(o, here).semantic
        BY <1>1, <1>2, <1>3, <2>1, SparedStays
      <3> QED BY <1>4, <3>1
    <2> QED BY <1>7, <1>11, <2>2
  <1>12. CASE so = Absent /\ y.value = Absent /\ (st = Absent \/ sb # Absent)
    <2>1. AddedMeans(x, vo, p, k, Absent)
      BY <1>5, <1>12 DEF AddedMeans, NotAdded
    <2> QED BY <1>8, <1>12, <2>1
  <1>13. CASE /\ sb = Absent /\ so = Absent /\ st # Absent /\ y.value = st
              /\ y.adds = <<AddMember(p, FirstMember(vt, k), AtEnd)>>
    <2> DEFINE a == AddMember(p, FirstMember(vt, k), AtEnd)
    <2>1. k \in KeysOf(vt)
      BY <1>1, <1>13, KeysReached
    <2>2. a.at = p /\ a.member = FirstMember(vt, k) /\ a.before = AtEnd
      BY DEF AddMember
    <2>3. FirstMember(vt, k).key = k
      BY <1>1, <2>1, TheirMember
    <2> HIDE DEF a
    <2>4. a \in ToSet(x.adds)
      <3>1. ToSet(y.adds) = {a}
        BY <1>13, ListedFacts DEF a
      <3> QED BY <3>1
    <2>5. AddedMeans(x, vo, p, k, st)
      BY <1>5, <2>2, <2>3, <2>4 DEF AddedMeans, HasPlace
    <2> QED BY <1>8, <1>13, <2>5
  <1> QED BY <1>9, <1>10, <1>11, <1>12, <1>13

\* A part of a plan without conflicts, that the whole plan has.
Kept(y, x) == /\ y.conflicts = {} /\ y.edits \subseteq x.edits
              /\ ToSet(y.adds) \subseteq ToSet(x.adds)

LEMMA RenderedAsPlanned ==
  ASSUME NEW b, NEW o, NEW t, NEW f, NEW g, NEW x, ClearPlan(b, o, t, f, g, x)
  PROVE  \A p \in Seq(Keys) : Present(b, o, t, p) /\ Kept(f[p], x) => g[p].semantic = f[p].value
  <1> DEFINE T == {p \in Seq(Keys) : Present(b, o, t, p) /\ Kept(f[p], x) => g[p].semantic = f[p].value}
  <1>0. /\ IsDocument(b) /\ IsDocument(o) /\ IsDocument(t) /\ Merging(f, b, o, t) /\ Rendering(g, o, x)
        /\ DuplicateMemberPaths(b) = {} /\ DuplicateMemberPaths(o) = {} /\ DuplicateMemberPaths(t) = {}
        /\ ClearMerge(b, o, t, f) /\ f[<<>>] = x
    BY DEF ClearMerge, ClearPlan
  <1>1. ASSUME NEW p \in Seq(Keys), Len(p) >= MaxDepth + 1 PROVE p \in T
    <2>1. ValueAt(b, p) = NoValue
      BY <1>0, <1>1, BeyondDepth
    <2>2. ~Present(b, o, t, p)
      BY <2>1 DEF Present, NoValue
    <2> QED BY <2>2
  <1>2. ASSUME NEW p \in Seq(Keys), \A k \in Keys : Append(p, k) \in T PROVE p \in T
    <2> SUFFICES ASSUME Present(b, o, t, p), Kept(f[p], x) PROVE g[p].semantic = f[p].value
      OBVIOUS
    <2> DEFINE vb == ValueAt(b, p)
               vo == ValueAt(o, p)
               vt == ValueAt(t, p)
               sb == vb.semantic
               so == vo.semantic
               st == vt.semantic
               y == f[p]
               parts == [k \in Keys |-> MergeThreeMembers(vb, vo, vt, k, p, Inside(f, p)[k])]
               z == [Planned(st) EXCEPT !.edits = {[at |-> p, source |-> vt]}]
    <2>1. y = MergeThree(vb, vo, vt, p, Inside(f, p))
      BY <1>0 DEF Merging, MergeAt
    <2>2. /\ PartPlan(x, b, o, t, <<>>) /\ Listed(x.adds)
      BY <1>0, WholePlan DEF PartPlan
    <2>3. Kept(y, x)
      OBVIOUS
    <2> HIDE DEF y
    <2>4. CASE so = st \/ (st = sb /\ so # sb)
      <3>1. y = Planned(so)
        BY <2>1, <2>4 DEF MergeThree
      <3>2. y.value = so
        BY <3>1 DEF Planned
      <3>3. Spared(x, p)
        BY <1>0, <2>4, SparedPaths
      <3>4. g[p].semantic = so
        BY <1>0, <2>2, <3>3, SparedStays
      <3> QED BY <3>2, <3>4 DEF y
    <2>5. CASE so # st /\ so = sb
      <3>1. y = z
        BY <2>1, <2>5 DEF MergeThree
      <3>2. z.value = st /\ z.edits = {[at |-> p, source |-> vt]}
        BY DEF Planned
      <3> DEFINE edits == {e \in x.edits : e.at = p}
      <3> HIDE DEF z
      <3>3. [at |-> p, source |-> vt] \in x.edits
        BY <2>3, <3>1, <3>2 DEF Kept
      <3>4. edits # {} /\ \A e \in edits : e.source = vt
        <4>1. \A e \in edits : EditOf(e, b, o, t, <<>>) /\ e.at = p
          BY <2>2 DEF PartPlan
        <4>2. [at |-> p, source |-> vt] \in edits
          BY <3>3
        <4> QED BY <4>1, <4>2 DEF EditOf
      <3>5. (CHOOSE e \in edits : TRUE) \in edits
        BY <3>4
      <3>6. g[p] = Render(vo, x, p, Inside(g, p))
        BY <1>0 DEF Rendering, RenderAt
      <3>7. g[p] = (CHOOSE e \in edits : TRUE).source
        BY <3>4, <3>6 DEF Render
      <3>8. g[p] = vt
        <4> HIDE DEF edits, vt
        <4> QED BY <3>4, <3>5, <3>7
      <3> QED BY <3>1, <3>2, <3>8 DEF y
    <2>6. CASE Apart(sb, so, st)
      <3>0. y.conflicts = {}
        BY <2>3 DEF Kept
      <3>1. Kind(vo) = "object" /\ y = Joined(parts)
        <4>1. \/ ~Apart(vb.semantic, vo.semantic, vt.semantic)
              \/ /\ Kind(vo) = "object"
                 /\ y = Joined([k \in Keys |-> MergeThreeMembers(vb, vo, vt, k, p, Inside(f, p)[k])])
          <5> HIDE DEF vb, vo, vt
          <5> QED BY <2>1, <3>0, ValuesResolved
        <4> QED BY <2>6, <4>1
      <3>2. \A e \in x.edits : e.at # p
        BY <2>2, <2>6 DEF PartPlan, EditOf, Apart
      <3> HIDE DEF parts
      <3>3. ASSUME NEW k \in Keys
            PROVE  parts[k] = MergeThreeMembers(vb, vo, vt, k, p, f[Append(p, k)]) /\ Listed(parts[k].adds)
        <4> DEFINE inside == f[Append(p, k)]
        <4>1. parts[k] = MergeThreeMembers(vb, vo, vt, k, p, inside)
          BY DEF Inside, parts
        <4>2. Append(p, k) \in Seq(Keys)
          OBVIOUS
        <4>3. PartPlan(inside, b, o, t, Append(p, k))
          BY <1>0, <4>2, PlanParts
        <4> HIDE DEF inside
        <4>4. PartPlan(parts[k], b, o, t, p)
          BY <1>0, <4>1, <4>3, MemberPart
        <4>5. Listed(parts[k].adds)
          BY <4>4 DEF PartPlan
        <4> QED BY <4>1, <4>5 DEF inside
      <3>4. /\ y.edits = UNION {parts[k].edits : k \in Keys}
            /\ ToSet(y.adds) = UNION {ToSet(parts[k].adds) : k \in Keys}
            /\ y.conflicts = UNION {parts[k].conflicts : k \in Keys}
            /\ y.value = [kind |-> "object", members |-> [k \in Keys |-> parts[k].value]]
        BY <3>1, <3>3, JoinedFacts
      <3>5. ASSUME NEW k \in Keys PROVE Kept(parts[k], x)
        BY <2>3, <3>4 DEF Kept
      <3>6. ASSUME NEW k \in Keys PROVE At(g[p].semantic, k) = parts[k].value
        <4>1. Append(p, k) \in T
          BY <1>2
        <4>2. parts[k].conflicts = {} /\ ToSet(parts[k].adds) \subseteq ToSet(x.adds)
          BY <3>5 DEF Kept
        <4>3. Present(b, o, t, Append(p, k)) /\ parts[k] = f[Append(p, k)] =>
                g[Append(p, k)].semantic = parts[k].value
          BY <3>5, <4>1
        <4> HIDE DEF T
        <4> QED BY <3>1, <3>2, <3>3, <4>2, <4>3, MemberRendered
      <3>7. IsRewritten(g[p], vo, x, p, Inside(g, p))
        BY <1>0, <3>1, <3>2, RenderedObject
      <3> DEFINE F == MeaningOf(RenderMembers(vo, x, p, Inside(g, p)))
                 G == [k \in Keys |-> parts[k].value]
      <3>8. g[p].semantic = [kind |-> "object", members |-> F]
        BY <3>7 DEF IsRewritten
      <3>9. F = [k \in Keys |-> F[k]]
        BY DEF MeaningOf
      <3>10. G = [k \in Keys |-> G[k]] /\ \A k \in Keys : G[k] = parts[k].value
        OBVIOUS
      <3>11. y.value = [kind |-> "object", members |-> G]
        BY <3>4
      <3> HIDE DEF F, G
      <3>12. \A k \in Keys : At(y.value, k) = G[k]
        BY <3>11 DEF At
      <3>13. \A k \in Keys : At(g[p].semantic, k) = At(y.value, k)
        BY <3>6, <3>10, <3>12
      <3>14. g[p].semantic = y.value
        BY <3>8, <3>9, <3>10, <3>11, <3>13, ObjectsEqual
      <3> QED BY <3>14 DEF y
    <2> QED BY <2>4, <2>5, <2>6 DEF Apart
  <1>3. MaxDepth + 1 \in Nat
    BY JsonAssumption
  <1>4. \A p \in Seq(Keys) : p \in T
    <2> HIDE DEF T
    <2> QED BY <1>1, <1>2, <1>3, Upwards
  <1> QED BY <1>4

-----------------------------------------------------------------------------
(* Edits that overlap *)

\* A path that goes on has a next key.
LEMMA StrictPrefix ==
  ASSUME NEW p \in Seq(Keys), NEW q \in Seq(Keys), IsStrictPrefix(p, q)
  PROVE  \E k \in Keys : Under(Append(p, k), q)
  <1> DEFINE n == Len(p)
             l == Len(q)
  <1>1. n \in Nat /\ l \in Nat
    OBVIOUS
  <1>2. n <= l /\ SubSeq(p, 1, n) = SubSeq(q, 1, n) /\ p # q
    BY DEF IsStrictPrefix, IsPrefix
  <1>3. \A i \in 1..n : q[i] = p[i]
    <2>1. \A i \in 1..n : SubSeq(p, 1, n)[i] = p[i]
      BY <1>1
    <2>2. \A i \in 1..n : SubSeq(q, 1, n)[i] = q[i]
      BY <1>1, <1>2
    <2> QED BY <1>2, <2>1, <2>2
  <1>4. n # l
    <2>1. ASSUME n = l PROVE FALSE
      <3>1. \A i \in 1..Len(p) : p[i] = q[i]
        BY <1>3
      <3>2. Len(p) = Len(q)
        BY <2>1
      <3>3. p = q
        BY <3>1, <3>2, SeqEqual
      <3> QED BY <1>2, <3>3
    <2> QED BY <2>1
  <1>5. n + 1 \in 1..l
    BY <1>1, <1>2, <1>4
  <1> DEFINE k == q[n + 1]
             r == Append(p, k)
  <1>6. k \in Keys
    BY <1>5
  <1>7. /\ r \in Seq(Keys) /\ Len(r) = n + 1 /\ r[n + 1] = k /\ \A i \in 1..n : r[i] = p[i]
    BY <1>6
  <1> HIDE DEF n, l, r
  <1>8. ASSUME NEW i \in 1..(n + 1) PROVE q[i] = r[i]
    BY <1>1, <1>3, <1>7
  <1>9. Len(r) <= Len(q)
    BY <1>1, <1>5, <1>7 DEF l
  <1>10. Under(r, q)
    BY <1>7, <1>8, <1>9 DEF Under
  <1> QED BY <1>6, <1>10 DEF r

LEMMA NothingBelow ==
  ASSUME NEW m, NEW p \in Seq(Keys), MeaningAt(m, p) = Absent
  PROVE  \A q : Under(p, q) => MeaningAt(m, q) = Absent
  <1> DEFINE T == {q \in Seq(Keys) : MeaningAt(Absent, q) = Absent}
  <1>1. <<>> \in T
    BY MeaningSteps
  <1>2. ASSUME NEW q \in Seq(Keys), NEW k \in Keys, q \in T PROVE Append(q, k) \in T
    <2>1. MeaningAt(Absent, Append(q, k)) = At(MeaningAt(Absent, q), k)
      BY MeaningSteps
    <2>2. At(Absent, k) = Absent
      BY DEF At, Absent
    <2> QED BY <1>2, <2>1, <2>2
  <1>3. \A q \in Seq(Keys) : q \in T
    <2> HIDE DEF T
    <2> QED BY <1>1, <1>2, Downwards
  <1>4. MeaningAt(m, p) = MeaningAt(Absent, p)
    BY <1>3
  <1>5. \A q : Under(p, q) => MeaningAt(m, q) = MeaningAt(Absent, q)
    <2> DEFINE l == Absent
    <2>1. MeaningAt(m, p) = MeaningAt(l, p)
      BY <1>4
    <2> HIDE DEF l
    <2>2. \A q : Under(p, q) => MeaningAt(m, q) = MeaningAt(l, q)
      BY <2>1, SameMeaningBelow
    <2> QED BY <2>2 DEF l
  <1> QED BY <1>3, <1>5 DEF Under

\* Ours has a value there, and theirs not the same.
DiffersAt(q, o, t) ==
  /\ q \in Seq(Keys) /\ ValueAt(o, q).semantic # Absent
  /\ ValueAt(o, q).semantic # ValueAt(t, q).semantic
\* A member of theirs that the object of ours has not.
NewMember(a, o, t) ==
  /\ Kind(ValueAt(o, a.at)) = "object" /\ a.member.key \in Keys
  /\ a.member.key \notin KeysOf(ValueAt(o, a.at))
  /\ At(ValueAt(t, a.at).semantic, a.member.key) # Absent
FromDifferences(x, o, t) ==
  /\ \A e \in x.edits : DiffersAt(e.at, o, t)
  /\ \A a \in ToSet(x.adds) : DiffersAt(a.at, o, t) /\ NewMember(a, o, t)

\* The reason why edits overlap.
OverlapReason(o, t, p) ==
  /\ ValueAt(o, p).inline
  /\ \E k \in Keys : At(MeaningAt(t.semantic, p), k) # Absent /\ k \notin KeysOf(ValueAt(o, p))
  /\ \E k \in KeysOf(ValueAt(o, p)) :
       MeaningAt(t.semantic, Append(p, k)) # MeaningAt(o.semantic, Append(p, k))

LEMMA ReachedPath ==
  ASSUME NEW v, IsDocument(v), NEW p \in Seq(Keys), ValueAt(v, p).semantic # Absent
  PROVE  p \in KeyPaths
  <1>1. ValueAt(v, p) # NoValue
    BY DEF NoValue
  <1>2. Len(p) =< MaxDepth
    BY <1>1, ReachedValues
  <1>3. Len(p) \in 0..(MaxDepth + 1)
    BY <1>2, JsonAssumption
  <1>4. p \in [1..Len(p) -> Keys]
    OBVIOUS
  <1> QED BY <1>3, <1>4 DEF KeyPaths, BoundedSeq, SeqOf

LEMMA OverlapHasReason ==
  ASSUME NEW o, IsDocument(o), DuplicateMemberPaths(o) = {},
         NEW t, IsDocument(t), DuplicateMemberPaths(t) = {},
         NEW x, FromDifferences(x, o, t), Overlapping(o, x)
  PROVE  \E p \in ObjectPaths(o) : OverlapReason(o, t, p)
  <1>1. PICK a \in ToSet(x.adds) :
          /\ WrittenAnew(ValueAt(o, a.at), AddedAt(x, a.at))
          /\ \E e \in {y.at : y \in ToSet(x.adds)} \cup {y.at : y \in x.edits} :
               IsStrictPrefix(a.at, e)
    BY DEF Overlapping
  <1> DEFINE p == a.at
  <1>2. PICK q \in {y.at : y \in ToSet(x.adds)} \cup {y.at : y \in x.edits} : IsStrictPrefix(p, q)
    BY <1>1
  <1>3. DiffersAt(q, o, t) /\ DiffersAt(p, o, t) /\ NewMember(a, o, t)
    BY DEF FromDifferences
  <1> DEFINE m == ValueAt(o, p)
             n == a.member.key
  <1>4. /\ Kind(m) = "object" /\ n \in Keys /\ n \notin KeysOf(m)
        /\ At(ValueAt(t, p).semantic, n) # Absent
    BY <1>3 DEF NewMember
  <1>5. p \in Seq(Keys) /\ q \in Seq(Keys) /\ m.semantic # Absent
    BY <1>3 DEF DiffersAt
  <1>6. m.inline
    BY <1>1 DEF WrittenAnew
  <1>7. ValueAt(t, p).semantic = MeaningAt(t.semantic, p)
    BY <1>5, NoRepeats
  <1>8. PICK k \in Keys : Under(Append(p, k), q)
    BY <1>2, <1>5, StrictPrefix
  <1> DEFINE r == Append(p, k)
  <1>9. r \in Seq(Keys)
    BY <1>5
  <1>10. ValueAt(o, q).semantic = MeaningAt(o.semantic, q) /\ ValueAt(t, q).semantic = MeaningAt(t.semantic, q)
    BY <1>5, NoRepeats
  <1>11. MeaningAt(o.semantic, q) # Absent /\ MeaningAt(o.semantic, q) # MeaningAt(t.semantic, q)
    BY <1>3, <1>10 DEF DiffersAt
  <1>12. MeaningAt(o.semantic, r) # Absent
    BY <1>8, <1>9, <1>11, NothingBelow
  <1>13. MeaningAt(o.semantic, r) # MeaningAt(t.semantic, r)
    <2> SUFFICES ASSUME MeaningAt(o.semantic, r) = MeaningAt(t.semantic, r) PROVE FALSE
      OBVIOUS
    <2> DEFINE so == o.semantic
               st == t.semantic
    <2>1. MeaningAt(so, r) = MeaningAt(st, r) /\ Under(r, q)
      BY <1>8
    <2> HIDE DEF so, st, r
    <2>2. MeaningAt(so, q) = MeaningAt(st, q)
      BY <1>9, <2>1, SameMeaningBelow
    <2> QED BY <1>11, <2>2 DEF so, st
  <1>14. MeaningAt(o.semantic, r) = At(m.semantic, k)
    BY <1>5, KeyThere
  <1>15. k \in KeysOf(m)
    BY <1>5, <1>12, <1>14, KeysReached
  <1>16. p \in KeyPaths
    BY <1>5, ReachedPath
  <1>17. p \in ObjectPaths(o)
    BY <1>4, <1>16 DEF ObjectPaths
  <1>18. OverlapReason(o, t, p)
    BY <1>4, <1>6, <1>7, <1>13, <1>15 DEF OverlapReason
  <1> HIDE DEF p
  <1> QED BY <1>17, <1>18

LEMMA PlanFromDifferences ==
  ASSUME NEW b, NEW o, NEW t, NEW f, ClearMerge(b, o, t, f)
  PROVE  FromDifferences(f[<<>>], o, t)
  <1> DEFINE x == f[<<>>]
  <1>1. IsDocument(o) /\ IsDocument(t) /\ DuplicateMemberPaths(t) = {}
    BY DEF ClearMerge
  <1>2. PartPlan(x, b, o, t, <<>>) /\ Justified(x, b, o, t)
    BY WholePlan
  <1> HIDE DEF x
  <1>3. ASSUME NEW e \in x.edits PROVE DiffersAt(e.at, o, t)
    <2>1. EditOf(e, b, o, t, <<>>) /\ EditJustified(e, b, o, t)
      BY <1>2 DEF PartPlan, Justified
    <2>2. e.at \in Seq(Keys)
      BY <2>1 DEF EditOf, Under
    <2> QED BY <2>1, <2>2 DEF EditJustified, Present, DiffersAt
  <1>4. ASSUME NEW a \in ToSet(x.adds) PROVE DiffersAt(a.at, o, t) /\ NewMember(a, o, t)
    <2> DEFINE vo == ValueAt(o, a.at)
               vt == ValueAt(t, a.at)
    <2>1. AddOf(a, b, o, t, <<>>) /\ AddJustified(a, b, o, t)
      BY <1>2 DEF PartPlan, Justified
    <2>2. a.at \in Seq(Keys)
      BY <2>1 DEF AddOf, Under
    <2>3. Kind(vo) = "object" /\ Kind(vt) = "object"
      BY <2>1 DEF AddJustified
    <2>4. PICK k \in KeysOf(vt) : a.member.key = k /\ At(vo.semantic, k) = Absent
      BY <2>1 DEF AddOf
    <2>5. k \in Keys
      <3>1. vt # NoValue
        BY <2>4 DEF KeysOf, NoValue
      <3> QED BY <1>1, <2>2, <2>4, <3>1, Reached, BuiltFacts
    <2>6. At(vt.semantic, k) # Absent
      BY <1>1, <2>2, <2>4, <2>5, KeysReached
    <2>7. k \notin KeysOf(vo)
      BY <1>1, <2>2, <2>4, <2>5, KeysReached
    <2>8. vo.semantic # Absent /\ vo.semantic # vt.semantic
      <3> HIDE DEF vo, vt
      <3> QED BY <2>3, <2>4, <2>6 DEF Kind, Absent
    <2> HIDE DEF vo, vt
    <2>9. DiffersAt(a.at, o, t)
      BY <2>2, <2>8 DEF DiffersAt, vo, vt
    <2>10. NewMember(a, o, t)
      BY <2>3, <2>4, <2>5, <2>6, <2>7 DEF NewMember, vo, vt
    <2> QED BY <2>9, <2>10
  <1>5. FromDifferences(x, o, t)
    BY <1>3, <1>4 DEF FromDifferences
  <1> QED BY <1>5 DEF x

-----------------------------------------------------------------------------
(* The members of a template *)

StepDown(up, n) ==
  IF n \in DOMAIN up.value.members
    THEN [path  |-> Append(up.path, up.value.members[n].key),
          value |-> up.value.members[n].value]
    ELSE [path |-> up.path, value |-> NoValue]

\* The recursion of Placed has a solution.
Placing(f, v, path, n) ==
  f = [k \in 0..n |-> IF k = 0 THEN [path |-> <<>>, value |-> v] ELSE StepDown(f[k - 1], path[k])]

LEMMA PlacingExists ==
  ASSUME NEW v, NEW path, NEW n \in Nat
  PROVE  \E f : Placing(f, v, path, n)
  <1> DEFINE T == {m \in Nat : \E f : Placing(f, v, path, m)}
  <1>1. 0 \in T
    <2>1. Placing([k \in 0..0 |-> [path |-> <<>>, value |-> v]], v, path, 0)
      BY DEF Placing
    <2> QED BY <2>1
  <1>2. ASSUME NEW m \in 0..(n - 1), m \in T PROVE m + 1 \in T
    <2>1. PICK f : Placing(f, v, path, m)
      BY <1>2
    <2>2. m \in Nat
      OBVIOUS
    <2> DEFINE last == StepDown(f[m], path[m + 1])
    <2>3. PICK g : Extends(g, f, m, last)
      <3> HIDE DEF last
      <3> QED BY <2>2, Extension
    <2>4. g[m + 1] = last /\ \A k \in 0..m : g[k] = f[k]
      BY <2>3 DEF Extends
    <2>5. \A k \in 0..m : f[k] = IF k = 0 THEN [path |-> <<>>, value |-> v] ELSE StepDown(f[k - 1], path[k])
      BY <2>1 DEF Placing
    <2>6. ASSUME NEW k \in 0..(m + 1)
          PROVE  g[k] = IF k = 0 THEN [path |-> <<>>, value |-> v] ELSE StepDown(g[k - 1], path[k])
      <3>1. CASE k = m + 1
        <4>1. k # 0 /\ k - 1 = m /\ g[m] = f[m]
          BY <3>1, <2>2, <2>4
        <4> QED BY <4>1, <3>1, <2>4
      <3>2. CASE k # m + 1
        <4>1. k \in 0..m /\ g[k] = f[k] /\ (k # 0 => g[k - 1] = f[k - 1])
          BY <3>2, <2>2, <2>4
        <4> QED BY <4>1, <2>5
      <3> QED BY <3>1, <3>2
    <2>7. Placing(g, v, path, m + 1)
      BY <2>3, <2>6 DEF Extends, Placing
    <2> QED BY <2>2, <2>7
  <1>3. n \in T
    <2> HIDE DEF T
    <2> QED BY <1>1, <1>2, UpTo
  <1> QED BY <1>3

LEMMA PlacedSteps ==
  ASSUME NEW v
  PROVE  /\ Placed(v, <<>>) = [path |-> <<>>, value |-> v]
         /\ \A p \in Seq(Nat), k \in Nat : Placed(v, Append(p, k)) = StepDown(Placed(v, p), k)
  <1> DEFINE F(p) == CHOOSE g : Placing(g, v, p, Len(p))
  <1>1. \A p \in Seq(Nat) : Placing(F(p), v, p, Len(p))
    <2> TAKE p \in Seq(Nat)
    <2>1. \E g : Placing(g, v, p, Len(p))
      <3>1. Len(p) \in Nat
        OBVIOUS
      <3> QED BY <3>1, PlacingExists
    <2> QED BY <2>1
  <1>2. \A p \in Seq(Nat) : Placed(v, p) = F(p)[Len(p)]
    BY DEF Placed, Placing, StepDown
  <1> HIDE DEF F
  <1>3. \A p \in Seq(Nat) : F(p)[0] = [path |-> <<>>, value |-> v] /\ \A k \in 1..Len(p) : F(p)[k] = StepDown(F(p)[k - 1], p[k])
    BY <1>1 DEF Placing
  <1>4. Placed(v, <<>>) = [path |-> <<>>, value |-> v]
    <2>1. <<>> \in Seq(Nat) /\ Len(<<>>) = 0
      OBVIOUS
    <2> QED BY <2>1, <1>2, <1>3
  <1>5. ASSUME NEW p \in Seq(Nat), NEW key \in Nat
        PROVE  Placed(v, Append(p, key)) = StepDown(Placed(v, p), key)
    <2> DEFINE q == Append(p, key)
               n == Len(p)
               f == F(p)
               g == F(q)
    <2>1. /\ q \in Seq(Nat) /\ Len(q) = n + 1 /\ n \in Nat /\ q[n + 1] = key
          /\ \A k \in 1..n : q[k] = p[k]
      OBVIOUS
    <2> HIDE DEF q, n
    <2>2. f[0] = [path |-> <<>>, value |-> v] /\ g[0] = [path |-> <<>>, value |-> v] /\ Len(p) = n
      BY <2>1, <1>3 DEF n
    <2>3. \A k \in 1..n : f[k] = StepDown(f[k - 1], p[k])
      BY <2>2, <1>3
    <2>4. \A k \in 1..(n + 1) : g[k] = StepDown(g[k - 1], q[k])
      BY <2>1, <1>3
    <2>5. Placed(v, p) = f[n] /\ Placed(v, q) = g[n + 1]
      BY <2>1, <2>2, <1>2
    <2> HIDE DEF f, g
    <2> DEFINE S == {k \in 0..n : f[k] = g[k]}
    <2>6. 0 \in S
      BY <2>1, <2>2
    <2>7. ASSUME NEW k \in 0..(n - 1), k \in S PROVE k + 1 \in S
      <3>1. k + 1 \in 1..n /\ k + 1 \in 1..(n + 1) /\ (k + 1) - 1 = k /\ k + 1 \in 0..n
        BY <2>1
      <3>2. f[k + 1] = StepDown(f[k], p[k + 1]) /\ g[k + 1] = StepDown(g[k], q[k + 1])
        BY <2>3, <2>4, <3>1
      <3> QED BY <2>1, <2>7, <3>1, <3>2
    <2>8. n \in S
      <3> HIDE DEF S
      <3>1. \A k \in 0..n : k \in S
        BY <2>1, <2>6, <2>7, UpTo
      <3> QED BY <3>1, <2>1
    <2>9. n + 1 \in 1..(n + 1) /\ (n + 1) - 1 = n
      BY <2>1
    <2>10. g[n + 1] = StepDown(g[n], q[n + 1])
      BY <2>4, <2>9
    <2>11. g[n + 1] = StepDown(f[n], key)
      BY <2>8, <2>10, <2>1
    <2> QED BY <2>5, <2>11 DEF q
  <1> QED BY <1>4, <1>5

\* What stands at some positions of a template.
PlacedAt(node, t, places) ==
  /\ node.path \in Seq(Keys)
  /\ \/ node.value = NoValue
     \/ /\ Len(node.path) = Len(places) /\ Len(places) =< MaxDepth
        /\ <<node.path, node.value>> \in Level(t, Len(places))
        /\ <<node.path, node.value>> \in Nodes(t)
        /\ IsBuilt(node.value)
  /\ DOMAIN node.value.members \subseteq Nat

LEMMA NodeAtLevel ==
  ASSUME NEW t, IsDocument(t), NEW p \in Seq(Keys), NEW n \in Nat, n =< MaxDepth, NEW w,
         <<p, w>> \in Level(t, n)
  PROVE  /\ <<p, w>> \in Nodes(t) /\ IsBuilt(w) /\ DOMAIN w.members \subseteq Nat
         /\ \A i \in DOMAIN w.members :
              /\ w.members[i].key \in Keys
              /\ <<Append(p, w.members[i].key), w.members[i].value>> \in Level(t, n + 1)
  <1> DEFINE node == <<p, w>>
  <1>0. MaxDepth \in Nat
    BY JsonAssumption
  <1>1. node \in Nodes(t)
    BY <1>0 DEF Nodes
  <1>2. IsBuilt(node[2])
    BY <1>1, DocumentNodes
  <1>3. IsBuilt(w)
    BY <1>2
  <1>4. Len(w.members) \in Nat /\ DOMAIN w.members = 1..Len(w.members) /\ KeysOf(w) \subseteq Keys
    BY <1>3, BuiltFacts
  <1>5. Level(t, n + 1) = Deeper(Level(t, n))
    BY Levels
  <1>6. ASSUME NEW i \in DOMAIN w.members
        PROVE  /\ w.members[i].key \in Keys
               /\ <<Append(p, w.members[i].key), w.members[i].value>> \in Level(t, n + 1)
    <2>1. w.members[i].key \in Keys
      BY <1>4 DEF KeysOf
    <2>2. w.members[i] \in ToSet(w.members)
      BY DEF ToSet
    <2>3. node[1] = p /\ node[2] = w /\ node \in Level(t, n)
      OBVIOUS
    <2> HIDE DEF node
    <2>4. <<Append(node[1], w.members[i].key), w.members[i].value>> \in Below(node)
      BY <2>2, <2>3 DEF Below
    <2> QED BY <2>1, <2>3, <2>4, <1>5 DEF Deeper
  <1> QED BY <1>1, <1>3, <1>4, <1>6

LEMMA PlacedFacts ==
  ASSUME NEW t, IsDocument(t)
  PROVE  \A places \in Seq(Nat) :
           /\ PlacedAt(Placed(t, places), t, places)
           /\ DOMAIN Placed(t, places).value.members \subseteq Nat
  <1> DEFINE T == {places \in Seq(Nat) : PlacedAt(Placed(t, places), t, places)}
  <1>1. <<>> \in T
    <2> DEFINE node == [path |-> <<>>, value |-> t]
    <2>1. Placed(t, <<>>) = node
      BY PlacedSteps
    <2>2. <<>> \in Seq(Keys) /\ <<>> \in Seq(Nat) /\ Len(<<>>) = 0 /\ 0 \in Nat
      OBVIOUS
    <2>3. <<<<>>, t>> \in Level(t, 0)
      BY Levels
    <2>4. 0 =< MaxDepth
      BY JsonAssumption
    <2>5. <<<<>>, t>> \in Nodes(t) /\ IsBuilt(t) /\ DOMAIN t.members \subseteq Nat
      BY <2>2, <2>3, <2>4, NodeAtLevel
    <2>6. node.path = <<>> /\ node.value = t
      OBVIOUS
    <2> HIDE DEF node
    <2>7. PlacedAt(node, t, <<>>)
      BY <2>2, <2>3, <2>4, <2>5, <2>6 DEF PlacedAt
    <2> QED BY <2>1, <2>2, <2>7
  <1>2. ASSUME NEW places \in Seq(Nat), NEW n \in Nat, places \in T PROVE Append(places, n) \in T
    <2> DEFINE up == Placed(t, places)
               more == Append(places, n)
               l == Len(places)
    <2>1. Placed(t, more) = StepDown(up, n)
      BY PlacedSteps
    <2>2. more \in Seq(Nat) /\ Len(more) = l + 1 /\ l \in Nat
      OBVIOUS
    <2>3. PlacedAt(up, t, places)
      BY <1>2
    <2> HIDE DEF up, more, l
    <2>4. DOMAIN NoValue.members \subseteq Nat
      <3>1. DOMAIN <<>> = {}
        OBVIOUS
      <3> QED BY <3>1 DEF NoValue
    <2>5. CASE n \notin DOMAIN up.value.members
      <3>1. StepDown(up, n) = [path |-> up.path, value |-> NoValue]
        BY <2>5 DEF StepDown
      <3>2. StepDown(up, n).path = up.path /\ StepDown(up, n).value = NoValue
        BY <3>1
      <3>3. PlacedAt(StepDown(up, n), t, more)
        BY <2>3, <2>4, <3>2 DEF PlacedAt
      <3> QED BY <2>1, <2>2, <3>3 DEF more
    <2>6. CASE n \in DOMAIN up.value.members
      <3> DEFINE m == up.value.members[n]
                 node == StepDown(up, n)
      <3>1. node = [path |-> Append(up.path, m.key), value |-> m.value]
        BY <2>6 DEF StepDown
      <3>2. node.path = Append(up.path, m.key) /\ node.value = m.value
        BY <3>1
      <3>3. up.value # NoValue
        <4>1. DOMAIN <<>> = {}
          OBVIOUS
        <4> QED BY <4>1, <2>6 DEF NoValue
      <3>4. /\ Len(up.path) = l /\ l =< MaxDepth /\ up.path \in Seq(Keys)
            /\ <<up.path, up.value>> \in Level(t, l)
        BY <2>3, <3>3 DEF PlacedAt, l
      <3>5. m.key \in Keys /\ <<Append(up.path, m.key), m.value>> \in Level(t, l + 1)
        BY <2>2, <2>6, <3>4, NodeAtLevel
      <3> HIDE DEF m, node
      <3>6. node.path \in Seq(Keys) /\ Len(node.path) = l + 1
        BY <3>2, <3>4, <3>5
      <3>7. l + 1 =< MaxDepth
        <4>1. Level(t, MaxDepth + 1) = {}
          BY DEF IsDocument
        <4>2. l # MaxDepth
          BY <3>5, <4>1
        <4> QED BY <4>2, <3>4, <2>2, JsonAssumption
      <3>8. <<node.path, node.value>> \in Level(t, l + 1)
        BY <3>2, <3>5
      <3>9. /\ <<node.path, node.value>> \in Nodes(t) /\ IsBuilt(node.value)
            /\ DOMAIN node.value.members \subseteq Nat
        BY <2>2, <3>6, <3>7, <3>8, NodeAtLevel
      <3>10. PlacedAt(node, t, more)
        BY <2>2, <3>6, <3>7, <3>8, <3>9 DEF PlacedAt
      <3> QED BY <2>1, <2>2, <3>10 DEF more, node
    <2> QED BY <2>5, <2>6
  <1>3. \A places \in Seq(Nat) : places \in T
    <2> HIDE DEF T
    <2> QED BY <1>1, <1>2, GrowingSequences
  <1> QED BY <1>3 DEF PlacedAt

\* One level of a template merge.
Places(d) == {p \in Seq(Nat) : Len(p) >= d}
Beneath(f, t, places) == [i \in DOMAIN Placed(t, places).value.members |-> f[Append(places, i)]]
TemplateAt(t, v, places, inside) ==
  LET node == Placed(t, places)
  IN  MergeTemplate(node.value, ValueAt(v, node.path), node.path, inside)

LEMMA TemplateBeyond ==
  ASSUME NEW t, NEW v, IsDocument(t)
  PROVE  \A places \in Places(MaxDepth + 1) :
           \A x, y : TemplateAt(t, v, places, x) = TemplateAt(t, v, places, y)
  <1> SUFFICES ASSUME NEW places \in Places(MaxDepth + 1), NEW x, NEW y
               PROVE  TemplateAt(t, v, places, x) = TemplateAt(t, v, places, y)
    OBVIOUS
  <1> DEFINE node == Placed(t, places)
  <1>1. places \in Seq(Nat) /\ Len(places) >= MaxDepth + 1
    BY DEF Places
  <1>2. PlacedAt(node, t, places)
    BY <1>1, PlacedFacts
  <1>3. MaxDepth \in Nat /\ Len(places) \in Nat
    BY <1>1, JsonAssumption
  <1> HIDE DEF node
  <1>4. node.value = NoValue
    BY <1>1, <1>2, <1>3 DEF PlacedAt
  <1>5. Kind(NoValue) # "object"
    BY DEF Kind, NoValue, Absent
  <1>6. \A w, z : MergeTemplate(NoValue, w, node.path, z) = Planned(w.semantic)
    BY <1>5 DEF MergeTemplate
  <1> QED BY <1>4, <1>6 DEF TemplateAt, node

\* The recursion of MergeTemplateValue has a solution.
TemplatingFrom(f, t, v, d) ==
  f = [path \in Places(d) |-> TemplateAt(t, v, path, Beneath(f, t, path))]

LEMMA TemplatingExists ==
  ASSUME NEW t, NEW v, IsDocument(t)
  PROVE  \E f : TemplatingFrom(f, t, v, 0)
  <1> DEFINE D == MaxDepth + 1
             T == {i \in 0..D : \E f : TemplatingFrom(f, t, v, D - i)}
  <1>0. D \in Nat
    BY JsonAssumption
  <1>1. 0 \in T
    <2> DEFINE f == [path \in Places(D) |-> TemplateAt(t, v, path, <<>>)]
    <2>1. \A path \in Places(D) : \A x, y : TemplateAt(t, v, path, x) = TemplateAt(t, v, path, y)
      BY TemplateBeyond
    <2>2. TemplatingFrom(f, t, v, D)
      BY <2>1 DEF TemplatingFrom
    <2> HIDE DEF f
    <2>3. D - 0 = D
      BY <1>0
    <2> QED BY <2>2, <2>3, <1>0
  <1>2. ASSUME NEW i \in 0..(D - 1), i \in T PROVE i + 1 \in T
    <2> DEFINE d == D - (i + 1)
    <2>1. d \in Nat /\ D - i = d + 1 /\ i + 1 \in 0..D
      BY <1>0
    <2>2. PICK f : TemplatingFrom(f, t, v, d + 1)
      BY <1>2, <2>1
    <2> HIDE DEF d
    <2> DEFINE g == [path \in Places(d) |-> IF path \in Places(d + 1) THEN f[path]
                                          ELSE TemplateAt(t, v, path, Beneath(f, t, path))]
    <2>3. \A path \in Places(d + 1) : g[path] = f[path] /\ path \in Places(d)
      BY <2>1 DEF Places
    <2>4. \A path \in Places(d + 1) : f[path] = TemplateAt(t, v, path, Beneath(f, t, path))
      BY <2>2 DEF TemplatingFrom
    <2>5. \A path \in Places(d) : g[path] = TemplateAt(t, v, path, Beneath(f, t, path))
      BY <2>4
    <2>6. \A path \in Places(d), k \in Nat : Append(path, k) \in Places(d + 1)
      BY <2>1 DEF Places
    <2>7. g = [path \in Places(d) |-> g[path]]
      OBVIOUS
    <2> HIDE DEF g
    <2>8. ASSUME NEW path \in Places(d) PROVE Beneath(g, t, path) = Beneath(f, t, path)
      <3>1. \A k \in Nat : g[Append(path, k)] = f[Append(path, k)]
        BY <2>3, <2>6
      <3>2. path \in Seq(Nat)
        BY DEF Places
      <3>3. DOMAIN Placed(t, path).value.members \subseteq Nat
        BY <3>2, PlacedFacts
      <3> QED BY <3>1, <3>3 DEF Beneath
    <2>9. \A path \in Places(d) : g[path] = TemplateAt(t, v, path, Beneath(g, t, path))
      BY <2>5, <2>8
    <2>10. TemplatingFrom(g, t, v, d)
      BY <2>7, <2>9 DEF TemplatingFrom
    <2> QED BY <2>1, <2>10 DEF d
  <1>3. D \in T
    <2> HIDE DEF T, D
    <2>1. \A i \in 0..D : i \in T
      BY <1>0, <1>1, <1>2, UpTo
    <2> QED BY <2>1, <1>0
  <1>4. D - D = 0
    BY <1>0
  <1> QED BY <1>3, <1>4

\* A template merge as a function of the positions.
Templating(f, t, v) ==
  /\ MergeTemplateValue(t, v) = f[<<>>]
  /\ \A places \in Seq(Nat) : f[places] = TemplateAt(t, v, places, Beneath(f, t, places))

LEMMA TemplateSteps ==
  ASSUME NEW t, NEW v, IsDocument(t)
  PROVE  \E f : Templating(f, t, v)
  <1> DEFINE Solves(f) == f = [path \in Seq(Nat) |-> TemplateAt(t, v, path, Beneath(f, t, path))]
             f == CHOOSE g : Solves(g)
  <1>1. Places(0) = Seq(Nat)
    BY DEF Places
  <1>2. \E g : Solves(g)
    <2>1. PICK g : TemplatingFrom(g, t, v, 0)
      BY TemplatingExists
    <2>2. Solves(g)
      BY <1>1, <2>1 DEF TemplatingFrom
    <2> QED BY <2>2
  <1>3. Solves(f)
    <2> HIDE DEF Solves
    <2> QED BY <1>2
  <1>4. MergeTemplateValue(t, v) = f[<<>>]
    BY DEF MergeTemplateValue, TemplateAt, Beneath
  <1> HIDE DEF f
  <1>5. Templating(f, t, v)
    BY <1>3, <1>4 DEF Templating
  <1> QED BY <1>5

-----------------------------------------------------------------------------
(* Template plans *)

\* The plan of an object with that of one more member.
WithPart(y, key, part) == [y EXCEPT !.value.members[key] = part.value, !.adds = @ \o part.adds]
TemplatePart(t, v, path, inside, i) == MergeTemplateMember(t, v, i, path, inside[i])

\* The recursion of MergeTemplate has a solution.
Templated(f, t, v, path, inside, n) ==
  f = [k \in 0..n |-> IF k = 0 THEN Planned(v.semantic) ELSE WithPart(f[k - 1], t.members[k].key, TemplatePart(t, v, path, inside, k))]

LEMMA TemplatedExists ==
  ASSUME NEW t, NEW v, NEW path, NEW inside, NEW n \in Nat
  PROVE  \E f : Templated(f, t, v, path, inside, n)
  <1> DEFINE T == {m \in Nat : \E f : Templated(f, t, v, path, inside, m)}
  <1>1. 0 \in T
    <2>1. Templated([k \in 0..0 |-> Planned(v.semantic)], t, v, path, inside, 0)
      BY DEF Templated
    <2> QED BY <2>1
  <1>2. ASSUME NEW m \in 0..(n - 1), m \in T PROVE m + 1 \in T
    <2>1. PICK f : Templated(f, t, v, path, inside, m)
      BY <1>2
    <2>2. m \in Nat
      OBVIOUS
    <2> DEFINE last == WithPart(f[m], t.members[m + 1].key, TemplatePart(t, v, path, inside, m + 1))
    <2>3. PICK g : Extends(g, f, m, last)
      <3> HIDE DEF last
      <3> QED BY <2>2, Extension
    <2>4. g[m + 1] = last /\ \A k \in 0..m : g[k] = f[k]
      BY <2>3 DEF Extends
    <2>5. \A k \in 0..m : f[k] = IF k = 0 THEN Planned(v.semantic) ELSE WithPart(f[k - 1], t.members[k].key, TemplatePart(t, v, path, inside, k))
      BY <2>1 DEF Templated
    <2>6. ASSUME NEW k \in 0..(m + 1)
          PROVE  g[k] = IF k = 0 THEN Planned(v.semantic) ELSE WithPart(g[k - 1], t.members[k].key, TemplatePart(t, v, path, inside, k))
      <3>1. CASE k = m + 1
        <4>1. k # 0 /\ k - 1 = m /\ g[m] = f[m]
          BY <3>1, <2>2, <2>4
        <4> QED BY <4>1, <3>1, <2>4
      <3>2. CASE k # m + 1
        <4>1. k \in 0..m /\ g[k] = f[k] /\ (k # 0 => g[k - 1] = f[k - 1])
          BY <3>2, <2>2, <2>4
        <4> QED BY <4>1, <2>5
      <3> QED BY <3>1, <3>2
    <2>7. Templated(g, t, v, path, inside, m + 1)
      BY <2>3, <2>6 DEF Extends, Templated
    <2> QED BY <2>2, <2>7
  <1>3. n \in T
    <2> HIDE DEF T
    <2> QED BY <1>1, <1>2, UpTo
  <1> QED BY <1>3

\* The plan of an object, member by member.
TemplatePlans(f, t, v, path, inside) ==
  /\ f[0] = Planned(v.semantic) /\ MergeTemplate(t, v, path, inside) = f[Len(t.members)]
  /\ \A k \in 1..Len(t.members) :
       f[k] = WithPart(f[k - 1], t.members[k].key, TemplatePart(t, v, path, inside, k))

LEMMA TemplatedSteps ==
  ASSUME NEW t, NEW v, NEW path, NEW inside, Len(t.members) \in Nat, {Kind(t), Kind(v)} = {"object"}
  PROVE  \E f : TemplatePlans(f, t, v, path, inside)
  <1> DEFINE N == Len(t.members)
             f == CHOOSE g : Templated(g, t, v, path, inside, N)
  <1>1. \E g : Templated(g, t, v, path, inside, N)
    BY TemplatedExists
  <1>2. Templated(f, t, v, path, inside, N)
    BY <1>1
  <1>3. MergeTemplate(t, v, path, inside) = f[N]
    BY DEF MergeTemplate, Templated, WithPart, TemplatePart
  <1> HIDE DEF f
  <1>4. f[0] = Planned(v.semantic)
    BY <1>2 DEF Templated
  <1>5. \A k \in 1..N : f[k] = WithPart(f[k - 1], t.members[k].key, TemplatePart(t, v, path, inside, k))
    <2>1. f = [k \in 0..N |-> IF k = 0 THEN Planned(v.semantic)
                              ELSE WithPart(f[k - 1], t.members[k].key, TemplatePart(t, v, path, inside, k))]
      BY <1>2 DEF Templated
    <2>2. \A k \in 1..N : k \in 0..N /\ k # 0
      OBVIOUS
    <2> QED BY <2>1, <2>2
  <1> QED BY <1>3, <1>4, <1>5 DEF TemplatePlans

\* A plan of an object without edits and conflicts.
ObjectPlan(F, A) ==
  [value |-> [kind |-> "object", members |-> F], edits |-> {}, adds |-> A, conflicts |-> {}]

\* Objects with other members, and plans with those of one more member.
LEMMA NewMembers ==
  ASSUME NEW F, NEW g, NEW m, NEW l, m = [kind |-> "object", members |-> F],
         l = [m EXCEPT !.members = g]
  PROVE  l = [kind |-> "object", members |-> g]
  OBVIOUS

LEMMA PartJoins ==
  ASSUME NEW F, F = [k \in Keys |-> F[k]], NEW A, NEW key \in Keys, NEW part
  PROVE  WithPart(ObjectPlan(F, A), key, part)
           = ObjectPlan([F EXCEPT ![key] = part.value], A \o part.adds)
  <1> DEFINE y == ObjectPlan(F, A)
             G == [F EXCEPT ![key] = part.value]
             m == [kind |-> "object", members |-> F]
             l == [m EXCEPT !.members = G]
             B == y.adds \o part.adds
             z == WithPart(y, key, part)
  <1>1. y = [value |-> m, edits |-> {}, adds |-> A, conflicts |-> {}]
    BY DEF ObjectPlan
  <1>2. m.members = F /\ y.value = m /\ y.adds = A
    BY DEF ObjectPlan
  <1>3. l = [kind |-> "object", members |-> G]
    <2> HIDE DEF G, m, l
    <2>1. m = [kind |-> "object", members |-> F] /\ l = [m EXCEPT !.members = G]
      BY DEF m, l
    <2> QED BY <2>1, NewMembers
  <1>4. l = [m EXCEPT !.members = [F EXCEPT ![key] = part.value]]
    OBVIOUS
  <1> HIDE DEF m, l, y
  <1>5. z = [y EXCEPT !.value = l, !.adds = y.adds \o part.adds]
    BY <1>2, <1>4 DEF WithPart
  <1> HIDE DEF z, B, G
  <1>6. z = [y EXCEPT !.value = l, !.adds = B]
    BY <1>5 DEF B
  <1>7. z = [value |-> l, edits |-> {}, adds |-> B, conflicts |-> {}]
    BY <1>1, <1>6
  <1>8. B = A \o part.adds
    BY <1>2 DEF B
  <1>9. z = ObjectPlan(G, A \o part.adds)
    BY <1>3, <1>7, <1>8 DEF ObjectPlan
  <1> QED BY <1>9 DEF z, y, G

\* A plan value after n members: for each key the plan of the last of them,
\* or what the destination means.
LastOfEach(F, t, m, n, P) ==
  /\ F = [k \in Keys |-> F[k]]
  /\ \A k \in Keys : (\A i \in 1..n : t.members[i].key # k) => F[k] = At(m, k)
  /\ \A i \in 1..n : (\A j \in 1..n : j > i => t.members[j].key # t.members[i].key) =>
       F[t.members[i].key] = P[i].value
\* What members add, together.
AddedBy(A, P, n) == Listed(A) /\ ToSet(A) = UNION {ToSet(P[i].adds) : i \in 1..n}

LEMMA PartAdded ==
  ASSUME NEW t, NEW m, NEW P, NEW n \in Nat, NEW F, LastOfEach(F, t, m, n, P),
         NEW A, AddedBy(A, P, n), t.members[n + 1].key \in Keys, Listed(P[n + 1].adds)
  PROVE  /\ LastOfEach([F EXCEPT ![t.members[n + 1].key] = P[n + 1].value], t, m, n + 1, P)
         /\ AddedBy(A \o P[n + 1].adds, P, n + 1)
  <1> DEFINE key(i) == t.members[i].key
             x == key(n + 1)
             G == [F EXCEPT ![x] = P[n + 1].value]
  <1>1. /\ F = [k \in Keys |-> F[k]]
        /\ \A k \in Keys : (\A i \in 1..n : key(i) # k) => F[k] = At(m, k)
        /\ \A i \in 1..n : (\A j \in 1..n : j > i => key(j) # key(i)) => F[key(i)] = P[i].value
    BY DEF LastOfEach
  <1>2. G = [k \in Keys |-> G[k]] /\ G[x] = P[n + 1].value /\ \A k : k \in Keys /\ k # x => G[k] = F[k]
    <2>1. x \in Keys
      OBVIOUS
    <2> HIDE DEF x
    <2> QED BY <1>1, <2>1
  <1>3. \A i \in 1..(n + 1) : i = n + 1 \/ i \in 1..n
    OBVIOUS
  <1>4. n + 1 \in 1..(n + 1) /\ \A i \in 1..n : i \in 1..(n + 1) /\ n + 1 > i
    OBVIOUS
  <1> HIDE DEF G, key
  <1>5. ASSUME NEW k \in Keys, \A i \in 1..(n + 1) : key(i) # k PROVE G[k] = At(m, k)
    <2>1. k # x /\ \A i \in 1..n : key(i) # k
      BY <1>4, <1>5
    <2> QED BY <1>1, <1>2, <2>1
  <1>6. ASSUME NEW i \in 1..(n + 1), \A j \in 1..(n + 1) : j > i => key(j) # key(i)
        PROVE  G[key(i)] = P[i].value
    <2>1. CASE i = n + 1
      BY <1>2, <2>1
    <2>2. CASE i \in 1..n
      <3>1. key(i) # x
        BY <1>4, <1>6, <2>2
      <3>2. \A j \in 1..n : j > i => key(j) # key(i)
        BY <1>4, <1>6
      <3>3. F[key(i)] = P[i].value
        BY <1>1, <2>2, <3>2
      <3>4. CASE key(i) \in Keys
        BY <1>2, <3>1, <3>3, <3>4
      <3>5. CASE key(i) \notin Keys
        <4>1. F[key(i)] = G[key(i)]
          <5>1. \A k : [F EXCEPT ![x] = P[n + 1].value][k] = IF k = x /\ k \in DOMAIN F THEN P[n + 1].value ELSE F[k]
            OBVIOUS
          <5> QED BY <5>1, <3>1 DEF G
        <4> QED BY <3>3, <4>1
      <3> QED BY <3>4, <3>5
    <2> QED BY <1>3, <2>1, <2>2
  <1>7. LastOfEach(G, t, m, n + 1, P)
    BY <1>2, <1>5, <1>6 DEF LastOfEach, key
  <1>8. AddedBy(A \o P[n + 1].adds, P, n + 1)
    <2> DEFINE B == P[n + 1].adds
               U(l) == UNION {ToSet(P[i].adds) : i \in 1..l}
    <2>1. U(n + 1) = U(n) \cup ToSet(B)
      <3>1. 1..(n + 1) = (1..n) \cup {n + 1}
        OBVIOUS
      <3> QED BY <3>1
    <2>2. Listed(A) /\ ToSet(A) = U(n) /\ Listed(B)
      BY DEF AddedBy
    <2> HIDE DEF B, U
    <2>3. Listed(A \o B) /\ ToSet(A \o B) = ToSet(A) \cup ToSet(B)
      BY <2>2, ListedConcat
    <2>4. Listed(A \o B) /\ ToSet(A \o B) = U(n + 1)
      BY <2>1, <2>2, <2>3
    <2> QED BY <2>4 DEF AddedBy, U, B
  <1> QED BY <1>7, <1>8 DEF G, key

\* The plan of two objects: all of its members together.
MergedFrom(y, w, d, P) ==
  \E F, A : /\ y = ObjectPlan(F, A)
            /\ LastOfEach(F, w, d.semantic, Len(w.members), P)
            /\ AddedBy(A, P, Len(w.members))
\* Two objects and the plans of the members of the first.
ReadyParts(t, v, path, inside, P) ==
  /\ Len(t.members) \in Nat /\ {Kind(t), Kind(v)} = {"object"}
  /\ \A i \in 1..Len(t.members) : /\ P[i] = TemplatePart(t, v, path, inside, i) /\ Listed(P[i].adds)
                                  /\ t.members[i].key \in Keys
  /\ \E M : M = [k \in Keys |-> M[k]] /\ v.semantic = [kind |-> "object", members |-> M]

LEMMA ObjectsTemplated ==
  ASSUME NEW t, NEW v, NEW path, NEW inside, NEW P, ReadyParts(t, v, path, inside, P)
  PROVE  MergedFrom(MergeTemplate(t, v, path, inside), t, v, P)
  <1>a. PICK M : M = [k \in Keys |-> M[k]] /\ v.semantic = [kind |-> "object", members |-> M]
    BY DEF ReadyParts
  <1>b. Len(t.members) \in Nat /\ {Kind(t), Kind(v)} = {"object"}
    BY DEF ReadyParts
  <1>c. \A i \in 1..Len(t.members) : /\ P[i] = TemplatePart(t, v, path, inside, i) /\ Listed(P[i].adds)
                                     /\ t.members[i].key \in Keys
    BY DEF ReadyParts
  <1> DEFINE N == Len(t.members)
             m == v.semantic
             Good(n, y) == \E F, A : y = ObjectPlan(F, A) /\ LastOfEach(F, t, m, n, P) /\ AddedBy(A, P, n)
  <1>1. PICK f : TemplatePlans(f, t, v, path, inside)
    BY <1>b, TemplatedSteps
  <1> DEFINE T == {n \in 0..N : Good(n, f[n])}
  <1>2. 0 \in T
    <2>1. f[0] = Planned(m)
      BY <1>1 DEF TemplatePlans
    <2>2. Planned(m) = ObjectPlan(M, <<>>)
      BY <1>a DEF Planned, ObjectPlan
    <2>3. \A k \in Keys : M[k] = At(m, k)
      BY <1>a DEF At
    <2>4. 1..0 = {} /\ 0 \in 0..N
      BY <1>b
    <2> HIDE DEF m
    <2>5. LastOfEach(M, t, m, 0, P)
      BY <1>a, <2>3, <2>4 DEF LastOfEach
    <2>6. AddedBy(<<>>, P, 0)
      BY <2>4, ListedFacts DEF AddedBy
    <2> QED BY <2>1, <2>2, <2>4, <2>5, <2>6
  <1>3. ASSUME NEW n \in 0..(N - 1), n \in T PROVE n + 1 \in T
    <2>1. n \in Nat /\ n + 1 \in 1..N /\ n + 1 \in 0..N /\ (n + 1) - 1 = n
      BY <1>b
    <2>2. PICK F, A : f[n] = ObjectPlan(F, A) /\ LastOfEach(F, t, m, n, P) /\ AddedBy(A, P, n)
      BY <1>3
    <2> DEFINE x == t.members[n + 1].key
               p == P[n + 1]
    <2>3. f[n + 1] = WithPart(f[n], x, p) /\ x \in Keys /\ Listed(p.adds)
      BY <1>1, <1>c, <2>1 DEF TemplatePlans
    <2>4. F = [k \in Keys |-> F[k]]
      BY <2>2 DEF LastOfEach
    <2> HIDE DEF m
    <2>5. /\ LastOfEach([F EXCEPT ![x] = p.value], t, m, n + 1, P)
          /\ AddedBy(A \o p.adds, P, n + 1)
      BY <2>1, <2>2, <2>3, PartAdded
    <2> HIDE DEF x, p
    <2>6. f[n + 1] = ObjectPlan([F EXCEPT ![x] = p.value], A \o p.adds)
      BY <2>2, <2>3, <2>4, PartJoins
    <2>7. Good(n + 1, f[n + 1])
      BY <2>5, <2>6
    <2> QED BY <2>1, <2>7
  <1>4. \A n \in 0..N : n \in T
    <2> HIDE DEF T
    <2> QED BY <1>b, <1>2, <1>3, UpTo
  <1>5. Good(N, f[N])
    BY <1>b, <1>4
  <1>6. MergeTemplate(t, v, path, inside) = f[N]
    BY <1>1 DEF TemplatePlans
  <1> QED BY <1>5, <1>6 DEF MergedFrom

-----------------------------------------------------------------------------
(* The plan of a template merge, position by position *)

\* The plan of one member: that of both values, or its addition.
MemberPlan(y, w, d, i, p, inside) ==
  \/ w.members[i].key \in KeysOf(d) /\ y = inside
  \/ /\ w.members[i].key \notin KeysOf(d)
     /\ y.value = w.members[i].value.semantic /\ y.edits = {} /\ y.conflicts = {}
     /\ \E a : y.adds = <<a>> /\ a.at = p /\ a.member = w.members[i] /\ HasPlace(a, d)

LEMMA MemberPlans ==
  ASSUME NEW w, Len(w.members) \in Nat, NEW d, NEW i \in 1..Len(w.members), NEW p, NEW inside
  PROVE  MemberPlan(MergeTemplateMember(w, d, i, p, inside), w, d, i, p, inside)
  <1> DEFINE m == w.members[i]
             following == {j \in (i + 1)..Len(w.members) : w.members[j].key \in KeysOf(d)}
             before == IF following = {} THEN AtEnd ELSE InFrontOf(w.members[Min(following)].key)
             a == AddMember(p, m, before)
             y == [Planned(m.value.semantic) EXCEPT !.adds = <<a>>]
             z == MergeTemplateMember(w, d, i, p, inside)
  <1>1. CASE m.key \in KeysOf(d)
    <2>1. z = inside
      BY <1>1 DEF MergeTemplateMember
    <2> QED BY <1>1, <2>1 DEF MemberPlan
  <1>2. CASE m.key \notin KeysOf(d)
    <2>1. z = y
      BY <1>2 DEF MergeTemplateMember
    <2>2. a.at = p /\ a.member = m /\ a.before = before
      BY DEF AddMember
    <2>3. before = AtEnd \/ \E k \in KeysOf(d) : before = InFrontOf(k)
      <3>1. CASE following = {}
        BY <3>1
      <3>2. CASE following # {}
        <4>1. following \subseteq Nat
          OBVIOUS
        <4> HIDE DEF following
        <4>2. Min(following) \in following
          BY <3>2, <4>1, MinIn
        <4>3. w.members[Min(following)].key \in KeysOf(d)
          BY <4>2 DEF following
        <4> QED BY <3>2, <4>3
      <3> QED BY <3>1, <3>2
    <2> HIDE DEF a, before
    <2>4. HasPlace(a, d)
      BY <2>2, <2>3 DEF HasPlace
    <2>5. y.value = m.value.semantic /\ y.edits = {} /\ y.conflicts = {} /\ y.adds = <<a>>
      BY DEF Planned
    <2> HIDE DEF y, z
    <2>6. MemberPlan(z, w, d, i, p, inside)
      BY <1>2, <2>1, <2>2, <2>4, <2>5 DEF MemberPlan
    <2> QED BY <2>6 DEF z
  <1> QED BY <1>1, <1>2

LEMMA MemberListed ==
  ASSUME NEW y, NEW w, NEW d, NEW i, NEW p, NEW inside, MemberPlan(y, w, d, i, p, inside),
         Listed(inside.adds)
  PROVE  Listed(y.adds)
  BY ListedFacts DEF MemberPlan

\* The plan of a position: what the destination means, or that of two objects.
PlanOf(y, w, d, p, f, places) ==
  \/ {Kind(w), Kind(d)} # {"object"} /\ y = Planned(d.semantic)
  \/ /\ Kind(w) = "object" /\ Kind(d) = "object"
     /\ \E P : /\ \A i \in 1..Len(w.members) : MemberPlan(P[i], w, d, i, p, f[Append(places, i)])
               /\ MergedFrom(y, w, d, P)

\* The objects that lookups reach mean something for each key.
MeansByKey(d) ==
  \E M : M = [k \in Keys |-> M[k]] /\ d.semantic = [kind |-> "object", members |-> M]
ByKeys(v) == \A p \in Seq(Keys) : Kind(ValueAt(v, p)) = "object" => MeansByKey(ValueAt(v, p))

LEMMA DocumentByKeys ==
  ASSUME NEW v, IsDocument(v) PROVE ByKeys(v)
  <1> SUFFICES ASSUME NEW p \in Seq(Keys), Kind(ValueAt(v, p)) = "object"
               PROVE  MeansByKey(ValueAt(v, p))
    BY DEF ByKeys
  <1> DEFINE d == ValueAt(v, p)
             M == MeaningOf(d.members)
  <1>1. d # NoValue
    BY DEF Kind, NoValue, Absent
  <1>2. IsBuilt(d)
    BY <1>1, Reached
  <1>3. d.semantic = [kind |-> "object", members |-> M]
    BY <1>2, BuiltFacts
  <1>4. M = [k \in Keys |-> M[k]]
    BY DEF MeaningOf
  <1> HIDE DEF d, M
  <1>5. MeansByKey(d)
    BY <1>3, <1>4 DEF MeansByKey
  <1> QED BY <1>5 DEF d

LEMMA PlanOfPosition ==
  ASSUME NEW t, NEW v, IsDocument(t), ByKeys(v), NEW f, Templating(f, t, v),
         NEW places \in Seq(Nat), \A n \in Nat : Listed(f[Append(places, n)].adds)
  PROVE  PlanOf(f[places], Placed(t, places).value, ValueAt(v, Placed(t, places).path),
                Placed(t, places).path, f, places)
  <1> DEFINE node == Placed(t, places)
             w == node.value
             p == node.path
             d == ValueAt(v, p)
             inside == Beneath(f, t, places)
             P == [i \in 1..Len(w.members) |-> TemplatePart(w, d, p, inside, i)]
             N == Len(w.members)
  <1>1. f[places] = MergeTemplate(w, d, p, inside)
    BY DEF Templating, TemplateAt
  <1>2. PlacedAt(node, t, places)
    BY PlacedFacts
  <1>3. p \in Seq(Keys) /\ (w = NoValue \/ IsBuilt(w))
    BY <1>2 DEF PlacedAt
  <1>4. inside = [i \in DOMAIN w.members |-> f[Append(places, i)]]
    BY DEF Beneath
  <1> HIDE DEF node, w, p, inside
  <1>5. CASE {Kind(w), Kind(d)} # {"object"}
    <2>1. f[places] = Planned(d.semantic)
      BY <1>1, <1>5 DEF MergeTemplate
    <2>2. PlanOf(f[places], w, d, p, f, places)
      BY <1>5, <2>1 DEF PlanOf
    <2> QED BY <2>2 DEF w, p, node
  <1>6. CASE {Kind(w), Kind(d)} = {"object"}
    <2>1. Kind(w) = "object" /\ Kind(d) = "object"
      BY <1>6
    <2>2. w # NoValue
      BY <2>1 DEF Kind, NoValue, Absent
    <2>3. IsBuilt(w)
      BY <1>3, <2>2
    <2>4. N \in Nat /\ DOMAIN w.members = 1..N /\ KeysOf(w) \subseteq Keys
      BY <2>3, BuiltFacts
    <2>5. MeansByKey(d)
      BY <1>3, <2>1 DEF ByKeys
    <2>7. PICK M : M = [k \in Keys |-> M[k]] /\ d.semantic = [kind |-> "object", members |-> M]
      BY <2>5 DEF MeansByKey
    <2> HIDE DEF d
    <2>9. ASSUME NEW i \in 1..N
          PROVE  /\ P[i] = TemplatePart(w, d, p, inside, i)
                 /\ MemberPlan(P[i], w, d, i, p, f[Append(places, i)])
                 /\ Listed(P[i].adds) /\ w.members[i].key \in Keys
      <3>1. i \in Nat /\ i \in DOMAIN w.members
        BY <2>4
      <3>2. inside[i] = f[Append(places, i)]
        BY <1>4, <3>1
      <3>3. P[i] = TemplatePart(w, d, p, inside, i)
        OBVIOUS
      <3>4. P[i] = MergeTemplateMember(w, d, i, p, f[Append(places, i)])
        BY <3>2, <3>3 DEF TemplatePart
      <3> HIDE DEF P
      <3>5. MemberPlan(P[i], w, d, i, p, f[Append(places, i)])
        BY <2>4, <3>4, MemberPlans
      <3>6. Listed(f[Append(places, i)].adds)
        BY <3>1
      <3>7. Listed(P[i].adds)
        BY <3>5, <3>6, MemberListed
      <3>8. w.members[i].key \in Keys
        BY <2>4, <3>1 DEF KeysOf
      <3> QED BY <3>3, <3>5, <3>7, <3>8
    <2> HIDE DEF P
    <2>10. ReadyParts(w, d, p, inside, P)
      BY <1>6, <2>4, <2>7, <2>9 DEF ReadyParts
    <2>11. MergedFrom(f[places], w, d, P)
      BY <1>1, <2>10, ObjectsTemplated
    <2>12. PlanOf(f[places], w, d, p, f, places)
      BY <2>1, <2>9, <2>11 DEF PlanOf
    <2> QED BY <2>12 DEF w, p, d, node
  <1> QED BY <1>5, <1>6

\* Beyond the depth of the template nothing is merged.
LEMMA PlanBeyond ==
  ASSUME NEW t, NEW v, NEW f, Templating(f, t, v),
         NEW places \in Seq(Nat), Placed(t, places).value = NoValue
  PROVE  f[places] = Planned(ValueAt(v, Placed(t, places).path).semantic)
  <1> DEFINE node == Placed(t, places)
  <1>1. f[places] = MergeTemplate(node.value, ValueAt(v, node.path), node.path, Beneath(f, t, places))
    BY DEF Templating, TemplateAt
  <1>2. Kind(NoValue) # "object"
    BY DEF Kind, NoValue, Absent
  <1>3. \A d, p, z : MergeTemplate(NoValue, d, p, z) = Planned(d.semantic)
    BY <1>2 DEF MergeTemplate
  <1> HIDE DEF node
  <1>4. node.value = NoValue
    BY DEF node
  <1>5. f[places] = Planned(ValueAt(v, node.path).semantic)
    BY <1>1, <1>3, <1>4
  <1> QED BY <1>5 DEF node

LEMMA DeepPlaces ==
  ASSUME NEW t, IsDocument(t), NEW places \in Seq(Nat), Len(places) >= MaxDepth + 1
  PROVE  Placed(t, places).value = NoValue
  <1> DEFINE node == Placed(t, places)
  <1>1. PlacedAt(node, t, places)
    BY PlacedFacts
  <1>2. MaxDepth \in Nat /\ Len(places) \in Nat
    BY JsonAssumption
  <1> HIDE DEF node
  <1>3. node.value = NoValue
    BY <1>1, <1>2 DEF PlacedAt
  <1> QED BY <1>3 DEF node

LEMMA PlansByPosition ==
  ASSUME NEW t, NEW v, IsDocument(t), ByKeys(v), NEW f, Templating(f, t, v)
  PROVE  \A places \in Seq(Nat) :
           /\ Listed(f[places].adds)
           /\ PlanOf(f[places], Placed(t, places).value, ValueAt(v, Placed(t, places).path),
                     Placed(t, places).path, f, places)
  <1> DEFINE T == {places \in Seq(Nat) : Listed(f[places].adds)}
             O(places) == PlanOf(f[places], Placed(t, places).value,
                            ValueAt(v, Placed(t, places).path), Placed(t, places).path, f, places)
  <1>1. ASSUME NEW places \in Seq(Nat), Len(places) >= MaxDepth + 1 PROVE places \in T
    <2>1. Placed(t, places).value = NoValue
      BY <1>1, DeepPlaces
    <2>2. f[places] = Planned(ValueAt(v, Placed(t, places).path).semantic)
      BY <2>1, PlanBeyond
    <2>3. f[places].adds = <<>>
      BY <2>2 DEF Planned
    <2> QED BY <2>3, ListedFacts
  <1>2. ASSUME NEW places \in Seq(Nat), \A n \in Nat : Append(places, n) \in T
        PROVE  places \in T /\ O(places)
    <2>1. \A n \in Nat : Listed(f[Append(places, n)].adds)
      BY <1>2
    <2>2. O(places)
      BY <2>1, PlanOfPosition
    <2> DEFINE w == Placed(t, places).value
               d == ValueAt(v, Placed(t, places).path)
    <2>3. f[places] = Planned(d.semantic) \/ \E P : MergedFrom(f[places], w, d, P)
      BY <2>2 DEF PlanOf
    <2>4. CASE f[places] = Planned(d.semantic)
      <3>1. f[places].adds = <<>>
        BY <2>4 DEF Planned
      <3>2. Listed(f[places].adds)
        BY <3>1, ListedFacts
      <3> QED BY <2>2, <3>2
    <2>5. ASSUME \E P : MergedFrom(f[places], w, d, P) PROVE places \in T
      <3> HIDE DEF w, d
      <3>1. PICK P : MergedFrom(f[places], w, d, P)
        BY <2>5
      <3>2. PICK F, A : f[places] = ObjectPlan(F, A) /\ AddedBy(A, P, Len(w.members))
        BY <3>1 DEF MergedFrom
      <3>3. f[places].adds = A
        BY <3>2 DEF ObjectPlan
      <3>4. Listed(f[places].adds)
        BY <3>2, <3>3 DEF AddedBy
      <3> QED BY <3>4
    <2> QED BY <2>2, <2>3, <2>4, <2>5
  <1>3. MaxDepth + 1 \in Nat
    BY JsonAssumption
  <1>4. \A places \in Seq(Nat) : places \in T
    <2> HIDE DEF T, O
    <2> QED BY <1>1, <1>2, <1>3, DeepestFirst
  <1>5. \A places \in Seq(Nat), n \in Nat : Append(places, n) \in Seq(Nat)
    OBVIOUS
  <1>6. ASSUME NEW places \in Seq(Nat) PROVE Listed(f[places].adds) /\ O(places)
    <2>1. \A n \in Nat : Append(places, n) \in T
      <3> HIDE DEF T
      <3> QED BY <1>4, <1>5
    <2>2. O(places)
      BY <1>2, <2>1
    <2> QED BY <1>4, <2>2
  <1> QED BY <1>6

LEMMA PositionPlans ==
  ASSUME NEW t, NEW v, IsDocument(t), IsDocument(v), NEW f, Templating(f, t, v)
  PROVE  \A places \in Seq(Nat) :
           /\ Listed(f[places].adds)
           /\ PlanOf(f[places], Placed(t, places).value, ValueAt(v, Placed(t, places).path),
                     Placed(t, places).path, f, places)
  <1>1. ByKeys(v)
    BY DocumentByKeys
  <1> QED BY <1>1, PlansByPosition

-----------------------------------------------------------------------------
(* A template merge of documents without repeated members *)

ClearTemplate(t, v, f) ==
  /\ IsDocument(t) /\ IsDocument(v)
  /\ DuplicateMemberPaths(t) = {} /\ DuplicateMemberPaths(v) = {}
  /\ Templating(f, t, v)

\* What is above an object is an object.
LEMMA ObjectAbove ==
  ASSUME NEW v, IsDocument(v), NEW p \in Seq(Keys)
  PROVE  \A q : Under(p, q) /\ Kind(ValueAt(v, q)) = "object" => Kind(ValueAt(v, p)) = "object"
  <1> DEFINE T == {q \in Seq(Keys) : Under(p, q) /\ Kind(ValueAt(v, q)) = "object" =>
                                       Kind(ValueAt(v, p)) = "object"}
  <1>1. <<>> \in T
    <2>1. Under(p, <<>>) => p = <<>>
      BY DEF Under
    <2> QED BY <2>1
  <1>2. ASSUME NEW q \in Seq(Keys), NEW k \in Keys, q \in T PROVE Append(q, k) \in T
    <2> DEFINE w == ValueAt(v, q)
               r == Append(q, k)
    <2> SUFFICES ASSUME Under(p, r), Kind(ValueAt(v, r)) = "object" PROVE Kind(ValueAt(v, p)) = "object"
      BY GrownPath
    <2>1. CASE p = r
      BY <2>1
    <2>2. CASE Under(p, q)
      <3>1. ValueAt(v, r) = MemberValue(w, k)
        BY ValueSteps
      <3>2. k \in KeysOf(w)
        <4>1. Kind(NoValue) # "object"
          BY DEF Kind, NoValue, Absent
        <4> QED BY <3>1, <4>1 DEF MemberValue
      <3>3. w # NoValue /\ w.members # <<>>
        BY <3>2 DEF KeysOf, NoValue
      <3>4. IsBuilt(w)
        BY <3>3, Reached
      <3>5. Kind(w) = "object"
        BY <3>3, <3>4, BuiltFacts
      <3> QED BY <1>2, <2>2, <3>5
    <2> QED BY <2>1, <2>2, UnderStep
  <1>3. \A q \in Seq(Keys) : q \in T
    <2> HIDE DEF T
    <2> QED BY <1>1, <1>2, Downwards
  <1> QED BY <1>3 DEF Under

\* The first of members that are not repeated is each of them.
LEMMA FirstIsOnly ==
  ASSUME NEW w, IsBuilt(w), Unrepeated(w), NEW i \in DOMAIN w.members
  PROVE  /\ w.members[i].key \in KeysOf(w) /\ w.members[i].key \in Keys
         /\ FirstMember(w, w.members[i].key) = w.members[i]
         /\ MemberValue(w, w.members[i].key) = w.members[i].value
  <1> DEFINE k == w.members[i].key
             j == Min(Positions(w, k))
  <1>1. k \in KeysOf(w) /\ k \in Keys
    BY BuiltFacts DEF KeysOf
  <1>2. j \in DOMAIN w.members /\ w.members[j].key = k /\ FirstMember(w, k) = w.members[j]
    BY <1>1, FirstFacts
  <1> HIDE DEF j
  <1>3. j = i
    BY <1>2 DEF Unrepeated
  <1>4. FirstMember(w, k) = w.members[i]
    BY <1>2, <1>3
  <1>5. MemberValue(w, k) = w.members[i].value
    BY <1>1, <1>4 DEF MemberValue
  <1> QED BY <1>1, <1>4, <1>5

\* What stands at some positions is what lookups find.
FoundAt(t, node) ==
  node.value # NoValue =>
    node.value = ValueAt(t, node.path) /\ IsBuilt(node.value) /\ Unrepeated(node.value)
LEMMA PlacedFound ==
  ASSUME NEW t, IsDocument(t), DuplicateMemberPaths(t) = {}
  PROVE  \A places \in Seq(Nat) : FoundAt(t, Placed(t, places))
  <1> DEFINE T == {places \in Seq(Nat) : FoundAt(t, Placed(t, places))}
  <1>0. \A p \in Seq(Keys) : \A w : w # NoValue /\ w = ValueAt(t, p) => IsBuilt(w) /\ Unrepeated(w)
    BY NoRepeats DEF Distinct, Whole
  <1>1. <<>> \in T
    <2> DEFINE node == [path |-> <<>>, value |-> t]
    <2>1. Placed(t, <<>>) = node
      BY PlacedSteps
    <2>2. <<>> \in Seq(Keys) /\ <<>> \in Seq(Nat)
      OBVIOUS
    <2>3. node.path = <<>> /\ node.value = t
      OBVIOUS
    <2>4. ValueAt(t, <<>>) = t
      BY ValueSteps
    <2> HIDE DEF node
    <2>5. FoundAt(t, node)
      BY <1>0, <2>2, <2>3, <2>4 DEF FoundAt
    <2> QED BY <2>1, <2>2, <2>5
  <1>2. ASSUME NEW places \in Seq(Nat), NEW n \in Nat, places \in T PROVE Append(places, n) \in T
    <2> DEFINE up == Placed(t, places)
               w == up.value
               node == StepDown(up, n)
    <2>1. Placed(t, Append(places, n)) = node
      BY PlacedSteps
    <2>2. Append(places, n) \in Seq(Nat)
      OBVIOUS
    <2>3. FoundAt(t, up)
      BY <1>2
    <2>4. up.path \in Seq(Keys)
      BY PlacedFacts DEF PlacedAt
    <2> HIDE DEF up
    <2>5. CASE n \notin DOMAIN w.members
      <3>1. node = [path |-> up.path, value |-> NoValue]
        BY <2>5 DEF StepDown
      <3>2. node.value = NoValue
        BY <3>1
      <3>3. FoundAt(t, node)
        BY <3>2 DEF FoundAt
      <3> QED BY <2>1, <2>2, <3>3
    <2>6. CASE n \in DOMAIN w.members
      <3> DEFINE m == w.members[n]
      <3>1. node = [path |-> Append(up.path, m.key), value |-> m.value]
        BY <2>6 DEF StepDown
      <3>2. node.path = Append(up.path, m.key) /\ node.value = m.value
        BY <3>1
      <3>3. w # NoValue
        <4>1. DOMAIN <<>> = {}
          OBVIOUS
        <4> QED BY <4>1, <2>6 DEF NoValue
      <3>4. w = ValueAt(t, up.path) /\ IsBuilt(w) /\ Unrepeated(w)
        BY <2>3, <3>3 DEF FoundAt
      <3> HIDE DEF w, node
      <3>5. m.key \in Keys /\ MemberValue(w, m.key) = m.value
        BY <2>6, <3>4, FirstIsOnly
      <3>6. ValueAt(t, Append(up.path, m.key)) = MemberValue(ValueAt(t, up.path), m.key)
        BY <2>4, <3>5, ValueSteps
      <3> HIDE DEF m
      <3>7. node.path \in Seq(Keys) /\ node.value = ValueAt(t, node.path)
        BY <2>4, <3>2, <3>4, <3>5, <3>6
      <3>8. FoundAt(t, node)
        BY <1>0, <3>7 DEF FoundAt
      <3> QED BY <2>1, <2>2, <3>8
    <2> QED BY <2>5, <2>6
  <1>3. \A places \in Seq(Nat) : places \in T
    <2> HIDE DEF T
    <2> QED BY <1>1, <1>2, GrowingSequences
  <1> QED BY <1>3

\* A member of the template that the object of the destination lacks.
TemplateAdd(a, t, v) ==
  /\ a.at \in Seq(Keys) /\ Kind(ValueAt(t, a.at)) = "object" /\ Kind(ValueAt(v, a.at)) = "object"
  /\ HasPlace(a, ValueAt(v, a.at))
  /\ \E k \in KeysOf(ValueAt(t, a.at)) :
       /\ a.member = FirstMember(ValueAt(t, a.at), k) /\ a.member.key = k
       /\ k \notin KeysOf(ValueAt(v, a.at))
OnlyAdds(y, t, v) ==
  /\ Listed(y.adds) /\ y.edits = {} /\ y.conflicts = {}
  /\ \A a \in ToSet(y.adds) : TemplateAdd(a, t, v)

LEMMA MemberAdds ==
  ASSUME NEW t, NEW v, NEW p \in Seq(Keys),
         NEW w, w = ValueAt(t, p), IsBuilt(w), Unrepeated(w), Kind(w) = "object",
         NEW d, d = ValueAt(v, p), Kind(d) = "object",
         NEW i \in DOMAIN w.members, NEW inside, OnlyAdds(inside, t, v),
         NEW y, MemberPlan(y, w, d, i, p, inside)
  PROVE  OnlyAdds(y, t, v)
  <1> DEFINE m == w.members[i]
  <1>1. CASE y = inside
    BY <1>1
  <1>2. CASE y # inside
    <2>1. PICK a : y.adds = <<a>> /\ a.at = p /\ a.member = m /\ HasPlace(a, d)
      BY <1>2 DEF MemberPlan
    <2>2. y.edits = {} /\ y.conflicts = {} /\ m.key \notin KeysOf(d)
      BY <1>2 DEF MemberPlan
    <2>3. m.key \in KeysOf(w) /\ FirstMember(w, m.key) = m
      BY FirstIsOnly
    <2> HIDE DEF m
    <2>4. TemplateAdd(a, t, v)
      BY <2>1, <2>2, <2>3 DEF TemplateAdd
    <2>5. Listed(y.adds) /\ ToSet(y.adds) = {a}
      BY <2>1, ListedFacts
    <2> QED BY <2>2, <2>4, <2>5 DEF OnlyAdds
  <1> QED BY <1>1, <1>2

LEMMA AddsOnly ==
  ASSUME NEW t, NEW v, NEW f, ClearTemplate(t, v, f)
  PROVE  \A places \in Seq(Nat) : OnlyAdds(f[places], t, v)
  <1> DEFINE T == {places \in Seq(Nat) : OnlyAdds(f[places], t, v)}
  <1>0. /\ IsDocument(t) /\ IsDocument(v) /\ Templating(f, t, v)
        /\ DuplicateMemberPaths(t) = {} /\ DuplicateMemberPaths(v) = {}
    BY DEF ClearTemplate
  <1>1. \A m : OnlyAdds(Planned(m), t, v)
    <2> TAKE m
    <2>1. Planned(m).adds = <<>> /\ Planned(m).edits = {} /\ Planned(m).conflicts = {}
      BY DEF Planned
    <2> QED BY <2>1, ListedFacts DEF OnlyAdds
  <1>2. ASSUME NEW places \in Seq(Nat), Len(places) >= MaxDepth + 1 PROVE places \in T
    <2>1. Placed(t, places).value = NoValue
      BY <1>0, <1>2, DeepPlaces
    <2>2. f[places] = Planned(ValueAt(v, Placed(t, places).path).semantic)
      BY <1>0, <2>1, PlanBeyond
    <2> QED BY <1>1, <2>2
  <1>3. ASSUME NEW places \in Seq(Nat), \A n \in Nat : Append(places, n) \in T PROVE places \in T
    <2> DEFINE node == Placed(t, places)
               w == node.value
               p == node.path
               d == ValueAt(v, p)
               y == f[places]
    <2>1. Listed(y.adds) /\ PlanOf(y, w, d, p, f, places)
      BY <1>0, PositionPlans
    <2>2. FoundAt(t, node)
      BY <1>0, PlacedFound
    <2>3. p \in Seq(Keys)
      BY <1>0, PlacedFacts DEF PlacedAt
    <2> HIDE DEF node, y
    <2>4. CASE y = Planned(d.semantic)
      BY <1>1, <2>4 DEF y
    <2>5. CASE /\ Kind(w) = "object" /\ Kind(d) = "object"
               /\ \E P : /\ \A i \in 1..Len(w.members) : MemberPlan(P[i], w, d, i, p, f[Append(places, i)])
                         /\ MergedFrom(y, w, d, P)
      <3>1. PICK P : /\ \A i \in 1..Len(w.members) : MemberPlan(P[i], w, d, i, p, f[Append(places, i)])
                     /\ MergedFrom(y, w, d, P)
        BY <2>5
      <3>2. PICK F, A : y = ObjectPlan(F, A) /\ AddedBy(A, P, Len(w.members))
        BY <3>1 DEF MergedFrom
      <3>3. w # NoValue
        BY <2>5 DEF Kind, NoValue, Absent
      <3>4. w = ValueAt(t, p) /\ IsBuilt(w) /\ Unrepeated(w)
        BY <2>2, <3>3 DEF FoundAt
      <3>5. DOMAIN w.members = 1..Len(w.members) /\ Len(w.members) \in Nat
        BY <3>4, BuiltFacts
      <3> HIDE DEF w, d, p
      <3>6. ASSUME NEW i \in 1..Len(w.members) PROVE OnlyAdds(P[i], t, v)
        <4>1. i \in Nat /\ i \in DOMAIN w.members
          BY <3>5
        <4>2. OnlyAdds(f[Append(places, i)], t, v)
          BY <1>3, <4>1
        <4>3. MemberPlan(P[i], w, d, i, p, f[Append(places, i)])
          BY <3>1
        <4>4. d = ValueAt(v, p)
          BY DEF d
        <4> QED BY <2>3, <2>5, <3>4, <4>1, <4>2, <4>3, <4>4, MemberAdds
      <3>7. y.adds = A /\ y.edits = {} /\ y.conflicts = {}
        BY <3>2 DEF ObjectPlan
      <3>8. \A a \in ToSet(A) : \E i \in 1..Len(w.members) : a \in ToSet(P[i].adds)
        BY <3>2 DEF AddedBy
      <3>9. \A a \in ToSet(A) : TemplateAdd(a, t, v)
        BY <3>6, <3>8 DEF OnlyAdds
      <3>10. OnlyAdds(y, t, v)
        BY <2>1, <3>7, <3>9 DEF OnlyAdds
      <3> QED BY <3>10 DEF y
    <2> QED BY <2>1, <2>4, <2>5 DEF PlanOf
  <1>4. MaxDepth + 1 \in Nat
    BY JsonAssumption
  <1>5. \A places \in Seq(Nat) : places \in T
    <2> HIDE DEF T
    <2> QED BY <1>2, <1>3, <1>4, DeepestFirst
  <1> QED BY <1>5

\* Nothing is added where one of the two is no object.
LEMMA SparedByTemplate ==
  ASSUME NEW t, NEW v, IsDocument(t), IsDocument(v), NEW x, OnlyAdds(x, t, v), NEW p \in Seq(Keys),
         Kind(ValueAt(t, p)) # "object" \/ Kind(ValueAt(v, p)) # "object"
  PROVE  Spared(x, p)
  <1>1. x.edits = {}
    BY DEF OnlyAdds
  <1>2. ASSUME NEW a \in ToSet(x.adds), Under(p, a.at) PROVE FALSE
    <2>1. Kind(ValueAt(t, a.at)) = "object" /\ Kind(ValueAt(v, a.at)) = "object"
      BY DEF OnlyAdds, TemplateAdd
    <2>2. Kind(ValueAt(t, p)) = "object"
      BY <1>2, <2>1, ObjectAbove
    <2>3. Kind(ValueAt(v, p)) = "object"
      BY <1>2, <2>1, ObjectAbove
    <2> QED BY <2>2, <2>3
  <1> QED BY <1>1, <1>2 DEF Spared

LEMMA TemplateFromDifferences ==
  ASSUME NEW t, IsDocument(t), DuplicateMemberPaths(t) = {},
         NEW v, IsDocument(v), NEW x, OnlyAdds(x, t, v)
  PROVE  FromDifferences(x, v, t)
  <1>1. ASSUME NEW a \in ToSet(x.adds) PROVE DiffersAt(a.at, v, t) /\ NewMember(a, v, t)
    <2>1. TemplateAdd(a, t, v)
      BY DEF OnlyAdds
    <2> DEFINE w == ValueAt(t, a.at)
               d == ValueAt(v, a.at)
    <2>2. PICK k \in KeysOf(w) : a.member = FirstMember(w, k) /\ a.member.key = k /\ k \notin KeysOf(d)
      BY <2>1 DEF TemplateAdd
    <2>3. a.at \in Seq(Keys) /\ Kind(w) = "object" /\ Kind(d) = "object"
      BY <2>1 DEF TemplateAdd
    <2>4. w # NoValue
      BY <2>3 DEF Kind, NoValue, Absent
    <2>5. k \in Keys
      <3>1. IsBuilt(w)
        BY <2>3, <2>4, Reached
      <3> QED BY <3>1, BuiltFacts
    <2>6. At(w.semantic, k) # Absent /\ At(d.semantic, k) = Absent
      BY <2>2, <2>3, <2>5, KeysReached
    <2>7. d.semantic # Absent
      BY <2>3 DEF Kind, Absent
    <2> HIDE DEF w, d
    <2>8. d.semantic # w.semantic
      BY <2>6
    <2> QED BY <2>2, <2>3, <2>5, <2>6, <2>7, <2>8 DEF DiffersAt, NewMember, w, d
  <1>2. x.edits = {}
    BY DEF OnlyAdds
  <1> QED BY <1>1, <1>2 DEF FromDifferences

-----------------------------------------------------------------------------
(* The rendering of a template merge *)

\* A clear template merge and what is rendered of its plan.
ClearOverlay(t, v, f, g, x) == ClearTemplate(t, v, f) /\ Rendering(g, v, x) /\ f[<<>>] = x

\* The value of an object plan without repeated members, key by key.
ValuesOf(F, w, d, P) ==
  /\ F = [k \in Keys |-> F[k]]
  /\ \A k \in Keys \ KeysOf(w) : F[k] = At(d.semantic, k)
  /\ \A i \in DOMAIN w.members : F[w.members[i].key] = P[i].value

LEMMA ValuesApart ==
  ASSUME NEW w, Len(w.members) \in Nat, DOMAIN w.members = 1..Len(w.members), Unrepeated(w),
         NEW d, NEW P, NEW F, LastOfEach(F, w, d.semantic, Len(w.members), P)
  PROVE  ValuesOf(F, w, d, P)
  <1> DEFINE N == Len(w.members)
  <1>1. /\ F = [k \in Keys |-> F[k]]
        /\ \A k \in Keys : (\A i \in 1..N : w.members[i].key # k) => F[k] = At(d.semantic, k)
        /\ \A i \in 1..N : (\A j \in 1..N : j > i => w.members[j].key # w.members[i].key) =>
             F[w.members[i].key] = P[i].value
    BY DEF LastOfEach
  <1>2. \A k \in Keys \ KeysOf(w) : \A i \in 1..N : w.members[i].key # k
    BY DEF KeysOf
  <1>3. ASSUME NEW i \in 1..N, NEW j \in 1..N, j > i PROVE w.members[j].key # w.members[i].key
    <2>1. i # j
      BY <1>3
    <2> QED BY <2>1 DEF Unrepeated
  <1>4. \A k \in Keys \ KeysOf(w) : F[k] = At(d.semantic, k)
    BY <1>1, <1>2
  <1>5. \A i \in DOMAIN w.members : F[w.members[i].key] = P[i].value
    BY <1>1, <1>3
  <1> QED BY <1>1, <1>4, <1>5 DEF ValuesOf

\* What is added to an object under a key is the member of the template.
LEMMA AddedOfTemplate ==
  ASSUME NEW t, NEW v, NEW x, OnlyAdds(x, t, v), NEW a \in ToSet(x.adds), NEW p, a.at = p
  PROVE  /\ a.member.key \in KeysOf(ValueAt(t, p)) /\ a.member.key \notin KeysOf(ValueAt(v, p))
         /\ a.member = FirstMember(ValueAt(t, p), a.member.key)
         /\ HasPlace(a, ValueAt(v, p))
  BY DEF OnlyAdds, TemplateAdd

\* A key of the destination in a rendered object: as planned below.
LEMMA OwnKeyRendered ==
  ASSUME NEW t, NEW v, NEW f, NEW g, NEW x, ClearOverlay(t, v, f, g, x),
         NEW p \in Seq(Keys), Kind(ValueAt(v, p)) = "object",
         NEW k \in KeysOf(ValueAt(v, p))
  PROVE  /\ At(g[p].semantic, k) = g[Append(p, k)].semantic
         /\ k \notin KeysOf(ValueAt(t, p)) =>
              At(g[p].semantic, k) = At(ValueAt(v, p).semantic, k)
  <1> DEFINE d == ValueAt(v, p)
             r == Append(p, k)
  <1>0. /\ IsDocument(t) /\ IsDocument(v) /\ DuplicateMemberPaths(v) = {}
        /\ Rendering(g, v, x) /\ ClearTemplate(t, v, f) /\ f[<<>>] = x
    BY DEF ClearOverlay, ClearTemplate
  <1>1. OnlyAdds(x, t, v)
    <2>1. <<>> \in Seq(Nat)
      OBVIOUS
    <2> QED BY <1>0, <2>1, AddsOnly
  <1>2. Listed(x.adds) /\ x.edits = {}
    BY <1>1 DEF OnlyAdds
  <1>3. SameThere(v, p)
    BY <1>0, ObjectsMeet
  <1>4. NotAdded(x.adds, p, k)
    <2>1. \A a \in ToSet(x.adds) : a.at = p => a.member.key \notin KeysOf(d)
      BY <1>1, AddedOfTemplate
    <2> QED BY <2>1 DEF NotAdded
  <1>5. Only(d, k) /\ k \in Keys
    <2>1. d # NoValue
      BY DEF Kind, NoValue, Absent
    <2>2. IsBuilt(d) /\ Unrepeated(d)
      BY <1>0, <2>1, NoRepeats DEF Distinct, Whole
    <2>3. k \in Keys
      BY <2>2, BuiltFacts
    <2> QED BY <2>2, <2>3 DEF Only, Unrepeated
  <1>6. At(g[p].semantic, k) = g[r].semantic
    <2> HIDE DEF r
    <2>1. At(g[p].semantic, k) = IF Only(ValueAt(v, p), k) THEN g[Append(p, k)].semantic
                                 ELSE At(ValueAt(v, p).semantic, k)
      BY <1>0, <1>2, <1>3, <1>4, RenderedKey
    <2> QED BY <1>5, <2>1 DEF r
  <1>7. ASSUME k \notin KeysOf(ValueAt(t, p)) PROVE g[r].semantic = At(d.semantic, k)
    <2>1. ValueAt(t, r) = NoValue
      <3>1. ValueAt(t, r) = MemberValue(ValueAt(t, p), k)
        BY <1>5, ValueSteps
      <3> QED BY <1>7, <3>1 DEF MemberValue
    <2>2. r \in Seq(Keys) /\ ValueAt(v, r).semantic = At(d.semantic, k)
      BY <1>0, <1>5, KeyThere
    <2>3. Kind(ValueAt(t, r)) # "object"
      BY <2>1 DEF Kind, NoValue, Absent
    <2> HIDE DEF r
    <2>4. Spared(x, r)
      BY <1>0, <1>1, <2>2, <2>3, SparedByTemplate
    <2>5. g[r].semantic = ValueAt(v, r).semantic
      BY <1>0, <1>2, <2>2, <2>4, SparedStays
    <2> QED BY <2>2, <2>5
  <1> QED BY <1>6, <1>7

\* A key that the destination lacks: what the template means, if anything.
LEMMA NewKeyRendered ==
  ASSUME NEW t, NEW v, NEW f, NEW g, NEW x, ClearOverlay(t, v, f, g, x),
         NEW p \in Seq(Keys), Kind(ValueAt(v, p)) = "object",
         NEW k \in Keys, k \notin KeysOf(ValueAt(v, p))
  PROVE  /\ k \notin KeysOf(ValueAt(t, p)) => At(g[p].semantic, k) = Absent
         /\ (/\ k \in KeysOf(ValueAt(t, p))
             /\ \E a \in ToSet(x.adds) : a.at = p /\ a.member.key = k) =>
              At(g[p].semantic, k) = FirstMember(ValueAt(t, p), k).value.semantic
  <1> DEFINE d == ValueAt(v, p)
             w == ValueAt(t, p)
             m == FirstMember(w, k).value.semantic
             l == Absent
  <1>0. /\ IsDocument(v) /\ Rendering(g, v, x) /\ ClearTemplate(t, v, f) /\ f[<<>>] = x
    BY DEF ClearOverlay, ClearTemplate
  <1>1. OnlyAdds(x, t, v)
    <2>1. <<>> \in Seq(Nat)
      OBVIOUS
    <2> QED BY <1>0, <2>1, AddsOnly
  <1>2. Listed(x.adds) /\ \A e \in x.edits : e.at # p
    BY <1>1 DEF OnlyAdds
  <1>3. \A a \in ToSet(x.adds) : a.at = p =>
          /\ a.member.key \in KeysOf(w) /\ a.member = FirstMember(w, a.member.key) /\ HasPlace(a, d)
    BY <1>1, AddedOfTemplate
  <1>4. ASSUME k \notin KeysOf(w) PROVE At(g[p].semantic, k) = l
    <2>1. \A a \in ToSet(x.adds) : ~(a.at = p /\ a.member.key = k)
      BY <1>3, <1>4
    <2>2. AddedMeans(x, ValueAt(v, p), p, k, l)
      BY <2>1 DEF AddedMeans, NotAdded
    <2> HIDE DEF l
    <2> QED BY <1>0, <1>2, <2>2, RenderedNew
  <1>5. ASSUME \E a \in ToSet(x.adds) : a.at = p /\ a.member.key = k PROVE At(g[p].semantic, k) = m
    <2>1. \A a \in ToSet(x.adds) : a.at = p /\ a.member.key = k => a.member.value.semantic = m
      BY <1>3
    <2>2. \E a \in ToSet(x.adds) : a.at = p /\ a.member.key = k /\ HasPlace(a, d)
      BY <1>3, <1>5
    <2> HIDE DEF m
    <2>3. AddedMeans(x, ValueAt(v, p), p, k, m)
      BY <2>1, <2>2 DEF AddedMeans
    <2> QED BY <1>0, <1>2, <2>3, RenderedNew
  <1> QED BY <1>4, <1>5

\* What is rendered where a value of the template meets one of the
\* destination is what was planned there.
RenderedThere(t, v, f, g, x, places) ==
  (/\ Placed(t, places).value # NoValue /\ ValueAt(v, Placed(t, places).path) # NoValue
   /\ ToSet(f[places].adds) \subseteq ToSet(x.adds)) =>
    g[Placed(t, places).path].semantic = f[places].value

\* The plan of a position where both are objects.
ObjectsAt(t, v, f, places, P) ==
  LET w == Placed(t, places).value
      p == Placed(t, places).path
      d == ValueAt(v, p)
  IN  /\ Kind(w) = "object" /\ Kind(d) = "object"
      /\ \A i \in 1..Len(w.members) : MemberPlan(P[i], w, d, i, p, f[Append(places, i)])
      /\ MergedFrom(f[places], w, d, P)

LEMMA ObjectsRendered ==
  ASSUME NEW t, NEW v, NEW f, NEW g, NEW x, ClearOverlay(t, v, f, g, x), NEW places \in Seq(Nat),
         \A n \in Nat : RenderedThere(t, v, f, g, x, Append(places, n)),
         NEW P, ObjectsAt(t, v, f, places, P), ToSet(f[places].adds) \subseteq ToSet(x.adds)
  PROVE  g[Placed(t, places).path].semantic = f[places].value
  <1> DEFINE w == Placed(t, places).value
             p == Placed(t, places).path
             d == ValueAt(v, p)
             N == Len(w.members)
             y == f[places]
  <1>a. /\ Kind(w) = "object" /\ Kind(d) = "object"
        /\ \A i \in 1..Len(w.members) : MemberPlan(P[i], w, d, i, p, f[Append(places, i)])
        /\ MergedFrom(y, w, d, P)
    BY DEF ObjectsAt
  <1>b. w = Placed(t, places).value /\ p = Placed(t, places).path /\ d = ValueAt(v, p)
    OBVIOUS
  <1>0. /\ IsDocument(t) /\ IsDocument(v) /\ DuplicateMemberPaths(t) = {} /\ DuplicateMemberPaths(v) = {}
        /\ Rendering(g, v, x) /\ ClearTemplate(t, v, f) /\ f[<<>>] = x
    BY DEF ClearOverlay, ClearTemplate
  <1>1. OnlyAdds(x, t, v)
    <2>1. <<>> \in Seq(Nat)
      OBVIOUS
    <2> QED BY <1>0, <2>1, AddsOnly
  <1>2. \A e \in x.edits : e.at # p
    BY <1>1 DEF OnlyAdds
  <1>3. p \in Seq(Keys)
    BY <1>0, PlacedFacts DEF PlacedAt
  <1> HIDE DEF w, p, d
  <1>4. w = ValueAt(t, p) /\ IsBuilt(w) /\ Unrepeated(w)
    <2>1. FoundAt(t, Placed(t, places))
      BY <1>0, PlacedFound
    <2>2. w # NoValue
      BY <1>a DEF Kind, NoValue, Absent
    <2> QED BY <1>b, <2>1, <2>2 DEF FoundAt
  <1>5. N \in Nat /\ DOMAIN w.members = 1..N
    BY <1>4, BuiltFacts
  <1>6. PICK F, A : y = ObjectPlan(F, A) /\ LastOfEach(F, w, d.semantic, N, P) /\ AddedBy(A, P, N)
    BY <1>a DEF MergedFrom, N
  <1>7. y.value = [kind |-> "object", members |-> F] /\ y.adds = A
    BY <1>6 DEF ObjectPlan
  <1>8. ValuesOf(F, w, d, P)
    BY <1>4, <1>5, <1>6, ValuesApart
  <1>9. \A i \in 1..N : ToSet(P[i].adds) \subseteq ToSet(x.adds)
    BY <1>6, <1>7 DEF AddedBy
  <1>10. Kind(ValueAt(v, p)) = "object"
    BY <1>a, <1>b
  <1> HIDE DEF y, N
  \* A member of the template.
  <1>11. ASSUME NEW i \in DOMAIN w.members PROVE At(g[p].semantic, w.members[i].key) = P[i].value
    <2> DEFINE m == w.members[i]
               k == m.key
    <2>1. k \in KeysOf(w) /\ k \in Keys /\ FirstMember(w, k) = m /\ MemberValue(w, k) = m.value
      BY <1>4, FirstIsOnly
    <2>2. MemberPlan(P[i], w, d, i, p, f[Append(places, i)]) /\ i \in Nat
      BY <1>a, <1>5 DEF N
    <2>3. CASE k \in KeysOf(d)
      <3> DEFINE more == Append(places, i)
                 node == Placed(t, more)
      <3>1. P[i] = f[more]
        BY <2>2, <2>3 DEF MemberPlan
      <3>2. more \in Seq(Nat)
        BY <2>2
      <3>3. node = StepDown(Placed(t, places), i)
        BY <2>2, PlacedSteps
      <3>4. node = [path |-> Append(p, k), value |-> m.value]
        BY <1>b, <3>3 DEF StepDown
      <3>5. node.path = Append(p, k) /\ node.value = m.value
        BY <3>4
      <3> HIDE DEF node
      <3>6. m.value # NoValue
        <4>1. At(w.semantic, k) # Absent
          BY <1>0, <1>3, <1>4, <2>1, KeysReached
        <4>2. MemberValue(w, k).semantic = At(w.semantic, k)
          BY <1>0, <1>3, <1>4, <2>1, KeyThere
        <4>3. m.value.semantic # Absent
          BY <2>1, <4>1, <4>2
        <4> QED BY <4>3 DEF NoValue
      <3>7. ValueAt(v, Append(p, k)) # NoValue
        <4>1. At(d.semantic, k) # Absent
          BY <1>0, <1>3, <1>b, <2>1, <2>3, KeysReached
        <4>2. ValueAt(v, Append(p, k)).semantic = At(d.semantic, k)
          BY <1>0, <1>3, <1>b, <2>1, KeyThere
        <4>3. ValueAt(v, Append(p, k)).semantic # Absent
          BY <4>1, <4>2
        <4> QED BY <4>3 DEF NoValue
      <3>8. RenderedThere(t, v, f, g, x, more)
        BY <2>2
      <3>9. ToSet(f[more].adds) \subseteq ToSet(x.adds)
        BY <1>5, <1>9, <3>1
      <3>10. g[Append(p, k)].semantic = f[more].value
        <4>1. Placed(t, more).path = Append(p, k) /\ Placed(t, more).value = m.value
          BY <3>5 DEF node
        <4> HIDE DEF m, k, more
        <4> QED BY <3>6, <3>7, <3>8, <3>9, <4>1 DEF RenderedThere
      <3>11. At(g[p].semantic, k) = g[Append(p, k)].semantic
        <4> HIDE DEF m, k
        <4> QED BY <1>3, <1>10, <1>b, <2>3, OwnKeyRendered
      <3> QED BY <3>1, <3>10, <3>11
    <2>4. CASE k \notin KeysOf(d)
      <3>1. PICK a : P[i].adds = <<a>> /\ a.at = p /\ a.member = m
        BY <2>2, <2>4 DEF MemberPlan
      <3>2. P[i].value = m.value.semantic
        BY <2>2, <2>4 DEF MemberPlan
      <3>3. a \in ToSet(x.adds)
        <4>1. ToSet(P[i].adds) = {a}
          BY <3>1, ListedFacts
        <4> QED BY <4>1, <1>5, <1>9
      <3>4. \E c \in ToSet(x.adds) : c.at = p /\ c.member.key = k
        BY <3>1, <3>3
      <3> HIDE DEF k
      <3>5. At(g[p].semantic, k) = FirstMember(ValueAt(t, p), k).value.semantic
        <4>1. k \in Keys /\ k \notin KeysOf(ValueAt(v, p)) /\ k \in KeysOf(ValueAt(t, p))
          BY <1>4, <1>b, <2>1, <2>4 DEF k
        <4> QED BY <1>3, <1>10, <3>4, <4>1, NewKeyRendered
      <3> QED BY <1>4, <2>1, <3>2, <3>5 DEF k
    <2> QED BY <2>3, <2>4
  \* A key that the template lacks.
  <1>12. ASSUME NEW k \in Keys, k \notin KeysOf(w) PROVE At(g[p].semantic, k) = At(d.semantic, k)
    <2>0. k \notin KeysOf(ValueAt(t, p)) /\ d = ValueAt(v, p)
      BY <1>4, <1>12, <1>b
    <2>1. CASE k \in KeysOf(d)
      <3>1. k \in KeysOf(ValueAt(v, p))
        BY <2>0, <2>1
      <3>2. At(g[p].semantic, k) = At(ValueAt(v, p).semantic, k)
        BY <1>3, <1>10, <2>0, <3>1, OwnKeyRendered
      <3> QED BY <2>0, <3>2
    <2>2. CASE k \notin KeysOf(d)
      <3>1. At(g[p].semantic, k) = Absent
        <4>1. k \notin KeysOf(ValueAt(v, p))
          BY <2>0, <2>2
        <4> QED BY <1>3, <1>10, <2>0, <4>1, NewKeyRendered
      <3>2. At(d.semantic, k) = Absent
        BY <1>0, <1>3, <1>b, <2>2, KeysReached
      <3> QED BY <3>1, <3>2
    <2> QED BY <2>1, <2>2
  <1>13. ASSUME NEW k \in Keys PROVE At(g[p].semantic, k) = F[k]
    <2>1. CASE k \in KeysOf(w)
      <3>1. PICK i \in DOMAIN w.members : w.members[i].key = k
        BY <2>1 DEF KeysOf
      <3> QED BY <1>8, <1>11, <3>1 DEF ValuesOf
    <2>2. CASE k \notin KeysOf(w)
      BY <1>8, <1>12, <2>2 DEF ValuesOf
    <2> QED BY <2>1, <2>2
  <1>14. IsRewritten(g[p], d, x, p, Inside(g, p))
    BY <1>0, <1>2, <1>3, <1>10, <1>b, RenderedObject
  <1> DEFINE G == MeaningOf(RenderMembers(d, x, p, Inside(g, p)))
             m == g[p].semantic
             l == y.value
  <1>15. m = [kind |-> "object", members |-> G]
    BY <1>14 DEF IsRewritten
  <1>16. G = [k \in Keys |-> G[k]]
    BY DEF MeaningOf
  <1>17. F = [k \in Keys |-> F[k]]
    BY <1>8 DEF ValuesOf
  <1> HIDE DEF G
  <1>18. \A k \in Keys : At(l, k) = F[k]
    BY <1>7 DEF At
  <1>19. \A k \in Keys : At(m, k) = At(l, k)
    BY <1>13, <1>18
  <1>20. l = [kind |-> "object", members |-> F]
    BY <1>7
  <1> HIDE DEF m, l
  <1>21. m = l
    BY <1>15, <1>16, <1>17, <1>19, <1>20, ObjectsEqual
  <1> QED BY <1>21 DEF m, l, y, p

LEMMA OverlayRendered ==
  ASSUME NEW t, NEW v, NEW f, NEW g, NEW x, ClearOverlay(t, v, f, g, x)
  PROVE  \A places \in Seq(Nat) : RenderedThere(t, v, f, g, x, places)
  <1> DEFINE T == {places \in Seq(Nat) : RenderedThere(t, v, f, g, x, places)}
  <1>0. /\ IsDocument(t) /\ IsDocument(v) /\ Templating(f, t, v) /\ Rendering(g, v, x)
        /\ DuplicateMemberPaths(t) = {} /\ DuplicateMemberPaths(v) = {}
        /\ ClearTemplate(t, v, f) /\ f[<<>>] = x
    BY DEF ClearTemplate, ClearOverlay
  <1>1. OnlyAdds(x, t, v)
    <2>1. <<>> \in Seq(Nat)
      OBVIOUS
    <2> QED BY <1>0, <2>1, AddsOnly
  <1>2. ASSUME NEW places \in Seq(Nat), Len(places) >= MaxDepth + 1 PROVE places \in T
    <2>1. Placed(t, places).value = NoValue
      BY <1>0, <1>2, DeepPlaces
    <2> QED BY <2>1 DEF RenderedThere
  <1>3. ASSUME NEW places \in Seq(Nat), \A n \in Nat : Append(places, n) \in T PROVE places \in T
    <2> DEFINE w == Placed(t, places).value
               p == Placed(t, places).path
               d == ValueAt(v, p)
               y == f[places]
    <2>1. PlanOf(y, w, d, p, f, places)
      BY <1>0, PositionPlans
    <2>2. p \in Seq(Keys)
      BY <1>0, PlacedFacts DEF PlacedAt
    <2>3. FoundAt(t, Placed(t, places))
      BY <1>0, PlacedFound
    <2>4. w # NoValue => w = ValueAt(t, p)
      BY <2>3 DEF FoundAt
    <2> SUFFICES ASSUME w # NoValue, d # NoValue, ToSet(y.adds) \subseteq ToSet(x.adds)
                 PROVE  g[p].semantic = y.value
      BY DEF RenderedThere
    <2>5. CASE {Kind(w), Kind(d)} # {"object"} /\ y = Planned(d.semantic)
      <3>1. Kind(ValueAt(t, p)) # "object" \/ Kind(ValueAt(v, p)) # "object"
        BY <2>4, <2>5
      <3> HIDE DEF p, y
      <3>2. Spared(x, p)
        BY <1>0, <1>1, <2>2, <3>1, SparedByTemplate
      <3>3. Listed(x.adds)
        BY <1>1 DEF OnlyAdds
      <3>4. g[p].semantic = d.semantic
        BY <1>0, <2>2, <3>2, <3>3, SparedStays
      <3>5. y.value = d.semantic
        BY <2>5 DEF Planned
      <3> QED BY <3>4, <3>5
    <2>6. CASE /\ Kind(w) = "object" /\ Kind(d) = "object"
               /\ \E P : /\ \A i \in 1..Len(w.members) : MemberPlan(P[i], w, d, i, p, f[Append(places, i)])
                         /\ MergedFrom(y, w, d, P)
      <3>1. PICK P : ObjectsAt(t, v, f, places, P)
        BY <2>6 DEF ObjectsAt
      <3>2. \A n \in Nat : RenderedThere(t, v, f, g, x, Append(places, n))
        BY <1>3
      <3>3. ToSet(f[places].adds) \subseteq ToSet(x.adds)
        OBVIOUS
      <3> HIDE DEF w, p, d, y
      <3>4. g[Placed(t, places).path].semantic = f[places].value
        BY <3>1, <3>2, <3>3, ObjectsRendered
      <3> QED BY <3>4 DEF p, y
    <2> QED BY <2>1, <2>5, <2>6 DEF PlanOf
  <1>4. MaxDepth + 1 \in Nat
    BY JsonAssumption
  <1>5. \A places \in Seq(Nat) : places \in T
    <2> HIDE DEF T
    <2> QED BY <1>2, <1>3, <1>4, DeepestFirst
  <1> QED BY <1>5

\* The text rendered of a template merge means what was planned.
LEMMA OverlayAsPlanned ==
  ASSUME NEW t, NEW v, NEW f, NEW g, NEW x, ClearOverlay(t, v, f, g, x)
  PROVE  g[<<>>].semantic = x.value
  <1>1. <<>> \in Seq(Nat) /\ <<>> \in Seq(Keys)
    OBVIOUS
  <1>2. RenderedThere(t, v, f, g, x, <<>>)
    BY <1>1, OverlayRendered
  <1>3. Placed(t, <<>>) = [path |-> <<>>, value |-> t]
    BY PlacedSteps
  <1>4. Placed(t, <<>>).path = <<>> /\ Placed(t, <<>>).value = t
    BY <1>3
  <1>5. IsDocument(t) /\ IsDocument(v) /\ f[<<>>] = x
    BY DEF ClearOverlay, ClearTemplate
  <1>6. \A w : IsDocument(w) => w # NoValue
    <2> SUFFICES ASSUME NEW w, IsDocument(w) PROVE w # NoValue
      OBVIOUS
    <2>1. <<<<>>, w>> \in Nodes(w)
      BY DocumentNodes
    <2>2. \A node \in Nodes(w) : IsBuilt(node[2])
      BY DocumentNodes
    <2>3. IsBuilt(w)
      BY <2>1, <2>2
    <2>4. w.semantic # Absent
      BY <2>3, BuiltFacts
    <2> QED BY <2>4 DEF NoValue
  <1>7. ValueAt(v, <<>>) = v
    BY ValueSteps
  <1> QED BY <1>2, <1>4, <1>5, <1>6, <1>7 DEF RenderedThere

-----------------------------------------------------------------------------
(* Why a merge fails *)

LEMMA NoneRepeated ==
  ASSUME Duplicates(input) = {}
  PROVE  /\ DuplicateMemberPaths(input.base) = {} /\ DuplicateMemberPaths(input.ours) = {}
         /\ DuplicateMemberPaths(input.theirs) = {} /\ ~Contested
  <1>1. ContestedPaths(input) = {}
    BY DEF ContestedPaths
  <1> QED BY <1>1 DEF Duplicates, Contested

\* A planned merge is one of the two.
PlannedFrom(f) ==
  /\ plan = f[<<>>]
  /\ \/ input.lane = "template" /\ ClearTemplate(input.theirs, input.ours, f)
     \/ input.lane # "template" /\ ClearMerge(input.base, input.ours, input.theirs, f)

LEMMA ThePlan ==
  ASSUME InputInv, Duplicates(input) = {}, IsThePlan
  PROVE  \E f : PlannedFrom(f)
  <1>1. /\ IsDocument(input.base) /\ IsDocument(input.ours) /\ IsDocument(input.theirs)
    BY DEF InputInv
  <1>2. /\ DuplicateMemberPaths(input.base) = {} /\ DuplicateMemberPaths(input.ours) = {}
        /\ DuplicateMemberPaths(input.theirs) = {}
    BY NoneRepeated
  <1>3. CASE input.lane = "template"
    <2>1. PICK f : Templating(f, input.theirs, input.ours)
      BY <1>1, TemplateSteps
    <2>2. plan = f[<<>>]
      BY <1>3, <2>1 DEF IsThePlan, Templating
    <2>3. ClearTemplate(input.theirs, input.ours, f)
      BY <1>1, <1>2, <2>1 DEF ClearTemplate
    <2> QED BY <1>3, <2>2, <2>3 DEF PlannedFrom
  <1>4. CASE input.lane # "template"
    <2>1. PICK f : Merging(f, input.base, input.ours, input.theirs)
      BY <1>1, MergeSteps
    <2>2. plan = f[<<>>]
      BY <1>4, <2>1 DEF IsThePlan, Merging
    <2>3. ClearMerge(input.base, input.ours, input.theirs, f)
      BY <1>1, <1>2, <2>1 DEF ClearMerge
    <2> QED BY <1>4, <2>2, <2>3 DEF PlannedFrom
  <1> QED BY <1>3, <1>4

\* Each conflict has a reason.
LEMMA ConflictsExplained ==
  ASSUME NEW f, PlannedFrom(f), NEW c \in plan.conflicts
  PROVE  Explained(input.base, input.ours, input.theirs, c.path)
  <1>1. CASE ClearTemplate(input.theirs, input.ours, f)
    <2>1. <<>> \in Seq(Nat)
      OBVIOUS
    <2>2. OnlyAdds(f[<<>>], input.theirs, input.ours)
      BY <1>1, <2>1, AddsOnly
    <2> QED BY <2>2 DEF OnlyAdds, PlannedFrom
  <1>2. CASE ClearMerge(input.base, input.ours, input.theirs, f)
    <2>1. Justified(f[<<>>], input.base, input.ours, input.theirs)
      BY <1>2, WholePlan
    <2> QED BY <2>1 DEF Justified, ConflictJustified, PlannedFrom
  <1> QED BY <1>1, <1>2 DEF PlannedFrom

\* A rendered plan means what was planned.
LEMMA PlanAccepted ==
  ASSUME InputInv, NEW f, PlannedFrom(f), plan.conflicts = {},
         rendered = RenderValue(input.ours, plan)
  PROVE  Accepts(rendered)
  <1> DEFINE b == input.base
             o == input.ours
             t == input.theirs
  <1>1. PICK g : Rendering(g, o, plan)
    BY RenderSteps DEF InputInv
  <1>2. rendered = g[<<>>] /\ plan = f[<<>>]
    BY <1>1 DEF Rendering, PlannedFrom
  <1> HIDE DEF b, o, t
  <1>3. CASE ClearTemplate(t, o, f)
    <2>1. ClearOverlay(t, o, f, g, plan)
      BY <1>1, <1>2, <1>3 DEF ClearOverlay
    <2>2. g[<<>>].semantic = plan.value
      BY <2>1, OverlayAsPlanned
    <2> QED BY <1>2, <2>2 DEF Accepts
  <1>4. CASE ClearMerge(b, o, t, f)
    <2>1. ClearPlan(b, o, t, f, g, plan)
      BY <1>1, <1>2, <1>4 DEF ClearPlan
    <2>2. Kept(f[<<>>], plan)
      BY <1>2 DEF Kept
    <2>3. Present(b, o, t, <<>>)
      BY <1>4, WholePlan
    <2>4. <<>> \in Seq(Keys)
      OBVIOUS
    <2>5. g[<<>>].semantic = f[<<>>].value
      <3> DEFINE x == plan
                 p == <<>>
      <3> HIDE DEF x, p
      <3>1. \A q \in Seq(Keys) : Present(b, o, t, q) /\ Kept(f[q], x) => g[q].semantic = f[q].value
        <4>1. ClearPlan(b, o, t, f, g, x)
          BY <2>1 DEF x
        <4> QED BY <4>1, RenderedAsPlanned
      <3>2. p \in Seq(Keys) /\ Present(b, o, t, p) /\ Kept(f[p], x)
        BY <2>2, <2>3, <2>4 DEF p, x
      <3>3. g[p].semantic = f[p].value
        BY <3>1, <3>2
      <3> QED BY <3>3 DEF p
    <2> QED BY <1>2, <2>5 DEF Accepts
  <1> QED BY <1>3, <1>4 DEF PlannedFrom, b, o, t

\* Edits that overlap have a reason.
LEMMA OverlapExplained ==
  ASSUME InputInv, Duplicates(input) = {}, NEW f, PlannedFrom(f), Overlapping(input.ours, plan)
  PROVE  \E p \in ObjectPaths(input.ours) :
           /\ ValueAt(input.ours, p).inline
           /\ NewKeys(p) # {}
           /\ \E k \in KeysOf(ValueAt(input.ours, p)) :
                MeaningAt(input.theirs.semantic, Append(p, k))
                  # MeaningAt(input.ours.semantic, Append(p, k))
  <1> DEFINE o == input.ours
             t == input.theirs
  <1>1. /\ IsDocument(o) /\ DuplicateMemberPaths(o) = {}
        /\ IsDocument(t) /\ DuplicateMemberPaths(t) = {}
    BY NoneRepeated DEF InputInv
  <1>2. ASSUME ClearTemplate(t, o, f) PROVE FromDifferences(plan, o, t)
    <2>1. <<>> \in Seq(Nat)
      OBVIOUS
    <2> HIDE DEF o, t
    <2>2. OnlyAdds(f[<<>>], t, o)
      BY <1>2, <2>1, AddsOnly
    <2>3. OnlyAdds(plan, t, o)
      BY <2>2 DEF PlannedFrom
    <2> DEFINE x == plan
    <2> HIDE DEF x
    <2>4. FromDifferences(x, o, t)
      BY <1>1, <2>3, TemplateFromDifferences DEF x
    <2> QED BY <2>4 DEF x
  <1>3. ASSUME ClearMerge(input.base, o, t, f) PROVE FromDifferences(plan, o, t)
    <2> HIDE DEF o, t
    <2>1. FromDifferences(f[<<>>], o, t)
      BY <1>3, PlanFromDifferences
    <2> QED BY <2>1 DEF PlannedFrom
  <1>4. FromDifferences(plan, o, t) /\ Overlapping(o, plan)
    BY <1>2, <1>3 DEF PlannedFrom
  <1> DEFINE x == plan
  <1>5. FromDifferences(x, o, t) /\ Overlapping(o, x)
    BY <1>4
  <1> HIDE DEF o, t, x
  <1>6. PICK p \in ObjectPaths(o) : OverlapReason(o, t, p)
    BY <1>1, <1>5, OverlapHasReason
  <1>7. NewKeys(p) # {}
    BY <1>6 DEF OverlapReason, NewKeys, o, t
  <1> QED BY <1>6, <1>7 DEF OverlapReason, o, t

\* The reasons of every merge.
LEMMA Reasons == Inv => FailuresExplained
  <1> SUFFICES ASSUME Inv, Duplicates(input) = {}
               PROVE  /\ outcome = "conflict" =>
                           \A c \in plan.conflicts :
                             Explained(input.base, input.ours, input.theirs, c.path)
                      /\ outcome # "mismatch"
                      /\ outcome = "overlap" =>
                           \E p \in ObjectPaths(input.ours) :
                             /\ ValueAt(input.ours, p).inline
                             /\ NewKeys(p) # {}
                             /\ \E k \in KeysOf(ValueAt(input.ours, p)) :
                                  MeaningAt(input.theirs.semantic, Append(p, k))
                                    # MeaningAt(input.ours.semantic, Append(p, k))
    BY DEF FailuresExplained, Explained
  <1>1. InputInv /\ PhaseInv
    BY DEF Inv
  <1>2. ~Contested
    BY NoneRepeated
  <1>3. ASSUME outcome = "conflict", NEW c \in plan.conflicts
        PROVE  Explained(input.base, input.ours, input.theirs, c.path)
    <2>1. IsThePlan
      BY <1>1, <1>2, <1>3 DEF PhaseInv
    <2>2. PICK f : PlannedFrom(f)
      BY <1>1, <2>1, ThePlan
    <2> QED BY <1>3, <2>2, ConflictsExplained
  <1>4. ASSUME outcome = "mismatch" PROVE FALSE
    <2>1. Candidate /\ ~Accepts(rendered)
      BY <1>1, <1>4 DEF PhaseInv
    <2>2. CASE IsSelected
      <3>1. plan = Planned(rendered.semantic)
        BY <2>2 DEF IsSelected
      <3>2. plan.value = rendered.semantic
        BY <3>1 DEF Planned
      <3> QED BY <2>1, <3>2 DEF Accepts
    <2>3. CASE IsRendered
      <3>1. IsThePlan /\ plan.conflicts = {} /\ rendered = RenderValue(input.ours, plan)
        BY <2>3 DEF IsRendered
      <3>2. PICK f : PlannedFrom(f)
        BY <1>1, <3>1, ThePlan
      <3> QED BY <1>1, <2>1, <3>1, <3>2, PlanAccepted
    <2> QED BY <2>1, <2>2, <2>3 DEF Candidate
  <1>5. ASSUME outcome = "overlap" PROVE IsThePlan /\ Overlapping(input.ours, plan)
    BY <1>1, <1>5 DEF PhaseInv
  <1>6. ASSUME outcome = "overlap" PROVE \E f : PlannedFrom(f)
    BY <1>1, <1>5, <1>6, ThePlan
  <1>7. ASSUME outcome = "overlap"
        PROVE  \E p \in ObjectPaths(input.ours) :
                 /\ ValueAt(input.ours, p).inline
                 /\ NewKeys(p) # {}
                 /\ \E k \in KeysOf(ValueAt(input.ours, p)) :
                      MeaningAt(input.theirs.semantic, Append(p, k))
                        # MeaningAt(input.ours.semantic, Append(p, k))
    <2>1. PICK f : PlannedFrom(f)
      BY <1>6, <1>7
    <2>2. Overlapping(input.ours, plan)
      BY <1>5, <1>7
    <2> QED BY <1>1, <2>1, <2>2, OverlapExplained
  <1> QED BY <1>3, <1>4, <1>7

\* Without repeated members a merge fails for a reason: each conflict is
\* where both sides changed one value differently or theirs deleted what ours
\* left alone, what is rendered means what was planned, and edits overlap only
\* where an object on one line gains a member and changes inside.
THEOREM FailuresAreExplained == Spec => []FailuresExplained
  <1>1. Spec => []Inv
    BY Invariance
  <1>2. Inv => FailuresExplained
    BY Reasons
  <1> QED BY <1>1, <1>2, PTL

-----------------------------------------------------------------------------
(* What lookups find in what is rendered *)

\* A document without repeated members, a plan that adds no member that it
\* has, and what is rendered.
FreshAdds(x, o) ==
  Listed(x.adds) /\ \A a \in ToSet(x.adds) : a.member.key \notin KeysOf(ValueAt(o, a.at))
FreshRender(o, x, g) ==
  IsDocument(o) /\ DuplicateMemberPaths(o) = {} /\ FreshAdds(x, o) /\ Rendering(g, o, x)

\* Members of one key with one value.
LEMMA UniqueMember ==
  ASSUME NEW e, Listed(e.members), NEW k \in Keys, NEW c,
         \A m \in ToSet(e.members) : m.key = k => m.value = c,
         \E m \in ToSet(e.members) : m.key = k
  PROVE  /\ k \in KeysOf(e) /\ MemberValue(e, k) = c
         /\ MeaningOf(e.members)[k] = c.semantic
  <1> DEFINE R == e.members
             l == MeaningOf(R)[k]
             S == Positions(e, k)
             i == Min(S)
  <1>1. Len(R) \in Nat /\ DOMAIN R = 1..Len(R) /\ \A j \in DOMAIN R : R[j] \in ToSet(R)
    BY ListedFacts DEF ToSet
  <1>2. PICK j \in DOMAIN R : R[j].key = k
    BY DEF ToSet
  <1>3. k \in KeysOf(e)
    BY <1>2 DEF KeysOf
  <1>4. S \subseteq Nat /\ S # {}
    BY <1>1, <1>2 DEF Positions
  <1>5. i \in S
    <2> HIDE DEF S
    <2> QED BY <1>4, MinIn
  <1>6. R[i].value = c
    BY <1>1, <1>5 DEF Positions
  <1>7. MemberValue(e, k) = c
    BY <1>3, <1>6 DEF MemberValue, FirstMember
  <1> HIDE DEF R
  <1>8. Means(R, k, l)
    BY <1>1, MeaningMeans
  <1> HIDE DEF l
  <1>9. \A h \in DOMAIN R : R[h].key = k => R[h].value = c
    BY <1>1 DEF R
  <1>10. l = c.semantic
    BY <1>2, <1>8, <1>9 DEF Means
  <1> QED BY <1>3, <1>7, <1>10 DEF l, R

\* The members of a rendered object.
HasMembers(y, d, x, p, g) ==
  /\ Kind(y) = "object" /\ Listed(y.members)
  /\ y.semantic = [kind |-> "object", members |-> MeaningOf(y.members)]
  /\ \A m \in ToSet(y.members) : InText(m, d, x.adds, p, Inside(g, p))
  /\ \A k \in KeysOf(d) : [key |-> k, value |-> Inside(g, p)[k]] \in ToSet(y.members)
  /\ \A a \in ToSet(x.adds) : a.at = p /\ HasPlace(a, d) => a.member \in ToSet(y.members)

LEMMA MembersRendered ==
  ASSUME NEW o, NEW x, NEW g, FreshRender(o, x, g), NEW p \in Seq(Keys),
         Kind(ValueAt(o, p)) = "object", \A e \in x.edits : e.at # p
  PROVE  /\ HasMembers(g[p], ValueAt(o, p), x, p, g)
         /\ Unrepeated(ValueAt(o, p)) /\ KeysOf(ValueAt(o, p)) \subseteq Keys
  <1> DEFINE d == ValueAt(o, p)
             inside == Inside(g, p)
             R == RenderMembers(d, x, p, inside)
  <1>0. IsDocument(o) /\ DuplicateMemberPaths(o) = {} /\ Listed(x.adds) /\ Rendering(g, o, x)
    BY DEF FreshRender, FreshAdds
  <1>1. d # NoValue
    BY DEF Kind, NoValue, Absent
  <1>2. IsBuilt(d) /\ Unrepeated(d)
    BY <1>0, <1>1, NoRepeats DEF Distinct, Whole
  <1>3. Len(d.members) \in Nat /\ DOMAIN d.members = 1..Len(d.members) /\ KeysOf(d) \subseteq Keys
    BY <1>2, BuiltFacts
  <1>4. IsRewritten(g[p], d, x, p, inside)
    BY <1>0, RenderedObject
  <1> HIDE DEF d, inside
  <1>5. /\ Listed(R) /\ \A m \in ToSet(R) : InText(m, d, x.adds, p, inside)
        /\ \A a \in ToSet(x.adds) : a.at = p /\ HasPlace(a, d) => a.member \in ToSet(R)
        /\ \A k \in KeysOf(d) : [key |-> k, value |-> inside[k]] \in ToSet(R)
    BY <1>0, <1>3, RenderedMembers
  <1>6. /\ g[p].members = R /\ Kind(g[p]) = "object"
        /\ g[p].semantic = [kind |-> "object", members |-> MeaningOf(R)]
    BY <1>4 DEF IsRewritten
  <1> HIDE DEF R
  <1>7. HasMembers(g[p], d, x, p, g)
    BY <1>5, <1>6 DEF HasMembers, inside
  <1> QED BY <1>2, <1>3, <1>7 DEF d

LEMMA OwnMember ==
  ASSUME NEW o, NEW x, NEW g, FreshRender(o, x, g), NEW p \in Seq(Keys),
         Kind(ValueAt(o, p)) = "object", \A e \in x.edits : e.at # p,
         NEW k \in KeysOf(ValueAt(o, p))
  PROVE  /\ k \in KeysOf(g[p]) /\ MemberValue(g[p], k) = g[Append(p, k)]
         /\ At(g[p].semantic, k) = g[Append(p, k)].semantic
  <1> DEFINE d == ValueAt(o, p)
             c == g[Append(p, k)]
             y == g[p]
  <1>1. HasMembers(y, d, x, p, g) /\ Unrepeated(d) /\ KeysOf(d) \subseteq Keys
    BY MembersRendered
  <1>2. k \in Keys
    BY <1>1
  <1>3. Inside(g, p)[k] = c
    BY <1>2 DEF Inside
  <1>4. \A a \in ToSet(x.adds) : a.at = p => a.member.key # k
    BY DEF FreshRender, FreshAdds
  <1>5. Only(d, k)
    BY <1>1 DEF Only, Unrepeated
  <1> HIDE DEF d, c, y
  <1>6. \A m \in ToSet(y.members) : m.key = k => m.value = c
    <2> SUFFICES ASSUME NEW m \in ToSet(y.members), m.key = k PROVE m.value = c
      OBVIOUS
    <2>1. InText(m, d, x.adds, p, Inside(g, p))
      BY <1>1 DEF HasMembers
    <2>2. m = [key |-> m.key, value |-> Inside(g, p)[m.key]]
      BY <2>1, <1>4, <1>5 DEF InText
    <2> QED BY <2>2, <1>3
  <1>7. \E m \in ToSet(y.members) : m.key = k
    <2> DEFINE m == [key |-> k, value |-> Inside(g, p)[k]]
    <2>1. m \in ToSet(y.members)
      BY <1>1 DEF HasMembers, d
    <2>2. m.key = k
      OBVIOUS
    <2> QED BY <2>1, <2>2
  <1>8. Listed(y.members) /\ y.semantic = [kind |-> "object", members |-> MeaningOf(y.members)]
    BY <1>1 DEF HasMembers
  <1>9. k \in KeysOf(y) /\ MemberValue(y, k) = c /\ MeaningOf(y.members)[k] = c.semantic
    <2>1. Listed(y.members)
      BY <1>8
    <2> QED BY <1>2, <1>6, <1>7, <2>1, UniqueMember
  <1>10. At(y.semantic, k) = c.semantic
    <2> DEFINE h == MeaningOf(y.members)
    <2>1. y.semantic = [kind |-> "object", members |-> h] /\ h[k] = c.semantic
      BY <1>8, <1>9
    <2> HIDE DEF h
    <2>2. y.semantic.kind = "object" /\ y.semantic.members = h
      BY <2>1
    <2> QED BY <1>2, <2>1, <2>2 DEF At
  <1> QED BY <1>9, <1>10 DEF y, c

\* A value that no edit replaces is found where it was.
LEMMA RenderedPath ==
  ASSUME NEW o, NEW x, NEW g, FreshRender(o, x, g)
  PROVE  \A p \in Seq(Keys) :
           ValueAt(o, p) # NoValue /\ (\A e \in x.edits : ~Under(e.at, p)) =>
             ValueAt(g[<<>>], p) = g[p]
  <1> DEFINE r == g[<<>>]
             T == {p \in Seq(Keys) : ValueAt(o, p) # NoValue /\ (\A e \in x.edits : ~Under(e.at, p)) =>
                                       ValueAt(r, p) = g[p]}
  <1>1. <<>> \in T
    BY ValueSteps
  <1>2. ASSUME NEW p \in Seq(Keys), NEW k \in Keys, p \in T PROVE Append(p, k) \in T
    <2> DEFINE q == Append(p, k)
               d == ValueAt(o, p)
    <2>0. q \in Seq(Keys)
      OBVIOUS
    <2> SUFFICES ASSUME ValueAt(o, q) # NoValue, \A e \in x.edits : ~Under(e.at, q)
                 PROVE  ValueAt(r, q) = g[q]
      BY <2>0
    <2>1. ValueAt(o, q) = MemberValue(d, k)
      BY ValueSteps
    <2>2. k \in KeysOf(d)
      BY <2>1 DEF MemberValue
    <2>3. d # NoValue
      BY <2>2 DEF KeysOf, NoValue
    <2>4. Kind(d) = "object"
      <3>1. IsBuilt(d)
        BY <2>3, Reached DEF FreshRender
      <3>2. d.members # <<>>
        BY <2>2 DEF KeysOf
      <3> QED BY <3>1, <3>2, BuiltFacts
    <2>5. ASSUME NEW e \in x.edits PROVE ~Under(e.at, p) /\ e.at # p
      <3>1. ~Under(e.at, q)
        OBVIOUS
      <3>2. CASE Under(e.at, p)
        BY <3>1, <3>2 DEF Under
      <3>3. CASE e.at = p
        BY <3>1, <3>3, UnderSelf, UnderGrown
      <3> QED BY <3>2, <3>3
    <2>6. ValueAt(r, p) = g[p]
      BY <1>2, <2>3, <2>5
    <2>7. ValueAt(r, q) = MemberValue(ValueAt(r, p), k)
      BY ValueSteps
    <2>8. MemberValue(g[p], k) = g[q]
      <3> HIDE DEF q, r
      <3> QED BY <2>2, <2>4, <2>5, OwnMember DEF q
    <2> QED BY <2>6, <2>7, <2>8
  <1>3. \A p \in Seq(Keys) : p \in T
    <2> HIDE DEF T
    <2> QED BY <1>1, <1>2, Downwards
  <1> QED BY <1>3

-----------------------------------------------------------------------------
(* The comments of a clean merge *)

\* Why an addition of a plan is fresh.
LEMMA NewIsFresh ==
  ASSUME NEW x, Listed(x.adds), NEW o, NEW t, FromDifferences(x, o, t) PROVE FreshAdds(x, o)
  BY DEF FreshAdds, FromDifferences, NewMember

\* What is known of the plan of a merge without repeated members.
LEMMA PlanFresh ==
  ASSUME NEW f, PlannedFrom(f)
  PROVE  /\ FreshAdds(plan, input.ours) /\ FromDifferences(plan, input.ours, input.theirs)
         /\ IsDocument(input.ours) /\ DuplicateMemberPaths(input.ours) = {}
  <1> DEFINE o == input.ours
             t == input.theirs
             b == input.base
             x == f[<<>>]
  <1>1. CASE ClearTemplate(t, o, f)
    <2> HIDE DEF o, t
    <2>1. <<>> \in Seq(Nat)
      OBVIOUS
    <2>2. OnlyAdds(x, t, o)
      BY <1>1, <2>1, AddsOnly
    <2>3. IsDocument(t) /\ IsDocument(o) /\ DuplicateMemberPaths(t) = {} /\ DuplicateMemberPaths(o) = {}
      BY <1>1 DEF ClearTemplate
    <2> HIDE DEF x
    <2>4. FromDifferences(x, o, t)
      BY <2>2, <2>3, TemplateFromDifferences
    <2>5. Listed(x.adds)
      BY <2>2 DEF OnlyAdds
    <2>6. FreshAdds(x, o)
      BY <2>4, <2>5, NewIsFresh
    <2> QED BY <2>3, <2>4, <2>6 DEF PlannedFrom, x, o, t
  <1>2. CASE ClearMerge(b, o, t, f)
    <2> HIDE DEF o, t, b
    <2>1. FromDifferences(x, o, t)
      BY <1>2, PlanFromDifferences
    <2>2. Listed(x.adds)
      BY <1>2, WholePlan DEF PartPlan
    <2>3. IsDocument(o) /\ DuplicateMemberPaths(o) = {}
      BY <1>2 DEF ClearMerge
    <2> HIDE DEF x
    <2>4. FreshAdds(x, o)
      BY <2>1, <2>2, NewIsFresh
    <2> QED BY <2>1, <2>3, <2>4 DEF PlannedFrom, x, o, t
  <1> QED BY <1>1, <1>2 DEF PlannedFrom

\* Under an edit, ours had not changed what theirs changed.
LEMMA TakenByEdit ==
  ASSUME NEW f, PlannedFrom(f), NEW p \in Seq(Keys), NEW e \in plan.edits, Under(e.at, p)
  PROVE  TakenFromTheirs(p)
  <1> DEFINE o == input.ours
             t == input.theirs
             b == input.base
             x == f[<<>>]
             n == Len(e.at)
  <1>1. ClearMerge(b, o, t, f) /\ input.lane # "template"
    <2>1. ASSUME ClearTemplate(t, o, f) PROVE FALSE
      <3>1. <<>> \in Seq(Nat)
        OBVIOUS
      <3>2. OnlyAdds(x, t, o)
        BY <2>1, <3>1, AddsOnly
      <3> QED BY <3>2 DEF OnlyAdds, PlannedFrom
    <2> QED BY <2>1 DEF PlannedFrom
  <1>2. e \in x.edits
    BY DEF PlannedFrom
  <1> HIDE DEF o, t, b, x
  <1>3. EditOf(e, b, o, t, <<>>) /\ EditJustified(e, b, o, t)
    BY <1>1, <1>2, WholePlan DEF PartPlan, Justified, x
  <1>4. /\ e.at \in Seq(Keys)
        /\ ValueAt(o, e.at).semantic = ValueAt(b, e.at).semantic
        /\ ValueAt(o, e.at).semantic # ValueAt(t, e.at).semantic
    BY <1>3 DEF EditOf, EditJustified, Under
  <1>5. /\ IsDocument(b) /\ IsDocument(o) /\ IsDocument(t) /\ DuplicateMemberPaths(b) = {}
        /\ DuplicateMemberPaths(o) = {} /\ DuplicateMemberPaths(t) = {}
    BY <1>1 DEF ClearMerge
  <1>6. /\ ValueAt(o, e.at).semantic = MeaningAt(o.semantic, e.at)
        /\ ValueAt(b, e.at).semantic = MeaningAt(b.semantic, e.at)
        /\ ValueAt(t, e.at).semantic = MeaningAt(t.semantic, e.at)
    BY <1>4, <1>5, NoRepeats
  <1>7. n \in 0..Len(p)
    BY <1>4 DEF Under
  <1>8. SubSeq(p, 1, n) = e.at
    <2>1. Len(SubSeq(p, 1, n)) = n /\ \A i \in 1..n : SubSeq(p, 1, n)[i] = p[i]
      BY <1>7
    <2>2. \A i \in 1..n : p[i] = e.at[i]
      BY DEF Under
    <2>3. SubSeq(p, 1, n) \in Seq(Keys)
      BY <1>7
    <2> DEFINE s == SubSeq(p, 1, n)
               q == e.at
    <2>4. s \in Seq(Keys) /\ q \in Seq(Keys) /\ Len(s) = Len(q) /\ \A i \in 1..Len(s) : s[i] = q[i]
      BY <1>4, <2>1, <2>2, <2>3
    <2> HIDE DEF s, q
    <2>5. s = q
      BY <2>4, SeqEqual
    <2> QED BY <2>5 DEF s, q
  <1> DEFINE s == SubSeq(p, 1, n)
  <1>9. /\ MeaningAt(o.semantic, s) = MeaningAt(b.semantic, s)
        /\ MeaningAt(o.semantic, s) # MeaningAt(t.semantic, s)
    BY <1>4, <1>6, <1>8
  <1> QED BY <1>1, <1>7, <1>9 DEF TakenFromTheirs, o, t, b

\* In a merge of three documents members are added at the end.
LEMMA AddedAtEnd ==
  ASSUME NEW f, PlannedFrom(f), input.lane # "template", NEW a \in ToSet(plan.adds)
  PROVE  a.before = AtEnd
  <1>1. ClearMerge(input.base, input.ours, input.theirs, f) /\ plan = f[<<>>]
    BY DEF PlannedFrom
  <1>2. AddOf(a, input.base, input.ours, input.theirs, <<>>)
    BY <1>1, WholePlan DEF PartPlan
  <1> QED BY <1>2 DEF AddOf

\* An object of ours that is rendered where it was, without a comment.
LEMMA CommentGone ==
  ASSUME NEW f, PlannedFrom(f), NEW g, Rendering(g, input.ours, plan),
         NEW p \in ObjectPaths(input.ours), \A e \in plan.edits : e.at # p,
         ValueAt(input.ours, p).notes \ g[p].notes # {}
  PROVE  /\ ValueAt(input.ours, p).inline /\ NewKeys(p) # {}
         /\ "tail" \in ValueAt(input.ours, p).notes =>
              input.lane = "template" \/ "second" \in ValueAt(input.ours, p).notes
  <1> DEFINE o == input.ours
             t == input.theirs
             d == ValueAt(o, p)
             x == plan
  <1>1. /\ FreshAdds(x, o) /\ FromDifferences(x, o, t) /\ IsDocument(o)
    BY PlanFresh
  <1>2. p \in Seq(Keys) /\ Kind(d) = "object"
    BY KeyPathsAre DEF ObjectPaths
  <1>3. IsRewritten(g[p], d, x, p, Inside(g, p))
    <2>1. Rendering(g, o, x) /\ Kind(ValueAt(o, p)) = "object" /\ \A e \in x.edits : e.at # p
      BY <1>2
    <2> HIDE DEF o, x
    <2> QED BY <1>2, <2>1, RenderedObject
  <1>4. d.notes \ g[p].notes # {}
    OBVIOUS
  <1>5. IsBuilt(d)
    <2>1. d # NoValue
      BY <1>2 DEF Kind, NoValue, Absent
    <2> QED BY <1>1, <1>2, <2>1, Reached
  <1> HIDE DEF o, t, d, x
  <1>6. WrittenAnew(d, AddedAt(x, p))
    BY <1>3, <1>4 DEF IsRewritten
  <1>7. d.inline /\ AddedAt(x, p) # {} /\ ~AfterTrailingComment(d, AddedAt(x, p))
    BY <1>6 DEF WrittenAnew
  <1>8. NewKeys(p) # {}
    <2>1. PICK a : a \in ToSet(x.adds) /\ a.at = p
      BY <1>7 DEF AddedAt
    <2>2. NewMember(a, o, t)
      BY <1>1, <2>1 DEF FromDifferences
    <2>3. /\ a.member.key \in Keys /\ a.member.key \notin KeysOf(ValueAt(o, p))
          /\ At(ValueAt(t, p).semantic, a.member.key) # Absent
      BY <2>1, <2>2 DEF NewMember
    <2>4. ValueAt(t, p).semantic = MeaningAt(t.semantic, p)
      <3>1. IsDocument(t) /\ DuplicateMemberPaths(t) = {}
        BY DEF PlannedFrom, ClearTemplate, ClearMerge, t
      <3> QED BY <1>2, <3>1, NoRepeats
    <2>5. a.member.key \in NewKeys(p)
      BY <2>3, <2>4 DEF NewKeys, o, t
    <2> QED BY <2>5
  <1>9. ASSUME "tail" \in d.notes, input.lane # "template", "second" \notin d.notes
        PROVE  FALSE
    <2>1. d.members # <<>>
      BY <1>5, <1>9 DEF IsBuilt
    <2>2. \A a \in AddedAt(x, p) : a.before = AtEnd
      BY <1>9, AddedAtEnd DEF AddedAt, x
    <2> QED BY <1>7, <1>9, <2>1, <2>2 DEF AfterTrailingComment
  <1> QED BY <1>7, <1>8, <1>9 DEF d, o

\* The comments of every clean merge.
LEMMA Comments == Inv => CommentsLostOnlyInRewrites
  <1> SUFFICES ASSUME Inv, outcome = "clean", Duplicates(input) = {},
                      NEW p \in ObjectPaths(input.ours),
                      ValueAt(input.ours, p).notes \ ValueAt(rendered, p).notes # {},
                      ~TakenFromTheirs(p)
               PROVE  /\ ValueAt(input.ours, p).inline /\ NewKeys(p) # {}
                      /\ "tail" \in ValueAt(input.ours, p).notes =>
                           input.lane = "template" \/ "second" \in ValueAt(input.ours, p).notes
    BY DEF CommentsLostOnlyInRewrites
  <1>1. InputInv /\ Candidate
    BY DEF Inv, PhaseInv
  <1>2. p \in Seq(Keys)
    BY KeyPathsAre DEF ObjectPaths
  <1>3. ASSUME IsSelected PROVE FALSE
    <2>1. input.lane # "template" /\ Selected # <<>> /\ rendered = Selected[1]
      BY <1>3 DEF IsSelected
    <2>2. \/ rendered = input.ours
          \/ /\ input.ours.semantic # input.theirs.semantic
             /\ input.ours.semantic = input.base.semantic
      BY <2>1 DEF Selected
    <2>3. rendered # input.ours
      OBVIOUS
    <2> DEFINE s == SubSeq(p, 1, 0)
               mo == input.ours.semantic
               mb == input.base.semantic
               mt == input.theirs.semantic
    <2>4. s = <<>> /\ 0 \in 0..Len(p)
      BY <1>2
    <2>5. mo = mb /\ mo # mt
      BY <2>2, <2>3
    <2> HIDE DEF mo, mb, mt
    <2>6. MeaningAt(mo, s) = mo /\ MeaningAt(mb, s) = mb /\ MeaningAt(mt, s) = mt
      BY <2>4, MeaningSteps
    <2>7. MeaningAt(mo, s) = MeaningAt(mb, s) /\ MeaningAt(mo, s) # MeaningAt(mt, s)
      BY <2>5, <2>6
    <2>8. TakenFromTheirs(p)
      BY <2>1, <2>4, <2>7 DEF TakenFromTheirs, mo, mb, mt
    <2> QED BY <2>8
  <1>4. IsThePlan /\ rendered = RenderValue(input.ours, plan)
    BY <1>1, <1>3 DEF Candidate, IsRendered
  <1>5. PICK f : PlannedFrom(f)
    BY <1>1, <1>4, ThePlan
  <1>6. PICK g : Rendering(g, input.ours, plan)
    BY <1>1, RenderSteps DEF InputInv
  <1>7. rendered = g[<<>>]
    BY <1>4, <1>6 DEF Rendering
  <1>8. \A e \in plan.edits : ~Under(e.at, p)
    BY <1>2, <1>5, TakenByEdit
  <1>9. \A e \in plan.edits : e.at # p
    BY <1>2, <1>8, UnderSelf
  <1>10. ValueAt(rendered, p) = g[p]
    <2> DEFINE o == input.ours
               x == plan
    <2>1. FreshRender(o, x, g)
      BY <1>5, <1>6, PlanFresh DEF FreshRender
    <2>2. ValueAt(o, p) # NoValue
      <3>1. Kind(ValueAt(o, p)) = "object"
        BY DEF ObjectPaths
      <3> QED BY <3>1 DEF Kind, NoValue, Absent
    <2>3. \A e \in x.edits : ~Under(e.at, p)
      BY <1>8
    <2> HIDE DEF o, x
    <2>4. ValueAt(g[<<>>], p) = g[p]
      BY <1>2, <2>1, <2>2, <2>3, RenderedPath
    <2> QED BY <1>7, <2>4
  <1>11. ValueAt(input.ours, p).notes \ g[p].notes # {}
    BY <1>10
  <1> QED BY <1>5, <1>6, <1>9, <1>11, CommentGone

\* A clean merge drops a comment of ours only with an object it takes from
\* theirs or writes anew from one line; the one behind the last member only
\* in a template merge, or with a second one behind it.
THEOREM CommentsKept == Spec => []CommentsLostOnlyInRewrites
  <1>1. Spec => []Inv
    BY Invariance
  <1>2. Inv => CommentsLostOnlyInRewrites
    BY Comments
  <1> QED BY <1>1, <1>2, PTL

-----------------------------------------------------------------------------
(* What a template merge means *)

\* A template merge and its rendering, which means what was planned.
Overlaying(t, v, f, g, x) ==
  /\ IsDocument(t) /\ IsDocument(v) /\ Templating(f, t, v)
  /\ f[<<>>] = x /\ Rendering(g, v, x) /\ g[<<>>].semantic = x.value

\* A plan of additions that the destination has no member for.
AddsFresh(y, v) == y.edits = {} /\ FreshAdds(y, v)

LEMMA PlansAddFresh ==
  ASSUME NEW t, NEW v, IsDocument(t), IsDocument(v), NEW f, Templating(f, t, v)
  PROVE  \A places \in Seq(Nat) : AddsFresh(f[places], v)
  <1> DEFINE T == {places \in Seq(Nat) : AddsFresh(f[places], v)}
  <1>1. \A m : AddsFresh(Planned(m), v)
    <2> TAKE m
    <2>1. Planned(m).adds = <<>> /\ Planned(m).edits = {}
      BY DEF Planned
    <2> QED BY <2>1, ListedFacts DEF AddsFresh, FreshAdds
  <1>2. ASSUME NEW places \in Seq(Nat), Len(places) >= MaxDepth + 1 PROVE places \in T
    <2>1. Placed(t, places).value = NoValue
      BY <1>2, DeepPlaces
    <2>2. f[places] = Planned(ValueAt(v, Placed(t, places).path).semantic)
      BY <2>1, PlanBeyond
    <2> QED BY <1>1, <2>2
  <1>3. ASSUME NEW places \in Seq(Nat), \A n \in Nat : Append(places, n) \in T PROVE places \in T
    <2> DEFINE node == Placed(t, places)
               w == node.value
               p == node.path
               d == ValueAt(v, p)
               y == f[places]
    <2>1. Listed(y.adds) /\ PlanOf(y, w, d, p, f, places)
      BY PositionPlans
    <2>2. d = ValueAt(v, p)
      OBVIOUS
    <2> HIDE DEF w, p, d, y
    <2>3. CASE y = Planned(d.semantic)
      BY <1>1, <2>3 DEF y
    <2>4. CASE \E P : /\ \A i \in 1..Len(w.members) : MemberPlan(P[i], w, d, i, p, f[Append(places, i)])
                      /\ MergedFrom(y, w, d, P)
      <3>1. PICK P : /\ \A i \in 1..Len(w.members) : MemberPlan(P[i], w, d, i, p, f[Append(places, i)])
                     /\ MergedFrom(y, w, d, P)
        BY <2>4
      <3>2. PICK F, A : y = ObjectPlan(F, A) /\ AddedBy(A, P, Len(w.members))
        BY <3>1 DEF MergedFrom
      <3>3. y.adds = A /\ y.edits = {}
        BY <3>2 DEF ObjectPlan
      <3>4. ASSUME NEW a \in ToSet(A) PROVE a.member.key \notin KeysOf(ValueAt(v, a.at))
        <4>1. PICK i \in 1..Len(w.members) : a \in ToSet(P[i].adds)
          BY <3>2 DEF AddedBy
        <4>2. MemberPlan(P[i], w, d, i, p, f[Append(places, i)])
          BY <3>1
        <4>3. CASE P[i] = f[Append(places, i)]
          <5>1. i \in Nat
            OBVIOUS
          <5>2. AddsFresh(P[i], v)
            BY <1>3, <4>3, <5>1
          <5> QED BY <4>1, <5>2 DEF AddsFresh, FreshAdds
        <4>4. CASE P[i] # f[Append(places, i)]
          <5>1. PICK c : P[i].adds = <<c>> /\ c.at = p /\ c.member = w.members[i]
            BY <4>2, <4>4 DEF MemberPlan
          <5>2. w.members[i].key \notin KeysOf(d)
            BY <4>2, <4>4 DEF MemberPlan
          <5>3. a = c
            BY <4>1, <5>1, ListedFacts
          <5> QED BY <2>2, <5>1, <5>2, <5>3
        <4> QED BY <4>3, <4>4
      <3>5. AddsFresh(y, v)
        BY <2>1, <3>3, <3>4 DEF AddsFresh, FreshAdds
      <3> QED BY <3>5 DEF y
    <2> QED BY <2>1, <2>3, <2>4 DEF PlanOf
  <1>4. MaxDepth + 1 \in Nat
    BY JsonAssumption
  <1>5. \A places \in Seq(Nat) : places \in T
    <2> HIDE DEF T
    <2> QED BY <1>2, <1>3, <1>4, DeepestFirst
  <1> QED BY <1>5

\* What the plan of an object means for a key: what the destination means, or
\* the plan of the last member of the template.
KeyFrom(m, w, d, k, P) ==
  \/ At(w.semantic, k) = Absent /\ m = At(d.semantic, k)
  \/ /\ At(w.semantic, k) # Absent
     /\ \E i \in DOMAIN w.members :
          /\ w.members[i].key = k /\ w.members[i].value.semantic = At(w.semantic, k)
          /\ m = P[i].value

LEMMA ObjectKeys ==
  ASSUME NEW w, Whole(w), Kind(w) = "object", NEW d, NEW P, NEW y, MergedFrom(y, w, d, P)
  PROVE  /\ y.value.kind = "object"
         /\ \A k \in Keys : KeyFrom(At(y.value, k), w, d, k, P)
  <1> DEFINE N == Len(w.members)
  <1>1. PICK F, A : y = ObjectPlan(F, A) /\ LastOfEach(F, w, d.semantic, N, P)
    BY DEF MergedFrom
  <1>2. y.value = [kind |-> "object", members |-> F]
    BY <1>1 DEF ObjectPlan
  <1>3. y.value.kind = "object" /\ \A k \in Keys : At(y.value, k) = F[k]
    BY <1>2 DEF At
  <1>4. IsBuilt(w)
    BY DEF Whole
  <1>5. DOMAIN w.members = 1..N /\ N \in Nat
    BY <1>4, BuiltFacts
  <1>6. ASSUME NEW k \in Keys PROVE KeyFrom(F[k], w, d, k, P)
    <2> DEFINE m == At(w.semantic, k)
    <2>1. Means(w.members, k, m)
      BY <1>4, MeaningIs
    <2> HIDE DEF m
    <2>2. CASE m = Absent /\ \A i \in DOMAIN w.members : w.members[i].key # k
      <3>1. F[k] = At(d.semantic, k)
        BY <1>1, <1>5, <2>2 DEF LastOfEach
      <3> QED BY <2>2, <3>1 DEF KeyFrom, m
    <2>3. ASSUME NEW i \in DOMAIN w.members, w.members[i].key = k, m = w.members[i].value.semantic,
                 \A j \in DOMAIN w.members : j > i => w.members[j].key # k
          PROVE  KeyFrom(F[k], w, d, k, P)
      <3>1. F[k] = P[i].value
        <4>1. \A j \in 1..N : j > i => w.members[j].key # w.members[i].key
          BY <1>5, <2>3
        <4> QED BY <1>1, <1>5, <2>3, <4>1 DEF LastOfEach
      <3>2. m # Absent
        <4>1. w.members[i] \in ToSet(w.members)
          BY DEF ToSet
        <4>2. IsBuilt(w.members[i].value)
          BY <4>1 DEF Whole
        <4> QED BY <2>3, <4>2, BuiltFacts
      <3> QED BY <2>3, <3>1, <3>2 DEF KeyFrom, m
    <2> QED BY <2>1, <2>2, <2>3 DEF Means
  <1> QED BY <1>3, <1>6

\* The value kept where there is one, and the template elsewhere.
OverlayAt(mt, md, mv) ==
  IF md = Absent THEN mv = mt
  ELSE IF {mt.kind, md.kind} = {"object"} THEN mv.kind = "object"
  ELSE mv = md

LEMMA PlanOverlays ==
  ASSUME NEW y, NEW w, NEW d, d.semantic # Absent, NEW p, NEW f, NEW places,
         PlanOf(y, w, d, p, f, places)
  PROVE  OverlayAt(w.semantic, d.semantic, y.value) /\ y.value # Absent
  <1>1. CASE {Kind(w), Kind(d)} # {"object"} /\ y = Planned(d.semantic)
    <2>1. y.value = d.semantic
      BY <1>1 DEF Planned
    <2>2. ~({w.semantic.kind, d.semantic.kind} = {"object"})
      BY <1>1 DEF Kind
    <2> QED BY <2>1, <2>2 DEF OverlayAt
  <1>2. CASE \E P : MergedFrom(y, w, d, P) /\ Kind(w) = "object" /\ Kind(d) = "object"
    <2>1. PICK F, A : y = ObjectPlan(F, A)
      BY <1>2 DEF MergedFrom
    <2>2. y.value.kind = "object"
      BY <2>1 DEF ObjectPlan
    <2>3. w.semantic.kind = "object" /\ d.semantic.kind = "object"
      BY <1>2 DEF Kind
    <2>4. Absent.kind # "object"
      BY DEF Absent
    <2> QED BY <2>2, <2>3, <2>4 DEF OverlayAt
  <1> QED BY <1>1, <1>2 DEF PlanOf

\* What stands below a position.
LEMMA PlacedBelow ==
  ASSUME NEW t, IsDocument(t), NEW places \in Seq(Nat), NEW w, w = Placed(t, places).value,
         NEW i \in DOMAIN w.members
  PROVE  /\ i \in Nat /\ Append(places, i) \in Seq(Nat)
         /\ Placed(t, Append(places, i)).path = Append(Placed(t, places).path, w.members[i].key)
         /\ Placed(t, Append(places, i)).value = w.members[i].value
  <1> DEFINE up == Placed(t, places)
             node == StepDown(up, i)
  <1>1. i \in Nat
    BY PlacedFacts
  <1>2. Placed(t, Append(places, i)) = node
    BY <1>1, PlacedSteps
  <1>3. node = [path |-> Append(up.path, w.members[i].key), value |-> w.members[i].value]
    BY DEF StepDown
  <1>4. node.path = Append(up.path, w.members[i].key) /\ node.value = w.members[i].value
    BY <1>3
  <1> QED BY <1>1, <1>2, <1>4

LEMMA PlacedWhole ==
  ASSUME NEW t, IsDocument(t), NEW places \in Seq(Nat), Placed(t, places).value # NoValue
  PROVE  Whole(Placed(t, places).value)
  <1> DEFINE up == Placed(t, places)
             node == <<up.path, up.value>>
  <1>1. PlacedAt(up, t, places)
    BY PlacedFacts
  <1>2. node \in Nodes(t) /\ IsBuilt(up.value)
    BY <1>1 DEF PlacedAt
  <1>3. \A m \in ToSet(node[2].members) : <<Append(node[1], m.key), m.value>> \in Nodes(t)
    BY <1>2, DocumentNodes
  <1>4. node[2] = up.value
    OBVIOUS
  <1> HIDE DEF node, up
  <1>5. ASSUME NEW m \in ToSet(up.value.members) PROVE IsBuilt(m.value)
    <2> DEFINE below == <<Append(node[1], m.key), m.value>>
    <2>1. below \in Nodes(t)
      BY <1>3, <1>4
    <2>2. IsBuilt(below[2])
      BY <2>1, DocumentNodes
    <2> QED BY <2>2
  <1> QED BY <1>2, <1>5 DEF Whole, up

\* What a template, a destination and the output mean at a path: all three the
\* same, or the plan of some position, which is rendered there or changes
\* nothing.
MergedAt(t, v, f, g, p, m, places) ==
  /\ Placed(t, places).path = p
  /\ Placed(t, places).value.semantic = MeaningAt(t.semantic, p)
  /\ f[places].value = m
  /\ (SameThere(v, p) /\ g[p].semantic = m) \/ m = MeaningAt(v.semantic, p)
OverlaidAt(t, v, f, g, p, m) ==
  \/ m = MeaningAt(v.semantic, p) /\ m = MeaningAt(t.semantic, p)
  \/ \E places \in Seq(Nat) : MergedAt(t, v, f, g, p, m, places)

BothObjects(t, v, p) ==
  {MeaningAt(t.semantic, p).kind, MeaningAt(v.semantic, p).kind} = {"object"}
OverlayWay(t, v, f, g, p, m) ==
  /\ OverlayAt(MeaningAt(t.semantic, p), MeaningAt(v.semantic, p), m)
  /\ BothObjects(t, v, p) => OverlaidAt(t, v, f, g, p, m)

\* A value that stays as it is.
LEMMA OverlaySelf ==
  ASSUME NEW mt, NEW md, md = mt \/ md # Absent \/ mt = Absent
  PROVE  OverlayAt(mt, md, md)
  <1>1. Absent.kind # "object"
    BY DEF Absent
  <1>2. {mt.kind, md.kind} = {"object"} => md.kind = "object"
    OBVIOUS
  <1> QED BY <1>1, <1>2 DEF OverlayAt

LEMMA OverlayRoot ==
  ASSUME NEW t, NEW v, NEW f, NEW g, NEW x, Overlaying(t, v, f, g, x)
  PROVE  OverlayWay(t, v, f, g, <<>>, x.value)
  <1>1. /\ IsDocument(t) /\ IsDocument(v) /\ Templating(f, t, v)
        /\ f[<<>>] = x /\ g[<<>>].semantic = x.value
    BY DEF Overlaying
  <1>2. <<>> \in Seq(Keys) /\ <<>> \in Seq(Nat)
    OBVIOUS
  <1>3. Placed(t, <<>>) = [path |-> <<>>, value |-> t]
    BY PlacedSteps
  <1>4. Placed(t, <<>>).path = <<>> /\ Placed(t, <<>>).value = t
    BY <1>3
  <1>5. ValueAt(v, <<>>) = v /\ Descend(v, <<>>) = <<v>>
    BY ValueSteps, DescendSteps
  <1>6. MeaningAt(t.semantic, <<>>) = t.semantic /\ MeaningAt(v.semantic, <<>>) = v.semantic
    BY MeaningSteps
  <1>7. v.semantic # Absent
    <2>1. << <<>>, v>> \in Nodes(v)
      BY <1>1, DocumentNodes
    <2> DEFINE node == << <<>>, v>>
    <2>2. IsBuilt(node[2])
      BY <2>1, <1>1, DocumentNodes
    <2> QED BY <2>2, BuiltFacts
  <1>8. PlanOf(f[<<>>], Placed(t, <<>>).value, ValueAt(v, Placed(t, <<>>).path),
               Placed(t, <<>>).path, f, <<>>)
    BY <1>1, <1>2, PositionPlans
  <1>9. PlanOf(x, t, v, <<>>, f, <<>>)
    BY <1>8, <1>4, <1>5, <1>1
  <1>10. OverlayAt(t.semantic, v.semantic, x.value)
    BY <1>7, <1>9, PlanOverlays
  <1>11. ASSUME BothObjects(t, v, <<>>) PROVE MergedAt(t, v, f, g, <<>>, x.value, <<>>)
    <2>1. Kind(v) = "object"
      BY <1>11, <1>6 DEF BothObjects, Kind
    <2>2. SameThere(v, <<>>)
      BY <2>1, <1>5, <1>6 DEF SameThere
    <2> QED BY <2>2, <1>1, <1>4, <1>6 DEF MergedAt
  <1>12. BothObjects(t, v, <<>>) => OverlaidAt(t, v, f, g, <<>>, x.value)
    BY <1>11, <1>2 DEF OverlaidAt
  <1> QED BY <1>10, <1>12, <1>6 DEF OverlayWay

\* The plan of a position whose value means an object: that of two objects.
LEMMA MergedObjects ==
  ASSUME NEW t, NEW v, NEW f, NEW g, NEW x, Overlaying(t, v, f, g, x), NEW p \in Seq(Keys),
         BothObjects(t, v, p), NEW m, NEW places \in Seq(Nat), MergedAt(t, v, f, g, p, m, places)
  PROVE  /\ Whole(Placed(t, places).value) /\ Kind(Placed(t, places).value) = "object"
         /\ Kind(ValueAt(v, p)) = "object"
         /\ \E P : /\ \A i \in 1..Len(Placed(t, places).value.members) :
                        MemberPlan(P[i], Placed(t, places).value, ValueAt(v, p), i, p, f[Append(places, i)])
                   /\ MergedFrom(f[places], Placed(t, places).value, ValueAt(v, p), P)
  <1> DEFINE w == Placed(t, places).value
             d == ValueAt(v, p)
  <1>1. /\ IsDocument(t) /\ IsDocument(v) /\ Templating(f, t, v)
    BY DEF Overlaying
  <1>2. /\ Placed(t, places).path = p /\ w.semantic = MeaningAt(t.semantic, p) /\ f[places].value = m
        /\ (Kind(d) = "object") \/ m = MeaningAt(v.semantic, p)
    BY DEF MergedAt, SameThere
  <1>3. MeaningAt(t.semantic, p).kind = "object" /\ MeaningAt(v.semantic, p).kind = "object"
    BY DEF BothObjects
  <1>4. Kind(w) = "object"
    BY <1>2, <1>3 DEF Kind
  <1>5. w # NoValue
    <2>1. Kind(NoValue) # "object"
      BY DEF Kind, NoValue, Absent
    <2> QED BY <2>1, <1>4
  <1>6. Whole(w)
    BY <1>5, <1>1, PlacedWhole
  <1>7. PlanOf(f[places], Placed(t, places).value, ValueAt(v, Placed(t, places).path),
               Placed(t, places).path, f, places)
    BY <1>1, PositionPlans
  <1>8. PlanOf(f[places], w, d, p, f, places)
    BY <1>2, <1>7
  <1>9. Kind(d) = "object"
    <2>1. SUFFICES ASSUME Kind(d) # "object" PROVE FALSE
      OBVIOUS
    <2>2. f[places] = Planned(d.semantic)
      BY <2>1, <1>8 DEF PlanOf
    <2>3. m = d.semantic
      BY <2>2, <1>2 DEF Planned
    <2> QED BY <2>1, <2>3, <1>2, <1>3 DEF Kind
  <1>10. ~({Kind(w), Kind(d)} # {"object"})
    BY <1>4, <1>9
  <1>11. \E P : /\ \A i \in 1..Len(w.members) : MemberPlan(P[i], w, d, i, p, f[Append(places, i)])
                /\ MergedFrom(f[places], w, d, P)
    BY <1>8, <1>10 DEF PlanOf
  <1> QED BY <1>4, <1>6, <1>9, <1>11

\* Both are objects at all that leads to a path.
BothAlong(t, v, p) == \A n \in 0..(Len(p) - 1) : BothObjects(t, v, SubSeq(p, 1, n))

LEMMA BothAlongAppend ==
  ASSUME NEW t, NEW v, NEW p \in Seq(Keys), NEW k \in Keys, BothAlong(t, v, Append(p, k))
  PROVE  BothAlong(t, v, p) /\ BothObjects(t, v, p)
  <1> DEFINE q == Append(p, k)
             N == Len(p)
             D(x) == BothObjects(t, v, x)
  <1>1. N \in Nat /\ Len(q) = N + 1
    BY PathPrefixes
  <1>2. \A n \in 0..N : SubSeq(q, 1, n) = SubSeq(p, 1, n)
    BY PathPrefixes
  <1>3. SubSeq(p, 1, N) = p
    BY PathPrefixes
  <1>4. \A n \in 0..((N + 1) - 1) : D(SubSeq(q, 1, n))
    BY <1>1 DEF BothAlong
  <1> HIDE DEF q, D
  <1>5. \A n \in 0..N : n \in 0..((N + 1) - 1)
    BY <1>1
  <1>6. \A n \in 0..N : D(SubSeq(p, 1, n))
    BY <1>2, <1>4, <1>5
  <1>7. D(p)
    <2>1. N \in 0..N
      BY <1>1
    <2> QED BY <2>1, <1>3, <1>6
  <1>8. \A n \in 0..(N - 1) : n \in 0..N
    BY <1>1
  <1>9. \A n \in 0..(N - 1) : D(SubSeq(p, 1, n))
    BY <1>6, <1>8
  <1> QED BY <1>7, <1>9 DEF D, BothAlong

\* A key of two objects that are merged.
LEMMA OverlayMember ==
  ASSUME NEW t, NEW v, NEW f, NEW g, NEW x, Overlaying(t, v, f, g, x), NEW p \in Seq(Keys),
         BothObjects(t, v, p), NEW m, NEW places \in Seq(Nat), MergedAt(t, v, f, g, p, m, places),
         NEW k \in Keys
  PROVE  OverlayWay(t, v, f, g, Append(p, k), At(m, k))
  <1> DEFINE w == Placed(t, places).value
             d == ValueAt(v, p)
             q == Append(p, k)
             mt == At(MeaningAt(t.semantic, p), k)
             md == At(MeaningAt(v.semantic, p), k)
             mk == At(m, k)
  <1>1. /\ IsDocument(t) /\ IsDocument(v) /\ Templating(f, t, v) /\ Rendering(g, v, x) /\ f[<<>>] = x
    BY DEF Overlaying
  <1>2. /\ Placed(t, places).path = p /\ w.semantic = MeaningAt(t.semantic, p) /\ f[places].value = m
        /\ (SameThere(v, p) /\ g[p].semantic = m) \/ m = MeaningAt(v.semantic, p)
    BY DEF MergedAt
  <1>3. Whole(w) /\ Kind(w) = "object" /\ Kind(d) = "object"
    BY MergedObjects
  <1>4. PICK P : /\ \A i \in 1..Len(w.members) : MemberPlan(P[i], w, d, i, p, f[Append(places, i)])
                 /\ MergedFrom(f[places], w, d, P)
    BY MergedObjects
  <1>5. q \in Seq(Keys) /\ MeaningAt(t.semantic, q) = mt /\ MeaningAt(v.semantic, q) = md
    <2>1. \A a : MeaningAt(a, Append(p, k)) = At(MeaningAt(a, p), k)
      BY MeaningSteps
    <2> QED BY <2>1
  <1>6. ValueAt(v, q) = MemberValue(d, k)
    BY ValueSteps
  <1>7. At(w.semantic, k) = mt
    BY <1>2
  <1>8. DOMAIN w.members = 1..Len(w.members)
    BY <1>3, BuiltFacts DEF Whole
  <1>9. d # NoValue /\ Whole(d)
    <2>1. Kind(NoValue) # "object"
      BY DEF Kind, NoValue, Absent
    <2>2. d # NoValue
      BY <2>1, <1>3
    <2> QED BY <2>2, <1>1, ReachedWhole
  <1>10. k \in KeysOf(d) <=> At(d.semantic, k) # Absent
    BY <1>9, KeysMean
  <1>11. SameThere(v, p) => At(d.semantic, k) = md
    BY DEF SameThere
  <1>12. Absent.kind # "object"
    BY DEF Absent
  <1>13. ASSUME OverlayAt(mt, md, mk), BothObjects(t, v, q) => OverlaidAt(t, v, f, g, q, mk)
         PROVE  OverlayWay(t, v, f, g, q, mk)
    BY <1>13, <1>5 DEF OverlayWay
  <1>14. KeyFrom(mk, w, d, k, P)
    <2>1. KeyFrom(At(f[places].value, k), w, d, k, P)
      BY <1>3, <1>4, ObjectKeys
    <2> QED BY <2>1, <1>2
  <1>15. BothObjects(t, v, q) <=> {mt.kind, md.kind} = {"object"}
    BY <1>5 DEF BothObjects
  <1>16. m = MeaningAt(v.semantic, p) => mk = md
    OBVIOUS
  <1> HIDE DEF mt, md, mk, q, w, d
  <1>20. ASSUME mt = Absent, mk = At(d.semantic, k) PROVE OverlayWay(t, v, f, g, q, mk)
    <2>1. mk = md
      BY <1>20, <1>2, <1>11, <1>16
    <2>2. OverlayAt(mt, md, mk)
      BY <2>1, <1>20, OverlaySelf
    <2>3. ~BothObjects(t, v, q)
      BY <1>12, <1>15, <1>20
    <2> QED BY <2>2, <2>3, <1>13
  <1>21. ASSUME mt # Absent, NEW i \in DOMAIN w.members, w.members[i].key = k,
                w.members[i].value.semantic = mt, mk = P[i].value
         PROVE  OverlayWay(t, v, f, g, q, mk)
    <2>1. MemberPlan(P[i], w, d, i, p, f[Append(places, i)])
      BY <1>4, <1>8, <1>21
    <2>2. ASSUME k \notin KeysOf(d) PROVE OverlayWay(t, v, f, g, q, mk)
      <3>1. mk = mt
        BY <2>1, <2>2, <1>21 DEF MemberPlan
      <3>2. CASE m = MeaningAt(v.semantic, p)
        <4>1. mk = md /\ md = mt
          BY <3>1, <3>2, <1>16
        <4>2. OverlayAt(mt, md, mk)
          BY <4>1, OverlaySelf
        <4>3. OverlaidAt(t, v, f, g, q, mk)
          BY <4>1, <1>5 DEF OverlaidAt
        <4> QED BY <4>2, <4>3, <1>13
      <3>3. CASE SameThere(v, p)
        <4>1. md = Absent
          BY <3>3, <2>2, <1>10, <1>11
        <4>2. OverlayAt(mt, md, mk)
          BY <4>1, <3>1 DEF OverlayAt
        <4>3. ~BothObjects(t, v, q)
          BY <4>1, <1>12, <1>15
        <4> QED BY <4>2, <4>3, <1>13
      <3> QED BY <3>2, <3>3, <1>2
    <2>3. ASSUME k \in KeysOf(d) PROVE OverlayWay(t, v, f, g, q, mk)
      <3> DEFINE below == Append(places, i)
                 dk == ValueAt(v, q)
      <3>1. P[i] = f[below]
        BY <2>1, <2>3, <1>21 DEF MemberPlan
      <3>2. /\ below \in Seq(Nat) /\ Placed(t, below).path = q
            /\ Placed(t, below).value = w.members[i].value
        <4>1. /\ Append(places, i) \in Seq(Nat)
              /\ Placed(t, Append(places, i)).path = Append(Placed(t, places).path, w.members[i].key)
              /\ Placed(t, Append(places, i)).value = w.members[i].value
          BY <1>1, <1>21, PlacedBelow DEF w
        <4> QED BY <4>1, <1>2, <1>21 DEF q
      <3>3. dk.semantic # Absent
        <4>1. FirstMember(d, k) \in ToSet(d.members) /\ FirstMember(d, k) = [key |-> k, value |-> MemberValue(d, k)]
          BY <2>3, <1>9, FirstFacts DEF Whole
        <4>2. FirstMember(d, k).value = dk
          BY <4>1, <1>6
        <4>3. IsBuilt(dk)
          BY <4>1, <4>2, <1>9 DEF Whole
        <4> QED BY <4>3, BuiltFacts
      <3>4. PlanOf(f[below], Placed(t, below).value, ValueAt(v, Placed(t, below).path),
                   Placed(t, below).path, f, below)
        BY <1>1, <3>2, PositionPlans
      <3>5. PlanOf(f[below], w.members[i].value, dk, q, f, below)
        BY <3>2, <3>4
      <3>6. OverlayAt(w.members[i].value.semantic, dk.semantic, f[below].value) /\ f[below].value # Absent
        BY <3>3, <3>5, PlanOverlays
      <3>7. OverlayAt(mt, dk.semantic, mk) /\ mk # Absent /\ f[below].value = mk
        BY <3>1, <3>6, <1>21
      <3>8. Placed(t, below).value.semantic = MeaningAt(t.semantic, q)
        BY <3>2, <1>5, <1>21
      <3> HIDE DEF below, dk
      <3>9. ASSUME mk = md PROVE OverlayWay(t, v, f, g, q, mk)
        <4>1. OverlayAt(mt, md, mk)
          BY <3>7, <3>9, OverlaySelf
        <4>2. MergedAt(t, v, f, g, q, mk, below)
          BY <3>2, <3>7, <3>8, <3>9, <1>5 DEF MergedAt
        <4>3. OverlaidAt(t, v, f, g, q, mk)
          BY <4>2, <3>2 DEF OverlaidAt
        <4> QED BY <4>1, <4>3, <1>13
      <3>10. ASSUME SameThere(v, p), g[p].semantic = m PROVE OverlayWay(t, v, f, g, q, mk)
        <4>1. AddsFresh(x, v)
          <5>1. <<>> \in Seq(Nat)
            OBVIOUS
          <5>2. AddsFresh(f[<<>>], v)
            BY <5>1, <1>1, PlansAddFresh
          <5> QED BY <5>2, <1>1
        <4>2. Listed(x.adds) /\ (\A e \in x.edits : e.at # p) /\ NotAdded(x.adds, p, k)
          BY <4>1, <2>3 DEF AddsFresh, FreshAdds, NotAdded, d
        <4>3. k \in KeysOf(ValueAt(v, p))
          BY <2>3 DEF d
        <4>4. At(g[p].semantic, k) = IF Only(ValueAt(v, p), k) THEN g[Append(p, k)].semantic
                                     ELSE At(ValueAt(v, p).semantic, k)
          BY <1>1, <3>10, <4>2, <4>3, RenderedKey
        <4>5. mk = IF Only(d, k) THEN g[q].semantic ELSE At(d.semantic, k)
          BY <4>4, <3>10 DEF d, q, mk
        <4>6. ASSUME ~Only(d, k) PROVE OverlayWay(t, v, f, g, q, mk)
          <5>1. mk = md
            BY <4>5, <4>6, <1>11, <3>10
          <5> QED BY <5>1, <3>9
        <4>7. ASSUME Only(d, k) PROVE OverlayWay(t, v, f, g, q, mk)
          <5>1. Only(ValueAt(v, p), k)
            BY <4>7 DEF d
          <5>2. /\ MeaningAt(v.semantic, Append(p, k)) = ValueAt(v, Append(p, k)).semantic
                /\ MeaningAt(v.semantic, Append(p, k)).kind = "object" => SameThere(v, Append(p, k))
            BY <5>1, <1>1, <3>10, SameBelow
          <5>3. md = dk.semantic /\ (md.kind = "object" => SameThere(v, q))
            BY <5>2, <1>5 DEF q, dk
          <5>4. OverlayAt(mt, md, mk)
            BY <5>3, <3>7
          <5>5. ASSUME BothObjects(t, v, q) PROVE OverlaidAt(t, v, f, g, q, mk)
            <6>1. md.kind = "object"
              BY <5>5, <1>15
            <6>2. SameThere(v, q) /\ g[q].semantic = mk
              BY <6>1, <5>3, <4>5, <4>7
            <6>3. MergedAt(t, v, f, g, q, mk, below)
              BY <6>2, <3>2, <3>7, <3>8 DEF MergedAt
            <6> QED BY <6>3, <3>2 DEF OverlaidAt
          <5> QED BY <5>4, <5>5, <1>13
        <4> QED BY <4>6, <4>7
      <3> QED BY <3>9, <3>10, <1>2, <1>16
    <2> QED BY <2>2, <2>3
  <1>22. OverlayWay(t, v, f, g, q, mk)
    BY <1>14, <1>20, <1>21, <1>7 DEF KeyFrom
  <1> QED BY <1>22 DEF q, mk

LEMMA OverlayPaths ==
  ASSUME NEW t, NEW v, NEW f, NEW g, NEW x, Overlaying(t, v, f, g, x)
  PROVE  \A p \in Seq(Keys) :
           BothAlong(t, v, p) => OverlayWay(t, v, f, g, p, MeaningAt(x.value, p))
  <1> DEFINE T == {p \in Seq(Keys) :
                     BothAlong(t, v, p) => OverlayWay(t, v, f, g, p, MeaningAt(x.value, p))}
  <1>1. <<>> \in T
    <2>1. MeaningAt(x.value, <<>>) = x.value
      BY MeaningSteps
    <2>2. OverlayWay(t, v, f, g, <<>>, x.value)
      BY OverlayRoot
    <2> QED BY <2>1, <2>2
  <1>2. ASSUME NEW p \in Seq(Keys), NEW k \in Keys, p \in T PROVE Append(p, k) \in T
    <2> DEFINE m == MeaningAt(x.value, p)
    <2>1. SUFFICES ASSUME BothAlong(t, v, Append(p, k))
                   PROVE  OverlayWay(t, v, f, g, Append(p, k), MeaningAt(x.value, Append(p, k)))
      OBVIOUS
    <2>2. BothAlong(t, v, p) /\ BothObjects(t, v, p)
      BY <2>1, BothAlongAppend
    <2>3. OverlaidAt(t, v, f, g, p, m)
      BY <2>2, <1>2 DEF OverlayWay
    <2>4. MeaningAt(x.value, Append(p, k)) = At(m, k)
      BY MeaningSteps
    <2>5. CASE m = MeaningAt(v.semantic, p) /\ m = MeaningAt(t.semantic, p)
      <3>1. /\ MeaningAt(v.semantic, Append(p, k)) = At(m, k)
            /\ MeaningAt(t.semantic, Append(p, k)) = At(m, k)
        <4>1. \A a : MeaningAt(a, Append(p, k)) = At(MeaningAt(a, p), k)
          BY MeaningSteps
        <4> QED BY <4>1, <2>5
      <3>2. OverlayAt(At(m, k), At(m, k), At(m, k))
        BY OverlaySelf
      <3>3. OverlaidAt(t, v, f, g, Append(p, k), At(m, k))
        BY <3>1 DEF OverlaidAt
      <3> QED BY <3>1, <3>2, <3>3, <2>4 DEF OverlayWay
    <2>6. ASSUME NEW places \in Seq(Nat), MergedAt(t, v, f, g, p, m, places)
          PROVE  OverlayWay(t, v, f, g, Append(p, k), At(m, k))
      BY <2>2, <2>6, OverlayMember
    <2> QED BY <2>3, <2>4, <2>5, <2>6 DEF OverlaidAt
  <1>3. \A p \in Seq(Keys) : p \in T
    <2> HIDE DEF T
    <2> QED BY <1>1, <1>2, Downwards
  <1> QED BY <1>3

\* A clean template merge keeps what the destination has and adds the rest.
LEMMA CleanIsOverlay ==
  ASSUME NEW t, NEW v, NEW f, NEW g, NEW x, Overlaying(t, v, f, g, x)
  PROVE  IsOverlay(t.semantic, v.semantic, x.value)
  <1> DEFINE mt(p) == MeaningAt(t.semantic, p)
             md(p) == MeaningAt(v.semantic, p)
             mv(p) == MeaningAt(x.value, p)
  <1>1. ASSUME NEW p \in KeyPaths,
               \A n \in 0..(Len(p) - 1) :
                 {mt(SubSeq(p, 1, n)).kind, md(SubSeq(p, 1, n)).kind} = {"object"}
        PROVE  IF md(p) = Absent THEN mv(p) = mt(p)
               ELSE IF {mt(p).kind, md(p).kind} = {"object"} THEN mv(p).kind = "object"
               ELSE mv(p) = md(p)
    <2>1. p \in Seq(Keys)
      BY KeyPathsAre
    <2>2. BothAlong(t, v, p)
      BY <1>1 DEF BothAlong, BothObjects
    <2>3. OverlayWay(t, v, f, g, p, MeaningAt(x.value, p))
      BY <2>1, <2>2, OverlayPaths
    <2> QED BY <2>3 DEF OverlayWay, OverlayAt
  <1> QED BY <1>1 DEF IsOverlay

-----------------------------------------------------------------------------
(* A template is merged once *)

\* A template merge of documents without repeated members, as rendered.
SettledMerge(t, v, f, g, x) ==
  /\ ClearOverlay(t, v, f, g, x) /\ OnlyAdds(x, t, v) /\ FreshRender(v, x, g)

LEMMA SettledFacts ==
  ASSUME NEW t, NEW v, NEW f, NEW g, NEW x, ClearOverlay(t, v, f, g, x)
  PROVE  SettledMerge(t, v, f, g, x)
  <1>1. /\ IsDocument(t) /\ IsDocument(v) /\ DuplicateMemberPaths(t) = {}
        /\ DuplicateMemberPaths(v) = {} /\ ClearTemplate(t, v, f) /\ f[<<>>] = x /\ Rendering(g, v, x)
    BY DEF ClearOverlay, ClearTemplate
  <1>2. OnlyAdds(x, t, v)
    <2>1. <<>> \in Seq(Nat)
      OBVIOUS
    <2> QED BY <1>1, <2>1, AddsOnly
  <1>3. Listed(x.adds)
    BY <1>2 DEF OnlyAdds
  <1>4. FreshAdds(x, v)
    <2>1. FromDifferences(x, v, t)
      BY <1>1, <1>2, TemplateFromDifferences
    <2> QED BY <1>3, <2>1, NewIsFresh
  <1> QED BY <1>1, <1>2, <1>4 DEF SettledMerge, FreshRender

\* A member that an object has no key for.
LEMMA NoMember ==
  ASSUME NEW v, NEW k, k \notin KeysOf(v) PROVE MemberValue(v, k) = NoValue
  BY DEF MemberValue

LEMMA NothingInNothing ==
  ASSUME NEW k PROVE MemberValue(NoValue, k) = NoValue
  <1>1. KeysOf(NoValue) = {}
    <2>1. NoValue.members = <<>>
      BY DEF NoValue
    <2>2. DOMAIN <<>> = {}
      OBVIOUS
    <2> QED BY <2>1, <2>2 DEF KeysOf
  <1> QED BY <1>1, NoMember

\* A member of a document is something.
LEMMA SomeMember ==
  ASSUME NEW v, IsDocument(v), NEW p \in Seq(Keys), NEW k \in KeysOf(ValueAt(v, p))
  PROVE  /\ MemberValue(ValueAt(v, p), k) # NoValue /\ ValueAt(v, p) # NoValue
         /\ Kind(ValueAt(v, p)) = "object" /\ k \in Keys
         /\ FirstMember(ValueAt(v, p), k).value = MemberValue(ValueAt(v, p), k)
  <1> DEFINE d == ValueAt(v, p)
  <1>1. d # NoValue
    <2>1. KeysOf(NoValue) = {}
      <3>1. NoValue.members = <<>>
        BY DEF NoValue
      <3>2. DOMAIN <<>> = {}
        OBVIOUS
      <3> QED BY <3>1, <3>2 DEF KeysOf
    <2> QED BY <2>1
  <1>2. Whole(d)
    BY <1>1, ReachedWhole
  <1>3. IsBuilt(d)
    BY <1>2 DEF Whole
  <1>4. FirstMember(d, k) \in ToSet(d.members) /\ FirstMember(d, k) = [key |-> k, value |-> MemberValue(d, k)]
    BY <1>3, FirstFacts
  <1>5. FirstMember(d, k).value = MemberValue(d, k)
    BY <1>4
  <1>6. IsBuilt(MemberValue(d, k))
    BY <1>2, <1>4, <1>5 DEF Whole
  <1>7. MemberValue(d, k).semantic # Absent
    BY <1>6, BuiltFacts
  <1>8. NoValue.semantic = Absent
    BY DEF NoValue
  <1>9. Kind(d) = "object"
    <2>1. SUFFICES ASSUME Kind(d) # "object" PROVE FALSE
      OBVIOUS
    <2>2. d.members = <<>>
      BY <1>3, <2>1, BuiltFacts
    <2>3. DOMAIN <<>> = {}
      OBVIOUS
    <2> QED BY <2>2, <2>3 DEF KeysOf
  <1>10. k \in Keys
    BY <1>3, BuiltFacts
  <1> QED BY <1>1, <1>5, <1>7, <1>8, <1>9, <1>10

\* What lookups find in the output: what is rendered there if the destination
\* has a value, and otherwise what the template has or nothing.
OutputAt(t, v, g, r, p) ==
  \/ ValueAt(v, p) # NoValue /\ ValueAt(r, p) = g[p]
  \/ ValueAt(v, p) = NoValue /\ ValueAt(r, p) \in {NoValue, ValueAt(t, p)}

\* A key of an object that is rendered, where the destination has none.
LEMMA BroughtMember ==
  ASSUME NEW t, NEW v, NEW f, NEW g, NEW x, SettledMerge(t, v, f, g, x), NEW p \in Seq(Keys),
         ValueAt(v, p) # NoValue, NEW k \in Keys, k \notin KeysOf(ValueAt(v, p))
  PROVE  /\ MemberValue(g[p], k) \in {NoValue, MemberValue(ValueAt(t, p), k)}
         /\ (/\ k \in KeysOf(ValueAt(t, p)) /\ Kind(ValueAt(v, p)) = "object"
             /\ \E a \in ToSet(x.adds) : a.at = p /\ a.member.key = k) =>
              /\ k \in KeysOf(g[p])
              /\ MemberValue(g[p], k) = MemberValue(ValueAt(t, p), k)
              /\ At(g[p].semantic, k) = MemberValue(ValueAt(t, p), k).semantic
  <1> DEFINE d == ValueAt(v, p)
             w == ValueAt(t, p)
             e == g[p]
             c == MemberValue(w, k)
  <1>1. /\ IsDocument(t) /\ IsDocument(v) /\ Rendering(g, v, x) /\ FreshRender(v, x, g)
        /\ OnlyAdds(x, t, v)
    BY DEF SettledMerge, ClearOverlay, ClearTemplate
  <1>2. \A y \in x.edits : y.at # p
    BY <1>1 DEF OnlyAdds
  <1>3. CASE Kind(d) # "object"
    <2>1. e = d
      BY <1>1, <1>2, <1>3, RenderedLeaf
    <2>2. MemberValue(e, k) = NoValue
      BY <2>1, NoMember
    <2> QED BY <1>3, <2>2
  <1>4. CASE Kind(d) = "object"
    <2>1. HasMembers(e, d, x, p, g)
      BY <1>1, <1>2, <1>4, MembersRendered
    <2>2. ASSUME NEW m \in ToSet(e.members), m.key = k PROVE k \in KeysOf(w) /\ m.value = c
      <3>1. InText(m, d, x.adds, p, Inside(g, p))
        BY <2>1 DEF HasMembers
      <3>2. PICK a \in ToSet(x.adds) : a.at = p /\ m = a.member
        BY <3>1, <2>2 DEF InText
      <3>3. a.member.key \in KeysOf(ValueAt(t, p)) /\ a.member = FirstMember(ValueAt(t, p), a.member.key)
        BY <1>1, <3>2, AddedOfTemplate
      <3>4. k \in KeysOf(ValueAt(t, p)) /\ m = FirstMember(ValueAt(t, p), k)
        BY <3>2, <3>3, <2>2
      <3>5. FirstMember(ValueAt(t, p), k).value = MemberValue(ValueAt(t, p), k)
        BY <1>1, <3>4, SomeMember
      <3> QED BY <3>4, <3>5
    <2>3. Listed(e.members) /\ e.semantic = [kind |-> "object", members |-> MeaningOf(e.members)]
      BY <2>1 DEF HasMembers
    <2>4. At(e.semantic, k) = MeaningOf(e.members)[k]
      BY <2>3 DEF At
    <2> HIDE DEF c, e
    <2>5. ASSUME \E m \in ToSet(e.members) : m.key = k
          PROVE  k \in KeysOf(e) /\ MemberValue(e, k) = c /\ At(e.semantic, k) = c.semantic
      <3>1. \A m \in ToSet(e.members) : m.key = k => m.value = c
        BY <2>2
      <3>2. k \in KeysOf(e) /\ MemberValue(e, k) = c /\ MeaningOf(e.members)[k] = c.semantic
        BY <2>3, <2>5, <3>1, UniqueMember
      <3> QED BY <3>2, <2>4
    <2>6. ASSUME \A m \in ToSet(e.members) : m.key # k PROVE MemberValue(e, k) = NoValue
      <3>1. k \notin KeysOf(e)
        BY <2>6 DEF KeysOf, ToSet
      <3> QED BY <3>1, NoMember
    <2>7. ASSUME k \in KeysOf(w), NEW a \in ToSet(x.adds), a.at = p, a.member.key = k
          PROVE  \E m \in ToSet(e.members) : m.key = k
      <3>1. HasPlace(a, d)
        BY <1>1, <2>7, AddedOfTemplate
      <3>2. a.member \in ToSet(e.members)
        BY <2>1, <2>7, <3>1 DEF HasMembers
      <3> QED BY <3>2, <2>7
    <2>8. MemberValue(e, k) \in {NoValue, c}
      BY <2>5, <2>6
    <2> QED BY <2>5, <2>7, <2>8 DEF c, e
  <1> QED BY <1>3, <1>4

LEMMA OutputValues ==
  ASSUME NEW t, NEW v, NEW f, NEW g, NEW x, SettledMerge(t, v, f, g, x)
  PROVE  \A p \in Seq(Keys) : OutputAt(t, v, g, g[<<>>], p)
  <1> DEFINE r == g[<<>>]
             T == {p \in Seq(Keys) : OutputAt(t, v, g, r, p)}
  <1>1. IsDocument(t) /\ IsDocument(v) /\ FreshRender(v, x, g) /\ OnlyAdds(x, t, v)
    BY DEF SettledMerge, ClearOverlay, ClearTemplate
  <1>2. \A p \in Seq(Keys) : ValueAt(v, p) # NoValue => ValueAt(r, p) = g[p]
    <2>1. \A p \in Seq(Keys) : ValueAt(v, p) # NoValue /\ (\A e \in x.edits : ~Under(e.at, p)) => ValueAt(g[<<>>], p) = g[p]
      BY <1>1, RenderedPath
    <2>2. x.edits = {}
      BY <1>1 DEF OnlyAdds
    <2> QED BY <2>1, <2>2
  <1>3. \A a : \A p \in Seq(Keys), k \in Keys : ValueAt(a, Append(p, k)) = MemberValue(ValueAt(a, p), k)
    BY ValueSteps
  <1> HIDE DEF r
  <1>4. <<>> \in T
    <2>1. ValueAt(v, <<>>) = v
      BY ValueSteps
    <2>2. <<>> \in Seq(Keys)
      OBVIOUS
    <2>3. ValueAt(v, <<>>) # NoValue
      <3>1. << <<>>, v>> \in Nodes(v)
        BY <1>1, DocumentNodes
      <3> DEFINE node == << <<>>, v>>
      <3>2. IsBuilt(node[2])
        BY <3>1, <1>1, DocumentNodes
      <3>3. v.semantic # Absent
        BY <3>2, BuiltFacts
      <3>4. NoValue.semantic = Absent
        BY DEF NoValue
      <3> QED BY <2>1, <3>3, <3>4
    <2>4. ValueAt(r, <<>>) = g[<<>>]
      BY <1>2, <2>2, <2>3
    <2>5. OutputAt(t, v, g, r, <<>>)
      BY <2>3, <2>4 DEF OutputAt
    <2> QED BY <2>2, <2>5
  <1>5. ASSUME NEW p \in Seq(Keys), NEW k \in Keys, p \in T PROVE Append(p, k) \in T
    <2> DEFINE q == Append(p, k)
    <2>1. /\ ValueAt(v, q) = MemberValue(ValueAt(v, p), k) /\ ValueAt(t, q) = MemberValue(ValueAt(t, p), k)
          /\ ValueAt(r, q) = MemberValue(ValueAt(r, p), k) /\ q \in Seq(Keys)
      BY <1>3
    <2> HIDE DEF q
    <2>2. CASE ValueAt(v, q) # NoValue
      <3>1. OutputAt(t, v, g, r, q)
        BY <1>2, <2>1, <2>2 DEF OutputAt
      <3> QED BY <2>1, <3>1 DEF q
    <2>3. CASE ValueAt(v, q) = NoValue
      <3>1. ValueAt(r, q) \in {NoValue, ValueAt(t, q)}
        <4>1. CASE ValueAt(v, p) = NoValue
          <5>1. ValueAt(r, p) \in {NoValue, ValueAt(t, p)}
            BY <1>5, <4>1 DEF OutputAt
          <5>2. MemberValue(NoValue, k) = NoValue
            BY NothingInNothing
          <5> QED BY <2>1, <5>1, <5>2
        <4>2. CASE ValueAt(v, p) # NoValue
          <5>1. k \notin KeysOf(ValueAt(v, p))
            BY <1>1, <2>1, <2>3, SomeMember
          <5>2. MemberValue(g[p], k) \in {NoValue, MemberValue(ValueAt(t, p), k)}
            BY <4>2, <5>1, BroughtMember
          <5>3. ValueAt(r, p) = g[p]
            BY <1>2, <4>2
          <5> QED BY <2>1, <5>2, <5>3
        <4> QED BY <4>1, <4>2
      <3>2. OutputAt(t, v, g, r, q)
        BY <2>3, <3>1 DEF OutputAt
      <3> QED BY <2>1, <3>2 DEF q
    <2> QED BY <2>2, <2>3
  <1>6. \A p \in Seq(Keys) : p \in T
    <2> HIDE DEF T
    <2> QED BY <1>4, <1>5, Downwards
  <1> QED BY <1>6 DEF r

LEMMA OutputByKeys ==
  ASSUME NEW t, NEW v, NEW f, NEW g, NEW x, SettledMerge(t, v, f, g, x)
  PROVE  ByKeys(g[<<>>])
  <1> SUFFICES ASSUME NEW p \in Seq(Keys), Kind(ValueAt(g[<<>>], p)) = "object"
               PROVE  MeansByKey(ValueAt(g[<<>>], p))
    BY DEF ByKeys
  <1> DEFINE e == ValueAt(g[<<>>], p)
  <1>1. IsDocument(t) /\ IsDocument(v) /\ FreshRender(v, x, g) /\ OnlyAdds(x, t, v) /\ Rendering(g, v, x)
    BY DEF SettledMerge, ClearOverlay, ClearTemplate
  <1>2. ByKeys(t) /\ ByKeys(v)
    BY <1>1, DocumentByKeys
  <1>3. OutputAt(t, v, g, g[<<>>], p)
    BY OutputValues
  <1>4. Kind(NoValue) # "object"
    BY DEF Kind, NoValue, Absent
  <1>5. \A y \in x.edits : y.at # p
    BY <1>1 DEF OnlyAdds
  <1>6. CASE e = ValueAt(t, p)
    BY <1>2, <1>6 DEF ByKeys
  <1>7. CASE e = g[p] /\ Kind(ValueAt(v, p)) = "object"
    <2>1. HasMembers(g[p], ValueAt(v, p), x, p, g)
      BY <1>1, <1>5, <1>7, MembersRendered
    <2> DEFINE M == MeaningOf(e.members)
    <2>2. e.semantic = [kind |-> "object", members |-> M]
      BY <2>1, <1>7 DEF HasMembers
    <2>3. M = [k \in Keys |-> M[k]]
      BY DEF MeaningOf
    <2> HIDE DEF M
    <2> QED BY <2>2, <2>3 DEF MeansByKey
  <1>8. CASE e = g[p] /\ Kind(ValueAt(v, p)) # "object"
    <2>1. g[p] = ValueAt(v, p)
      BY <1>1, <1>5, <1>8, RenderedLeaf
    <2> QED BY <1>8, <2>1
  <1> QED BY <1>3, <1>4, <1>6, <1>7, <1>8 DEF OutputAt

\* Where a value of the template meets one of the destination, what is added
\* there is added by the whole plan.
LEMMA AddsReach ==
  ASSUME NEW t, NEW v, NEW f, IsDocument(t), IsDocument(v), Templating(f, t, v)
  PROVE  \A places \in Seq(Nat) :
           (Placed(t, places).value # NoValue /\ ValueAt(v, Placed(t, places).path) # NoValue) =>
             ToSet(f[places].adds) \subseteq ToSet(f[<<>>].adds)
  <1> DEFINE X == ToSet(f[<<>>].adds)
             T == {places \in Seq(Nat) :
                     (Placed(t, places).value # NoValue /\ ValueAt(v, Placed(t, places).path) # NoValue) =>
                       ToSet(f[places].adds) \subseteq X}
  <1>1. <<>> \in T
    OBVIOUS
  <1>2. ASSUME NEW places \in Seq(Nat), NEW n \in Nat, places \in T PROVE Append(places, n) \in T
    <2> DEFINE up == Placed(t, places)
               below == Append(places, n)
               w == up.value
               p == up.path
               d == ValueAt(v, p)
    <2>1. SUFFICES ASSUME Placed(t, below).value # NoValue, ValueAt(v, Placed(t, below).path) # NoValue
                   PROVE  ToSet(f[below].adds) \subseteq X
      OBVIOUS
    <2>2. Placed(t, below) = StepDown(up, n)
      BY PlacedSteps
    <2>3. n \in DOMAIN w.members
      <3>1. SUFFICES ASSUME n \notin DOMAIN w.members PROVE FALSE
        OBVIOUS
      <3>2. StepDown(up, n) = [path |-> p, value |-> NoValue]
        BY <3>1 DEF StepDown
      <3>3. Placed(t, below).value = NoValue
        BY <2>2, <3>2
      <3> QED BY <2>1, <3>3
    <2>4. Placed(t, below).path = Append(p, w.members[n].key)
      BY <2>3, PlacedBelow
    <2>5. p \in Seq(Keys) /\ (w = NoValue \/ IsBuilt(w))
      BY PlacedFacts DEF PlacedAt
    <2>6. w # NoValue
      <3>1. SUFFICES ASSUME w = NoValue PROVE FALSE
        OBVIOUS
      <3>2. w.members = <<>>
        BY <3>1 DEF NoValue
      <3>3. DOMAIN <<>> = {}
        OBVIOUS
      <3> QED BY <2>3, <3>2, <3>3
    <2>7. w.members[n].key \in Keys /\ n \in 1..Len(w.members)
      <3>1. KeysOf(w) \subseteq Keys /\ DOMAIN w.members = 1..Len(w.members)
        BY <2>5, <2>6, BuiltFacts
      <3> QED BY <3>1, <2>3 DEF KeysOf
    <2>8. ValueAt(v, Append(p, w.members[n].key)) = MemberValue(d, w.members[n].key)
      BY <2>5, <2>7, ValueSteps
    <2>9. w.members[n].key \in KeysOf(d)
      BY <2>1, <2>4, <2>8, NoMember
    <2>10. d # NoValue /\ Kind(d) = "object"
      BY <2>5, <2>9, SomeMember
    <2>11. Kind(w) = "object"
      <3>1. SUFFICES ASSUME Kind(w) # "object" PROVE FALSE
        OBVIOUS
      <3>2. w.members = <<>>
        BY <3>1, <2>5, <2>6, BuiltFacts
      <3>3. DOMAIN <<>> = {}
        OBVIOUS
      <3> QED BY <2>3, <3>2, <3>3
    <2>12. ToSet(f[places].adds) \subseteq X
      BY <1>2, <2>6, <2>10
    <2>13. PlanOf(f[places], w, d, p, f, places)
      BY PositionPlans
    <2> HIDE DEF up, w, p, d, X, below
    <2>14. PICK P : /\ \A i \in 1..Len(w.members) : MemberPlan(P[i], w, d, i, p, f[Append(places, i)])
                    /\ MergedFrom(f[places], w, d, P)
      <3>1. ~({Kind(w), Kind(d)} # {"object"})
        BY <2>10, <2>11
      <3> QED BY <3>1, <2>13 DEF PlanOf
    <2>15. P[n] = f[below]
      <3>1. MemberPlan(P[n], w, d, n, p, f[Append(places, n)])
        BY <2>7, <2>14
      <3> QED BY <3>1, <2>9 DEF MemberPlan, below
    <2>16. ToSet(P[n].adds) \subseteq ToSet(f[places].adds)
      <3>1. PICK F, A : f[places] = ObjectPlan(F, A) /\ AddedBy(A, P, Len(w.members))
        BY <2>14 DEF MergedFrom
      <3>2. f[places].adds = A
        BY <3>1 DEF ObjectPlan
      <3> QED BY <3>1, <3>2, <2>7 DEF AddedBy
    <2> QED BY <2>12, <2>15, <2>16
  <1>3. \A places \in Seq(Nat) : places \in T
    <2> HIDE DEF T
    <2> QED BY <1>1, <1>2, GrowingSequences
  <1> QED BY <1>3

\* The output has every member of the template where both are objects.
OutputHas(t, r, p, k) ==
  /\ k \in KeysOf(ValueAt(r, p))
  /\ ValueAt(r, Append(p, k)).semantic = At(ValueAt(r, p).semantic, k)

LEMMA MembersBrought ==
  ASSUME NEW t, NEW v, NEW f, NEW g, NEW x, SettledMerge(t, v, f, g, x), NEW places \in Seq(Nat),
         NEW w, w = Placed(t, places).value, NEW p, p = Placed(t, places).path,
         Kind(w) = "object", Kind(ValueAt(g[<<>>], p)) = "object", NEW i \in DOMAIN w.members
  PROVE  OutputHas(t, g[<<>>], p, w.members[i].key)
  <1> DEFINE r == g[<<>>]
             e == ValueAt(r, p)
             d == ValueAt(v, p)
             k == w.members[i].key
  <1>1. /\ IsDocument(t) /\ IsDocument(v) /\ FreshRender(v, x, g) /\ OnlyAdds(x, t, v)
        /\ Rendering(g, v, x) /\ DuplicateMemberPaths(t) = {} /\ Templating(f, t, v) /\ f[<<>>] = x
    BY DEF SettledMerge, ClearOverlay, ClearTemplate
  <1>2. p \in Seq(Keys)
    BY <1>1, PlacedFacts DEF PlacedAt
  <1>3. w # NoValue
    BY DEF Kind, NoValue, Absent
  <1>4. FoundAt(t, Placed(t, places))
    BY <1>1, PlacedFound
  <1>5. w = ValueAt(t, p) /\ IsBuilt(w) /\ Unrepeated(w)
    BY <1>3, <1>4 DEF FoundAt
  <1>6. k \in KeysOf(w) /\ k \in Keys /\ MemberValue(w, k) = w.members[i].value
    BY <1>5, FirstIsOnly
  <1>7. ValueAt(r, Append(p, k)) = MemberValue(e, k) /\ ValueAt(t, Append(p, k)) = MemberValue(w, k)
    <2>1. \A a : ValueAt(a, Append(p, k)) = MemberValue(ValueAt(a, p), k)
      BY <1>2, <1>6, ValueSteps
    <2> QED BY <2>1, <1>5
  <1>8. OutputAt(t, v, g, r, p)
    BY <1>2, OutputValues
  <1>9. Kind(NoValue) # "object"
    BY DEF Kind, NoValue, Absent
  <1>10. \A y \in x.edits : y.at # p
    BY <1>1 DEF OnlyAdds
  <1>11. ASSUME k \in KeysOf(e), MemberValue(e, k).semantic = At(e.semantic, k)
         PROVE  OutputHas(t, r, p, k)
    BY <1>11, <1>7 DEF OutputHas
  <1>12. ASSUME d = NoValue PROVE OutputHas(t, r, p, k)
    <2>1. e = ValueAt(t, p)
      BY <1>8, <1>9, <1>12 DEF OutputAt
    <2>2. ValueAt(t, Append(p, k)).semantic = At(ValueAt(t, p).semantic, k)
      BY <1>1, <1>2, <1>6, KeyThere
    <2>3. MemberValue(e, k).semantic = At(e.semantic, k)
      BY <2>1, <2>2, <1>5, <1>7
    <2> QED BY <1>5, <1>6, <1>11, <2>1, <2>3
  <1>13. ASSUME d # NoValue PROVE OutputHas(t, r, p, k)
    <2>1. e = g[p]
      BY <1>8, <1>13 DEF OutputAt
    <2>2. Kind(d) = "object"
      <3>1. SUFFICES ASSUME Kind(d) # "object" PROVE FALSE
        OBVIOUS
      <3>2. g[p] = d
        BY <1>1, <1>2, <1>10, <3>1, RenderedLeaf
      <3> QED BY <2>1, <3>1, <3>2
    <2>3. ASSUME k \in KeysOf(d) PROVE OutputHas(t, r, p, k)
      <3>1. k \in KeysOf(ValueAt(v, p)) /\ Kind(ValueAt(v, p)) = "object"
        BY <2>2, <2>3
      <3> HIDE DEF k, d, e
      <3>2. /\ k \in KeysOf(g[p]) /\ MemberValue(g[p], k) = g[Append(p, k)]
            /\ At(g[p].semantic, k) = g[Append(p, k)].semantic
        BY <1>1, <1>2, <1>10, <3>1, OwnMember
      <3> QED BY <2>1, <3>2, <1>11
    <2>4. ASSUME k \notin KeysOf(d) PROVE OutputHas(t, r, p, k)
      <3>1. \E a \in ToSet(x.adds) : a.at = p /\ a.member.key = k
        <4>1. PlanOf(f[places], w, d, p, f, places)
          BY <1>1, PositionPlans
        <4>2. PICK P : /\ \A j \in 1..Len(w.members) : MemberPlan(P[j], w, d, j, p, f[Append(places, j)])
                       /\ MergedFrom(f[places], w, d, P)
          <5>1. ~({Kind(w), Kind(d)} # {"object"})
            BY <2>2
          <5> QED BY <5>1, <4>1 DEF PlanOf
        <4>3. i \in 1..Len(w.members)
          BY <1>5, BuiltFacts
        <4>4. MemberPlan(P[i], w, d, i, p, f[Append(places, i)])
          BY <4>2, <4>3
        <4>5. PICK a : P[i].adds = <<a>> /\ a.at = p /\ a.member = w.members[i]
          BY <4>4, <2>4 DEF MemberPlan
        <4>6. a \in ToSet(P[i].adds)
          BY <4>5, ListedFacts
        <4>7. PICK F, A : f[places] = ObjectPlan(F, A) /\ AddedBy(A, P, Len(w.members))
          BY <4>2 DEF MergedFrom
        <4>8. f[places].adds = A
          BY <4>7 DEF ObjectPlan
        <4>9. a \in ToSet(f[places].adds)
          BY <4>3, <4>6, <4>7, <4>8 DEF AddedBy
        <4>10. ToSet(f[places].adds) \subseteq ToSet(f[<<>>].adds)
          BY <1>1, <1>3, <1>13, AddsReach
        <4> QED BY <1>1, <4>5, <4>9, <4>10
      <3>2. /\ ValueAt(v, p) # NoValue /\ k \notin KeysOf(ValueAt(v, p))
            /\ k \in KeysOf(ValueAt(t, p)) /\ Kind(ValueAt(v, p)) = "object"
        BY <1>5, <1>6, <1>13, <2>2, <2>4
      <3> HIDE DEF k, d, e
      <3>3. /\ k \in KeysOf(g[p])
            /\ MemberValue(g[p], k) = MemberValue(ValueAt(t, p), k)
            /\ At(g[p].semantic, k) = MemberValue(ValueAt(t, p), k).semantic
        BY <1>2, <1>6, <3>1, <3>2, BroughtMember
      <3> QED BY <2>1, <3>3, <1>11
    <2> QED BY <2>3, <2>4
  <1> QED BY <1>12, <1>13

\* An object planned of members that it has already, as they are.
LEMMA NothingNew ==
  ASSUME NEW w, IsBuilt(w), Unrepeated(w), NEW e, MeansByKey(e), NEW P, NEW y, MergedFrom(y, w, e, P),
         \A i \in 1..Len(w.members) : P[i] = Planned(At(e.semantic, w.members[i].key))
  PROVE  y = Planned(e.semantic)
  <1>1. Len(w.members) \in Nat /\ DOMAIN w.members = 1..Len(w.members) /\ KeysOf(w) \subseteq Keys
    BY BuiltFacts
  <1>2. PICK F, A : /\ y = ObjectPlan(F, A)
                    /\ LastOfEach(F, w, e.semantic, Len(w.members), P)
                    /\ AddedBy(A, P, Len(w.members))
    BY DEF MergedFrom
  <1>3. ValuesOf(F, w, e, P)
    BY <1>1, <1>2, ValuesApart
  <1>4. PICK M : M = [k \in Keys |-> M[k]] /\ e.semantic = [kind |-> "object", members |-> M]
    BY DEF MeansByKey
  <1>5. \A k \in Keys : At(e.semantic, k) = M[k]
    BY <1>4 DEF At
  <1>6. \A m : Planned(m).value = m /\ Planned(m).adds = <<>>
    BY DEF Planned
  <1>7. \A k \in Keys : F[k] = M[k]
    <2> TAKE k \in Keys
    <2>1. CASE k \notin KeysOf(w)
      BY <2>1, <1>3, <1>5 DEF ValuesOf
    <2>2. CASE k \in KeysOf(w)
      <3>1. PICK i \in DOMAIN w.members : w.members[i].key = k
        BY <2>2 DEF KeysOf
      <3>2. F[k] = P[i].value
        BY <1>3, <3>1 DEF ValuesOf
      <3>3. P[i] = Planned(At(e.semantic, k))
        BY <1>1, <3>1
      <3> QED BY <3>2, <3>3, <1>5, <1>6
    <2> QED BY <2>1, <2>2
  <1>8. F = M
    BY <1>3, <1>4, <1>7 DEF ValuesOf
  <1>9. A = <<>>
    <2>1. \A i \in 1..Len(w.members) : ToSet(P[i].adds) = {}
      BY <1>6, ListedFacts
    <2>2. ToSet(A) = {} /\ Listed(A)
      <3>1. Listed(A) /\ ToSet(A) = UNION {ToSet(P[i].adds) : i \in 1..Len(w.members)}
        BY <1>2 DEF AddedBy
      <3>2. UNION {ToSet(P[i].adds) : i \in 1..Len(w.members)} = {}
        BY <2>1
      <3> QED BY <3>1, <3>2
    <2>3. Len(A) \in Nat /\ DOMAIN A = 1..Len(A) /\ A \in Seq(ToSet(A))
      <3>1. Len(A) \in Nat /\ DOMAIN A = 1..Len(A)
        BY <2>2, ListedFacts
      <3>2. A \in Seq(ToSet(A))
        BY <2>2 DEF Listed
      <3> QED BY <3>1, <3>2
    <2>4. Len(A) = 0
      <3>1. SUFFICES ASSUME Len(A) # 0 PROVE FALSE
        OBVIOUS
      <3>2. 1 \in DOMAIN A
        BY <2>3, <3>1
      <3>3. A[1] \in ToSet(A)
        BY <3>2 DEF ToSet
      <3> QED BY <2>2, <3>3
    <2> QED BY <2>3, <2>4
  <1>10. y = [value |-> e.semantic, edits |-> {}, adds |-> <<>>, conflicts |-> {}]
    BY <1>2, <1>4, <1>8, <1>9 DEF ObjectPlan
  <1> QED BY <1>10 DEF Planned

\* A second merge of the same template changes nothing.
LEMMA MergedOnce ==
  ASSUME NEW t, NEW v, NEW f, NEW g, NEW x, SettledMerge(t, v, f, g, x)
  PROVE  MergeTemplateValue(t, g[<<>>]) = Planned(g[<<>>].semantic)
  <1> DEFINE r == g[<<>>]
  <1>1. IsDocument(t) /\ DuplicateMemberPaths(t) = {}
    BY DEF SettledMerge, ClearOverlay, ClearTemplate
  <1>2. ByKeys(r)
    BY OutputByKeys
  <1>3. \A places \in Seq(Nat) : \A w, p :
          (/\ w = Placed(t, places).value /\ p = Placed(t, places).path
           /\ Kind(w) = "object" /\ Kind(ValueAt(r, p)) = "object") =>
            \A i \in DOMAIN w.members : OutputHas(t, r, p, w.members[i].key)
    BY MembersBrought
  <1> HIDE DEF r
  <1>4. PICK h : Templating(h, t, r)
    BY <1>1, TemplateSteps
  <1> DEFINE T == {places \in Seq(Nat) : h[places] = Planned(ValueAt(r, Placed(t, places).path).semantic)}
  <1>5. ASSUME NEW places \in Seq(Nat), Len(places) >= MaxDepth + 1 PROVE places \in T
    <2>1. Placed(t, places).value = NoValue
      BY <1>1, <1>5, DeepPlaces
    <2> QED BY <2>1, <1>4, PlanBeyond
  <1>6. ASSUME NEW places \in Seq(Nat), \A n \in Nat : Append(places, n) \in T PROVE places \in T
    <2> DEFINE w == Placed(t, places).value
               p == Placed(t, places).path
               e == ValueAt(r, p)
    <2>1. PlanOf(h[places], w, e, p, h, places)
      BY <1>1, <1>2, <1>4, PlansByPosition
    <2>2. p \in Seq(Keys)
      BY <1>1, PlacedFacts DEF PlacedAt
    <2>3. FoundAt(t, Placed(t, places))
      BY <1>1, PlacedFound
    <2>4. ASSUME Kind(w) = "object", Kind(e) = "object",
                 NEW P, \A i \in 1..Len(w.members) : MemberPlan(P[i], w, e, i, p, h[Append(places, i)]),
                 MergedFrom(h[places], w, e, P)
          PROVE  h[places] = Planned(e.semantic)
      <3>1. w # NoValue
        BY <2>4 DEF Kind, NoValue, Absent
      <3>2. IsBuilt(w) /\ Unrepeated(w)
        BY <2>3, <3>1 DEF FoundAt
      <3>3. MeansByKey(e)
        BY <1>2, <2>2, <2>4 DEF ByKeys
      <3>4. ASSUME NEW i \in 1..Len(w.members) PROVE P[i] = Planned(At(e.semantic, w.members[i].key))
        <4>1. i \in DOMAIN w.members /\ i \in Nat
          BY <3>2, BuiltFacts
        <4>2. OutputHas(t, r, p, w.members[i].key)
          BY <1>3, <2>4, <4>1
        <4>3. MemberPlan(P[i], w, e, i, p, h[Append(places, i)])
          BY <2>4
        <4>4. P[i] = h[Append(places, i)]
          BY <4>2, <4>3 DEF MemberPlan, OutputHas
        <4>5. Placed(t, Append(places, i)).path = Append(p, w.members[i].key)
          BY <1>1, <4>1, PlacedBelow
        <4>6. h[Append(places, i)] = Planned(ValueAt(r, Append(p, w.members[i].key)).semantic)
          BY <1>6, <4>1, <4>5
        <4> QED BY <4>2, <4>4, <4>6 DEF OutputHas
      <3> HIDE DEF w, e, p
      <3> QED BY <2>4, <3>2, <3>3, <3>4, NothingNew
    <2>5. h[places] = Planned(e.semantic)
      <3> HIDE DEF w, e, p
      <3> QED BY <2>1, <2>4 DEF PlanOf
    <2> QED BY <2>5
  <1>7. MaxDepth + 1 \in Nat
    BY JsonAssumption
  <1>8. \A places \in Seq(Nat) : places \in T
    <2> HIDE DEF T
    <2> QED BY <1>5, <1>6, <1>7, DeepestFirst
  <1>9. h[<<>>] = Planned(ValueAt(r, Placed(t, <<>>).path).semantic)
    <2>1. <<>> \in Seq(Nat)
      OBVIOUS
    <2> QED BY <1>8, <2>1
  <1>10. Placed(t, <<>>).path = <<>>
    <2>1. Placed(t, <<>>) = [path |-> <<>>, value |-> t]
      BY PlacedSteps
    <2> QED BY <2>1
  <1>11. ValueAt(r, <<>>) = r
    BY ValueSteps
  <1>12. MergeTemplateValue(t, r) = h[<<>>]
    BY <1>4 DEF Templating
  <1> QED BY <1>9, <1>10, <1>11, <1>12 DEF r

\* Every clean merge of a template.
LEMMA TemplateMerges == Inv => TemplateMergeSettles
  <1> SUFFICES ASSUME Inv, outcome = "clean", input.lane = "template"
               PROVE  /\ IsOverlay(input.theirs.semantic, input.ours.semantic, rendered.semantic)
                      /\ Duplicates(input) = {} =>
                           MergeTemplateValue(input.theirs, rendered) = Planned(rendered.semantic)
    BY DEF TemplateMergeSettles
  <1> DEFINE t == input.theirs
             v == input.ours
             x == plan
  <1>1. IsDocument(t) /\ IsDocument(v)
    BY DEF Inv, InputInv
  <1>2. Candidate /\ rendered.semantic = x.value
    BY DEF Inv, PhaseInv, Accepts
  <1>3. IsRendered
    BY <1>2 DEF Candidate, IsSelected
  <1>4. x = MergeTemplateValue(t, v) /\ rendered = RenderValue(v, x)
    BY <1>3 DEF IsRendered, IsThePlan
  <1>5. Duplicates(input) = {} => DuplicateMemberPaths(t) = {} /\ DuplicateMemberPaths(v) = {}
    BY NoneRepeated
  <1> HIDE DEF t, v, x
  <1>6. PICK f : Templating(f, t, v)
    BY <1>1, TemplateSteps
  <1>7. PICK g : Rendering(g, v, x)
    BY <1>1, RenderSteps
  <1>8. f[<<>>] = x
    BY <1>4, <1>6 DEF Templating
  <1>9. g[<<>>] = rendered
    BY <1>4, <1>7 DEF Rendering
  <1>10. IsOverlay(t.semantic, v.semantic, rendered.semantic)
    <2>1. Overlaying(t, v, f, g, x)
      BY <1>1, <1>2, <1>6, <1>7, <1>8, <1>9 DEF Overlaying
    <2>2. IsOverlay(t.semantic, v.semantic, x.value)
      BY <2>1, CleanIsOverlay
    <2> QED BY <2>2, <1>2
  <1>11. ASSUME Duplicates(input) = {}
         PROVE  MergeTemplateValue(t, rendered) = Planned(rendered.semantic)
    <2>1. ClearOverlay(t, v, f, g, x)
      BY <1>1, <1>5, <1>6, <1>7, <1>8, <1>11 DEF ClearOverlay, ClearTemplate
    <2>2. SettledMerge(t, v, f, g, x)
      BY <2>1, SettledFacts
    <2>3. MergeTemplateValue(t, g[<<>>]) = Planned(g[<<>>].semantic)
      BY <2>2, MergedOnce
    <2> QED BY <2>3, <1>9
  <1> QED BY <1>10, <1>11 DEF t, v

\* A clean merge of a template keeps every value of the destination and has
\* the rest of the template; without repeated members it is done after one
\* time.
THEOREM TemplateSettles == Spec => []TemplateMergeSettles
  <1>1. Inv => TemplateMergeSettles
    BY TemplateMerges
  <1> QED BY <1>1, Invariance, PTL

=============================================================================
