------------------------ MODULE TemplateSessionProofs ------------------------
(***************************************************************************)
(* What sessions over a template directory promise, for every set of       *)
(* templates, every tree, every request and any number of sessions, edits  *)
(* and failures.                                                           *)
(*                                                                         *)
(* The plan, the preview and the application are functions of the request  *)
(* and of the tree that was read.  The lemmas say what these functions     *)
(* compute for one entry and, by induction over the plan, for one path;    *)
(* the invariant says how the destination tree relates to the one that was *)
(* read while a session writes.                                            *)
(***************************************************************************)
EXTENDS TemplateSession, WellFoundedInduction, TLAPS

-----------------------------------------------------------------------------
(* Induction over the entries of a plan and the atoms of a content *)

\* Every set of numbers that holds a number has a least one.
LEMMA UpTo ==
  ASSUME NEW n \in Nat, NEW T, 0 \in T, \A k \in 0..(n - 1) : k \in T => k + 1 \in T
  PROVE  \A k \in 0..n : k \in T
  <1> DEFINE R == {ss \in Nat \X Nat : ss[1] < ss[2]}
             rest == (0..n) \ T
  <1>1. IsWellFoundedOn(R, Nat)
    BY NatLessThanWellFounded DEF OpToRel
  <1>2. SUFFICES ASSUME rest # {} PROVE FALSE
    OBVIOUS
  <1>3. PICK x \in rest : \A y \in rest : ~(<<y, x>> \in R)
    <2>1. rest \subseteq Nat
      OBVIOUS
    <2> HIDE DEF R, rest
    <2> QED BY <1>1, <1>2, <2>1, WFMin
  <1>4. x \in 0..n /\ x # 0 /\ x - 1 \in 0..(n - 1) /\ (x - 1) + 1 = x /\ x - 1 \in 0..n
    BY <1>3
  <1>5. <<x - 1, x>> \in R
    BY <1>4
  <1>6. x - 1 \in T
    <2> HIDE DEF R
    <2> QED BY <1>3, <1>4, <1>5
  <1>7. x \in T
    BY <1>6, <1>4
  <1> QED BY <1>7, <1>3

\* A recursion that was solved up to n is solved up to n + 1.
Extends(g, f, n, v) == /\ g = [k \in 0..(n + 1) |-> g[k]]
                       /\ g[n + 1] = v /\ \A k \in 0..n : g[k] = f[k]

LEMMA Extension == ASSUME NEW n \in Nat, NEW f, NEW v PROVE \E g : Extends(g, f, n, v)
  <1> DEFINE g == [k \in 0..(n + 1) |-> IF k = n + 1 THEN v ELSE f[k]]
  <1>1. Extends(g, f, n, v)
    BY DEF Extends
  <1> HIDE DEF g
  <1> QED BY <1>1

\* The recursion of ResolveTemplateTokens has a solution.
Resolving(f, c, m0, n) ==
  f = [k \in 0..n |-> IF k = 0 THEN c ELSE IF FirstUse(c, k) /\ c[k] \in DOMAIN m0
                      THEN ReplaceToken(f[k - 1], c[k], m0[c[k]])
                      ELSE f[k - 1]]

LEMMA ResolvingExists ==
  ASSUME NEW c, NEW m0, NEW n \in Nat
  PROVE  \E f : Resolving(f, c, m0, n)
  <1> DEFINE T == {m \in Nat : \E f : Resolving(f, c, m0, m)}
  <1>1. 0 \in T
    <2>1. Resolving([k \in 0..0 |-> c], c, m0, 0)
      BY DEF Resolving
    <2> QED BY <2>1
  <1>2. ASSUME NEW m \in 0..(n - 1), m \in T PROVE m + 1 \in T
    <2>1. PICK f : Resolving(f, c, m0, m)
      BY <1>2
    <2>2. m \in Nat
      OBVIOUS
    <2> DEFINE last == IF FirstUse(c, m + 1) /\ c[m + 1] \in DOMAIN m0
                      THEN ReplaceToken(f[m], c[m + 1], m0[c[m + 1]])
                      ELSE f[m]
    <2>3. PICK g : Extends(g, f, m, last)
      <3> HIDE DEF last
      <3> QED BY <2>2, Extension
    <2>4. g[m + 1] = last /\ \A k \in 0..m : g[k] = f[k]
      BY <2>3 DEF Extends
    <2>5. \A k \in 0..m : f[k] = IF k = 0 THEN c ELSE IF FirstUse(c, k) /\ c[k] \in DOMAIN m0
                      THEN ReplaceToken(f[k - 1], c[k], m0[c[k]])
                      ELSE f[k - 1]
      BY <2>1 DEF Resolving
    <2>6. ASSUME NEW k \in 0..(m + 1)
          PROVE  g[k] = IF k = 0 THEN c ELSE IF FirstUse(c, k) /\ c[k] \in DOMAIN m0
                      THEN ReplaceToken(g[k - 1], c[k], m0[c[k]])
                      ELSE g[k - 1]
      <3>1. CASE k = m + 1
        <4>1. k # 0 /\ k - 1 = m /\ g[m] = f[m]
          BY <3>1, <2>2, <2>4
        <4> QED BY <4>1, <3>1, <2>4
      <3>2. CASE k # m + 1
        <4>1. k \in 0..m /\ g[k] = f[k] /\ (k # 0 => g[k - 1] = f[k - 1])
          BY <3>2, <2>2, <2>4
        <4> QED BY <4>1, <2>5
      <3> QED BY <3>1, <3>2
    <2>7. Resolving(g, c, m0, m + 1)
      BY <2>3, <2>6 DEF Extends, Resolving
    <2> QED BY <2>2, <2>7
  <1>3. n \in T
    <2> HIDE DEF T
    <2> QED BY <1>1, <1>2, UpTo
  <1> QED BY <1>3

\* So has that of PreviewTemplateExecution.
Previewing(f, plan, n) ==
  f = [k \in 0..n |-> IF k = 0 THEN NoResult ELSE PreviewEntry(f[k - 1], plan[k])]

LEMMA PreviewingExists ==
  ASSUME NEW plan, NEW n \in Nat
  PROVE  \E f : Previewing(f, plan, n)
  <1> DEFINE T == {m \in Nat : \E f : Previewing(f, plan, m)}
  <1>1. 0 \in T
    <2>1. Previewing([k \in 0..0 |-> NoResult], plan, 0)
      BY DEF Previewing
    <2> QED BY <2>1
  <1>2. ASSUME NEW m \in 0..(n - 1), m \in T PROVE m + 1 \in T
    <2>1. PICK f : Previewing(f, plan, m)
      BY <1>2
    <2>2. m \in Nat
      OBVIOUS
    <2> DEFINE last == PreviewEntry(f[m], plan[m + 1])
    <2>3. PICK g : Extends(g, f, m, last)
      <3> HIDE DEF last
      <3> QED BY <2>2, Extension
    <2>4. g[m + 1] = last /\ \A k \in 0..m : g[k] = f[k]
      BY <2>3 DEF Extends
    <2>5. \A k \in 0..m : f[k] = IF k = 0 THEN NoResult ELSE PreviewEntry(f[k - 1], plan[k])
      BY <2>1 DEF Previewing
    <2>6. ASSUME NEW k \in 0..(m + 1)
          PROVE  g[k] = IF k = 0 THEN NoResult ELSE PreviewEntry(g[k - 1], plan[k])
      <3>1. CASE k = m + 1
        <4>1. k # 0 /\ k - 1 = m /\ g[m] = f[m]
          BY <3>1, <2>2, <2>4
        <4> QED BY <4>1, <3>1, <2>4
      <3>2. CASE k # m + 1
        <4>1. k \in 0..m /\ g[k] = f[k] /\ (k # 0 => g[k - 1] = f[k - 1])
          BY <3>2, <2>2, <2>4
        <4> QED BY <4>1, <2>5
      <3> QED BY <3>1, <3>2
    <2>7. Previewing(g, plan, m + 1)
      BY <2>3, <2>6 DEF Extends, Previewing
    <2> QED BY <2>2, <2>7
  <1>3. n \in T
    <2> HIDE DEF T
    <2> QED BY <1>1, <1>2, UpTo
  <1> QED BY <1>3

\* So has that of ApplyTemplateExecution.
Applying(f, plan, reg, n) ==
  f = [k \in 0..n |-> IF k = 0 THEN NoResult ELSE ApplyEntry(f[k - 1], plan[k], reg)]

LEMMA ApplyingExists ==
  ASSUME NEW plan, NEW reg, NEW n \in Nat
  PROVE  \E f : Applying(f, plan, reg, n)
  <1> DEFINE T == {m \in Nat : \E f : Applying(f, plan, reg, m)}
  <1>1. 0 \in T
    <2>1. Applying([k \in 0..0 |-> NoResult], plan, reg, 0)
      BY DEF Applying
    <2> QED BY <2>1
  <1>2. ASSUME NEW m \in 0..(n - 1), m \in T PROVE m + 1 \in T
    <2>1. PICK f : Applying(f, plan, reg, m)
      BY <1>2
    <2>2. m \in Nat
      OBVIOUS
    <2> DEFINE last == ApplyEntry(f[m], plan[m + 1], reg)
    <2>3. PICK g : Extends(g, f, m, last)
      <3> HIDE DEF last
      <3> QED BY <2>2, Extension
    <2>4. g[m + 1] = last /\ \A k \in 0..m : g[k] = f[k]
      BY <2>3 DEF Extends
    <2>5. \A k \in 0..m : f[k] = IF k = 0 THEN NoResult ELSE ApplyEntry(f[k - 1], plan[k], reg)
      BY <2>1 DEF Applying
    <2>6. ASSUME NEW k \in 0..(m + 1)
          PROVE  g[k] = IF k = 0 THEN NoResult ELSE ApplyEntry(g[k - 1], plan[k], reg)
      <3>1. CASE k = m + 1
        <4>1. k # 0 /\ k - 1 = m /\ g[m] = f[m]
          BY <3>1, <2>2, <2>4
        <4> QED BY <4>1, <3>1, <2>4
      <3>2. CASE k # m + 1
        <4>1. k \in 0..m /\ g[k] = f[k] /\ (k # 0 => g[k - 1] = f[k - 1])
          BY <3>2, <2>2, <2>4
        <4> QED BY <4>1, <2>5
      <3> QED BY <3>1, <3>2
    <2>7. Applying(g, plan, reg, m + 1)
      BY <2>3, <2>6 DEF Extends, Applying
    <2> QED BY <2>2, <2>7
  <1>3. n \in T
    <2> HIDE DEF T
    <2> QED BY <1>1, <1>2, UpTo
  <1> QED BY <1>3

\* So has that of MergePreparedContentFromRegistry.
Merging(f, e, n) ==
  f = [k \in 0..n |-> IF k = 0 THEN e.content ELSE IF e.prepared[k] \in ToSet(e.content) THEN f[k - 1]
                      ELSE Append(f[k - 1], e.prepared[k])]

LEMMA MergingExists ==
  ASSUME NEW e, NEW n \in Nat
  PROVE  \E f : Merging(f, e, n)
  <1> DEFINE T == {m \in Nat : \E f : Merging(f, e, m)}
  <1>1. 0 \in T
    <2>1. Merging([k \in 0..0 |-> e.content], e, 0)
      BY DEF Merging
    <2> QED BY <2>1
  <1>2. ASSUME NEW m \in 0..(n - 1), m \in T PROVE m + 1 \in T
    <2>1. PICK f : Merging(f, e, m)
      BY <1>2
    <2>2. m \in Nat
      OBVIOUS
    <2> DEFINE last == IF e.prepared[m + 1] \in ToSet(e.content) THEN f[m]
                      ELSE Append(f[m], e.prepared[m + 1])
    <2>3. PICK g : Extends(g, f, m, last)
      <3> HIDE DEF last
      <3> QED BY <2>2, Extension
    <2>4. g[m + 1] = last /\ \A k \in 0..m : g[k] = f[k]
      BY <2>3 DEF Extends
    <2>5. \A k \in 0..m : f[k] = IF k = 0 THEN e.content ELSE IF e.prepared[k] \in ToSet(e.content) THEN f[k - 1]
                      ELSE Append(f[k - 1], e.prepared[k])
      BY <2>1 DEF Merging
    <2>6. ASSUME NEW k \in 0..(m + 1)
          PROVE  g[k] = IF k = 0 THEN e.content ELSE IF e.prepared[k] \in ToSet(e.content) THEN g[k - 1]
                      ELSE Append(g[k - 1], e.prepared[k])
      <3>1. CASE k = m + 1
        <4>1. k # 0 /\ k - 1 = m /\ g[m] = f[m]
          BY <3>1, <2>2, <2>4
        <4> QED BY <4>1, <3>1, <2>4
      <3>2. CASE k # m + 1
        <4>1. k \in 0..m /\ g[k] = f[k] /\ (k # 0 => g[k - 1] = f[k - 1])
          BY <3>2, <2>2, <2>4
        <4> QED BY <4>1, <2>5
      <3> QED BY <3>1, <3>2
    <2>7. Merging(g, e, m + 1)
      BY <2>3, <2>6 DEF Extends, Merging
    <2> QED BY <2>2, <2>7
  <1>3. n \in T
    <2> HIDE DEF T
    <2> QED BY <1>1, <1>2, UpTo
  <1> QED BY <1>3

-----------------------------------------------------------------------------
(* Contents *)

LEMMA ContentFacts ==
  /\ \A c \in Contents : Len(c) \in Nat /\ DOMAIN c = 1..Len(c)
                         /\ \A k \in DOMAIN c : c[k] \in Atoms
  /\ \A c \in Contents, a \in Atoms : Append(c, a) \in Contents
  /\ \A c \in Contents : c # None
  BY ContentAssumption DEF Contents

LEMMA ReplacedIsContent ==
  ASSUME NEW c \in Contents, NEW key, NEW a \in Atoms
  PROVE  ReplaceToken(c, key, a) \in Contents
  <1>1. Len(c) \in Nat /\ DOMAIN c = 1..Len(c) /\ \A k \in DOMAIN c : c[k] \in Atoms
    BY ContentFacts
  <1>2. ReplaceToken(c, key, a) \in [1..Len(c) -> Atoms]
    BY <1>1 DEF ReplaceToken
  <1> QED BY <1>1, <1>2 DEF Contents

\* A content whose tokens are replaced is a content.
LEMMA ResolvedIsContent ==
  ASSUME NEW c \in Contents, NEW map, IsReplacement(map)
  PROVE  ResolveTemplateTokens(c, map) \in Contents
  <1> DEFINE n == Len(c)
             f == CHOOSE g : Resolving(g, c, map, n)
             T == {k \in 0..n : f[k] \in Contents}
  <1>1. n \in Nat /\ DOMAIN c = 1..n
    BY ContentFacts
  <1>2. ResolveTemplateTokens(c, map) = f[n]
    BY DEF ResolveTemplateTokens, Resolving
  <1> HIDE DEF n
  <1>3. Resolving(f, c, map, n)
    <2>1. \E g : Resolving(g, c, map, n)
      BY <1>1, ResolvingExists
    <2> QED BY <2>1
  <1> HIDE DEF f
  <1>4. 0 \in T
    BY <1>1, <1>3 DEF Resolving
  <1>5. ASSUME NEW k \in 0..(n - 1), k \in T PROVE k + 1 \in T
    <2>1. k + 1 \in 0..n /\ k + 1 # 0 /\ (k + 1) - 1 = k /\ f[k] \in Contents
      BY <1>1, <1>5
    <2>2. f[k + 1] = IF FirstUse(c, k + 1) /\ c[k + 1] \in DOMAIN map
                     THEN ReplaceToken(f[k], c[k + 1], map[c[k + 1]]) ELSE f[k]
      BY <1>3, <2>1 DEF Resolving
    <2>3. CASE FirstUse(c, k + 1) /\ c[k + 1] \in DOMAIN map
      <3>1. map[c[k + 1]] \in Atoms
        BY <2>3 DEF IsReplacement
      <3>2. ReplaceToken(f[k], c[k + 1], map[c[k + 1]]) \in Contents
        BY <2>1, <3>1, ReplacedIsContent
      <3> QED BY <2>1, <2>2, <2>3, <3>2
    <2> QED BY <2>1, <2>2, <2>3
  <1>6. n \in T
    <2> HIDE DEF T
    <2>1. \A k \in 0..(n - 1) : k \in T => k + 1 \in T
      BY <1>5
    <2>2. \A k \in 0..n : k \in T
      BY <1>1, <1>4, <2>1, UpTo
    <2> QED BY <1>1, <2>2
  <1> QED BY <1>2, <1>6

\* What a family adapter makes of a merge it does not refuse: a content that
\* has all of the destination and of the template, and the destination
\* itself when the template adds nothing.
Merged(e, output) ==
  /\ output \in Contents
  /\ ToSet(e.prepared) \subseteq ToSet(output)
  /\ (ToSet(e.prepared) \subseteq ToSet(e.content)) => output = e.content

LEMMA AppendFacts ==
  ASSUME NEW c \in Contents, NEW a \in Atoms
  PROVE  ToSet(Append(c, a)) = ToSet(c) \cup {a}
  <1>1. Len(c) \in Nat /\ DOMAIN c = 1..Len(c)
    BY ContentFacts
  <1> DEFINE d == Append(c, a)
  <1>2. DOMAIN d = 1..(Len(c) + 1) /\ (\A k \in 1..Len(c) : d[k] = c[k]) /\ d[Len(c) + 1] = a
    BY <1>1 DEF Contents
  <1> HIDE DEF d
  <1>3. ToSet(d) = ToSet(c) \cup {a}
    BY <1>1, <1>2 DEF ToSet
  <1> QED BY <1>3 DEF d

LEMMA MergedIsContent ==
  ASSUME NEW e, e.prepared \in Contents, e.content \in Contents,
         NEW reg, e.family \in reg, ~Refuses(e)
  PROVE  Merged(e, MergePreparedContentFromRegistry(e, reg))
  <1> DEFINE n == Len(e.prepared)
             f == CHOOSE g : Merging(g, e, n)
             Good(k) == /\ f[k] \in Contents
                        /\ ToSet(e.content) \subseteq ToSet(f[k])
                        /\ \A j \in 1..k : e.prepared[j] \in ToSet(f[k])
                        /\ (ToSet(e.prepared) \subseteq ToSet(e.content)) => f[k] = e.content
             T == {k \in 0..n : Good(k)}
  <1>1. n \in Nat /\ DOMAIN e.prepared = 1..n /\ \A k \in 1..n : e.prepared[k] \in Atoms
    BY ContentFacts
  <1>2. MergePreparedContentFromRegistry(e, reg) = f[n]
    BY DEF MergePreparedContentFromRegistry, Merging
  <1> HIDE DEF n
  <1>3. Merging(f, e, n)
    <2>1. \E g : Merging(g, e, n)
      BY <1>1, MergingExists
    <2> QED BY <2>1
  <1> HIDE DEF f
  <1>4. 0 \in T
    <2>1. f[0] = e.content
      BY <1>1, <1>3 DEF Merging
    <2> QED BY <1>1, <2>1
  <1>5. ASSUME NEW k \in 0..(n - 1), k \in T PROVE k + 1 \in T
    <2>1. k + 1 \in 0..n /\ k + 1 \in 1..n /\ k + 1 # 0 /\ (k + 1) - 1 = k
          /\ 1..(k + 1) = 1..k \cup {k + 1}
      BY <1>1
    <2>2. Good(k)
      BY <1>5
    <2>3. f[k + 1] = IF e.prepared[k + 1] \in ToSet(e.content) THEN f[k]
                     ELSE Append(f[k], e.prepared[k + 1])
      BY <1>3, <2>1 DEF Merging
    <2>4. CASE e.prepared[k + 1] \in ToSet(e.content)
      BY <2>1, <2>2, <2>3, <2>4
    <2>5. CASE e.prepared[k + 1] \notin ToSet(e.content)
      <3>1. f[k + 1] = Append(f[k], e.prepared[k + 1])
        BY <2>3, <2>5
      <3>2. f[k] \in Contents /\ e.prepared[k + 1] \in Atoms
        BY <1>1, <2>1, <2>2
      <3>3. Append(f[k], e.prepared[k + 1]) \in Contents
        BY <3>2, ContentFacts
      <3>4. ToSet(Append(f[k], e.prepared[k + 1])) = ToSet(f[k]) \cup {e.prepared[k + 1]}
        BY <3>2, AppendFacts
      <3>5. f[k + 1] \in Contents /\ ToSet(f[k + 1]) = ToSet(f[k]) \cup {e.prepared[k + 1]}
        BY <3>1, <3>3, <3>4
      <3>6. e.prepared[k + 1] \in ToSet(e.prepared)
        BY <1>1, <2>1 DEF ToSet
      <3> QED BY <2>1, <2>2, <2>5, <3>5, <3>6
    <2> QED BY <2>4, <2>5
  <1>6. n \in T
    <2> HIDE DEF T
    <2>1. \A k \in 0..(n - 1) : k \in T => k + 1 \in T
      BY <1>5
    <2>2. \A k \in 0..n : k \in T
      BY <1>1, <1>4, <2>1, UpTo
    <2> QED BY <1>1, <2>2
  <1>7. \A a \in ToSet(e.prepared) : a \in ToSet(f[n])
    <2>1. \A a \in ToSet(e.prepared) : \E k \in 1..n : a = e.prepared[k]
      BY <1>1 DEF ToSet
    <2> QED BY <1>6, <2>1
  <1> QED BY <1>2, <1>6, <1>7 DEF Merged
-----------------------------------------------------------------------------
(* The entries of a plan *)

\* What the plan decides without looking at the tree.
Dest(s) == ResolveTemplateDestinationPath(s.path, Options.project)
Strategy(s) == SelectTemplateStrategy(s.path, Options.strategy, Options.overrides)
Required(s) == Dest(s) # None /\ Strategy(s) \notin {"keep_destination", "raw_copy"}
Blocked(s) ==
  Required(s) /\ UnresolvedTemplateTokenKeys(setup.templates[s], Options.replacements) # {}
Prepared(s) == IF Blocked(s) THEN None
               ELSE IF Required(s)
               THEN ResolveTemplateTokens(setup.templates[s], Options.replacements)
               ELSE setup.templates[s]
Action(s) == IF Blocked(s) THEN "blocked"
             ELSE IF Dest(s) = None THEN "omit"
             ELSE IF Strategy(s) = "keep_destination" THEN "keep"
             ELSE IF Strategy(s) = "raw_copy" THEN "raw_copy"
             ELSE IF Strategy(s) = "accept_template" THEN "write" ELSE "merge"

\* And what it takes from the tree.
ContentAt(tree, path) == IF path \in DOMAIN tree THEN tree[path] ELSE None

IsEntry(e, s, tree) ==
  /\ e.source = s /\ e.logical = s.path /\ e.dest = Dest(s) /\ e.family = FamilyOf[s.path]
  /\ e.blocked = Blocked(s) /\ e.prepared = Prepared(s) /\ e.action = Action(s)
  /\ e.exists = (Dest(s) \in DOMAIN tree) /\ e.content = ContentAt(tree, Dest(s))

LEMMA PlanEntries ==
  ASSUME NEW tree
  PROVE  /\ DOMAIN PlanOf(tree) = DOMAIN setup.sources
         /\ \A i \in DOMAIN setup.sources : IsEntry(PlanOf(tree)[i], setup.sources[i], tree)
  <1>1. DOMAIN PlanOf(tree) = DOMAIN setup.sources
    BY DEF PlanOf, PlanTemplateTreeExecution
  <1>2. ASSUME NEW i \in DOMAIN setup.sources
        PROVE  IsEntry(PlanOf(tree)[i], setup.sources[i], tree)
    <2> DEFINE s  == setup.sources[i]
               e0 == PlanTemplateEntry(s, Options)
               e1 == EnrichTemplatePlanEntry(e0, DOMAIN tree)
               e2 == EnrichWithTokenState(e1, setup.templates[s], Options.replacements)
               e3 == PrepareTemplateEntry(e2, setup.templates[s], Options.replacements)
               e4 == PlanTemplateExecution(e3, tree)
    <2>1. PlanOf(tree)[i] = e4
      BY DEF PlanOf, PlanTemplateTreeExecution
    <2> HIDE DEF s
    <2>2. e0 = [source |-> s, logical |-> s.path, dest |-> Dest(s), family |-> FamilyOf[s.path],
                strategy |-> Strategy(s), exists |-> FALSE, write |-> "none",
                required |-> FALSE, blocked |-> FALSE, prepared |-> None,
                action |-> "none", content |-> None]
      BY DEF PlanTemplateEntry, NormalizeTemplateSourcePath, Dest, Strategy
    <2> DEFINE write == IF Dest(s) = None THEN "omit"
                        ELSE IF Strategy(s) = "keep_destination" THEN "keep"
                        ELSE IF Dest(s) \in DOMAIN tree THEN "update" ELSE "create"
    <2>3. e1 = [source |-> s, logical |-> s.path, dest |-> Dest(s), family |-> FamilyOf[s.path],
                strategy |-> Strategy(s), exists |-> Dest(s) \in DOMAIN tree, write |-> write,
                required |-> FALSE, blocked |-> FALSE, prepared |-> None,
                action |-> "none", content |-> None]
      <3> HIDE DEF e0
      <3>1. e0.dest = Dest(s) /\ e0.strategy = Strategy(s)
        BY <2>2
      <3>2. e1 = [e0 EXCEPT !.exists = (Dest(s) \in DOMAIN tree), !.write = write]
        BY <3>1 DEF EnrichTemplatePlanEntry
      <3> HIDE DEF e1, write
      <3> QED BY <2>2, <3>2
    <2>4. e2 = [source |-> s, logical |-> s.path, dest |-> Dest(s), family |-> FamilyOf[s.path],
                strategy |-> Strategy(s), exists |-> Dest(s) \in DOMAIN tree, write |-> write,
                required |-> Required(s), blocked |-> Blocked(s), prepared |-> None,
                action |-> "none", content |-> None]
      <3> HIDE DEF e1, write
      <3>1. e1.dest = Dest(s) /\ e1.strategy = Strategy(s)
        BY <2>3
      <3>2. /\ Required(s) = (e1.dest # None /\ e1.strategy \notin {"keep_destination", "raw_copy"})
            /\ Blocked(s) = (Required(s) /\ UnresolvedTemplateTokenKeys(setup.templates[s],
                                              Options.replacements) # {})
        BY <3>1 DEF Required, Blocked
      <3>3. e2 = [e1 EXCEPT !.required = Required(s), !.blocked = Blocked(s)]
        BY <3>2 DEF EnrichWithTokenState
      <3> HIDE DEF e2
      <3> QED BY <2>3, <3>3
    <2>5. e3 = [source |-> s, logical |-> s.path, dest |-> Dest(s), family |-> FamilyOf[s.path],
                strategy |-> Strategy(s), exists |-> Dest(s) \in DOMAIN tree, write |-> write,
                required |-> Required(s), blocked |-> Blocked(s), prepared |-> Prepared(s),
                action |-> "none", content |-> None]
      <3> HIDE DEF e2, write
      <3> QED BY <2>4 DEF PrepareTemplateEntry, Prepared
    <2>6. write = "keep" <=> Dest(s) # None /\ Strategy(s) = "keep_destination"
      OBVIOUS
    <2>7. e4 = [source |-> s, logical |-> s.path, dest |-> Dest(s), family |-> FamilyOf[s.path],
                strategy |-> Strategy(s), exists |-> Dest(s) \in DOMAIN tree, write |-> write,
                required |-> Required(s), blocked |-> Blocked(s), prepared |-> Prepared(s),
                action |-> Action(s), content |-> ContentAt(tree, Dest(s))]
      <3> HIDE DEF e3, write
      <3>1. /\ e3.dest = Dest(s) /\ e3.strategy = Strategy(s) /\ e3.blocked = Blocked(s)
            /\ e3.write = write
        BY <2>5
      <3>2. e4 = [e3 EXCEPT !.action = Action(s), !.content = ContentAt(tree, Dest(s))]
        BY <2>6, <3>1 DEF PlanTemplateExecution, Action, ContentAt
      <3> HIDE DEF e4
      <3> QED BY <2>5, <3>2
    <2> HIDE DEF e4, write
    <2> QED BY <2>1, <2>7 DEF IsEntry, s
  <1> QED BY <1>1, <1>2

\* Requests that are not refused have values for their tokens.
LEMMA OptionsFacts ==
  ASSUME setup \in Setups, Ready
  PROVE  IsReplacement(Options.replacements)
  <1> DEFINE q == setup.request
  <1>1. q.kind \in {"options", "profile"} /\ IsReplacement(q.options.replacements)
    BY SetupAssumption
  <1>2. CASE q.kind = "options"
    BY <1>1, <1>2 DEF Options, ResolveSessionOptions
  <1>3. CASE q.kind = "profile"
    <2>1. q.profile \in DOMAIN Profiles
      <3>1. SUFFICES ASSUME q.profile \notin DOMAIN Profiles PROVE FALSE
        OBVIOUS
      <3>2. [reason |-> "missing_profile", path |-> None] \in RequestDiagnostics(q)
        BY <1>3, <3>1 DEF RequestDiagnostics
      <3> QED BY <3>2 DEF Ready
    <2>2. IsReplacement(Profiles[q.profile].replacements)
      BY <2>1, SetupAssumption
    <2>3. "replacements" \in DOMAIN DefaultOptions
      BY DEF DefaultOptions
    <2>4. \/ Options.replacements = Profiles[q.profile].replacements
          \/ Options.replacements = q.options.replacements
      BY <1>3, <2>3 DEF Options, ResolveSessionOptions
    <2> QED BY <1>1, <2>2, <2>4
  <1> QED BY <1>1, <1>2, <1>3

Actions == {"blocked", "omit", "keep", "raw_copy", "write", "merge"}

\* What preview and application rely on.
Sound(e) ==
  /\ e.action \in Actions
  /\ e.action = "omit" <=> e.dest = None
  /\ e.action = "blocked" <=> e.blocked
  /\ e.action # "blocked" => e.prepared \in Contents
  /\ e.content \in Contents \cup {None}
  /\ e.exists <=> e.content # None

SoundPlan(plan) == /\ Len(plan) \in Nat /\ DOMAIN plan = 1..Len(plan)
                   /\ \A i \in 1..Len(plan) : Sound(plan[i])

LEMMA PreparedIsContent ==
  ASSUME setup \in Setups, Ready, NEW s, setup.templates[s] \in Contents, ~Blocked(s)
  PROVE  Prepared(s) \in Contents
  BY OptionsFacts, ResolvedIsContent DEF Prepared

LEMMA PlanIsSound ==
  ASSUME setup \in Setups, Ready, NEW tree, IsTree(tree)
  PROVE  /\ SoundPlan(PlanOf(tree))
         /\ DOMAIN PlanOf(tree) = DOMAIN setup.sources /\ Len(PlanOf(tree)) = Len(setup.sources)
  <1> DEFINE plan == PlanOf(tree)
             n == Len(setup.sources)
             S == {plan[i] : i \in DOMAIN plan}
  <1>1. n \in Nat /\ DOMAIN setup.sources = 1..n
    <2>1. setup.sources \in Seq(ToSet(setup.sources))
      BY SetupAssumption
    <2> QED BY <2>1
  <1>2. DOMAIN plan = 1..n /\ plan = [i \in 1..n |-> plan[i]]
    BY <1>1 DEF PlanOf, PlanTemplateTreeExecution
  <1>3. ASSUME NEW i \in 1..n PROVE Sound(plan[i])
    <2> DEFINE s == setup.sources[i]
    <2>1. IsEntry(plan[i], s, tree)
      BY <1>1, PlanEntries
    <2>2. setup.templates[s] \in Contents
      BY <1>1, SetupAssumption
    <2>3. ~Blocked(s) => Prepared(s) \in Contents
      BY <2>2, PreparedIsContent
    <2>4. ContentAt(tree, Dest(s)) \in Contents \cup {None}
          /\ (Dest(s) \in DOMAIN tree <=> ContentAt(tree, Dest(s)) # None)
      BY ContentFacts DEF ContentAt, IsTree
    <2>5. /\ Action(s) \in Actions
          /\ Action(s) = "omit" <=> Dest(s) = None
          /\ Action(s) = "blocked" <=> Blocked(s)
      BY DEF Action, Actions, Blocked, Required
    <2> HIDE DEF s, plan
    <2> QED BY <2>1, <2>3, <2>4, <2>5 DEF IsEntry, Sound
  <1> HIDE DEF plan, n
  <1>4. Len(plan) = n
    <2>1. plan \in [1..n -> S]
      BY <1>2
    <2>2. plan \in Seq(S)
      BY <1>1, <2>1
    <2> QED BY <1>1, <1>2, <2>2
  <1> QED BY <1>1, <1>2, <1>3, <1>4 DEF SoundPlan, plan, n

-----------------------------------------------------------------------------
(* What one entry does to the result *)

IsResult(r) == DOMAIN r = {"files", "created", "updated", "kept", "blocked", "omitted"}

\* The content an entry asks for, and the list it puts its destination in.
Output(e, reg) == IF e.action = "keep" THEN e.content
                  ELSE IF e.action = "merge" /\ e.content # None
                  THEN MergePreparedContentFromRegistry(e, reg)
                  ELSE e.prepared
Effect(e, reg) ==
  IF e.action = "omit" \/ (e.action = "keep" /\ e.content = None) THEN "none"
  ELSE IF e.action = "blocked" \/ Output(e, reg) = None THEN "blocked"
  ELSE IF e.content = Output(e, reg) THEN "kept"
  ELSE IF e.exists THEN "updated" ELSE "created"

Placed == {"kept", "updated", "created"}

\* q is r after an entry for dest with the effect f and the output v.
Effected(r, q, dest, f, v) ==
  /\ IsResult(q)
  /\ q.files = IF f \in Placed THEN Put(r.files, dest, v) ELSE r.files
  /\ q.created = IF f = "created" THEN r.created \cup {dest} ELSE r.created
  /\ q.updated = IF f = "updated" THEN r.updated \cup {dest} ELSE r.updated
  /\ q.kept = IF f = "kept" THEN r.kept \cup {dest} ELSE r.kept
  /\ q.blocked = IF f = "blocked" THEN r.blocked \cup {dest} ELSE r.blocked

LEMMA SettleEffect ==
  ASSUME NEW r, IsResult(r), NEW e, Sound(e), NEW reg, e.action \in {"blocked", "omit", "keep"}
  PROVE  Effected(r, Settle(r, e), e.dest, Effect(e, reg), Output(e, reg))
  <1>1. CASE e.action = "blocked"
    <2>1. Settle(r, e) = [r EXCEPT !.blocked = @ \cup {e.dest}]
      BY <1>1 DEF Settle
    <2>2. Effect(e, reg) = "blocked"
      BY <1>1 DEF Effect
    <2> QED BY <2>1, <2>2 DEF Effected, IsResult, Placed
  <1>2. CASE e.action = "omit"
    <2>1. Settle(r, e) = [r EXCEPT !.omitted = @ \cup {e.logical}]
      BY <1>2 DEF Settle
    <2>2. Effect(e, reg) = "none"
      BY <1>2 DEF Effect
    <2> QED BY <2>1, <2>2 DEF Effected, IsResult, Placed
  <1>3. CASE e.action = "keep" /\ e.content = None
    <2>1. Settle(r, e) = r
      BY <1>3 DEF Settle
    <2>2. Effect(e, reg) = "none"
      BY <1>3 DEF Effect
    <2> QED BY <2>1, <2>2 DEF Effected, IsResult, Placed
  <1>4. CASE e.action = "keep" /\ e.content # None
    <2>1. Settle(r, e) = [r EXCEPT !.files = Put(r.files, e.dest, e.content),
                                   !.kept = r.kept \cup {e.dest}]
      BY <1>4 DEF Settle
    <2>2. Effect(e, reg) = "kept" /\ Output(e, reg) = e.content
      BY <1>4 DEF Effect, Output
    <2> QED BY <2>1, <2>2 DEF Effected, IsResult, Placed
  <1> QED BY <1>1, <1>2, <1>3, <1>4

LEMMA RecordEffect ==
  ASSUME NEW r, IsResult(r), NEW e, Sound(e), NEW v, v # None
  PROVE  Effected(r, RecordTemplateApplyOutput(r, e, v), e.dest,
                  IF e.content = v THEN "kept" ELSE IF e.exists THEN "updated" ELSE "created", v)
  <1> DEFINE q == RecordTemplateApplyOutput(r, e, v)
             placed == [r EXCEPT !.files = Put(r.files, e.dest, v)]
  <1>1. /\ IsResult(placed) /\ placed.files = Put(r.files, e.dest, v)
        /\ placed.created = r.created /\ placed.updated = r.updated
        /\ placed.kept = r.kept /\ placed.blocked = r.blocked
    BY DEF IsResult
  <1>0. q = CASE e.exists /\ e.content = v -> [placed EXCEPT !.kept = @ \cup {e.dest}]
              [] e.exists /\ e.content # v -> [placed EXCEPT !.updated = @ \cup {e.dest}]
              [] ~e.exists -> [placed EXCEPT !.created = @ \cup {e.dest}]
    BY DEF RecordTemplateApplyOutput
  <1> HIDE DEF placed, q
  <1>2. CASE e.content = v
    <2>1. e.exists
      BY <1>2 DEF Sound
    <2>2. q = [placed EXCEPT !.kept = placed.kept \cup {e.dest}]
      BY <1>0, <1>2, <2>1
    <2> QED BY <1>1, <1>2, <2>2 DEF Effected, IsResult, Placed, q
  <1>3. CASE e.content # v /\ e.exists
    <2>1. q = [placed EXCEPT !.updated = placed.updated \cup {e.dest}]
      BY <1>0, <1>3
    <2> QED BY <1>1, <1>3, <2>1 DEF Effected, IsResult, Placed, q
  <1>4. CASE e.content # v /\ ~e.exists
    <2>1. q = [placed EXCEPT !.created = placed.created \cup {e.dest}]
      BY <1>0, <1>4
    <2> QED BY <1>1, <1>4, <2>1 DEF Effected, IsResult, Placed, q
  <1> QED BY <1>2, <1>3, <1>4

LEMMA ApplyEffect ==
  ASSUME NEW r, IsResult(r), NEW e, Sound(e), NEW reg
  PROVE  Effected(r, ApplyEntry(r, e, reg), e.dest, Effect(e, reg), Output(e, reg))
  <1> DEFINE v == Output(e, reg)
  <1>1. CASE e.action \in {"blocked", "omit", "keep"}
    <2>1. ApplyEntry(r, e, reg) = Settle(r, e)
      BY <1>1 DEF ApplyEntry
    <2> QED BY <1>1, <2>1, SettleEffect
  <1>2. CASE e.action \in {"raw_copy", "write", "merge"} /\ v # None
    <2>1. ApplyEntry(r, e, reg) = RecordTemplateApplyOutput(r, e, v)
      BY <1>2 DEF ApplyEntry, Output
    <2>2. Effect(e, reg) = IF e.content = v THEN "kept"
                           ELSE IF e.exists THEN "updated" ELSE "created"
      BY <1>2 DEF Effect
    <2> HIDE DEF v
    <2>3. Effected(r, RecordTemplateApplyOutput(r, e, v), e.dest,
                   IF e.content = v THEN "kept" ELSE IF e.exists THEN "updated" ELSE "created", v)
      BY <1>2, RecordEffect
    <2> QED BY <2>1, <2>2, <2>3 DEF v
  <1>3. CASE e.action \in {"raw_copy", "write", "merge"} /\ v = None
    <2>1. e.action = "merge" /\ e.content # None
      BY <1>3, ContentFacts DEF Output, Sound
    <2>2. ApplyEntry(r, e, reg) = [r EXCEPT !.blocked = r.blocked \cup {e.dest}]
      BY <1>3, <2>1 DEF ApplyEntry, Output
    <2>3. Effect(e, reg) = "blocked"
      BY <1>3, <2>1 DEF Effect
    <2> QED BY <2>2, <2>3 DEF Effected, IsResult, Placed
  <1> QED BY <1>1, <1>2, <1>3 DEF Sound, Actions

\* The preview leaves a merge with an existing destination out, and does with
\* every other entry what applying it does.
LEMMA PreviewEffect ==
  ASSUME NEW r, IsResult(r), NEW e, Sound(e), NEW reg
  PROVE  IF e.action = "merge" /\ e.content # None THEN PreviewEntry(r, e) = r
         ELSE Effected(r, PreviewEntry(r, e), e.dest, Effect(e, reg), Output(e, reg))
  <1>1. CASE e.action \in {"blocked", "omit", "keep"}
    <2>1. PreviewEntry(r, e) = Settle(r, e)
      BY <1>1 DEF PreviewEntry
    <2> QED BY <1>1, <2>1, SettleEffect
  <1>2. CASE e.action = "merge" /\ e.content # None
    BY <1>2 DEF PreviewEntry
  <1> DEFINE placed == [r EXCEPT !.files = Put(r.files, e.dest, e.prepared)]
  <1>3. /\ IsResult(placed) /\ placed.files = Put(r.files, e.dest, e.prepared)
        /\ placed.created = r.created /\ placed.updated = r.updated
        /\ placed.kept = r.kept /\ placed.blocked = r.blocked
    BY DEF IsResult
  <1>4. CASE e.action \in {"raw_copy", "write"} \/ (e.action = "merge" /\ e.content = None)
    <2>1. Output(e, reg) = e.prepared /\ e.prepared \in Contents /\ e.prepared # None
      BY <1>4, ContentFacts DEF Output, Sound
    <2>2. Effect(e, reg) = IF e.content = e.prepared THEN "kept"
                           ELSE IF e.exists THEN "updated" ELSE "created"
      BY <1>4, <2>1 DEF Effect
    <2>3. PreviewEntry(r, e) =
            IF e.content = e.prepared THEN [placed EXCEPT !.kept = placed.kept \cup {e.dest}]
            ELSE IF e.exists THEN [placed EXCEPT !.updated = placed.updated \cup {e.dest}]
            ELSE [placed EXCEPT !.created = placed.created \cup {e.dest}]
      BY <1>4, <2>1 DEF PreviewEntry, Sound
    <2> HIDE DEF placed
    <2> QED BY <1>3, <1>4, <2>1, <2>2, <2>3 DEF Effected, IsResult, Placed
  <1> QED BY <1>1, <1>2, <1>4 DEF Sound, Actions

-----------------------------------------------------------------------------
(* What all the entries do to the result *)

\* f lists the results of applying the entries of the plan one after the
\* other.
ApplySteps(f, plan, reg) ==
  /\ f[0] = NoResult /\ ApplyTemplateExecution(plan, reg) = f[Len(plan)]
  /\ \A k \in 0..(Len(plan) - 1) :
       Effected(f[k], f[k + 1], plan[k + 1].dest, Effect(plan[k + 1], reg), Output(plan[k + 1], reg))

LEMMA ApplyRun ==
  ASSUME NEW plan, SoundPlan(plan), NEW reg
  PROVE  \E f : ApplySteps(f, plan, reg)
  <1> DEFINE n == Len(plan)
             f == CHOOSE g : Applying(g, plan, reg, n)
             T == {k \in 0..n : IsResult(f[k])}
  <1>1. n \in Nat /\ \A k \in 1..n : Sound(plan[k])
    BY DEF SoundPlan
  <1>2. ApplyTemplateExecution(plan, reg) = f[n]
    BY DEF ApplyTemplateExecution, Applying
  <1> HIDE DEF n
  <1>3. Applying(f, plan, reg, n)
    <2>1. \E g : Applying(g, plan, reg, n)
      BY <1>1, ApplyingExists
    <2> QED BY <2>1
  <1> HIDE DEF f
  <1>4. f[0] = NoResult /\ IsResult(f[0])
    BY <1>1, <1>3 DEF Applying, NoResult, IsResult
  <1>5. ASSUME NEW k \in 0..(n - 1), k \in T
        PROVE  /\ k + 1 \in T
               /\ Effected(f[k], f[k + 1], plan[k + 1].dest, Effect(plan[k + 1], reg), Output(plan[k + 1], reg))
    <2>1. k + 1 \in 0..n /\ k + 1 \in 1..n /\ k + 1 # 0 /\ (k + 1) - 1 = k /\ IsResult(f[k])
      BY <1>1, <1>5
    <2>2. f[k + 1] = ApplyEntry(f[k], plan[k + 1], reg)
      BY <1>3, <2>1 DEF Applying
    <2>3. Effected(f[k], f[k + 1], plan[k + 1].dest, Effect(plan[k + 1], reg),
                   Output(plan[k + 1], reg))
      BY <1>1, <2>1, <2>2, ApplyEffect
    <2>4. IsResult(f[k + 1])
      BY <2>3 DEF Effected
    <2> QED BY <2>1, <2>3, <2>4
  <1>6. \A k \in 0..n : k \in T
    <2>1. 0 \in T
      BY <1>1, <1>4
    <2>2. \A k \in 0..(n - 1) : k \in T => k + 1 \in T
      BY <1>5
    <2> HIDE DEF T
    <2> QED BY <1>1, <2>1, <2>2, UpTo
  <1>7. \A k \in 0..(n - 1) : Effected(f[k], f[k + 1], plan[k + 1].dest, Effect(plan[k + 1], reg), Output(plan[k + 1], reg))
    <2>1. \A k \in 0..(n - 1) : k \in 0..n
      BY <1>1
    <2> QED BY <1>5, <1>6, <2>1
  <1>8. ApplySteps(f, plan, reg)
    BY <1>2, <1>4, <1>7 DEF ApplySteps, n
  <1> QED BY <1>8


\* And of previewing them.
Previewed(r, q, e, reg) ==
  IF e.action = "merge" /\ e.content # None THEN q = r
  ELSE Effected(r, q, e.dest, Effect(e, reg), Output(e, reg))

PreviewSteps(f, plan, reg) ==
  /\ f[0] = NoResult /\ PreviewTemplateExecution(plan) = f[Len(plan)]
  /\ \A k \in 0..(Len(plan) - 1) : Previewed(f[k], f[k + 1], plan[k + 1], reg)

LEMMA PreviewRun ==
  ASSUME NEW plan, SoundPlan(plan), NEW reg
  PROVE  \E f : PreviewSteps(f, plan, reg)
  <1> DEFINE n == Len(plan)
             f == CHOOSE g : Previewing(g, plan, n)
             T == {k \in 0..n : IsResult(f[k])}
  <1>1. n \in Nat /\ \A k \in 1..n : Sound(plan[k])
    BY DEF SoundPlan
  <1>2. PreviewTemplateExecution(plan) = f[n]
    BY DEF PreviewTemplateExecution, Previewing
  <1> HIDE DEF n
  <1>3. Previewing(f, plan, n)
    <2>1. \E g : Previewing(g, plan, n)
      BY <1>1, PreviewingExists
    <2> QED BY <2>1
  <1> HIDE DEF f
  <1>4. f[0] = NoResult /\ IsResult(f[0])
    BY <1>1, <1>3 DEF Previewing, NoResult, IsResult
  <1>5. ASSUME NEW k \in 0..(n - 1), k \in T
        PROVE  /\ k + 1 \in T
               /\ Previewed(f[k], f[k + 1], plan[k + 1], reg)
    <2>1. k + 1 \in 0..n /\ k + 1 \in 1..n /\ k + 1 # 0 /\ (k + 1) - 1 = k /\ IsResult(f[k])
      BY <1>1, <1>5
    <2>2. f[k + 1] = PreviewEntry(f[k], plan[k + 1])
      BY <1>3, <2>1 DEF Previewing
    <2>3. Previewed(f[k], f[k + 1], plan[k + 1], reg)
      <3>1. Sound(plan[k + 1])
        BY <1>1, <2>1
      <3> QED BY <2>1, <2>2, <3>1, PreviewEffect DEF Previewed
    <2>4. IsResult(f[k + 1])
      BY <2>1, <2>3 DEF Effected, Previewed
    <2> QED BY <2>1, <2>3, <2>4
  <1>6. \A k \in 0..n : k \in T
    <2>1. 0 \in T
      BY <1>1, <1>4
    <2>2. \A k \in 0..(n - 1) : k \in T => k + 1 \in T
      BY <1>5
    <2> HIDE DEF T
    <2> QED BY <1>1, <2>1, <2>2, UpTo
  <1>7. \A k \in 0..(n - 1) : Previewed(f[k], f[k + 1], plan[k + 1], reg)
    <2>1. \A k \in 0..(n - 1) : k \in 0..n
      BY <1>1
    <2> QED BY <1>5, <1>6, <2>1
  <1>8. PreviewSteps(f, plan, reg)
    BY <1>2, <1>4, <1>7 DEF PreviewSteps, n
  <1> QED BY <1>8

\* Results agree on a path.
AgreeAt(r, q, path) ==
  /\ Same(r.files, q.files, path)
  /\ path \in r.created <=> path \in q.created
  /\ path \in r.updated <=> path \in q.updated
  /\ path \in r.kept <=> path \in q.kept
  /\ path \in r.blocked <=> path \in q.blocked

\* An entry does nothing to the destination of another.
LEMMA EffectIsLocal ==
  ASSUME NEW r, NEW q, NEW dest, NEW f, NEW v, Effected(r, q, dest, f, v), NEW path, path # dest
  PROVE  AgreeAt(r, q, path)
  BY DEF Effected, AgreeAt, Same, Put

\* And the same to its own, whatever else the results say.
LEMMA EffectIsUniform ==
  ASSUME NEW r1, NEW q1, NEW r2, NEW q2, NEW dest, NEW f, NEW v,
         Effected(r1, q1, dest, f, v), Effected(r2, q2, dest, f, v), AgreeAt(r1, r2, dest)
  PROVE  AgreeAt(q1, q2, dest)
  BY DEF Effected, AgreeAt, Same, Put

LEMMA AgreeTransitive ==
  ASSUME NEW r, NEW q, NEW p, NEW path
  PROVE  /\ AgreeAt(r, r, path)
         /\ AgreeAt(r, q, path) => AgreeAt(q, r, path)
         /\ AgreeAt(r, q, path) /\ AgreeAt(q, p, path) => AgreeAt(r, p, path)
  BY DEF AgreeAt, Same

\* Preview and application agree on every path without a merge.
LEMMA PreviewMeetsApply ==
  ASSUME NEW plan, SoundPlan(plan), NEW reg, NEW path,
         \A k \in 1..Len(plan) : plan[k].dest = path
                                  => plan[k].action # "merge" \/ plan[k].content = None
  PROVE  AgreeAt(PreviewTemplateExecution(plan), ApplyTemplateExecution(plan, reg), path)
  <1> DEFINE n == Len(plan)
  <1>1. n \in Nat
    BY DEF SoundPlan
  <1>2. PICK f : ApplySteps(f, plan, reg)
    BY ApplyRun
  <1>3. PICK g : PreviewSteps(g, plan, reg)
    BY PreviewRun
  <1> DEFINE T == {k \in 0..n : AgreeAt(g[k], f[k], path)}
  <1>4. 0 \in T
    BY <1>1, <1>2, <1>3, AgreeTransitive DEF ApplySteps, PreviewSteps
  <1>5. ASSUME NEW k \in 0..(n - 1), k \in T PROVE k + 1 \in T
    <2> DEFINE e == plan[k + 1]
    <2>1. k + 1 \in 0..n /\ k + 1 \in 1..n /\ AgreeAt(g[k], f[k], path)
      BY <1>1, <1>5
    <2>2. Effected(f[k], f[k + 1], e.dest, Effect(e, reg), Output(e, reg))
      BY <1>2 DEF ApplySteps
    <2>3. Previewed(g[k], g[k + 1], e, reg)
      BY <1>3 DEF PreviewSteps
    <2>4. CASE e.dest # path
      <3>1. AgreeAt(f[k], f[k + 1], path)
        BY <2>2, <2>4, EffectIsLocal
      <3>2. AgreeAt(g[k], g[k + 1], path)
        BY <2>3, <2>4, EffectIsLocal, AgreeTransitive DEF Previewed
      <3>3. AgreeAt(g[k + 1], g[k], path)
        BY <3>2, AgreeTransitive
      <3>4. AgreeAt(g[k + 1], f[k], path)
        BY <2>1, <3>3, AgreeTransitive
      <3>5. AgreeAt(g[k + 1], f[k + 1], path)
        BY <3>1, <3>4, AgreeTransitive
      <3> QED BY <2>1, <3>5
    <2>5. CASE e.dest = path
      <3>1. Effected(g[k], g[k + 1], e.dest, Effect(e, reg), Output(e, reg))
        BY <2>1, <2>3, <2>5 DEF Previewed
      <3> HIDE DEF e
      <3>2. AgreeAt(g[k + 1], f[k + 1], path)
        BY <2>1, <2>2, <2>5, <3>1, EffectIsUniform
      <3> QED BY <2>1, <3>2
    <2> QED BY <2>4, <2>5
  <1>6. \A k \in 0..n : k \in T
    <2> HIDE DEF T, n
    <2>1. \A k \in 0..(n - 1) : k \in T => k + 1 \in T
      BY <1>5
    <2> QED BY <1>1, <1>4, <2>1, UpTo
  <1>7. AgreeAt(g[n], f[n], path)
    BY <1>1, <1>6
  <1> QED BY <1>2, <1>3, <1>7 DEF ApplySteps, PreviewSteps

\* What is placed is a content.
LEMMA OutputIsContent ==
  ASSUME NEW e, Sound(e), NEW reg, Effect(e, reg) \in Placed
  PROVE  Output(e, reg) \in Contents
  <1>1. /\ e.action \notin {"omit", "blocked"} /\ Output(e, reg) # None
        /\ e.prepared \in Contents /\ e.content \in Contents \cup {None}
    BY DEF Effect, Placed, Sound
  <1>2. CASE e.action = "merge" /\ e.content # None
    <2>1. e.family \in reg /\ ~Refuses(e)
      BY <1>1, <1>2 DEF Output, MergePreparedContentFromRegistry
    <2>2. Merged(e, MergePreparedContentFromRegistry(e, reg))
      BY <1>1, <1>2, <2>1, MergedIsContent
    <2> QED BY <1>2, <2>2 DEF Output, Merged
  <1>3. CASE ~(e.action = "merge" /\ e.content # None)
    BY <1>1, <1>3 DEF Output
  <1> QED BY <1>2, <1>3

\* The lists and files of a result come from its entries.
Accounted(r, plan, reg, k) ==
  /\ IsTree(r.files)
  /\ r.created \cup r.updated \subseteq DOMAIN r.files
  /\ \A p \in r.created \cup r.updated :
       \E j \in 1..k : plan[j].dest = p /\ Effect(plan[j], reg) \in {"created", "updated"}
  /\ \A p \in r.blocked :
       \E j \in 1..k : plan[j].dest = p /\ Effect(plan[j], reg) = "blocked"

LEMMA ResultIsAccounted ==
  ASSUME NEW plan, SoundPlan(plan), NEW reg
  PROVE  Accounted(ApplyTemplateExecution(plan, reg), plan, reg, Len(plan))
  <1> DEFINE n == Len(plan)
  <1>1. n \in Nat /\ \A k \in 1..n : Sound(plan[k])
    BY DEF SoundPlan
  <1>2. PICK f : ApplySteps(f, plan, reg)
    BY ApplyRun
  <1> DEFINE T == {k \in 0..n : Accounted(f[k], plan, reg, k)}
  <1>3. 0 \in T
    <2>1. Accounted(NoResult, plan, reg, 0)
      BY DEF Accounted, NoResult, IsTree
    <2> QED BY <1>1, <1>2, <2>1 DEF ApplySteps
  <1>4. ASSUME NEW k \in 0..(n - 1), k \in T PROVE k + 1 \in T
    <2> DEFINE e == plan[k + 1]
               x == Effect(e, reg)
               v == Output(e, reg)
               r == f[k]
               q == f[k + 1]
    <2>1. k + 1 \in 0..n /\ k + 1 \in 1..n /\ Accounted(r, plan, reg, k)
          /\ k + 1 \in 1..(k + 1) /\ \A j \in 1..k : j \in 1..(k + 1)
      BY <1>1, <1>4
    <2>2. Effected(r, q, e.dest, x, v)
      BY <1>2 DEF ApplySteps
    <2>3. x \in Placed => v \in Contents
      BY <1>1, <2>1, OutputIsContent
    <2> HIDE DEF r, q, v
    <2>4. IsTree(q.files) /\ DOMAIN r.files \subseteq DOMAIN q.files
          /\ (x \in Placed => e.dest \in DOMAIN q.files)
      BY <2>1, <2>2, <2>3 DEF Effected, Put, IsTree, Accounted
    <2> HIDE DEF x
    <2>5. ASSUME NEW p \in q.created \cup q.updated
          PROVE  /\ p \in DOMAIN q.files
                 /\ \E j \in 1..(k + 1) : /\ plan[j].dest = p
                                          /\ Effect(plan[j], reg) \in {"created", "updated"}
      <3>1. CASE p \in r.created \cup r.updated
        BY <2>1, <2>4, <3>1 DEF Accounted
      <3>2. CASE p \notin r.created \cup r.updated
        <4>1. p = e.dest /\ x \in {"created", "updated"}
          BY <2>2, <3>2 DEF Effected
        <4> QED BY <2>1, <2>4, <4>1 DEF Placed, x
      <3> QED BY <3>1, <3>2
    <2>6. ASSUME NEW p \in q.blocked
          PROVE  \E j \in 1..(k + 1) : plan[j].dest = p /\ Effect(plan[j], reg) = "blocked"
      <3>1. CASE p \in r.blocked
        BY <2>1, <3>1 DEF Accounted
      <3>2. CASE p \notin r.blocked
        <4>1. p = e.dest /\ x = "blocked"
          BY <2>2, <3>2 DEF Effected
        <4> QED BY <2>1, <4>1 DEF x
      <3> QED BY <3>1, <3>2
    <2>7. Accounted(q, plan, reg, k + 1)
      BY <2>4, <2>5, <2>6 DEF Accounted
    <2> QED BY <2>1, <2>7 DEF q
  <1>5. \A k \in 0..n : k \in T
    <2> HIDE DEF T, n
    <2>1. \A k \in 0..(n - 1) : k \in T => k + 1 \in T
      BY <1>4
    <2> QED BY <1>1, <1>3, <2>1, UpTo
  <1>6. Accounted(f[n], plan, reg, n)
    BY <1>1, <1>5
  <1> QED BY <1>2, <1>6 DEF ApplySteps

\* No list has the path; or the lists have it that its effect says.
Blank(r, path) == /\ path \notin r.created /\ path \notin r.updated
                  /\ path \notin r.kept /\ path \notin r.blocked
Recorded(r, path, f, v) ==
  /\ path \in r.created <=> f = "created"
  /\ path \in r.updated <=> f = "updated"
  /\ path \in r.kept <=> f = "kept"
  /\ path \in r.blocked <=> f = "blocked"
  /\ f \in Placed => path \in DOMAIN r.files /\ r.files[path] = v

LEMMA EffectIsRecorded ==
  ASSUME NEW r, NEW q, NEW path, NEW f, NEW v, Effected(r, q, path, f, v),
         Blank(r, path) \/ Recorded(r, path, f, v)
  PROVE  Recorded(q, path, f, v)
  BY DEF Effected, Blank, Recorded, Placed, Put

LEMMA AgreeMeansAlike ==
  ASSUME NEW r, NEW q, NEW path, AgreeAt(r, q, path), NEW f, NEW v
  PROVE  /\ Blank(r, path) => Blank(q, path)
         /\ Recorded(r, path, f, v) => Recorded(q, path, f, v)
  BY DEF AgreeAt, Same, Blank, Recorded

\* A destination that one template has to itself is recorded as that
\* template's entry says, and one that no template has is not recorded.
LEMMA ResultAt ==
  ASSUME NEW plan, SoundPlan(plan), NEW reg, NEW path, NEW e,
         \A k \in 1..Len(plan) : plan[k].dest = path => plan[k] = e
  PROVE  LET r == ApplyTemplateExecution(plan, reg)
         IN  IF \E k \in 1..Len(plan) : plan[k].dest = path
             THEN Recorded(r, path, Effect(e, reg), Output(e, reg))
             ELSE Blank(r, path)
  <1> DEFINE n == Len(plan)
             x == Effect(e, reg)
             v == Output(e, reg)
             Seen(k) == \E j \in 1..k : plan[j].dest = path
  <1>1. n \in Nat /\ \A k \in 1..n : plan[k].dest = path => plan[k] = e
    BY DEF SoundPlan
  <1>2. PICK f : ApplySteps(f, plan, reg)
    BY ApplyRun
  <1> DEFINE T == {k \in 0..n : IF Seen(k) THEN Recorded(f[k], path, x, v)
                                ELSE Blank(f[k], path)}
  <1>3. 0 \in T
    <2>1. Blank(NoResult, path) /\ ~Seen(0)
      BY DEF Blank, NoResult
    <2> QED BY <1>1, <1>2, <2>1 DEF ApplySteps
  <1>4. ASSUME NEW k \in 0..(n - 1), k \in T PROVE k + 1 \in T
    <2>1. k + 1 \in 0..n /\ k + 1 \in 1..n /\ 1..(k + 1) = 1..k \cup {k + 1}
      BY <1>1
    <2>2. Effected(f[k], f[k + 1], plan[k + 1].dest, Effect(plan[k + 1], reg),
                   Output(plan[k + 1], reg))
      BY <1>2 DEF ApplySteps
    <2>3. Seen(k + 1) <=> Seen(k) \/ plan[k + 1].dest = path
      BY <2>1
    <2>4. IF Seen(k) THEN Recorded(f[k], path, x, v) ELSE Blank(f[k], path)
      BY <1>4
    <2> HIDE DEF Seen, x, v
    <2>5. CASE plan[k + 1].dest # path
      <3>1. AgreeAt(f[k], f[k + 1], path)
        BY <2>2, <2>5, EffectIsLocal
      <3>2. /\ Blank(f[k], path) => Blank(f[k + 1], path)
            /\ Recorded(f[k], path, x, v) => Recorded(f[k + 1], path, x, v)
        BY <3>1, AgreeMeansAlike
      <3> QED BY <2>1, <2>3, <2>4, <2>5, <3>2
    <2>6. CASE plan[k + 1].dest = path
      <3>1. Effected(f[k], f[k + 1], path, x, v)
        BY <1>1, <2>1, <2>2, <2>6 DEF x, v
      <3>2. Recorded(f[k + 1], path, x, v)
        BY <2>4, <3>1, EffectIsRecorded
      <3> QED BY <2>1, <2>3, <2>6, <3>2
    <2> QED BY <2>5, <2>6
  <1>5. \A k \in 0..n : k \in T
    <2> HIDE DEF T, n
    <2>1. \A k \in 0..(n - 1) : k \in T => k + 1 \in T
      BY <1>4
    <2> QED BY <1>1, <1>3, <2>1, UpTo
  <1>6. IF Seen(n) THEN Recorded(f[n], path, x, v) ELSE Blank(f[n], path)
    BY <1>1, <1>5
  <1> QED BY <1>2, <1>6 DEF ApplySteps

-----------------------------------------------------------------------------
(* The invariant of a session *)

\* The session that is writing, or that has just ended without an error.
Active == session # None \/ outcome.kind = "applied"
Plan   == IF session # None THEN session.plan ELSE outcome.plan
Result == IF session # None THEN session.result ELSE outcome.result
Todo   == IF session # None THEN session.todo ELSE {}
Changed == Result.created \cup Result.updated

\* Plan and result are those of the tree that was read; the view is this
\* tree but for the edits.
FromReading ==
  \E tree : /\ IsTree(tree) /\ Plan = PlanOf(tree)
            /\ Result = ApplyTemplateExecution(Plan, Registry(Options))
            /\ \A d : d \notin edited => Same(tree, view, d)
\* A path the session does not write, or has not written yet, is as the user
\* sees it;
Untouched == \A d : (d \notin Changed \/ d \in Todo) => Same(files, view, d)
\* one it has written is as planned.
Done == \A d \in Changed : (d \notin Todo /\ d \notin edited)
                           => d \in DOMAIN files /\ files[d] = Result.files[d]

SessionTyped ==
  session # None => /\ DOMAIN session = {"plan", "result", "writes", "todo"}
                    /\ session.writes = FilesToWrite(session.result)
                    /\ session.todo \subseteq Changed
                    /\ outcome.kind # "applied"
Reported ==
  outcome.kind = "applied" => /\ outcome.status = SessionStatus(Plan, Result, Options)
                              /\ outcome.diagnostics = SessionDiagnostics(Plan, Result, Options)
Inspected ==
  inspected # None => /\ Ready
                      /\ \E tree : /\ IsTree(tree)
                                   /\ inspected = SessionStatus(PlanOf(tree), None, Options)

SessionInv ==
  /\ setup \in Setups /\ IsTree(files)
  /\ SessionTyped /\ Reported /\ Inspected
  /\ Active => Ready /\ FromReading /\ Untouched /\ Done

LEMMA SetupStays ==
  ASSUME setup' = setup
  PROVE  /\ Ready' <=> Ready
         /\ Options' = Options
         /\ \A tree : PlanOf(tree)' = PlanOf(tree)
  BY DEF Ready, Options, PlanOf

LEMMA PutFacts ==
  ASSUME NEW a, NEW b, NEW path, NEW c, NEW d
  PROVE  /\ Same(a, b, d) => Same(Put(a, path, c), Put(b, path, c), d)
         /\ d # path => (Same(a, b, d) <=> Same(a, Put(b, path, c), d))
         /\ d # path => (Same(a, b, d) <=> Same(Put(a, path, c), b, d))
         /\ IsTree(a) /\ c \in Contents => IsTree(Put(a, path, c))
  BY DEF Same, Put, IsTree

\* The files of a session are contents, one for every path it changes.
LEMMA WritesFacts ==
  ASSUME SessionInv, session # None
  PROVE  /\ IsTree(session.writes) /\ DOMAIN session.writes = Changed
         /\ \A d \in Changed : session.writes[d] = Result.files[d]
  <1>1. PICK tree : /\ IsTree(tree) /\ Plan = PlanOf(tree)
                    /\ Result = ApplyTemplateExecution(Plan, Registry(Options))
    BY DEF SessionInv, Active, FromReading
  <1>2. SoundPlan(Plan)
    BY <1>1, PlanIsSound DEF SessionInv, Active
  <1>3. Accounted(Result, Plan, Registry(Options), Len(Plan))
    BY <1>1, <1>2, ResultIsAccounted
  <1>4. session.writes = FilesToWrite(Result)
    BY DEF SessionInv, SessionTyped, Result
  <1> QED BY <1>3, <1>4 DEF FilesToWrite, Accounted, Changed, IsTree

LEMMA SessionInit == ASSUME Init PROVE SessionInv
  BY SetupAssumption DEF Init, SessionInv, SessionTyped, Reported, Inspected, Active

\* Steps that end in no active session.
LEMMA InactiveInv ==
  ASSUME SessionInv, setup' = setup, IsTree(files'), session' = None, outcome'.kind # "applied",
         inspected' \in {inspected, None}
  PROVE  SessionInv'
  <1>1. ~Active' /\ SessionTyped' /\ Reported'
    BY DEF Active, SessionTyped, Reported
  <1>2. Inspected'
    BY SetupStays DEF SessionInv, Inspected
  <1> QED BY <1>1, <1>2 DEF SessionInv

LEMMA ReturnsInv == ASSUME SessionInv, Fail \/ Refuse \/ RunPlan PROVE SessionInv'
  <1>1. /\ setup' = setup /\ files' = files /\ session' = None /\ inspected' = inspected
        /\ outcome'.kind # "applied"
    BY DEF Fail, Refuse, RunPlan, Start, Unwritten, Failure, Refusal, Outcome
  <1> QED BY <1>1, InactiveInv DEF SessionInv

LEMMA InspectInv == ASSUME SessionInv, Inspect PROVE SessionInv'
  <1>1. /\ setup' = setup /\ files' = files /\ session' = None /\ Ready
        /\ outcome' = Outcome("inspection", "plan", PlanOf(files), None)
        /\ inspected' = outcome'.status
    BY DEF Inspect, Start, Unwritten
  <1>2. outcome'.kind # "applied" /\ inspected' = SessionStatus(PlanOf(files), None, Options)
    BY <1>1 DEF Outcome
  <1>3. ~Active' /\ SessionTyped' /\ Reported'
    BY <1>1, <1>2 DEF Active, SessionTyped, Reported
  <1>4. Inspected'
    <2>1. Ready' /\ Options' = Options /\ \A tree : PlanOf(tree)' = PlanOf(tree)
      BY <1>1, SetupStays
    <2>2. IsTree(files)
      BY DEF SessionInv
    <2>3. \E tree : IsTree(tree) /\ inspected' = SessionStatus(PlanOf(tree)', None, Options')
      BY <1>2, <2>1, <2>2
    <2> QED BY <2>1, <2>3 DEF Inspected, SessionStatus, MissingFamilies
  <1> QED BY <1>1, <1>3, <1>4 DEF SessionInv

LEMMA RunApplyInv == ASSUME SessionInv, RunApply PROVE SessionInv'
  <1> DEFINE plan == PlanOf(files)
             result == ApplyTemplateExecution(plan, Registry(Options))
             writes == FilesToWrite(result)
  <1>1. /\ setup' = setup /\ files' = files /\ view' = files /\ inspected' = inspected
        /\ Ready /\ outcome' = [kind |-> "none"]
        /\ session' = [plan |-> plan, result |-> result, writes |-> writes,
                       todo |-> DOMAIN writes]
    BY DEF RunApply, Start
  <1>2. Ready' /\ Options' = Options /\ \A tree : PlanOf(tree)' = PlanOf(tree)
    BY <1>1, SetupStays
  <1>3. outcome'.kind # "applied" /\ Reported'
    BY <1>1 DEF Reported
  <1>4. Inspected'
    BY <1>1, SetupStays DEF SessionInv, Inspected
  <1>5. DOMAIN writes \subseteq result.created \cup result.updated
    BY DEF FilesToWrite
  <1>6. ASSUME session' # None
        PROVE  SessionTyped' /\ Ready' /\ FromReading' /\ Untouched' /\ Done'
    <2>1. Plan' = plan /\ Result' = result /\ Todo' = DOMAIN writes
          /\ session'.writes = FilesToWrite(session'.result)
          /\ DOMAIN session' = {"plan", "result", "writes", "todo"}
      <3> HIDE DEF plan, result, writes
      <3>1. Plan' = session'.plan /\ Result' = session'.result /\ Todo' = session'.todo
        BY <1>6 DEF Plan, Result, Todo
      <3> QED BY <1>1, <3>1 DEF writes
    <2>2. Changed' = result.created \cup result.updated
      BY <2>1 DEF Changed
    <2>3. SessionTyped'
      BY <1>3, <1>5, <1>6, <2>1, <2>2 DEF SessionTyped, Todo
    <2>4. FromReading'
      <3>1. IsTree(files) /\ Plan' = PlanOf(files) /\ \A d : Same(files, view', d)
        BY <1>1, <2>1 DEF SessionInv, Same
      <3>2. Plan' = plan /\ Result' = ApplyTemplateExecution(Plan', Registry(Options'))
        BY <1>2, <2>1
      <3> HIDE DEF plan, result, writes
      <3> QED BY <1>2, <3>1, <3>2 DEF FromReading
    <2>5. Untouched'
      BY <1>1 DEF Untouched, Same
    <2>6. Accounted(result, plan, Registry(Options), Len(plan))
      BY <1>1, PlanIsSound, ResultIsAccounted DEF SessionInv
    <2>7. Changed' \subseteq Todo'
      BY <2>1, <2>2, <2>6 DEF FilesToWrite, Accounted
    <2>8. Done'
      BY <2>7 DEF Done
    <2> QED BY <1>2, <2>3, <2>4, <2>5, <2>8
  <1>7. CASE session' = None
    <2>1. ~Active' /\ SessionTyped'
      BY <1>3, <1>7 DEF Active, SessionTyped
    <2> QED BY <1>1, <1>3, <1>4, <2>1 DEF SessionInv
  <1> QED BY <1>1, <1>3, <1>4, <1>6, <1>7 DEF SessionInv

LEMMA DueIsPending == ASSUME NEW path, Due(path) PROVE path \in session.todo
  BY DEF Due

LEMMA WriteNextInv == ASSUME SessionInv, NEW path, WriteNext(path) PROVE SessionInv'
  <1>1. /\ session # None /\ path \in session.todo
        /\ setup' = setup /\ outcome' = outcome /\ view' = view /\ edited' = edited
        /\ inspected' = inspected
        /\ files' = Put(files, path, session.writes[path])
        /\ session' = [session EXCEPT !.todo = session.todo \ {path}]
    BY DueIsPending DEF WriteNext
  <1>2. /\ DOMAIN session = {"plan", "result", "writes", "todo"}
        /\ session.writes = FilesToWrite(session.result)
        /\ session.todo \subseteq Changed /\ outcome.kind # "applied"
    BY <1>1 DEF SessionInv, SessionTyped
  <1>3. Active /\ Ready /\ FromReading /\ Untouched /\ Done
    BY <1>1 DEF SessionInv, Active
  <1>4. /\ IsTree(session.writes) /\ DOMAIN session.writes = Changed
        /\ \A d \in Changed : session.writes[d] = Result.files[d]
    BY <1>1, WritesFacts
  <1>5. path \in Changed /\ session.writes[path] \in Contents
        /\ session.writes[path] = Result.files[path]
    BY <1>1, <1>2, <1>4 DEF IsTree
  <1>6. IsTree(files')
    BY <1>1, <1>5, PutFacts DEF SessionInv
  <1>7. /\ session'.plan = session.plan /\ session'.result = session.result
        /\ session'.writes = session.writes /\ session'.todo = session.todo \ {path}
        /\ DOMAIN session' = {"plan", "result", "writes", "todo"}
    BY <1>1, <1>2
  <1>8. Ready' /\ Options' = Options /\ \A tree : PlanOf(tree)' = PlanOf(tree)
    BY <1>1, <1>3, SetupStays
  <1>9. Reported' /\ Inspected'
    <2>1. Inspected'
      BY <1>1, SetupStays DEF SessionInv, Inspected
    <2> QED BY <1>1, <1>2, <2>1 DEF Reported
  <1>10. ASSUME session' # None
         PROVE  SessionTyped' /\ FromReading' /\ Untouched' /\ Done'
    <2>1. Plan' = Plan /\ Result' = Result /\ Todo' = Todo \ {path} /\ Todo = session.todo
      BY <1>1, <1>7, <1>10 DEF Plan, Result, Todo
    <2>2. Changed' = Changed
      BY <2>1 DEF Changed
    <2>3. SessionTyped'
      BY <1>1, <1>2, <1>7, <2>2 DEF SessionTyped
    <2>4. FromReading'
      BY <1>1, <1>3, <1>8, <2>1 DEF FromReading
    <2>5. Untouched'
      <3> SUFFICES ASSUME NEW d, d \notin Changed \/ d \in Todo \ {path}
                   PROVE  Same(files', view', d)
        BY <2>1, <2>2 DEF Untouched
      <3>1. d # path /\ Same(files, view, d)
        BY <1>3, <1>5 DEF Untouched
      <3> QED BY <1>1, <3>1, PutFacts
    <2>6. Done'
      <3> SUFFICES ASSUME NEW d \in Changed, d \notin Todo \ {path}, d \notin edited
                   PROVE  d \in DOMAIN files' /\ files'[d] = Result.files[d]
        BY <1>1, <2>1, <2>2 DEF Done
      <3>1. CASE d = path
        BY <1>1, <1>5, <3>1 DEF Put
      <3>2. CASE d # path
        <4>1. d \in DOMAIN files /\ files[d] = Result.files[d]
          BY <1>3, <3>2 DEF Done
        <4> QED BY <1>1, <3>2, <4>1 DEF Put
      <3> QED BY <3>1, <3>2
    <2> QED BY <2>3, <2>4, <2>5, <2>6
  <1>11. CASE session' = None
    <2>1. ~Active' /\ SessionTyped'
      BY <1>1, <1>2, <1>11 DEF Active, SessionTyped
    <2> QED BY <1>1, <1>6, <1>9, <2>1 DEF SessionInv
  <1> QED BY <1>1, <1>6, <1>8, <1>9, <1>10, <1>11 DEF SessionInv

LEMMA WriteFailsInv == ASSUME SessionInv, WriteFails PROVE SessionInv'
  <1>1. /\ setup' = setup /\ files' = files /\ session' = None /\ inspected' = None
        /\ outcome'.kind # "applied"
    BY DEF WriteFails, Failure
  <1> QED BY <1>1, InactiveInv DEF SessionInv

\* A file that is cut short holds a content.
LEMMA CutIsContent ==
  ASSUME NEW c \in Contents, NEW n \in 0..(Len(c) - 1), NEW cut \in {<<>>, <<Bad>>}
  PROVE  SubSeq(c, 1, n) \o cut \in Contents
  <1>1. c \in Seq(Atoms) /\ Len(c) \in Nat /\ n \in Nat /\ n <= Len(c)
    BY DEF Contents
  <1>2. SubSeq(c, 1, n) \in Seq(Atoms)
    BY <1>1
  <1>3. Bad \in Atoms
    BY ContentAssumption
  <1>4. <<>> \in Seq(Atoms) /\ <<Bad>> \in Seq(Atoms)
    BY <1>3
  <1>5. ASSUME NEW s \in Seq(Atoms), NEW t \in Seq(Atoms) PROVE s \o t \in Seq(Atoms)
    OBVIOUS
  <1>6. cut \in Seq(Atoms)
    <2>1. CASE cut = <<>>
      BY <1>4, <2>1
    <2>2. CASE cut = <<Bad>>
      BY <1>4, <2>2, Zenon
    <2> QED BY <2>1, <2>2, Zenon
  <1>7. SubSeq(c, 1, n) \o cut \in Seq(Atoms)
    BY <1>2, <1>5, <1>6, Zenon
  <1> QED BY <1>7 DEF Contents

LEMMA WriteTornInv == ASSUME SessionInv, NEW path, WriteTorn(path) PROVE SessionInv'
  <1>1. /\ session # None /\ path \in session.todo /\ setup' = setup
        /\ session' = None /\ inspected' = None /\ outcome'.kind # "applied"
    BY DueIsPending DEF WriteTorn, Failure
  <1>2. session.writes[path] \in Contents
    BY <1>1, WritesFacts DEF SessionInv, SessionTyped, IsTree
  <1>3. \E n \in 0..(Len(session.writes[path]) - 1), cut \in {<<>>, <<Bad>>} :
          files' = Put(files, path, SubSeq(session.writes[path], 1, n) \o cut)
    BY DEF WriteTorn
  <1>4. \E c \in Contents : files' = Put(files, path, c)
    BY <1>2, <1>3, CutIsContent
  <1>5. IsTree(files')
    BY <1>4, PutFacts DEF SessionInv
  <1> QED BY <1>1, <1>5, InactiveInv

LEMMA FinishInv == ASSUME SessionInv, Finish PROVE SessionInv'
  <1>1. /\ session # None /\ session.todo = {} /\ session' = None
        /\ setup' = setup /\ files' = files /\ view' = view /\ edited' = edited
        /\ inspected' = inspected
        /\ outcome' = Outcome("applied", Options.mode, session.plan, session.result)
    BY DEF Finish
  <1>2. /\ outcome'.kind = "applied" /\ outcome'.plan = session.plan
        /\ outcome'.result = session.result
        /\ outcome'.status = SessionStatus(session.plan, session.result, Options)
        /\ outcome'.diagnostics = SessionDiagnostics(session.plan, session.result, Options)
    BY <1>1 DEF Outcome
  <1>3. Active /\ Ready /\ FromReading /\ Untouched /\ Done
    BY <1>1 DEF SessionInv, Active
  <1>4. Plan' = Plan /\ Result' = Result /\ Todo' = Todo /\ Plan = session.plan
        /\ Result = session.result
    BY <1>1, <1>2 DEF Plan, Result, Todo
  <1>5. Changed' = Changed
    BY <1>4 DEF Changed
  <1>6. Ready' /\ Options' = Options /\ \A tree : PlanOf(tree)' = PlanOf(tree)
    BY <1>1, <1>3, SetupStays
  <1>7. SessionTyped'
    BY <1>1 DEF SessionTyped
  <1>8. Reported'
    <2>1. outcome'.status = SessionStatus(Plan', Result', Options')
          /\ outcome'.diagnostics = SessionDiagnostics(Plan', Result', Options')
      BY <1>2, <1>4, <1>6
    <2> QED BY <2>1 DEF Reported, SessionStatus, SessionDiagnostics, MissingFamilies
  <1>9. Inspected'
    BY <1>1, SetupStays DEF SessionInv, Inspected
  <1>10. FromReading'
    BY <1>1, <1>3, <1>4, <1>6 DEF FromReading
  <1>11. Untouched' /\ Done'
    BY <1>1, <1>3, <1>4, <1>5 DEF Untouched, Done
  <1> QED BY <1>1, <1>6, <1>7, <1>8, <1>9, <1>10, <1>11 DEF SessionInv

LEMMA EditInv == ASSUME SessionInv, NEW path, Edit(path) PROVE SessionInv'
  <1> DEFINE c == <<UserEdit>>
  <1>1. /\ files' = Put(files, path, c) /\ view' = Put(view, path, c)
        /\ edited' = edited \cup {path} /\ inspected' = None
        /\ outcome' = [kind |-> "none"] /\ setup' = setup /\ session' = session
    BY DEF Edit
  <1>2. c \in Contents
    BY SetupAssumption DEF Contents
  <1> HIDE DEF c
  <1>3. IsTree(files')
    BY <1>1, <1>2, PutFacts DEF SessionInv
  <1>4. CASE session = None
    <2>1. outcome'.kind # "applied"
      BY <1>1
    <2> QED BY <1>1, <1>3, <1>4, <2>1, InactiveInv
  <1>5. CASE session # None
    <2>1. Active /\ Ready /\ FromReading /\ Untouched /\ Done
      BY <1>5 DEF SessionInv, Active
    <2>2. Plan' = Plan /\ Result' = Result /\ Todo' = Todo
      BY <1>1, <1>5 DEF Plan, Result, Todo
    <2>3. Changed' = Changed
      BY <2>2 DEF Changed
    <2>4. Ready' /\ Options' = Options /\ \A tree : PlanOf(tree)' = PlanOf(tree)
      BY <1>1, <2>1, SetupStays
    <2>5. outcome'.kind # "applied"
      BY <1>1
    <2>6. SessionTyped' /\ Reported' /\ Inspected'
      BY <1>1, <1>5, <2>3, <2>5 DEF SessionInv, SessionTyped, Reported, Inspected
    <2>7. FromReading'
      <3>1. PICK tree : /\ IsTree(tree) /\ Plan = PlanOf(tree)
                        /\ Result = ApplyTemplateExecution(Plan, Registry(Options))
                        /\ \A d : d \notin edited => Same(tree, view, d)
        BY <2>1 DEF FromReading
      <3>2. \A d : d \notin edited' => Same(tree, view', d)
        BY <1>1, <3>1, PutFacts
      <3>3. Plan' = PlanOf(tree)' /\ Result' = ApplyTemplateExecution(Plan', Registry(Options'))
        BY <2>2, <2>4, <3>1
      <3> QED BY <3>1, <3>2, <3>3 DEF FromReading
    <2>8. Untouched'
      BY <1>1, <2>1, <2>2, <2>3, PutFacts DEF Untouched
    <2>9. Done'
      <3> SUFFICES ASSUME NEW d \in Changed, d \notin Todo, d \notin edited, d # path
                   PROVE  d \in DOMAIN files' /\ files'[d] = Result.files[d]
        BY <1>1, <2>2, <2>3 DEF Done
      <3>1. d \in DOMAIN files /\ files[d] = Result.files[d]
        BY <2>1 DEF Done
      <3> QED BY <1>1, <3>1 DEF Put
    <2> QED BY <1>1, <1>3, <2>4, <2>6, <2>7, <2>8, <2>9 DEF SessionInv
  <1> QED BY <1>4, <1>5

LEMMA SessionStep == ASSUME SessionInv, [Next]_vars PROVE SessionInv'
  <1>1. CASE Fail \/ Refuse \/ RunPlan
    BY <1>1, ReturnsInv
  <1>2. CASE Inspect
    BY <1>2, InspectInv
  <1>3. CASE RunApply
    BY <1>3, RunApplyInv
  <1>4. CASE WriteFails
    BY <1>4, WriteFailsInv
  <1>5. CASE Finish
    BY <1>5, FinishInv
  <1>6. ASSUME NEW path \in ToSet(PathOrder), WriteNext(path) \/ WriteTorn(path) \/ Edit(path)
        PROVE  SessionInv'
    BY <1>6, WriteNextInv, WriteTornInv, EditInv
  <1>7. CASE UNCHANGED vars
    <2>1. /\ setup' = setup /\ files' = files /\ session' = session /\ outcome' = outcome
          /\ view' = view /\ edited' = edited /\ inspected' = inspected
      BY <1>7 DEF vars
    <2>2. /\ Plan' = Plan /\ Result' = Result /\ Todo' = Todo /\ Changed' = Changed
          /\ Active' = Active
      BY <2>1 DEF Plan, Result, Todo, Changed, Active
    <2>3. (Ready' <=> Ready) /\ Options' = Options /\ \A tree : PlanOf(tree)' = PlanOf(tree)
      BY <2>1, SetupStays
    <2>4. SessionTyped' /\ Inspected' /\ Reported'
      BY <2>1, <2>2, <2>3 DEF SessionInv, SessionTyped, Inspected, Reported
    <2>5. Active => FromReading' /\ Untouched' /\ Done'
      BY <2>1, <2>2, <2>3 DEF SessionInv, FromReading, Untouched, Done
    <2> QED BY <2>1, <2>2, <2>3, <2>4, <2>5 DEF SessionInv
  <1> QED BY <1>1, <1>2, <1>3, <1>4, <1>5, <1>6, <1>7 DEF Next

\* The destination tree relates to the tree that was read as the invariant
\* says, after any number of sessions, failures and edits.
THEOREM SessionInvariance == Spec => []SessionInv
  <1>1. Init => SessionInv
    BY SessionInit
  <1>2. SessionInv /\ [Next]_vars => SessionInv'
    BY SessionStep
  <1> QED BY <1>1, <1>2, PTL DEF Spec

-----------------------------------------------------------------------------
(* What the user can rely on *)

LEMMA InvImpliesEditsKept == SessionInv => EditsLostOnlyWhereReported
  <1> SUFFICES ASSUME SessionInv, Active,
                      NEW d \in ToSet(PathOrder), d \notin Changed
               PROVE  Same(files, view, d)
    BY DEF EditsLostOnlyWhereReported, Active, Result, Changed
  <1> QED BY DEF SessionInv, Untouched

\* Whatever the templates and however the sessions end, what the user saves
\* while a session runs is overwritten only at a path the session reports as
\* created or updated (apply_template_tree_execution_to_directory writes
\* nothing else).
THEOREM EditsAreLostOnlyWhereReported == Spec => []EditsLostOnlyWhereReported
  BY SessionInvariance, InvImpliesEditsKept, PTL

LEMMA InvImpliesPreview == SessionInv => PreviewAgrees
  <1> SUFFICES ASSUME SessionInv, outcome.kind = "applied", NEW path,
                      \A e \in ToSet(outcome.plan) :
                        e.dest = path => (e.action # "merge" \/ e.content = None)
               PROVE  AgreeAt(PreviewTemplateExecution(outcome.plan), outcome.result, path)
    BY DEF PreviewAgrees, AgreeAt
  <1>1. session = None /\ Plan = outcome.plan /\ Result = outcome.result
    BY DEF SessionInv, SessionTyped, Plan, Result
  <1>2. PICK tree : /\ IsTree(tree) /\ Plan = PlanOf(tree)
                    /\ Result = ApplyTemplateExecution(Plan, Registry(Options))
    BY DEF SessionInv, Active, FromReading
  <1>3. SoundPlan(Plan)
    BY <1>2, PlanIsSound DEF SessionInv, Active
  <1>4. \A k \in 1..Len(Plan) : Plan[k] \in ToSet(Plan)
    BY <1>3 DEF SoundPlan, ToSet
  <1> QED BY <1>1, <1>2, <1>3, <1>4, PreviewMeetsApply

\* preview_template_execution, which has its own copy of the rules, agrees
\* with apply_template_execution on every path that no merge is involved in,
\* for every plan.
THEOREM PreviewsAgree == Spec => []PreviewAgrees
  BY SessionInvariance, InvImpliesPreview, PTL

-----------------------------------------------------------------------------
(* Inspections *)

\* A plan that nothing stands in the way of.
Clear(plan, o) ==
  MissingFamilies(plan, o) = {} /\ \A k \in 1..Len(plan) : plan[k].action # "blocked"

LEMMA PlannedStatus ==
  ASSUME NEW plan, SoundPlan(plan), NEW k \in 1..Len(plan)
  PROVE  /\ DOMAIN ReportTemplateDirectoryPlan(plan) = 1..Len(plan)
         /\ ReportTemplateDirectoryPlan(plan)[k].dest = plan[k].dest
         /\ ReportTemplateDirectoryPlan(plan)[k].status = "blocked" <=> plan[k].action = "blocked"
  BY DEF SoundPlan, ReportTemplateDirectoryPlan

\* The status of a session says ready only if its plan is clear, and says so
\* when applying it blocked nothing.
LEMMA ReadyFacts ==
  ASSUME NEW plan, SoundPlan(plan), NEW result, NEW o
  PROVE  LET ready == SessionStatus(plan, result, o).ready
         IN  /\ ready => Clear(plan, o)
             /\ (Clear(plan, o) /\ (result = None \/ result.blocked = {})) => ready
  <1> DEFINE planned == ReportTemplateDirectoryPlan(plan)
             applied == IF result = None THEN <<>> ELSE ReportTemplateDirectoryApply(plan, result)
             P == {planned[i].dest : i \in {k \in DOMAIN planned : planned[k].status = "blocked"}}
             A == {applied[i].dest : i \in {k \in DOMAIN applied : applied[k].status = "blocked"}}
             ready == SessionStatus(plan, result, o).ready
  <1>1. ready = (MissingFamilies(plan, o) = {} /\ (P \cup A) \ {None} = {})
    BY DEF SessionStatus
  <1>2. ready => \A k \in 1..Len(plan) : plan[k].action # "blocked"
    <2> SUFFICES ASSUME NEW k \in 1..Len(plan), plan[k].action = "blocked" PROVE ~ready
      OBVIOUS
    <2>1. k \in DOMAIN planned /\ planned[k].status = "blocked" /\ planned[k].dest = plan[k].dest
      BY PlannedStatus
    <2>2. plan[k].dest # None
      BY DEF SoundPlan, Sound
    <2> HIDE DEF planned, applied
    <2>3. plan[k].dest \in P
      BY <2>1
    <2> QED BY <1>1, <2>2, <2>3
  <1>3. ASSUME \A k \in 1..Len(plan) : plan[k].action # "blocked" PROVE P = {}
    <2>1. \A k \in DOMAIN planned : planned[k].status # "blocked"
      <3>1. DOMAIN planned = DOMAIN plan
        BY DEF ReportTemplateDirectoryPlan
      <3>2. \A k \in DOMAIN planned : k \in 1..Len(plan)
        BY <3>1 DEF SoundPlan
      <3> HIDE DEF planned
      <3> QED BY <1>3, <3>2, PlannedStatus DEF planned
    <2> HIDE DEF planned
    <2> QED BY <2>1
  <1>4. ASSUME result = None \/ result.blocked = {} PROVE A = {}
    <2>1. CASE result = None
      BY <2>1
    <2>2. CASE result # None /\ result.blocked = {}
      <3>1. applied = ReportTemplateDirectoryApply(plan, result)
        BY <2>2
      <3>2. \A k \in DOMAIN applied : applied[k].status # "blocked"
        <4> HIDE DEF applied
        <4> QED BY <2>2, <3>1 DEF ReportTemplateDirectoryApply, RunStatus
      <3> HIDE DEF applied
      <3> QED BY <3>2
    <2> QED BY <1>4, <2>1, <2>2
  <1> HIDE DEF P, A, ready, planned, applied
  <1>5. ready => Clear(plan, o)
    BY <1>1, <1>2 DEF Clear
  <1>6. (Clear(plan, o) /\ (result = None \/ result.blocked = {})) => ready
    BY <1>1, <1>3, <1>4 DEF Clear
  <1> QED BY <1>5, <1>6 DEF ready

\* Whether a plan is clear does not depend on the tree.
LEMMA ClearIsStatic ==
  ASSUME setup \in Setups, Ready, NEW t, NEW u, IsTree(t), IsTree(u), Clear(PlanOf(t), Options)
  PROVE  Clear(PlanOf(u), Options)
  <1> DEFINE n == Len(setup.sources)
             p == PlanOf(t)
             q == PlanOf(u)
  <1>1. SoundPlan(p) /\ SoundPlan(q) /\ Len(p) = n /\ Len(q) = n
    BY PlanIsSound
  <1>2. DOMAIN p = 1..n /\ DOMAIN q = 1..n /\ DOMAIN setup.sources = 1..n
    BY <1>1, PlanEntries DEF SoundPlan
  <1>3. \A i \in 1..n : IsEntry(p[i], setup.sources[i], t) /\ IsEntry(q[i], setup.sources[i], u)
    BY <1>2, PlanEntries
  <1>4. \A i \in 1..n : p[i].action = q[i].action /\ p[i].family = q[i].family
    BY <1>3 DEF IsEntry
  <1> HIDE DEF p, q, n
  <1>5. MissingFamilies(q, Options) \subseteq MissingFamilies(p, Options)
    BY <1>2, <1>4 DEF MissingFamilies, ToSet
  <1> QED BY <1>1, <1>4, <1>5 DEF Clear, p, q

\* Applying a clear plan blocks nothing but merges an adapter refuses.
LEMMA ClearBlocksNothing ==
  ASSUME NEW plan, SoundPlan(plan), NEW o, Clear(plan, o),
         \A e \in ToSet(plan) : (e.action = "merge" /\ e.content # None) => ~Refuses(e)
  PROVE  ApplyTemplateExecution(plan, Registry(o)).blocked = {}
  <1>1. ASSUME NEW k \in 1..Len(plan) PROVE Effect(plan[k], Registry(o)) # "blocked"
    <2> DEFINE e == plan[k]
    <2>1. Sound(e) /\ e \in ToSet(plan) /\ e.action # "blocked" /\ e.prepared \in Contents
      BY DEF SoundPlan, Sound, ToSet, Clear
    <2>2. CASE e.action = "merge" /\ e.content # None
      <3>1. e.family \in Registry(o)
        BY <2>1, <2>2 DEF Clear, MissingFamilies
      <3>2. ~Refuses(e) /\ e.content \in Contents
        BY <2>1, <2>2 DEF Sound
      <3>3. Merged(e, MergePreparedContentFromRegistry(e, Registry(o)))
        BY <2>1, <3>1, <3>2, MergedIsContent
      <3>4. Output(e, Registry(o)) \in Contents
        BY <2>2, <3>3 DEF Output, Merged
      <3> HIDE DEF e
      <3> QED BY <2>1, <2>2, <3>4, ContentFacts DEF Effect, e
    <2>3. CASE ~(e.action = "merge" /\ e.content # None)
      <3> HIDE DEF e
      <3> QED BY <2>1, <2>3, ContentFacts DEF Effect, Output, e
    <2> QED BY <2>2, <2>3
  <1>2. Accounted(ApplyTemplateExecution(plan, Registry(o)), plan, Registry(o), Len(plan))
    BY ResultIsAccounted
  <1> QED BY <1>1, <1>2 DEF Accounted

LEMMA InvImpliesInspection == SessionInv => InspectionPredictsRun
  <1> DEFINE Obstacle(plan) ==
               \E e \in ToSet(plan) : e.action = "merge" /\ e.content # None /\ Refuses(e)
  <1> SUFFICES ASSUME SessionInv, outcome.kind = "applied", inspected # None
               PROVE  /\ outcome.status.ready => inspected.ready /\ outcome.diagnostics = {}
                      /\ inspected.ready => outcome.status.ready \/ Obstacle(outcome.plan)
    BY DEF InspectionPredictsRun
  <1>1. session = None /\ Plan = outcome.plan /\ Result = outcome.result
    BY DEF SessionInv, SessionTyped, Plan, Result
  <1>2. /\ outcome.status = SessionStatus(Plan, Result, Options)
        /\ outcome.diagnostics = SessionDiagnostics(Plan, Result, Options)
    BY DEF SessionInv, Reported
  <1>3. setup \in Setups /\ Ready
    BY DEF SessionInv, Active
  <1>4. PICK t : /\ IsTree(t) /\ Plan = PlanOf(t)
                 /\ Result = ApplyTemplateExecution(Plan, Registry(Options))
    BY DEF SessionInv, Active, FromReading
  <1>5. PICK u : IsTree(u) /\ inspected = SessionStatus(PlanOf(u), None, Options)
    BY DEF SessionInv, Inspected
  <1>6. SoundPlan(Plan) /\ SoundPlan(PlanOf(u))
    BY <1>3, <1>4, <1>5, PlanIsSound
  <1>7. inspected.ready <=> Clear(PlanOf(u), Options)
    BY <1>5, <1>6, ReadyFacts
  <1>8. outcome.status.ready => Clear(Plan, Options)
    BY <1>2, <1>6, ReadyFacts
  <1>9. Clear(Plan, Options) /\ ~Obstacle(Plan) => outcome.status.ready
    <2> HAVE Clear(Plan, Options) /\ ~Obstacle(Plan)
    <2>1. Result.blocked = {}
      BY <1>1, <1>4, <1>6, ClearBlocksNothing
    <2> QED BY <1>2, <1>6, <2>1, ReadyFacts
  <1>10. Clear(Plan, Options) <=> Clear(PlanOf(u), Options)
    BY <1>3, <1>4, <1>5, ClearIsStatic
  <1>11. Clear(Plan, Options) => outcome.diagnostics = {}
    <2> HAVE Clear(Plan, Options)
    <2>1. \A e \in ToSet(Plan) : ~e.blocked
      BY <1>6 DEF Clear, SoundPlan, Sound, ToSet
    <2>2. MissingFamilies(Plan, Options) = {}
      BY DEF Clear
    <2> QED BY <1>2, <2>1, <2>2 DEF SessionDiagnostics
  <1> HIDE DEF Obstacle
  <1> QED BY <1>1, <1>7, <1>8, <1>9, <1>10, <1>11

\* For every directory and request: a session that ends ready was ready in an
\* inspection and reports no diagnostics, and one that is ready in an
\* inspection ends ready unless an adapter refuses one of its merges.
THEOREM InspectionsPredictRuns == Spec => []InspectionPredictsRun
  BY SessionInvariance, InvImpliesInspection, PTL

-----------------------------------------------------------------------------
(* Reports *)

\* One template has the destination to itself.
Sole(d) == \A i, j \in DOMAIN setup.sources :
             (Dest(setup.sources[i]) = d /\ Dest(setup.sources[j]) = d)
               => setup.sources[i] = setup.sources[j]

LEMMA AloneIsSole == ASSUME NEW d, Alone(d) PROVE Sole(d)
  <1> SUFFICES ASSUME NEW i \in DOMAIN setup.sources, NEW j \in DOMAIN setup.sources,
                      Dest(setup.sources[i]) = d, Dest(setup.sources[j]) = d
               PROVE  setup.sources[i] = setup.sources[j]
    BY DEF Sole
  <1> DEFINE p == PlanOf(files)
  <1>1. /\ IsEntry(p[i], setup.sources[i], files) /\ IsEntry(p[j], setup.sources[j], files)
        /\ p[i] \in ToSet(p) /\ p[j] \in ToSet(p)
    BY PlanEntries DEF ToSet
  <1>2. /\ p[i].dest = d /\ p[j].dest = d
        /\ p[i].source = setup.sources[i] /\ p[j].source = setup.sources[j]
    BY <1>1 DEF IsEntry
  <1>3. p[i] = p[j]
    BY <1>1, <1>2 DEF Alone
  <1> QED BY <1>2, <1>3

LEMMA SoleEntry ==
  ASSUME NEW d, Sole(d), NEW tree, NEW i \in DOMAIN setup.sources, PlanOf(tree)[i].dest = d,
         NEW k \in DOMAIN setup.sources, PlanOf(tree)[k].dest = d
  PROVE  PlanOf(tree)[k] = PlanOf(tree)[i]
  <1>1. IsEntry(PlanOf(tree)[i], setup.sources[i], tree)
        /\ IsEntry(PlanOf(tree)[k], setup.sources[k], tree)
    BY PlanEntries
  <1>2. setup.sources[i] = setup.sources[k]
    BY <1>1 DEF IsEntry, Sole
  <1> QED BY <1>2 DEF PlanOf, PlanTemplateTreeExecution

LEMMA InvImpliesReport == SessionInv => ReportMatchesDisk
  <1> DEFINE report == ReportTemplateDirectoryApply(outcome.plan, outcome.result)
             Truth(i, d, s) ==
               /\ report[i].written <=> ~Same(view, files, d)
               /\ s = "created" => d \notin DOMAIN view
               /\ s = "updated" => d \in DOMAIN view /\ report[i].written
               /\ s \in {"kept", "blocked"} => ~report[i].written
               /\ (s = "created" /\ ~report[i].written) => outcome.plan[i].action = "keep"
  <1> SUFFICES ASSUME SessionInv, outcome.kind = "applied", NEW i \in DOMAIN report,
                      report[i].dest # None, Alone(report[i].dest), report[i].dest \notin edited
               PROVE  Truth(i, report[i].dest, report[i].status)
    BY DEF ReportMatchesDisk
  <1> DEFINE d == report[i].dest
             e == Plan[i]
             x == Effect(e, Registry(Options))
             v == Output(e, Registry(Options))
  <1>1. session = None /\ Plan = outcome.plan /\ Result = outcome.result /\ Todo = {}
    BY DEF SessionInv, SessionTyped, Plan, Result, Todo
  <1>2. setup \in Setups /\ Ready /\ Untouched /\ Done
    BY DEF SessionInv, Active
  <1>3. PICK t : /\ IsTree(t) /\ Plan = PlanOf(t)
                 /\ Result = ApplyTemplateExecution(Plan, Registry(Options))
                 /\ \A p : p \notin edited => Same(t, view, p)
    BY DEF SessionInv, Active, FromReading
  <1>4. /\ SoundPlan(Plan) /\ DOMAIN Plan = 1..Len(Plan) /\ DOMAIN Plan = DOMAIN setup.sources
        /\ i \in DOMAIN Plan
    BY <1>1, <1>2, <1>3, PlanIsSound DEF SoundPlan, ReportTemplateDirectoryApply
  <1>5. /\ d = e.dest /\ report[i].status = RunStatus(e, Result)
        /\ report[i].written <=> d \in Changed
    BY <1>1, <1>4 DEF ReportTemplateDirectoryApply, Changed
  <1>6. Sound(e) /\ IsEntry(e, setup.sources[i], t)
    BY <1>3, <1>4, PlanEntries DEF SoundPlan
  <1>7. \A k \in 1..Len(Plan) : Plan[k].dest = d => Plan[k] = e
    BY <1>3, <1>4, <1>5, AloneIsSole, SoleEntry
  <1>8. Recorded(Result, d, x, v)
    <2>1. \E k \in 1..Len(Plan) : Plan[k].dest = d
      BY <1>4, <1>5
    <2> HIDE DEF d, e
    <2> QED BY <1>3, <1>4, <1>7, <2>1, ResultAt
  <1>9. /\ Same(t, view, d)
        /\ e.exists <=> d \in DOMAIN view
        /\ e.exists => e.content = view[d]
        /\ e.exists <=> e.content # None
    <2>1. Same(t, view, d)
      BY <1>3
    <2>2. Dest(setup.sources[i]) = d
      BY <1>5, <1>6 DEF IsEntry
    <2> HIDE DEF d, e
    <2> QED BY <1>6, <2>1, <2>2 DEF IsEntry, Same, ContentAt, Sound
  <1>10. /\ d \in Changed => d \in DOMAIN files /\ files[d] = Result.files[d]
         /\ d \notin Changed => Same(files, view, d)
    BY <1>1, <1>2 DEF Untouched, Done
  <1>11. d \in Changed <=> x \in {"created", "updated"}
    BY <1>8 DEF Recorded, Changed
  <1>12. /\ x = "created" => ~e.exists
         /\ x = "updated" => e.exists /\ e.content # v
         /\ x = "none" => e.action = "omit" \/ (e.action = "keep" /\ ~e.exists)
         /\ x \in Placed \cup {"none", "blocked"}
    BY <1>9 DEF Effect, Placed
  <1>13. e.action # "omit"
    BY <1>5, <1>6 DEF Sound
  <1> HIDE DEF d, e, x, v
  <1>14. report[i].written <=> ~Same(view, files, d)
    <2>1. CASE d \in Changed
      <3>1. d \in DOMAIN files /\ files[d] = v
        BY <1>8, <1>10, <1>11, <2>1 DEF Recorded, Placed
      <3> QED BY <1>5, <1>9, <1>11, <1>12, <2>1, <3>1 DEF Same
    <2>2. CASE d \notin Changed
      BY <1>5, <1>10, <2>2 DEF Same
    <2> QED BY <2>1, <2>2
  <1>15. /\ report[i].status = "created" => x \in {"created", "none"}
         /\ report[i].status = "updated" => x = "updated"
         /\ report[i].status = "kept" => x = "kept"
         /\ report[i].status = "blocked" => x = "blocked"
    BY <1>5, <1>8, <1>12 DEF RunStatus, Recorded, Placed
  <1>16. Truth(i, d, report[i].status)
    <2> HIDE DEF report
    <2> QED BY <1>1, <1>5, <1>9, <1>11, <1>12, <1>13, <1>14, <1>15 DEF e
  <1> QED BY <1>16 DEF d

\* Whatever the templates, the report of a session that ended tells what
\* happened on disk to every destination that one template has to itself and
\* the user left alone.
THEOREM ReportsMatchTheDisk == Spec => []ReportMatchesDisk
  BY SessionInvariance, InvImpliesReport, PTL

-----------------------------------------------------------------------------
(* Retries *)

\* The tree that an undisturbed session leaves, and the one that the first
\* session was to leave.
After(tree) ==
  Overlay(FilesToWrite(ApplyTemplateExecution(PlanOf(tree), Registry(Options))), tree)
Goal == After(setup.tree)

\* A session depends at a destination on what it read there.
LEMMA SameEntry ==
  ASSUME NEW t, NEW u, NEW i \in DOMAIN setup.sources, Same(t, u, Dest(setup.sources[i]))
  PROVE  PlanOf(t)[i] = PlanOf(u)[i]
  <1> DEFINE s  == setup.sources[i]
             e0 == PlanTemplateEntry(s, Options)
             e1 == EnrichTemplatePlanEntry(e0, DOMAIN t)
             e2 == EnrichWithTokenState(e1, setup.templates[s], Options.replacements)
             e3 == PrepareTemplateEntry(e2, setup.templates[s], Options.replacements)
             f1 == EnrichTemplatePlanEntry(e0, DOMAIN u)
             f2 == EnrichWithTokenState(f1, setup.templates[s], Options.replacements)
             f3 == PrepareTemplateEntry(f2, setup.templates[s], Options.replacements)
  <1>1. PlanOf(t)[i] = PlanTemplateExecution(e3, t) /\ PlanOf(u)[i] = PlanTemplateExecution(f3, u)
    BY DEF PlanOf, PlanTemplateTreeExecution
  <1>2. e0.dest = Dest(s)
    BY DEF PlanTemplateEntry, NormalizeTemplateSourcePath, Dest
  <1>3. e1 = f1
    <2> HIDE DEF e0
    <2> DEFINE x == e0.dest \in DOMAIN t
               y == e0.dest \in DOMAIN u
               w(b) == [e0 EXCEPT !.exists = b,
                                  !.write = IF e0.dest = None THEN "omit"
                                            ELSE IF e0.strategy = "keep_destination" THEN "keep"
                                            ELSE IF b THEN "update" ELSE "create"]
    <2>1. x = y
      BY <1>2 DEF Same
    <2>2. e1 = w(x) /\ f1 = w(y)
      BY DEF EnrichTemplatePlanEntry
    <2> HIDE DEF x, y, w, e1, f1
    <2> QED BY <2>1, <2>2
  <1>4. e3 = f3
    <2> HIDE DEF e1, f1
    <2> QED BY <1>3
  <1>5. e3.dest = Dest(s)
    <2>1. "dest" \in DOMAIN e0
      BY DEF PlanTemplateEntry
    <2> HIDE DEF e0
    <2>2. "dest" \in DOMAIN e1 /\ e1.dest = Dest(s)
      BY <1>2, <2>1 DEF EnrichTemplatePlanEntry
    <2> HIDE DEF e1
    <2>3. "dest" \in DOMAIN e2 /\ e2.dest = Dest(s)
      BY <2>2 DEF EnrichWithTokenState
    <2> HIDE DEF e2
    <2> QED BY <2>3 DEF PrepareTemplateEntry
  <1>6. PlanTemplateExecution(e3, t) = PlanTemplateExecution(e3, u)
    <2> HIDE DEF e3
    <2> QED BY <1>5 DEF PlanTemplateExecution, Same
  <1> HIDE DEF e3, f3
  <1> QED BY <1>1, <1>4, <1>6

\* What an undisturbed session leaves at a destination with one template, and
\* at a path that is no destination.
LEMMA AfterAt ==
  ASSUME setup \in Setups, Ready, NEW t, IsTree(t), NEW d, Sole(d),
         NEW i \in DOMAIN setup.sources, Dest(setup.sources[i]) = d
  PROVE  LET e == PlanOf(t)[i]
         IN  IF Effect(e, Registry(Options)) \in {"created", "updated"}
             THEN d \in DOMAIN After(t) /\ After(t)[d] = Output(e, Registry(Options))
             ELSE Same(After(t), t, d)
  <1> DEFINE plan == PlanOf(t)
             e == plan[i]
             reg == Registry(Options)
             r == ApplyTemplateExecution(plan, reg)
  <1>1. /\ SoundPlan(plan) /\ DOMAIN plan = 1..Len(plan) /\ DOMAIN plan = DOMAIN setup.sources
        /\ i \in 1..Len(plan)
    BY PlanIsSound DEF SoundPlan
  <1>2. e.dest = d
    BY PlanEntries DEF IsEntry
  <1>3. \A k \in 1..Len(plan) : plan[k].dest = d => plan[k] = e
    BY <1>1, <1>2, SoleEntry
  <1>4. Recorded(r, d, Effect(e, reg), Output(e, reg))
    <2>1. \E k \in 1..Len(plan) : plan[k].dest = d
      BY <1>1, <1>2
    <2> HIDE DEF plan, e, reg
    <2> QED BY <1>1, <1>3, <2>1, ResultAt
  <1>5. Accounted(r, plan, reg, Len(plan))
    BY <1>1, ResultIsAccounted
  <1> HIDE DEF r, e
  <1>6. After(t) = Overlay(FilesToWrite(r), t)
    BY DEF After, r
  <1>7. DOMAIN FilesToWrite(r) = r.created \cup r.updated
        /\ \A p \in r.created \cup r.updated : FilesToWrite(r)[p] = r.files[p]
    BY <1>5 DEF FilesToWrite, Accounted
  <1>8. d \in DOMAIN FilesToWrite(r) <=> Effect(e, reg) \in {"created", "updated"}
    BY <1>4, <1>7 DEF Recorded
  <1>9. Effect(e, reg) \in {"created", "updated"} => FilesToWrite(r)[d] = Output(e, reg)
    BY <1>4, <1>7, <1>8 DEF Recorded, Placed
  <1> QED BY <1>6, <1>8, <1>9 DEF Overlay, Same, e

LEMMA AfterElsewhere ==
  ASSUME setup \in Setups, Ready, NEW t, IsTree(t), NEW d,
         \A i \in DOMAIN setup.sources : Dest(setup.sources[i]) # d
  PROVE  Same(After(t), t, d)
  <1> DEFINE plan == PlanOf(t)
             reg == Registry(Options)
             r == ApplyTemplateExecution(plan, reg)
  <1>1. SoundPlan(plan) /\ DOMAIN plan = 1..Len(plan) /\ DOMAIN plan = DOMAIN setup.sources
    BY PlanIsSound DEF SoundPlan
  <1>2. \A k \in 1..Len(plan) : plan[k].dest # d
    BY <1>1, PlanEntries DEF IsEntry
  <1>3. Accounted(r, plan, reg, Len(plan))
    BY <1>1, ResultIsAccounted
  <1>4. d \notin DOMAIN FilesToWrite(r)
    BY <1>2, <1>3 DEF Accounted, FilesToWrite
  <1>5. After(t) = Overlay(FilesToWrite(r), t)
    BY DEF After
  <1> HIDE DEF r
  <1> QED BY <1>4, <1>5 DEF Overlay, Same

\* An entry that wrote its output has nothing more to write.
LEMMA OutputIsFixed ==
  ASSUME setup \in Setups, Ready, NEW t, NEW u, IsTree(t), IsTree(u), NEW reg,
         NEW i \in DOMAIN setup.sources,
         Effect(PlanOf(t)[i], reg) \in {"created", "updated"},
         PlanOf(u)[i].content = Output(PlanOf(t)[i], reg)
  PROVE  Effect(PlanOf(u)[i], reg) \notin {"created", "updated"}
  <1> DEFINE e == PlanOf(t)[i]
             f == PlanOf(u)[i]
  <1>1. Sound(e) /\ Sound(f)
    BY PlanIsSound DEF SoundPlan
  <1>2. f.action = e.action /\ f.prepared = e.prepared
    BY PlanEntries DEF IsEntry
  <1> HIDE DEF e, f
  <1>3. /\ Effect(e, reg) \in {"created", "updated"} /\ f.content = Output(e, reg)
    BY DEF e, f
  <1>4. Output(e, reg) \in Contents /\ e.action \in {"raw_copy", "write", "merge"}
        /\ e.prepared \in Contents
    <2>1. Output(e, reg) \in Contents
      BY <1>1, <1>3, OutputIsContent DEF Placed
    <2>2. e.action \notin {"omit", "keep", "blocked"}
      BY <1>3 DEF Effect, Output
    <2> QED BY <1>1, <2>1, <2>2 DEF Sound, Actions
  <1>5. f.content \in Contents /\ f.content # None
    BY <1>3, <1>4, ContentFacts
  <1>6. CASE e.action # "merge"
    <2>1. Output(e, reg) = e.prepared /\ Output(f, reg) = f.prepared
      BY <1>2, <1>4, <1>6 DEF Output
    <2>2. Output(f, reg) = f.content
      BY <1>2, <1>3, <2>1
    <2> QED BY <2>2 DEF Effect, f
  <1>7. CASE e.action = "merge"
    <2>1. ToSet(e.prepared) \subseteq ToSet(Output(e, reg))
      <3>1. CASE e.content = None
        BY <1>7, <3>1 DEF Output
      <3>2. CASE e.content # None
        <4>1. Output(e, reg) = MergePreparedContentFromRegistry(e, reg) /\ e.content \in Contents
          BY <1>1, <1>7, <3>2 DEF Output, Sound
        <4>2. e.family \in reg /\ ~Refuses(e)
          BY <1>4, <4>1, ContentFacts DEF MergePreparedContentFromRegistry
        <4>3. Merged(e, MergePreparedContentFromRegistry(e, reg))
          BY <1>4, <4>1, <4>2, MergedIsContent
        <4> QED BY <4>1, <4>3 DEF Merged
      <3> QED BY <3>1, <3>2
    <2>2. Output(f, reg) = MergePreparedContentFromRegistry(f, reg)
      BY <1>2, <1>5, <1>7 DEF Output
    <2>3. CASE f.family \notin reg \/ Refuses(f)
      <3>1. Output(f, reg) = None
        BY <2>2, <2>3 DEF MergePreparedContentFromRegistry
      <3> QED BY <3>1 DEF Effect, f
    <2>4. CASE f.family \in reg /\ ~Refuses(f)
      <3>1. Merged(f, Output(f, reg))
        BY <1>2, <1>4, <1>5, <2>2, <2>4, MergedIsContent
      <3>2. Output(f, reg) = f.content
        BY <1>2, <1>3, <2>1, <3>1 DEF Merged
      <3> QED BY <3>2 DEF Effect, f
    <2> QED BY <2>3, <2>4
  <1> QED BY <1>6, <1>7

\* A session that finds at a destination what the first one found, or what it
\* was to leave, leaves what the first one was to leave.
LEMMA SessionsConverge ==
  ASSUME setup \in Setups, Ready, NEW t, IsTree(t), NEW d, Sole(d),
         Same(t, setup.tree, d) \/ Same(t, Goal, d)
  PROVE  Same(After(t), Goal, d)
  <1>1. IsTree(setup.tree)
    BY SetupAssumption
  <1>2. CASE \A i \in DOMAIN setup.sources : Dest(setup.sources[i]) # d
    <2>1. Same(After(t), t, d) /\ Same(Goal, setup.tree, d)
      BY <1>1, <1>2, AfterElsewhere DEF Goal
    <2> QED BY <2>1 DEF Same
  <1>3. ASSUME NEW i \in DOMAIN setup.sources, Dest(setup.sources[i]) = d
        PROVE  Same(After(t), Goal, d)
    <2> DEFINE reg == Registry(Options)
               e == PlanOf(setup.tree)[i]
               f == PlanOf(t)[i]
    <2>1. IF Effect(e, reg) \in {"created", "updated"}
          THEN d \in DOMAIN Goal /\ Goal[d] = Output(e, reg)
          ELSE Same(Goal, setup.tree, d)
      BY <1>1, <1>3, AfterAt DEF Goal
    <2>2. IF Effect(f, reg) \in {"created", "updated"}
          THEN d \in DOMAIN After(t) /\ After(t)[d] = Output(f, reg)
          ELSE Same(After(t), t, d)
      BY <1>3, AfterAt
    <2>3. CASE Same(t, setup.tree, d)
      <3>1. f = e
        BY <1>3, <2>3, SameEntry
      <3> HIDE DEF e, f, reg
      <3> QED BY <2>1, <2>2, <2>3, <3>1 DEF Same
    <2>4. CASE Same(t, Goal, d) /\ Effect(e, reg) \notin {"created", "updated"}
      <3>1. Same(t, setup.tree, d)
        BY <2>1, <2>4 DEF Same
      <3> QED BY <2>3, <3>1
    <2>5. CASE Same(t, Goal, d) /\ Effect(e, reg) \in {"created", "updated"}
      <3>1. d \in DOMAIN t /\ t[d] = Output(e, reg)
        BY <2>1, <2>5 DEF Same
      <3>2. f.content = Output(e, reg)
        BY <1>3, <3>1, PlanEntries DEF IsEntry, ContentAt
      <3>3. Effect(f, reg) \notin {"created", "updated"}
        BY <1>1, <2>5, <3>2, OutputIsFixed
      <3> QED BY <2>2, <2>5, <3>3 DEF Same
    <2> QED BY <2>3, <2>4, <2>5
  <1> QED BY <1>2, <1>3

\* A session over a destination whose template is copied does so whatever it
\* finds.
LEMMA CopiesConverge ==
  ASSUME setup \in Setups, Ready, NEW t, IsTree(t), NEW d, Sole(d),
         NEW i \in DOMAIN setup.sources, Dest(setup.sources[i]) = d,
         Action(setup.sources[i]) \in {"raw_copy", "write"}
  PROVE  d \in DOMAIN After(t) /\ After(t)[d] = Prepared(setup.sources[i])
  <1> DEFINE reg == Registry(Options)
             f == PlanOf(t)[i]
             v == Prepared(setup.sources[i])
  <1>1. IF Effect(f, reg) \in {"created", "updated"}
        THEN d \in DOMAIN After(t) /\ After(t)[d] = Output(f, reg)
        ELSE Same(After(t), t, d)
    BY AfterAt
  <1>2. IsEntry(f, setup.sources[i], t) /\ Sound(f)
    BY PlanEntries, PlanIsSound DEF SoundPlan
  <1> HIDE DEF f
  <1>3. f.action \in {"raw_copy", "write"} /\ f.prepared = v /\ v \in Contents /\ v # None
    BY <1>2, ContentFacts DEF IsEntry, Sound
  <1>4. Output(f, reg) = v
    BY <1>3 DEF Output
  <1>5. CASE Effect(f, reg) \in {"created", "updated"}
    BY <1>1, <1>4, <1>5
  <1>6. CASE Effect(f, reg) \notin {"created", "updated"}
    <2>1. f.content = v /\ f.content # None
      BY <1>3, <1>4, <1>6 DEF Effect
    <2>2. d \in DOMAIN t /\ t[d] = v
      BY <1>2, <2>1 DEF IsEntry, ContentAt
    <2> QED BY <1>1, <1>6, <2>2 DEF Same
  <1> QED BY <1>5, <1>6

\* What no write was cut short on is as at the start, or as it should be.
FilesRecover == \A d : (Sole(d) /\ d \notin torn)
                          => Same(files, setup.tree, d) \/ Same(files, Goal, d)
ViewRecovers == \A d : (Sole(d) /\ d \notin torn)
                          => Same(view, setup.tree, d) \/ Same(view, Goal, d)
\* Only destinations that are written can be cut short.
TornIsWritten == \A d \in torn : \E i \in DOMAIN setup.sources :
                   /\ Dest(setup.sources[i]) = d
                   /\ Action(setup.sources[i]) \in {"raw_copy", "write", "merge"}

RetryInv ==
  /\ SessionInv
  /\ Ready => TornIsWritten
  /\ (Ready /\ edited = {}) => FilesRecover /\ (Active => ViewRecovers)

\* What the session that is active has written is what it was to leave.
LEMMA ActiveFiles ==
  ASSUME SessionInv, Active, edited = {}
  PROVE  \E t : /\ IsTree(t) /\ Plan = PlanOf(t) /\ \A d : Same(t, view, d)
                /\ \A d \in Changed : d \in DOMAIN After(t) /\ After(t)[d] = Result.files[d]
                /\ \A d : d \notin Changed => Same(After(t), view, d)
                /\ \A d : d \notin Todo => Same(files, After(t), d)
  <1>1. setup \in Setups /\ Ready /\ Untouched /\ Done
    BY DEF SessionInv
  <1>2. PICK t : /\ IsTree(t) /\ Plan = PlanOf(t)
                 /\ Result = ApplyTemplateExecution(Plan, Registry(Options))
                 /\ \A d : Same(t, view, d)
    BY DEF SessionInv, FromReading
  <1>3. Accounted(Result, Plan, Registry(Options), Len(Plan))
    BY <1>1, <1>2, PlanIsSound, ResultIsAccounted
  <1>4. After(t) = Overlay(FilesToWrite(Result), t)
    BY <1>2 DEF After
  <1>5. DOMAIN FilesToWrite(Result) = Changed
        /\ \A p \in Changed : FilesToWrite(Result)[p] = Result.files[p]
    BY <1>3 DEF FilesToWrite, Accounted, Changed
  <1>6. \A d \in Changed : d \in DOMAIN After(t) /\ After(t)[d] = Result.files[d]
    BY <1>4, <1>5 DEF Overlay
  <1>7. ASSUME NEW d, d \notin Changed PROVE Same(After(t), view, d)
    <2>1. Same(After(t), t, d)
      BY <1>4, <1>5, <1>7 DEF Overlay, Same
    <2>2. Same(t, view, d)
      BY <1>2
    <2> QED BY <2>1, <2>2 DEF Same
  <1>8. ASSUME NEW d, d \notin Todo PROVE Same(files, After(t), d)
    <2>1. CASE d \in Changed
      <3>1. d \in DOMAIN files /\ files[d] = Result.files[d]
        BY <1>1, <1>8, <2>1 DEF Done
      <3> QED BY <1>6, <2>1, <3>1 DEF Same
    <2>2. CASE d \notin Changed
      BY <1>1, <1>7, <2>2 DEF Untouched, Same
    <2> QED BY <2>1, <2>2
  <1> QED BY <1>2, <1>6, <1>7, <1>8

LEMMA GoalStays ==
  ASSUME setup' = setup
  PROVE  /\ Goal' = Goal /\ (Ready' <=> Ready)
         /\ \A s : Dest(s)' = Dest(s) /\ Action(s)' = Action(s)
         /\ \A d : Sole(d)' <=> Sole(d)
  <1>1. (Ready' <=> Ready) /\ Options' = Options /\ \A tree : PlanOf(tree)' = PlanOf(tree)
    BY SetupStays
  <1>2. \A s : Dest(s)' = Dest(s) /\ Action(s)' = Action(s)
    BY <1>1 DEF Dest, Action, Blocked, Required, Strategy
  <1>3. \A d : Sole(d)' <=> Sole(d)
    BY <1>2 DEF Sole, Dest, Options
  <1>4. Goal' = Goal
    BY DEF Goal, After, PlanOf, Options
  <1> QED BY <1>1, <1>2, <1>3, <1>4

LEMMA TornStays ==
  ASSUME setup' = setup, TornIsWritten, torn' \subseteq torn PROVE TornIsWritten'
  BY DEF TornIsWritten, Dest, Action, Blocked, Required, Strategy, Dest, Options

\* Steps that write nothing: the session that reads does so from the files.
LEMMA RetryUnwritten ==
  ASSUME RetryInv, SessionInv', setup' = setup, files' = files, torn' = torn, edited' = edited,
         Active' => view' = files \/ (Active /\ view' = view)
  PROVE  RetryInv'
  <1>1. Goal' = Goal /\ (Ready' <=> Ready) /\ \A d : Sole(d)' <=> Sole(d)
    BY GoalStays
  <1>2. Ready' => TornIsWritten'
    BY <1>1, TornStays DEF RetryInv
  <1>3. (Ready' /\ edited' = {}) => FilesRecover'
    BY <1>1 DEF RetryInv, FilesRecover
  <1>4. (Ready' /\ edited' = {} /\ Active') => ViewRecovers'
    BY <1>1 DEF RetryInv, FilesRecover, ViewRecovers
  <1> QED BY <1>2, <1>3, <1>4 DEF RetryInv

LEMMA RetryWriteNext == ASSUME RetryInv, SessionInv', NEW path, WriteNext(path) PROVE RetryInv'
  <1>1. /\ session # None /\ path \in session.todo
        /\ setup' = setup /\ view' = view /\ edited' = edited /\ torn' = torn
        /\ files' = Put(files, path, session.writes[path])
    BY DueIsPending DEF WriteNext
  <1>2. Goal' = Goal /\ (Ready' <=> Ready) /\ \A d : Sole(d)' <=> Sole(d)
    BY <1>1, GoalStays
  <1>3. Ready' => TornIsWritten'
    BY <1>1, <1>2, TornStays DEF RetryInv
  <1>4. ASSUME Ready, edited = {} PROVE FilesRecover' /\ ViewRecovers'
    <2>1. SessionInv /\ Active /\ FilesRecover /\ ViewRecovers
      BY <1>1, <1>4 DEF RetryInv, Active
    <2>2. ViewRecovers'
      BY <1>1, <1>2, <2>1 DEF ViewRecovers
    <2>3. PICK t : /\ IsTree(t) /\ \A d : Same(t, view, d)
                   /\ \A d \in Changed : d \in DOMAIN After(t) /\ After(t)[d] = Result.files[d]
      BY <1>4, <2>1, ActiveFiles
    <2>4. path \in Changed /\ session.writes[path] = Result.files[path]
      BY <1>1, <2>1, WritesFacts DEF SessionInv, SessionTyped
    <2>5. FilesRecover'
      <3> SUFFICES ASSUME NEW d, Sole(d), d \notin torn
                   PROVE  Same(files', setup.tree, d) \/ Same(files', Goal, d)
        BY <1>1, <1>2 DEF FilesRecover
      <3>1. CASE d = path
        <4>1. Same(t, setup.tree, d) \/ Same(t, Goal, d)
          BY <2>1, <2>3 DEF ViewRecovers, Same
        <4>2. Same(After(t), Goal, d)
          BY <2>1, <2>3, <1>4, <4>1, SessionsConverge DEF SessionInv
        <4>3. d \in DOMAIN files' /\ files'[d] = Result.files[d]
          BY <1>1, <2>4, <3>1 DEF Put
        <4>4. Same(files', After(t), d)
          BY <2>3, <2>4, <3>1, <4>3 DEF Same
        <4> QED BY <4>2, <4>4 DEF Same
      <3>2. CASE d # path
        BY <1>1, <2>1, <3>2, PutFacts DEF FilesRecover
      <3> QED BY <3>1, <3>2
    <2> QED BY <2>2, <2>5
  <1> QED BY <1>1, <1>2, <1>3, <1>4 DEF RetryInv

LEMMA RetryWriteTorn == ASSUME RetryInv, SessionInv', NEW path, WriteTorn(path) PROVE RetryInv'
  <1>1. /\ session # None /\ path \in session.todo
        /\ setup' = setup /\ edited' = edited /\ torn' = torn \cup {path}
        /\ session' = None /\ outcome'.kind # "applied"
    BY DueIsPending DEF WriteTorn, Failure
  <1>2. PICK c : files' = Put(files, path, c)
    BY DEF WriteTorn
  <1>3. Goal' = Goal /\ (Ready' <=> Ready) /\ \A d : Sole(d)' <=> Sole(d)
    BY <1>1, GoalStays
  <1>4. Ready /\ SessionInv /\ Active
    BY <1>1 DEF RetryInv, SessionInv, Active
  <1>5. \E i \in DOMAIN setup.sources :
          /\ Dest(setup.sources[i]) = path
          /\ Action(setup.sources[i]) \in {"raw_copy", "write", "merge"}
    <2>1. path \in Changed
      BY <1>1, <1>4 DEF SessionInv, SessionTyped
    <2>2. PICK t : /\ IsTree(t) /\ Plan = PlanOf(t)
                   /\ Result = ApplyTemplateExecution(Plan, Registry(Options))
      BY <1>4 DEF SessionInv, FromReading
    <2>3. SoundPlan(Plan) /\ DOMAIN Plan = 1..Len(Plan) /\ DOMAIN Plan = DOMAIN setup.sources
      BY <1>4, <2>2, PlanIsSound DEF SessionInv, SoundPlan
    <2>4. Accounted(Result, Plan, Registry(Options), Len(Plan))
      BY <2>2, <2>3, ResultIsAccounted
    <2>5. PICK j \in 1..Len(Plan) : /\ Plan[j].dest = path
                                    /\ Effect(Plan[j], Registry(Options)) \in {"created", "updated"}
      BY <2>1, <2>4 DEF Accounted, Changed
    <2>6. IsEntry(Plan[j], setup.sources[j], t) /\ Sound(Plan[j])
      BY <2>2, <2>3, PlanEntries DEF SoundPlan
    <2>7. Plan[j].action \in {"raw_copy", "write", "merge"}
      BY <2>5, <2>6 DEF Effect, Output, Sound, Actions
    <2> QED BY <2>3, <2>5, <2>6, <2>7 DEF IsEntry
  <1>6. TornIsWritten'
    <2>1. TornIsWritten
      BY <1>4 DEF RetryInv
    <2>2. \A d \in torn' : \E i \in DOMAIN setup.sources :
            /\ Dest(setup.sources[i]) = d
            /\ Action(setup.sources[i]) \in {"raw_copy", "write", "merge"}
      BY <1>1, <1>5, <2>1 DEF TornIsWritten
    <2> QED BY <1>1, <2>2 DEF TornIsWritten, Action, Blocked, Required, Strategy, Dest, Options
  <1>7. ASSUME edited = {} PROVE FilesRecover'
    <2>1. FilesRecover
      BY <1>4, <1>7 DEF RetryInv
    <2> SUFFICES ASSUME NEW d, Sole(d), d \notin torn, d # path
                 PROVE  Same(files', setup.tree, d) \/ Same(files', Goal, d)
      BY <1>1, <1>3 DEF FilesRecover
    <2> QED BY <1>2, <2>1, PutFacts DEF FilesRecover
  <1>8. ~Active'
    BY <1>1 DEF Active
  <1> QED BY <1>1, <1>3, <1>6, <1>7, <1>8 DEF RetryInv

LEMMA RetryEdit == ASSUME RetryInv, SessionInv', NEW path, Edit(path) PROVE RetryInv'
  <1>1. setup' = setup /\ torn' = torn /\ edited' # {}
    BY DEF Edit
  <1>2. Ready' <=> Ready
    BY <1>1, GoalStays
  <1>3. Ready' => TornIsWritten'
    BY <1>1, <1>2, TornStays DEF RetryInv
  <1> QED BY <1>1, <1>3 DEF RetryInv

LEMMA RetryStep == ASSUME RetryInv, [Next]_vars PROVE RetryInv'
  <1>1. SessionInv'
    BY SessionStep DEF RetryInv
  <1>2. CASE Fail \/ Refuse \/ RunPlan \/ Inspect
    <2>1. /\ setup' = setup /\ files' = files /\ torn' = torn /\ edited' = edited
          /\ session' = None
      BY <1>2 DEF Fail, Refuse, RunPlan, Inspect, Start, Unwritten
    <2>2. outcome'.kind # "applied"
      BY <1>2 DEF Fail, Refuse, RunPlan, Inspect, Failure, Refusal, Outcome
    <2>3. ~Active'
      BY <2>1, <2>2 DEF Active
    <2> QED BY <1>1, <2>1, <2>3, RetryUnwritten
  <1>3. CASE RunApply
    <2>1. /\ setup' = setup /\ files' = files /\ torn' = torn /\ edited' = edited
          /\ view' = files
      BY <1>3 DEF RunApply
    <2> QED BY <1>1, <2>1, RetryUnwritten
  <1>4. CASE WriteFails \/ Finish \/ UNCHANGED vars
    <2>1. /\ setup' = setup /\ files' = files /\ torn' = torn /\ edited' = edited
          /\ view' = view
      BY <1>4 DEF WriteFails, Finish, vars
    <2>2. Active' => Active
      BY <1>4 DEF WriteFails, Finish, vars, Active
    <2> QED BY <1>1, <2>1, <2>2, RetryUnwritten
  <1>5. ASSUME NEW path \in ToSet(PathOrder), WriteNext(path) \/ WriteTorn(path) \/ Edit(path)
        PROVE  RetryInv'
    BY <1>1, <1>5, RetryWriteNext, RetryWriteTorn, RetryEdit
  <1> QED BY <1>2, <1>3, <1>4, <1>5 DEF Next

LEMMA RetryInit == ASSUME Init PROVE RetryInv
  <1>1. SessionInv
    BY SessionInit
  <1>2. TornIsWritten /\ FilesRecover /\ ViewRecovers
    BY DEF Init, TornIsWritten, FilesRecover, ViewRecovers, Same
  <1> QED BY <1>1, <1>2 DEF RetryInv

LEMMA InvImpliesRecovery == RetryInv => RetryRecovers
  <1> DEFINE first == FilesToWrite(ApplyTemplateExecution(PlanOf(setup.tree), Registry(Options)))
  <1>1. Goal = Overlay(first, setup.tree)
    BY DEF Goal, After
  <1> SUFFICES ASSUME RetryInv, outcome.kind = "applied", edited = {},
                      NEW d, Alone(d),
                      \/ d \notin torn
                      \/ \A e \in ToSet(outcome.plan) : e.dest # d \/ e.action # "merge"
               PROVE  Same(files, Goal, d)
    BY <1>1 DEF RetryRecovers
  <1>2. SessionInv /\ Active /\ Ready /\ setup \in Setups
    BY DEF RetryInv, SessionInv, Active
  <1>3. TornIsWritten /\ ViewRecovers
    BY <1>2 DEF RetryInv
  <1>4. session = None /\ Plan = outcome.plan /\ Todo = {}
    BY <1>2 DEF SessionInv, SessionTyped, Plan, Todo
  <1>5. Sole(d)
    BY AloneIsSole
  <1>6. PICK t : /\ IsTree(t) /\ Plan = PlanOf(t) /\ \A p : Same(t, view, p)
                 /\ \A p : p \notin Todo => Same(files, After(t), p)
    BY <1>2, ActiveFiles
  <1>7. CASE d \notin torn
    <2>1. Same(t, setup.tree, d) \/ Same(t, Goal, d)
      BY <1>3, <1>5, <1>6, <1>7 DEF ViewRecovers, Same
    <2>2. Same(After(t), Goal, d)
      BY <1>2, <1>5, <1>6, <2>1, SessionsConverge
    <2> QED BY <1>4, <1>6, <2>2 DEF Same
  <1>8. CASE d \in torn
    <2>1. PICK i \in DOMAIN setup.sources :
            /\ Dest(setup.sources[i]) = d
            /\ Action(setup.sources[i]) \in {"raw_copy", "write", "merge"}
      BY <1>3, <1>8 DEF TornIsWritten
    <2>2. IsEntry(Plan[i], setup.sources[i], t) /\ Plan[i] \in ToSet(Plan)
      BY <1>6, PlanEntries DEF ToSet
    <2>3. Action(setup.sources[i]) # "merge"
      BY <1>4, <1>8, <2>1, <2>2 DEF IsEntry
    <2>4. IsTree(setup.tree)
      BY <1>2, SetupAssumption
    <2>5. /\ d \in DOMAIN After(t) /\ After(t)[d] = Prepared(setup.sources[i])
          /\ d \in DOMAIN Goal /\ Goal[d] = Prepared(setup.sources[i])
      BY <1>2, <1>5, <1>6, <2>1, <2>3, <2>4, CopiesConverge DEF Goal
    <2> QED BY <1>4, <1>6, <2>5 DEF Same
  <1> QED BY <1>7, <1>8

\* However many sessions failed half way, one that ends leaves at every
\* destination with one template what an undisturbed first session would have
\* left, unless a merge was cut short there: applying a template to its own
\* output changes nothing.
THEOREM RetriesRecover == Spec => []RetryRecovers
  <1>1. Init => RetryInv
    BY RetryInit
  <1>2. RetryInv /\ [Next]_vars => RetryInv'
    BY RetryStep
  <1> QED BY <1>1, <1>2, InvImpliesRecovery, PTL DEF Spec
=============================================================================
