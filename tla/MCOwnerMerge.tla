---------------------------- MODULE MCOwnerMerge ----------------------------
(* TLC instance of OwnerMerge: documents of up to two owners and tips that *)
(* differ from the base by up to three edits together.                     *)
EXTENDS OwnerMerge, SequencesExt

Owner(i, p) == [id |-> i, print |-> p]
Doc(owners, gaps) == [owners |-> owners, gaps |-> gaps, flaw |-> "none"]
Gap(tail, lines, head) == [tail |-> tail, lines |-> lines, head |-> head]

\* Every gap has a text of its own, but for the last, which may be empty;
\* owners alone on their lines, or with something before or after them.
Bases == {Doc(<<>>, <<Lines(<<"g0">>)>>),
          Doc(<<Owner("a", 1)>>, <<Lines(<<"g0">>), Gap(<<"t1">>, <<>>, <<>>)>>),
          Doc(<<Owner("a", 1), Owner("b", 1)>>,
              <<Lines(<<"g0">>), Gap(<<"t1">>, <<"g1">>, <<"h2">>), Lines(<<>>)>>),
          Doc(<<Owner("a", 1), Owner("b", 1)>>,
              <<Lines(<<>>), Lines(<<"g1">>), Lines(<<"g2">>)>>)}

New(p) == <<IF p = 2 THEN "new2" ELSE "new3">>

\* Owner k is taken out: with the lines before it, with its own lines, or
\* with what is in its range only.
Without(d, k) ==
  LET before == d.gaps[k]  after == d.gaps[k + 1]
      gaps == {Gap(before.tail, after.lines, after.head), Spliced(before, <<>>, after),
               Spliced(before, before.head \o after.tail, after)}
  IN  {[d EXCEPT !.owners = RemoveAt(@, k), !.gaps = RemoveAt([@ EXCEPT ![k] = g], k + 1)] : g \in gaps}

\* A new owner on a line of its own, before or after the lines of gap k.
With(d, k, owner) ==
  LET g == d.gaps[k]
      split == {<<Gap(g.tail, <<>>, <<>>), Gap(<<>>, g.lines, g.head)>>,
                <<Gap(g.tail, g.lines, <<>>), Gap(<<>>, <<>>, g.head)>>}
  IN  {[d EXCEPT !.owners = InsertAt(@, k, owner),
                 !.gaps = InsertAt([@ EXCEPT ![k] = s[2]], k, s[1])] : s \in split}

\* The text on the lines of an owner, in the gaps, or at the end is changed.
Retexted(d, p) ==
  LET n == Len(d.owners)  last == d.gaps[n + 1]
  IN  {[d EXCEPT !.gaps[k].lines = New(p)] : k \in 1..(n + 1)}
      \cup {[d EXCEPT !.gaps[k].head = New(p)] : k \in 1..n}
      \cup {[d EXCEPT !.gaps[k + 1].tail = New(p)] : k \in 1..n}
      \cup {IF last.lines = <<>> /\ n > 0
            THEN [d EXCEPT !.gaps[n + 1].tail = Append(@, NoNewline)]
            ELSE [d EXCEPT !.gaps[n + 1].lines = Append(@, NoNewline)]}

\* One edit by a tip that writes the fingerprint p.
Edits(d, p) ==
  LET n == Len(d.owners)
  IN  {[d EXCEPT !.owners[k].print = p] : k \in 1..n}
      \cup Retexted(d, p)
      \cup UNION {Without(d, k) : k \in 1..n}
      \cup UNION {With(d, k, Owner(i, p)) :
                    k \in 1..(n + 1), i \in Ids \ {d.owners[j].id : j \in 1..n}}
      \cup {[d EXCEPT !.owners = Reverse(@)]}

Flawed(d) == {[d EXCEPT !.flaw = f] : f \in {"invalid", "shared"}}

Once(d, p) == {d} \cup Edits(d, p)
Twice(d, p) == UNION {Edits(e, p) : e \in Edits(d, p)}
Triples(b, ours, theirs) ==
  {[base |-> b, ours |-> o, theirs |-> t] : o \in ours, t \in theirs}

MCInputs ==
  UNION {Triples(b, Once(b, 2), Once(b, 2) \cup Once(b, 3))
           \cup Triples(b, Twice(b, 2), Once(b, 3))
           \cup Triples(b, Once(b, 2), Twice(b, 3))
           \cup Triples(b, Edits(b, 2), UNION {Flawed(e) : e \in Once(b, 3)}) : b \in Bases}
=============================================================================
