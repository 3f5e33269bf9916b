---------------------------- MODULE MCJsonMerge ----------------------------
(* TLC instance of JsonMerge: small objects and arrays, with repeated       *)
(* members, comments and both layouts.                                      *)
EXTENDS JsonMerge

M(k, v) == [key |-> k, value |-> v]

\* What nested objects hold.
InnerMembers ==
  {<<>>, <<M(<<"x">>, Scalar(1))>>, <<M(<<"x">>, Scalar(2))>>,
   <<M(<<"x">>, Scalar(1)), M(<<"y">>, Scalar(1))>>, <<M(<<"x">>, Scalar(1)), M(<<"x">>, Scalar(2))>>,
   <<M(<<"x">>, Scalar(1)), M(<<"x">>, Scalar(1))>>}

\* Comments of an object; there is one behind the last member only if there
\* is a member, and a second only behind the first.
Notes(members) ==
  IF members = <<>> THEN {{}}
  ELSE {{}, {"inner"}, {"tail"}, {"inner", "tail"}, {"tail", "second"}}

Plain(members) == Object(members, TRUE, {})

\* Revisions that are read: base, theirs, templates.
ReadRoots ==
  {Plain(a \o b) :
     a \in {<<>>, <<M(<<"a">>, Scalar(1))>>} \cup {<<M(<<"a">>, Plain(m))>> : m \in InnerMembers},
     b \in {<<>>, <<M(<<"b">>, Scalar(1))>>, <<M(<<"b">>, Scalar(2))>>}}

\* The revision whose text is edited, in every layout: on several lines with
\* nested objects in either layout, or all on one line.
EditedInner(inline) ==
  UNION {{<<M(<<"a">>, Object(m, inline, n))>> : n \in Notes(m)} : m \in InnerMembers}
EditedRoots ==
  UNION {UNION {{Object(a \o b, inline, n) : n \in {{}, {"inner"}}} :
           a \in {<<>>, <<M(<<"a">>, Scalar(2))>>} \cup EditedInner(TRUE)
                 \cup (IF inline THEN {} ELSE EditedInner(FALSE)),
           b \in {<<>>, <<M(<<"b">>, Scalar(1))>>}} :
         inline \in BOOLEAN}

Elements ==
  {Scalar(1), Plain(<<M(<<"id">>, Scalar(1))>>), Plain(<<M(<<"id">>, Scalar(2))>>),
   Plain(<<M(<<"id">>, Scalar(1)), M(<<"x">>, Scalar(1))>>),
   Plain(<<M(<<"id">>, Scalar(1)), M(<<"x">>, Scalar(2))>>)}
Arrays == {ArrayOf(s) : s \in UNION {[1..n -> Elements] : n \in 0..2}}

MCIdKey == <<"id">>

\* Objects whose members are repeated and hold objects.
Repeating ==
  LET inner == {Scalar(1), Plain(<<>>)}
                 \cup {Plain(<<M(k, Scalar(v))>>) : k \in {<<"x">>, <<"y">>}, v \in 1..2}
  IN  {Plain(<<>>)} \cup {Plain(<<M(<<"a">>, u)>>) : u \in inner}
        \cup {Plain(<<M(<<"a">>, u), M(<<"a">>, w)>>) : u, w \in inner}

MCKeyOrder == << <<"a">>, <<"b">>, MCIdKey, <<"x">>, <<"y">> >>

MCFamilies ==
  {[lanes |-> {"typed", "untyped"}, bases |-> ReadRoots, ours |-> EditedRoots, theirs |-> ReadRoots],
   [lanes |-> {"template"}, bases |-> {Scalar(0)}, ours |-> EditedRoots, theirs |-> ReadRoots],
   [lanes |-> {"typed"}, bases |-> Repeating, ours |-> Repeating, theirs |-> Repeating],
   [lanes |-> {"template"}, bases |-> {Scalar(0)}, ours |-> Repeating, theirs |-> Repeating],
   [lanes |-> {"typed"}, bases |-> Arrays, ours |-> Arrays, theirs |-> Arrays]}

=============================================================================
