------------------------- MODULE MCTemplateSession --------------------------
(* TLC instance of TemplateSession: two templates at a time, that may share *)
(* a destination, in every strategy, with and without a profile.            *)
EXTENDS TemplateSession

MCFamilyOf == [p \in {".kettle-jem.yml", "README.md", "gem.gemspec", "notes.txt",
                      "zed.gemspec"} |->
                 CASE p = "README.md" -> "markdown"
                   [] p \in {"gem.gemspec", "zed.gemspec"} -> "ruby"
                   [] p = ".kettle-jem.yml" -> "yaml"
                   [] p = "notes.txt" -> "text"]
MCPathOrder == <<"README.md", "notes.txt", "zed.gemspec">>

Source(p, s) == [path |-> p, suffix |-> s]
Pairs == {<<Source("README.md", ""), Source("README.md", ".example")>>,
          <<Source("gem.gemspec", ".example"), Source("zed.gemspec", "")>>,
          <<Source(".kettle-jem.yml", ""), Source("notes.txt", "")>>,
          <<Source("README.md", ".no-osc.example"), Source("notes.txt", "")>>}

Templates(pair) ==
  {[s \in ToSet(pair) |-> IF s = pair[1] THEN a ELSE b] :
     a \in {<<"t">>, <<"k1", "k2">>}, b \in {<<"t">>, <<"k2", "k1">>, <<"t", Bad>>}}

\* Two merges that are refused: one at once, the other when it is repeated.
MCUnrendered == {<< <<"t">>, <<"v", "v">> >>, << <<"own", "t">>, <<"t">> >>}

Trees(pair) ==
  LET dests == ({"README.md"} \cap {pair[1].path}) \cup {pair[2].path}
  IN  UNION {[d -> {<<"own">>, <<"t">>, <<"own", Bad>>}] : d \in SUBSET dests}

Values == {<<>>, [k \in TokenKeys |-> "v"], [k \in TokenKeys |-> IF k = "k1" THEN "k2" ELSE "v"]}

Opt(m, s, ov, r, a) == [mode |-> m, strategy |-> s, overrides |-> ov,
                        replacements |-> r, allowed |-> a, project |-> "zed.gemspec"]
Asked(kind, profile, missing, o) ==
  [kind |-> kind, profile |-> profile, missing |-> missing, options |-> o]

MCProfiles == [p \in {"release"} |->
                 Opt("apply", "accept_template", <<>>, [k \in TokenKeys |-> "v"], {"ruby"})]

Keep(p) == <<[path |-> p, strategy |-> "keep_destination"]>>

Requests ==
  {Asked("options", None, {}, Opt("apply", s, ov, r, a)) :
     s \in Strategies, ov \in {<<>>, Keep("zed.gemspec")}, r \in Values, a \in {None, {"ruby"}}}
  \cup {Asked("profile", "release", {}, [DefaultOptions EXCEPT !.project = "zed.gemspec",
                                                               !.mode = m]) :
          m \in {"plan", "reapply"}}
  \cup {Asked("profile", "lost", {}, DefaultOptions),
        Asked("options", None, {}, DefaultOptions),
        Asked("options", None, {"missing_template_root"}, DefaultOptions)}

MCSetups ==
  UNION {{[sources |-> pair, templates |-> t, tree |-> d, request |-> q] :
            t \in Templates(pair), d \in Trees(pair),
            q \in {x \in Requests :
                     /\ x.options.overrides # <<>> => pair[2].path = "zed.gemspec"
                     /\ x.options.allowed # None => x.options.strategy = "merge"}} :
         pair \in Pairs}
=============================================================================
