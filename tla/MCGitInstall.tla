---------------------------- MODULE MCGitInstall ----------------------------
(* TLC instances of GitInstall: the include-file scope with its two targets *)
(* for one installer, and a single-target scope that two installers share.  *)
EXTENDS GitInstall

IncludeScope == [targets |-> <<"fragment", "config">>, procs |-> {"p1"}]
SharedScope  == [targets |-> <<"attributes">>, procs |-> {"p1", "p2"}]

MCScopes == {IncludeScope, SharedScope}
MCIncludeScope == {IncludeScope}

=============================================================================
