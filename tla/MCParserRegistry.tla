-------------------------- MODULE MCParserRegistry --------------------------
(* TLC instance of ParserRegistry: threads and IDs are model values, and    *)
(* threads are interchangeable.                                             *)
EXTENDS ParserRegistry, TLC

Symmetry == Permutations(Threads)

=============================================================================
