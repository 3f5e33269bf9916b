----------------------- MODULE MergeProviderRegistry -----------------------
(***************************************************************************)
(* The registry of merge providers (crates/ast-merge/src/                  *)
(* provider_registry.rs): the parser registry's discipline with a capacity *)
(* and a whole-registry reset.  Every operation does all its work on the   *)
(* map in one write-locked section, after the descriptor has been          *)
(* normalized and before retired providers are dropped, so each is one     *)
(* atomic action here; ParserRegistry models the lock and the drops of the *)
(* same pattern step by step.                                              *)
(***************************************************************************)
EXTENDS Integers, FiniteSets

CONSTANTS
  Ids, None,
  Descriptors,      \* normalized declarations
  Executors,        \* provider handles
  MaxGeneration,    \* u64::MAX
  MaxProviders      \* MAX_PROVIDERS

VARIABLES generation, entries

Entries == [desc : Descriptors, exec : Executors]

\* What the constants stand for: two limits, a finite set of names, and an
\* absence that is no entry.
MergeRegistryConstants ==
  /\ MaxGeneration \in Nat
  /\ MaxProviders \in Nat
  /\ None \notin Entries
  /\ IsFiniteSet(Ids)

\* The IDs a map holds.
Registered(map) == {i \in Ids : map[i] # None}

RegisterError(i) ==
  IF entries[i] # None THEN "DuplicateId"
  ELSE IF Cardinality(Registered(entries)) >= MaxProviders THEN "CapacityExceeded"
  ELSE IF generation = MaxGeneration THEN "GenerationExhausted"
  ELSE "ok"

\* replace and unregister: generation, then presence, then exhaustion.
ChangeError(i, expected) ==
  IF generation # expected THEN "StaleGeneration"
  ELSE IF entries[i] = None THEN "UnknownId"
  ELSE IF generation = MaxGeneration THEN "GenerationExhausted"
  ELSE "ok"

ClearError(expected) ==
  IF generation # expected THEN "StaleGeneration"
  ELSE IF generation = MaxGeneration THEN "GenerationExhausted"
  ELSE "ok"

Commit(map) ==
  /\ entries' = map
  /\ generation' = generation + 1

\* A failed operation leaves the registry as it is.
Register(i, e) ==
  IF RegisterError(i) = "ok" THEN Commit([entries EXCEPT ![i] = e])
  ELSE UNCHANGED <<generation, entries>>

Replace(i, e, expected) ==
  IF ChangeError(i, expected) = "ok" THEN Commit([entries EXCEPT ![i] = e])
  ELSE UNCHANGED <<generation, entries>>

Unregister(i, expected) ==
  IF ChangeError(i, expected) = "ok" THEN Commit([entries EXCEPT ![i] = None])
  ELSE UNCHANGED <<generation, entries>>

Clear(expected) ==
  IF ClearError(expected) = "ok" THEN Commit([i \in Ids |-> None])
  ELSE UNCHANGED <<generation, entries>>

Init ==
  /\ generation = 0
  /\ entries = [i \in Ids |-> None]

Next ==
  \/ \E i \in Ids, e \in Entries : Register(i, e)
  \/ \E i \in Ids, e \in Entries, g \in 0..MaxGeneration : Replace(i, e, g)
  \/ \E i \in Ids, g \in 0..MaxGeneration : Unregister(i, g)
  \/ \E g \in 0..MaxGeneration : Clear(g)

Spec == Init /\ [][Next]_<<generation, entries>>

-----------------------------------------------------------------------------
(* Properties *)

TypeOK ==
  /\ generation \in 0..MaxGeneration
  /\ entries \in [Ids -> Entries \cup {None}]

\* MAX_PROVIDERS holds for every sequence of calls: no path but register
\* adds an ID, and it refuses at the limit.
CapacityRespected == Cardinality(Registered(entries)) <= MaxProviders

\* The registry is an atomic versioned map: each successful call is one
\* addition, exchange, removal or reset and advances the generation by one.
Versioned == INSTANCE VersionedRegistry WITH Values <- Entries
ImplementsVersionedRegistry == Versioned!Spec

=============================================================================
