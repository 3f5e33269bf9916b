------------------------- MODULE VersionedRegistry -------------------------
(***************************************************************************)
(* What a provider registry promises, whichever lock and call structure    *)
(* implements it: a map with a generation counter whose mutations are      *)
(* atomic, advance the generation exactly once, never reuse a generation   *)
(* and touch one ID, or remove everything.  Both registries of the system  *)
(* (parsers and merge providers) implement it.                             *)
(***************************************************************************)
EXTENDS Naturals

CONSTANTS Ids, Values, None, MaxGeneration

VARIABLES generation, entries

Init ==
  /\ generation = 0
  /\ entries = [i \in Ids |-> None]

Advance ==
  /\ generation < MaxGeneration
  /\ generation' = generation + 1

\* register: only an absent ID.
Add(i, v) ==
  /\ entries[i] = None
  /\ entries' = [entries EXCEPT ![i] = v]
  /\ Advance

\* replace: only a present ID.
Swap(i, v) ==
  /\ entries[i] # None
  /\ entries' = [entries EXCEPT ![i] = v]
  /\ Advance

\* unregister: only a present ID.
Remove(i) ==
  /\ entries[i] # None
  /\ entries' = [entries EXCEPT ![i] = None]
  /\ Advance

\* clear: everything at once.
RemoveAll ==
  /\ entries' = [i \in Ids |-> None]
  /\ Advance

Next ==
  \/ \E i \in Ids, v \in Values : Add(i, v) \/ Swap(i, v)
  \/ \E i \in Ids : Remove(i)
  \/ RemoveAll

Spec == Init /\ [][Next]_<<generation, entries>>

=============================================================================
