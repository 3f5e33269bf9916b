--------------------------- MODULE ParserRegistry ---------------------------
(***************************************************************************)
(* TreeHaver's parser registry (crates/tree-haver/src/service.rs) driven   *)
(* through the process-wide facade of crates/structuredmerge-core/src/     *)
(* host.rs by concurrent threads.                                          *)
(*                                                                         *)
(* A registry is a generation counter and a map from provider IDs to       *)
(* providers behind one RwLock.  The lock is explicit (writer), because    *)
(* what matters is which provider code runs while it is held: descriptor   *)
(* callbacks, parse callbacks and provider destructors are host code that  *)
(* may panic or enter the registry again.  Read-locked sections (snapshot) *)
(* run no provider code and are single steps.                              *)
(*                                                                         *)
(* A provider is an Arc: it is destroyed by the thread that gives up its   *)
(* last reference, be it the map's, a snapshot's or a local variable's.    *)
(***************************************************************************)
EXTENDS Naturals

CONSTANTS
  Threads,        \* client threads of the facade
  Ids,            \* provider IDs
  Kinds,          \* what a descriptor says besides its ID
  NativeKinds,    \* descriptors of the compiled-in syn and oxc parsers
  MaxProviders,   \* bound: provider instances (Arcs) ever created
  None,           \* absent entry
  MaxGeneration,  \* u64::MAX in the code
  MaxOps          \* bound: facade calls per thread

ASSUME MaxProvidersAssumption == MaxProviders \in Nat
ASSUME KindAssumption == NativeKinds \subseteq Kinds
ASSUME MaxGenerationAssumption == MaxGeneration \in Nat
ASSUME MaxOpsAssumption == MaxOps \in Nat

Providers == 1..MaxProviders   \* numbered in creation order

ASSUME NoneAssumption == None \notin Providers \cup Ids \cup Kinds \cup Threads

VARIABLES
  generation, entries,   \* RegistryState
  writer, poisoned,      \* the RwLock: write guard's owner, poison flag
  created, dropped,      \* providers created so far, providers destroyed
  desc,                  \* cached descriptor of each described provider
  pc, ret, op,           \* control: step, step after a drop, facade call
  arg, kind,             \* the ID the call is about; a native call's parser
  hand,                  \* Arcs in the call's local variables
  snapGen, snapEnt,      \* the snapshot the call retains
  expected,              \* generation the thread observed latest
  dying,                 \* providers whose destructor the thread is running
  res,                   \* result of the latest call
  ops,                   \* calls made
  log, seen              \* history: map at each generation; map observed with `expected`

registryVars == <<generation, entries, log>>
lockVars     == <<writer, poisoned>>
arcVars      == <<created, dropped, desc>>
callVars     == <<op, arg, kind, ops>>
vars == <<registryVars, lockVars, arcVars, pc, ret, callVars, hand, snapGen,
          snapEnt, expected, dying, res, seen>>

Descriptors == [id : Ids, kind : Kinds]
EntryMaps   == [Ids -> Providers \cup {None}]
NoEntries   == [i \in Ids |-> None]
Ops == {"register", "replace", "unregister", "inventory", "parse", "native"}
Steps == {"idle", "describe", "build", "snapshot", "recheck", "call",
          "acquire", "commit", "release", "drop", "reenter", "destroy"}
Results == {"none", "ok", "InvalidDescriptor", "DuplicateId", "UnknownId",
            "StaleGeneration", "GenerationExhausted", "Poisoned",
            "ProviderPanic", "OtherProvider", "NoParser"}

Init ==
  /\ generation = 0 /\ entries = NoEntries
  /\ log = [g \in 0..MaxGeneration |-> NoEntries]
  /\ writer = None /\ poisoned = FALSE
  /\ created = 0 /\ dropped = {}
  /\ desc = [p \in Providers |-> None]
  /\ pc = [t \in Threads |-> "idle"]
  /\ ret = [t \in Threads |-> "idle"]
  /\ op = [t \in Threads |-> "inventory"]
  /\ arg = [t \in Threads |-> None]
  /\ kind = [t \in Threads |-> None]
  /\ hand = [t \in Threads |-> {}]
  /\ snapGen = [t \in Threads |-> 0]
  /\ snapEnt = [t \in Threads |-> NoEntries]
  /\ expected = [t \in Threads |-> 0]
  /\ seen = [t \in Threads |-> NoEntries]
  /\ dying = [t \in Threads |-> {}]
  /\ res = [t \in Threads |-> "none"]
  /\ ops = [t \in Threads |-> 0]

-----------------------------------------------------------------------------
(* Arc references *)

ProvidersIn(f) == {f[i] : i \in DOMAIN f} \ {None}

\* A provider some registry entry, snapshot or local variable refers to,
\* other than the references thread t is giving up.
HeldWithout(t) ==
  ProvidersIn(entries) \cup
  UNION {hand[u] \cup ProvidersIn(snapEnt[u]) : u \in Threads \ {t}}

Held == ProvidersIn(entries) \cup UNION {hand[u] \cup ProvidersIn(snapEnt[u]) : u \in Threads}

-----------------------------------------------------------------------------
(* A thread makes a facade call *)

\* Arc::new: an instance that only thread t's local variable refers to.
NewProvider(t) ==
  /\ created < MaxProviders
  /\ created' = created + 1
  /\ hand' = [hand EXCEPT ![t] = {created + 1}]

Begin(t, o, i, k, step) ==
  /\ pc[t] = "idle" /\ ops[t] < MaxOps
  /\ pc' = [pc EXCEPT ![t] = step]
  /\ ret' = [ret EXCEPT ![t] = "idle"]
  /\ op' = [op EXCEPT ![t] = o]
  /\ arg' = [arg EXCEPT ![t] = i]
  /\ kind' = [kind EXCEPT ![t] = k]
  /\ ops' = [ops EXCEPT ![t] = @ + 1]
  /\ res' = [res EXCEPT ![t] = "none"]
  /\ UNCHANGED <<registryVars, lockVars, desc, dropped, snapGen, snapEnt,
                 expected, seen, dying>>

\* register_parser_host, replace_parser_host and the language-pack calls:
\* the caller brings a provider that no one else refers to.
BeginProvide(t, o) ==
  /\ o \in {"register", "replace"}
  /\ NewProvider(t)
  /\ Begin(t, o, None, None, "describe")

\* parser_registry_inventory, parse_sources and unregister_parser_provider
\* start from a snapshot; so do the idempotent native registrations.
BeginObserve(t, o, i, k) ==
  /\ \/ o = "inventory" /\ i = None /\ k = None
     \/ o \in {"parse", "unregister"} /\ i \in Ids /\ k = None
     \/ o = "native" /\ i \in Ids /\ k \in NativeKinds
  /\ Begin(t, o, i, k, "snapshot")
  /\ UNCHANGED <<created, hand>>

-----------------------------------------------------------------------------
(* Descriptor callback: outside the lock, may panic or fail *)

Goto(t, step) == pc' = [pc EXCEPT ![t] = step]
Return(t, r)  == res' = [res EXCEPT ![t] = r]

Described(t, p, d) ==
  /\ pc[t] = "describe" /\ hand[t] = {p}
  /\ desc' = [desc EXCEPT ![p] = d]
  /\ arg' = [arg EXCEPT ![t] = d.id]
  /\ Goto(t, "acquire")
  /\ UNCHANGED <<registryVars, lockVars, created, dropped, ret, op, kind, ops,
                 hand, snapGen, snapEnt, expected, seen, dying, res>>

DescribeFails(t, r) ==
  /\ pc[t] = "describe"
  /\ r \in {"ProviderPanic", "InvalidDescriptor"}
  /\ Return(t, r)
  /\ Goto(t, "drop")
  /\ UNCHANGED <<registryVars, lockVars, arcVars, ret, callVars, hand,
                 snapGen, snapEnt, expected, seen, dying>>

-----------------------------------------------------------------------------
(* The write-locked sections of register, replace and unregister *)

Acquire(t) ==
  /\ pc[t] = "acquire" /\ writer = None
  /\ writer' = t
  /\ Goto(t, "commit")
  /\ UNCHANGED <<registryVars, poisoned, arcVars, ret, callVars, hand,
                 snapGen, snapEnt, expected, seen, dying, res>>

RegisterOutcome(t) ==
  IF poisoned THEN "Poisoned"
  ELSE IF entries[arg[t]] # None THEN "DuplicateId"
  ELSE IF generation = MaxGeneration THEN "GenerationExhausted"
  ELSE "ok"

\* Fault: the observed generation is not compared.
CasOutcome_AnyGeneration(t) ==
  IF poisoned THEN "Poisoned"
  ELSE IF entries[arg[t]] = None THEN "UnknownId"
  ELSE IF generation = MaxGeneration THEN "GenerationExhausted"
  ELSE "ok"

\* replace and unregister compare the observed generation first.
CasOutcome(t) ==
  IF poisoned THEN "Poisoned"
  ELSE IF generation # expected[t] THEN "StaleGeneration"
  ELSE IF entries[arg[t]] = None THEN "UnknownId"
  ELSE IF generation = MaxGeneration THEN "GenerationExhausted"
  ELSE "ok"

\* Fault: removals keep the generation.
Install_RemovalKeepsGeneration(i, p) ==
  /\ entries' = [entries EXCEPT ![i] = p]
  /\ generation' = IF p = None THEN generation ELSE generation + 1
  /\ log' = [log EXCEPT ![generation'] = entries']

\* Store p (None removes) under id i and advance the generation once.
Install(i, p) ==
  /\ entries' = [entries EXCEPT ![i] = p]
  /\ generation' = generation + 1
  /\ log' = [log EXCEPT ![generation + 1] = entries']

Fail(t, r) ==
  /\ Return(t, r)
  /\ UNCHANGED <<registryVars, hand>>

\* Fault: what a call gives up is dropped inside the guard's scope.
CommitFrame_DropsUnderLock(t) ==
  /\ pc[t] = "commit" /\ writer = t
  /\ Goto(t, "drop")
  /\ ret' = [ret EXCEPT ![t] = "release"]
  /\ UNCHANGED <<lockVars, arcVars, callVars, snapGen, snapEnt,
                 expected, seen, dying>>

CommitFrame(t) ==
  /\ pc[t] = "commit" /\ writer = t
  /\ Goto(t, "release")
  /\ UNCHANGED <<lockVars, arcVars, ret, callVars, snapGen, snapEnt,
                 expected, seen, dying>>

\* A success moves the provider into the map.
CommitRegister(t) ==
  /\ op[t] \in {"register", "native"}
  /\ CommitFrame(t)
  /\ \/ /\ RegisterOutcome(t) = "ok"
        /\ \E p \in hand[t] : Install(arg[t], p)
        /\ hand' = [hand EXCEPT ![t] = {}]
        /\ Return(t, "ok")
     \/ RegisterOutcome(t) # "ok" /\ Fail(t, RegisterOutcome(t))

\* Fault: the retired provider is forgotten rather than dropped.
CommitReplace_Leaks(t) ==
  /\ op[t] = "replace"
  /\ CommitFrame(t)
  /\ \/ /\ CasOutcome(t) = "ok"
        /\ \E p \in hand[t] : Install(arg[t], p)
        /\ hand' = [hand EXCEPT ![t] = {}]
        /\ Return(t, "ok")
     \/ CasOutcome(t) # "ok" /\ Fail(t, CasOutcome(t))

\* A success swaps the new provider against the retired one, which stays
\* in a local variable until the guard is released.
CommitReplace(t) ==
  /\ op[t] = "replace"
  /\ CommitFrame(t)
  /\ \/ /\ CasOutcome(t) = "ok"
        /\ \E p \in hand[t] : Install(arg[t], p)
        /\ hand' = [hand EXCEPT ![t] = {entries[arg[t]]}]
        /\ Return(t, "ok")
     \/ CasOutcome(t) # "ok" /\ Fail(t, CasOutcome(t))

CommitUnregister(t) ==
  /\ op[t] = "unregister"
  /\ CommitFrame(t)
  /\ \/ /\ CasOutcome(t) = "ok"
        /\ Install(arg[t], None)
        /\ hand' = [hand EXCEPT ![t] = {entries[arg[t]]}]
        /\ Return(t, "ok")
     \/ CasOutcome(t) # "ok" /\ Fail(t, CasOutcome(t))

\* The guard goes out of scope before any Arc does.  A native registration
\* that lost the race looks again after its own Arc is gone.
Release(t) ==
  /\ pc[t] = "release"
  /\ writer' = None
  /\ Goto(t, "drop")
  /\ ret' = [ret EXCEPT ![t] =
               IF op[t] = "native" /\ res[t] = "DuplicateId" THEN "recheck"
               ELSE "idle"]
  /\ UNCHANGED <<registryVars, poisoned, arcVars, callVars, hand, snapGen,
                 snapEnt, expected, seen, dying, res>>

-----------------------------------------------------------------------------
(* Snapshots *)

Capture(t) ==
  /\ writer = None
  /\ snapGen' = [snapGen EXCEPT ![t] = generation]
  /\ snapEnt' = [snapEnt EXCEPT ![t] = entries]

\* Inventory observes and returns.  Unregister passes the generation it
\* observed and keeps its snapshot until it returns.
SnapshotObserve(t) ==
  /\ pc[t] = "snapshot" /\ op[t] \in {"inventory", "unregister"}
  /\ Capture(t)
  /\ expected' = [expected EXCEPT ![t] = generation]
  /\ seen' = [seen EXCEPT ![t] = entries]
  /\ Goto(t, IF op[t] = "inventory" THEN "drop" ELSE "acquire")
  /\ UNCHANGED <<registryVars, lockVars, arcVars, ret, callVars, hand, dying,
                 res>>

\* parse_sources with an explicit backend: no entry, no fallback.
SnapshotParse(t) ==
  /\ pc[t] = "snapshot" /\ op[t] = "parse"
  /\ Capture(t)
  /\ IF entries[arg[t]] # None
       THEN Goto(t, "call") /\ UNCHANGED res
       ELSE Goto(t, "drop") /\ Return(t, "NoParser")
  /\ UNCHANGED <<registryVars, lockVars, arcVars, ret, callVars, hand,
                 expected, seen, dying>>

\* The provider's callback returns; the snapshot pinned it meanwhile.
CallReturns(t) ==
  /\ pc[t] = "call"
  /\ Return(t, "ok")
  /\ Goto(t, "drop")
  /\ UNCHANGED <<registryVars, lockVars, arcVars, ret, callVars, hand,
                 snapGen, snapEnt, expected, seen, dying>>

\* registered_rust_syn_parser: what the ID names in the snapshot.
NativeLookup(t) ==
  LET p == entries[arg[t]]
  IN  IF p = None THEN "none"
      ELSE IF desc[p].kind = kind[t] THEN "ok" ELSE "OtherProvider"

\* First look of register_rust_syn_parser.  Only an absent ID goes on to
\* register; the snapshot is dropped before that.
SnapshotNative(t) ==
  /\ pc[t] = "snapshot" /\ op[t] = "native"
  /\ Capture(t)
  /\ Return(t, NativeLookup(t))
  /\ Goto(t, "drop")
  /\ ret' = [ret EXCEPT ![t] =
               IF NativeLookup(t) = "none" THEN "build" ELSE "idle"]
  /\ UNCHANGED <<registryVars, lockVars, arcVars, callVars, hand, expected,
                 seen, dying>>

\* The native provider is built; its descriptor is a compiled-in value.
NativeProvider(t) ==
  /\ pc[t] = "build"
  /\ NewProvider(t)
  /\ desc' = [desc EXCEPT ![created + 1] = [id |-> arg[t], kind |-> kind[t]]]
  /\ Goto(t, "acquire")
  /\ UNCHANGED <<registryVars, lockVars, dropped, ret, callVars, snapGen,
                 snapEnt, expected, seen, dying, res>>

\* Second look, after DuplicateId: an ID that has vanished meanwhile is
\* reported as taken by another provider.
RecheckNative(t) ==
  /\ pc[t] = "recheck"
  /\ Capture(t)
  /\ Return(t, IF NativeLookup(t) = "ok" THEN "ok" ELSE "OtherProvider")
  /\ Goto(t, "drop")
  /\ ret' = [ret EXCEPT ![t] = "idle"]
  /\ UNCHANGED <<registryVars, lockVars, arcVars, callVars, hand, expected,
                 seen, dying>>

-----------------------------------------------------------------------------
(* Giving up references; the last one runs the destructor *)

\* What a destructor will do is the provider's own and settled when it
\* starts: it enters the registry first, or it does not.
Drop(t) ==
  LET mine == hand[t] \cup ProvidersIn(snapEnt[t])
      last == mine \ HeldWithout(t)
  IN  /\ pc[t] = "drop"
      /\ hand' = [hand EXCEPT ![t] = {}]
      /\ snapGen' = [snapGen EXCEPT ![t] = 0]
      /\ snapEnt' = [snapEnt EXCEPT ![t] = NoEntries]
      /\ dying' = [dying EXCEPT ![t] = last]
      /\ IF last = {} THEN Goto(t, ret[t])
                      ELSE Goto(t, "reenter") \/ Goto(t, "destroy")
      /\ UNCHANGED <<registryVars, lockVars, arcVars, ret, callVars,
                     expected, seen, res>>

\* A destructor that enters the registry waits for the lock, for ever if its
\* own thread holds it.  What it changes there is as another thread's call.
Reenter(t) ==
  /\ pc[t] = "reenter" /\ writer = None
  /\ Goto(t, "destroy")
  /\ UNCHANGED <<registryVars, lockVars, arcVars, ret, callVars, hand,
                 snapGen, snapEnt, expected, seen, dying, res>>

\* The destructor ends, or panics: the unwinding leaves the call and would
\* poison, and release, a lock its own thread holds.
Destroy(t, panics) ==
  /\ pc[t] = "destroy"
  /\ poisoned' = (poisoned \/ (panics /\ writer = t))
  /\ writer' = IF panics /\ writer = t THEN None ELSE writer
  /\ dropped' = dropped \cup dying[t]
  /\ dying' = [dying EXCEPT ![t] = {}]
  /\ Goto(t, IF panics THEN "idle" ELSE ret[t])
  /\ Return(t, IF panics THEN "none" ELSE res[t])
  /\ UNCHANGED <<registryVars, created, desc, ret, callVars, hand,
                 snapGen, snapEnt, expected, seen>>

-----------------------------------------------------------------------------

Call(t) ==
  \/ \E o \in Ops : BeginProvide(t, o)
  \/ \E o \in Ops, i \in Ids \cup {None}, k \in Kinds \cup {None} :
       BeginObserve(t, o, i, k)

Step(t) ==
  \/ \E p \in Providers, d \in Descriptors : Described(t, p, d)
  \/ \E r \in Results : DescribeFails(t, r)
  \/ Acquire(t)
  \/ CommitRegister(t) \/ CommitReplace(t) \/ CommitUnregister(t)
  \/ Release(t)
  \/ SnapshotObserve(t) \/ SnapshotParse(t) \/ SnapshotNative(t)
  \/ CallReturns(t)
  \/ NativeProvider(t)
  \/ RecheckNative(t)
  \/ Drop(t)
  \/ Reenter(t)
  \/ \E panics \in BOOLEAN : Destroy(t, panics)

Next == \E t \in Threads : Call(t) \/ Step(t)

Spec == Init /\ [][Next]_vars

-----------------------------------------------------------------------------
(* Fairness.  A call in progress keeps running and its callbacks return;   *)
(* new calls are never owed.  The call bound makes lock acquisition        *)
(* starvation-free without assuming anything of RwLock's queueing.         *)

FairSpec == Spec /\ \A t \in Threads : WF_vars(Step(t))

-----------------------------------------------------------------------------
(* Properties *)

\* Every variable ranges over its type; the write guard is held exactly in
\* the write-locked steps.
TypeOK ==
  /\ generation \in 0..MaxGeneration
  /\ entries \in EntryMaps
  /\ log \in [0..MaxGeneration -> EntryMaps]
  /\ writer \in Threads \cup {None} /\ poisoned \in BOOLEAN
  /\ created \in 0..MaxProviders /\ dropped \subseteq Providers
  /\ desc \in [Providers -> Descriptors \cup {None}]
  /\ pc \in [Threads -> Steps]
  /\ ret \in [Threads -> {"idle", "build", "recheck"}]
  /\ op \in [Threads -> Ops]
  /\ arg \in [Threads -> Ids \cup {None}]
  /\ kind \in [Threads -> Kinds \cup {None}]
  /\ hand \in [Threads -> SUBSET Providers]
  /\ snapGen \in [Threads -> 0..MaxGeneration]
  /\ snapEnt \in [Threads -> EntryMaps]
  /\ expected \in [Threads -> 0..MaxGeneration]
  /\ seen \in [Threads -> EntryMaps]
  /\ dying \in [Threads -> SUBSET Providers]
  /\ res \in [Threads -> Results]
  /\ ops \in [Threads -> 0..MaxOps]

\* A generation identifies one map for ever: what a call still retains of
\* an old generation is the map the registry had at that generation, and a
\* removal followed by an identical registration does not reuse it.
GenerationIdentifiesMap ==
  /\ log[generation] = entries
  /\ \A t \in Threads :
       /\ seen[t] = log[expected[t]]
       /\ expected[t] <= generation
       /\ snapEnt[t] # NoEntries => snapEnt[t] = log[snapGen[t]]

\* replace and unregister commit only on the very map the caller observed,
\* whatever happened between the observation and the commit.
NoLostUpdate ==
  [][\A t \in Threads :
       (pc[t] = "commit" /\ op[t] \in {"replace", "unregister"} /\ entries' # entries)
         => entries = seen[t]]_vars

\* Host code (descriptor, parse callbacks, destructors) never runs in a
\* thread that holds the write lock, so it can enter the registry again,
\* and its panics never poison the registry for everyone else.
HostCodeUnlocked ==
  /\ ~poisoned
  /\ \A t \in Threads : pc[t] \in {"describe", "call", "reenter", "destroy"} => writer # t

Linearized == INSTANCE VersionedRegistry WITH Values <- Providers

\* The locked, multi-step registry implements a map whose operations are
\* single atomic compare-and-set steps.
ImplementsVersionedRegistry == Linearized!Spec

\* Every facade call returns, also when destructors re-enter the registry.
CallsReturn == \A t \in Threads : pc[t] # "idle" ~> pc[t] = "idle"

\* "eventual release of the retired host": a provider nothing refers to any
\* more is destroyed by whoever gave up the last reference.
RetiredProvidersReleased ==
  \A p \in Providers : (p <= created /\ p \notin Held) ~> p \in dropped

\* register_rust_syn_parser is documented as idempotent for its ID and
\* fails with "already registered for another provider": that another
\* provider has held the ID at some generation.
ConflictNamesAnotherProvider ==
  \A t \in Threads :
    (op[t] = "native" /\ res[t] = "OtherProvider") =>
      \E g \in 0..generation :
        LET p == log[g][arg[t]] IN p # None /\ desc[p].kind # kind[t]

=============================================================================
