----------------------------- MODULE GitInstall -----------------------------
(***************************************************************************)
(* The Git configuration installer (crates/smorg-rs/src/git_install.rs,    *)
(* staged_file.rs): owned sections in files the user also edits.  A run    *)
(* plans every target, then for each one rereads it, stages the new        *)
(* contents and renames them into place.  Runs may overlap, fail with I/O  *)
(* errors or be killed at any point, and the user may edit at any point.   *)
(*                                                                         *)
(* A file is Absent or a record: the user's own edits in it and the        *)
(* managed section, with its profile, whether the installer created the    *)
(* file, and the edits the user made inside the section.                   *)
(***************************************************************************)
EXTENDS Integers, Sequences, FiniteSets

CONSTANTS
  Scopes,        \* what runs work on: targets, files in installation order,
                 \* and procs, the installer processes that may overlap
  Fragment,      \* the file that only the installer should fill
  Profiles,
  Absent, NoBlock,
  MaxRuns,       \* bound: runs started
  MaxEdits       \* bound: edits by the user

ASSUME GitInstallAssumption ==
  /\ \A s \in Scopes :
       /\ s.targets \in Seq({s.targets[i] : i \in DOMAIN s.targets}) /\ s.targets # <<>>
       /\ IsFiniteSet(s.procs)
       /\ \A i, j \in DOMAIN s.targets : s.targets[i] = s.targets[j] => i = j
  /\ MaxRuns \in Nat /\ MaxEdits \in Nat

Tokens  == 0..MaxEdits
Blocks  == [profile : Profiles, created : BOOLEAN, edits : SUBSET Tokens]
Content == [user : SUBSET Tokens, block : Blocks \cup {NoBlock}]

Contents == Content \cup {Absent}
Ops == {"install", "undo", "check"}

ASSUME AbsenceAssumption == Absent \notin Content /\ NoBlock \notin Blocks

VARIABLES
  scope,
  disk, orig,       \* file -> contents now, and before the first run
  made,             \* file -> edits made
  exposed,          \* history: edits made between a reread and its rename
  pc, op, profile, dry,      \* per process
  plans,            \* file -> before and after
  step,             \* position in the order of application
  code,             \* exit code of the last run
  runs

vars == <<scope, disk, orig, made, exposed, pc, op, profile, dry, plans, step, code, runs>>
procs == <<pc, op, profile, dry, plans, step, code, runs>>

Targets == scope.targets
Procs   == scope.procs
Files   == {Targets[i] : i \in DOMAIN Targets}

User(c)  == IF c = Absent THEN {} ELSE c.user
Block(c) == IF c = Absent THEN NoBlock ELSE c.block

\* Everything of the user's in a file.
Edits(c) == User(c) \cup (IF Block(c) = NoBlock THEN {} ELSE Block(c).edits)

Init ==
  /\ scope \in Scopes
  /\ orig \in [Files -> {Absent} \cup [user : SUBSET {0}, block : {NoBlock}]]
  /\ disk = orig
  /\ made = [f \in Files |-> Edits(orig[f])]
  /\ exposed = {}
  /\ pc = [p \in Procs |-> "idle"]
  /\ op = [p \in Procs |-> "install"] /\ dry = [p \in Procs |-> FALSE]
  /\ profile \in [Procs -> Profiles]
  /\ \A p, q \in Procs : profile[p] = profile[q]
  /\ plans = [p \in Procs |-> <<>>]
  /\ step = [p \in Procs |-> 1]
  /\ code = [p \in Procs |-> 0]
  /\ runs = 0

-----------------------------------------------------------------------------
(* Planning one file *)

Owned(c) == Block(c) # NoBlock /\ Block(c).edits = {}

\* Fault: the creation mark follows the file, not the first installation.
Created_Fresh(c) == c = Absent

\* A replaced section keeps its creation mark.
Created(c) == IF Owned(c) THEN Block(c).created ELSE c = Absent

Section(prof, created) == [profile |-> prof, created |-> created, edits |-> {}]

Installed(c, prof) ==
  [user |-> User(c), block |-> Section(prof, Created(c))]

\* Undo removes the section, and the file if the installer made it and
\* nothing else is left in it.
Retired(c) ==
  IF ~Owned(c) THEN c
  ELSE IF Block(c).created /\ User(c) = {} THEN Absent
  ELSE [user |-> User(c), block |-> NoBlock]

\* An edited section, an undo or check for another profile and a check that
\* finds nothing are rejected.
Rejects(c, o, prof) ==
  \/ Block(c) # NoBlock /\ ~Owned(c)
  \/ o = "undo" /\ Owned(c) /\ Block(c).profile # prof
  \/ o = "check" /\ (~Owned(c) \/ Block(c).profile # prof)

After(c, o, prof) ==
  CASE o = "install" -> Installed(c, prof)
    [] o = "undo"    -> Retired(c)
    [] o = "check"   -> c

\* Fault: undo takes the targets in installation order.
Order_Same(o) == Targets

\* Fragments precede includes on installation and follow them on undo.
Order(o) ==
  IF o = "undo" THEN [i \in DOMAIN Targets |-> Targets[Len(Targets) + 1 - i]]
  ELSE Targets

-----------------------------------------------------------------------------
(* A run *)

Start(p, o, prof, d) ==
  /\ pc[p] = "idle" /\ runs < MaxRuns
  /\ o = "check" => ~d
  /\ runs' = runs + 1
  /\ pc' = [pc EXCEPT ![p] = "screen"]
  /\ op' = [op EXCEPT ![p] = o]
  /\ profile' = [profile EXCEPT ![p] = prof]
  /\ dry' = [dry EXCEPT ![p] = d]
  /\ plans' = [plans EXCEPT ![p] = <<>>]
  /\ step' = [step EXCEPT ![p] = 1]
  /\ UNCHANGED <<scope, disk, orig, made, exposed, code>>

Stop(p, exit) ==
  /\ pc' = [pc EXCEPT ![p] = "idle"]
  /\ code' = [code EXCEPT ![p] = exit]
  /\ plans' = [plans EXCEPT ![p] = <<>>]
  /\ step' = [step EXCEPT ![p] = 1]

\* A fragment with foreign contents and no section is not activated; it is
\* read for this before it is read for planning.
Screen(p) ==
  /\ pc[p] = "screen"
  /\ IF /\ Fragment \in Files
        /\ User(disk[Fragment]) # {} /\ Block(disk[Fragment]) = NoBlock
       THEN Stop(p, 2)
       ELSE pc' = [pc EXCEPT ![p] = "plan"] /\ UNCHANGED <<plans, step, code>>
  /\ UNCHANGED <<scope, disk, orig, made, exposed, op, profile, dry, runs>>

\* plan: targets are read one after the other, in installation order; a
\* rejection ends the run before anything is written.
Plan(p) ==
  /\ pc[p] = "plan"
  /\ LET f == Targets[step[p]]
         c == disk[f]
     IN  IF Rejects(c, op[p], profile[p]) THEN Stop(p, 2)
         ELSE /\ plans' = [plans EXCEPT ![p] = Append(@,
                    [file |-> f, before |-> c,
                     after |-> After(c, op[p], profile[p])])]
              /\ IF step[p] < Len(Targets)
                   THEN step' = [step EXCEPT ![p] = @ + 1] /\ UNCHANGED pc
                   ELSE /\ step' = [step EXCEPT ![p] = 1]
                        /\ pc' = [pc EXCEPT ![p] = "apply"]
              /\ UNCHANGED code
  /\ UNCHANGED <<scope, disk, orig, made, exposed, op, profile, dry, runs>>

\* The planned change of the current step.
Change(p) ==
  CHOOSE x \in {plans[p][i] : i \in DOMAIN plans[p]} :
    x.file = Order(op[p])[step[p]]

Advance(p) ==
  IF step[p] < Len(Targets)
    THEN /\ step' = [step EXCEPT ![p] = @ + 1]
         /\ pc' = [pc EXCEPT ![p] = "apply"]
         /\ UNCHANGED <<code, plans>>
    ELSE Stop(p, 0)

\* Fault: the target is not read again.
Fresh_Assumed(p) == TRUE

\* The target still is what the plan was made from.
Fresh(p) == disk[Change(p).file] = Change(p).before

\* Step::apply up to the staged file: nothing to do, or reread and stage.
Reread(p) ==
  /\ pc[p] = "apply"
  /\ IF op[p] = "check" \/ dry[p] \/ Change(p).before = Change(p).after
       THEN Advance(p)
     ELSE IF ~Fresh(p) THEN Stop(p, 2)
     ELSE pc' = [pc EXCEPT ![p] = "commit"] /\ UNCHANGED <<step, code, plans>>
  /\ UNCHANGED <<scope, disk, orig, made, exposed, op, profile, dry, runs>>

\* Fault: a failed rename is not noticed.
CommitStep_Ignored(p) ==
  /\ pc[p] = "commit"
  /\ UNCHANGED disk
  /\ Advance(p)
  /\ UNCHANGED <<scope, orig, made, exposed, op, profile, dry, runs>>

\* persist or remove_file: atomic for one file.
CommitStep(p) ==
  /\ pc[p] = "commit"
  /\ disk' = [disk EXCEPT ![Change(p).file] = Change(p).after]
  /\ Advance(p)
  /\ UNCHANGED <<scope, orig, made, exposed, op, profile, dry, runs>>

\* An I/O error in planning, rereading, staging or renaming: later steps
\* are not run, earlier ones stay.
IoError(p) ==
  /\ pc[p] # "idle"
  /\ Stop(p, 3)
  /\ UNCHANGED <<scope, disk, orig, made, exposed, op, profile, dry, runs>>

\* The process is killed; what it renamed stays.
Crash(p) ==
  /\ pc[p] # "idle"
  /\ Stop(p, 137)
  /\ UNCHANGED <<scope, disk, orig, made, exposed, op, profile, dry, runs>>

-----------------------------------------------------------------------------
(* The user *)

Count == Cardinality(UNION {made[f] : f \in Files} \ {0})

\* Some process has reread f and is about to rename over it.
Window(f) == \E p \in Procs : pc[p] = "commit" /\ Change(p).file = f

UserWrites(f, c, t) ==
  /\ Count < MaxEdits
  /\ disk' = [disk EXCEPT ![f] = c]
  /\ made' = [made EXCEPT ![f] = @ \cup {t}]
  /\ exposed' = IF Window(f) THEN exposed \cup {t} ELSE exposed
  /\ UNCHANGED <<scope, orig, procs>>

\* The user adds a line of their own.
Edit(f) ==
  LET t == Count + 1
  IN  UserWrites(f, [user |-> User(disk[f]) \cup {t}, block |-> Block(disk[f])], t)

\* The user changes a line of the managed section.
EditSection(f) ==
  LET t == Count + 1
  IN  /\ Block(disk[f]) # NoBlock
      /\ UserWrites(f, [disk[f] EXCEPT !.block.edits = @ \cup {t}], t)

Next ==
  \/ \E p \in Procs :
       \/ \E o \in Ops, prof \in Profiles, d \in BOOLEAN :
            Start(p, o, prof, d)
       \/ Screen(p) \/ Plan(p) \/ Reread(p) \/ CommitStep(p) \/ IoError(p) \/ Crash(p)
  \/ \E f \in Files : Edit(f) \/ EditSection(f)

Spec == Init /\ [][Next]_vars

-----------------------------------------------------------------------------
(* Properties *)

Changes == [file : Files, before : Contents, after : Contents]

\* Every variable ranges over its type.
TypeOK ==
  /\ scope \in Scopes
  /\ disk \in [Files -> Contents]
  /\ orig \in [Files -> {Absent} \cup [user : SUBSET {0}, block : {NoBlock}]]
  /\ made \in [Files -> SUBSET Tokens]
  /\ exposed \subseteq Tokens
  /\ pc \in [Procs -> {"idle", "screen", "plan", "apply", "commit"}]
  /\ op \in [Procs -> Ops]
  /\ profile \in [Procs -> Profiles]
  /\ dry \in [Procs -> BOOLEAN]
  /\ plans \in [Procs -> Seq(Changes)]
  /\ step \in [Procs -> DOMAIN Targets]
  /\ code \in [Procs -> {0, 2, 3, 137}]
  /\ runs \in 0..MaxRuns

\* "each target is reread before its write to detect intervening edits":
\* whatever overlaps, fails or dies, an edit of the user's can only be lost
\* when it is made between that reread and the rename that follows it.
EditsSurvive ==
  \A f \in Files : made[f] \ exposed \subseteq Edits(disk[f])

\* "Undo restores the original bytes when no outside edits intervened": a
\* file without a managed section is what it was before the first run, the
\* created ones gone and the empty ones still there, after any sequence of
\* installs, profile changes, undos, failures and crashes.
UndoRestores ==
  \A f \in Files :
    (made[f] = Edits(orig[f]) /\ Block(disk[f]) = NoBlock) => disk[f] = orig[f]

\* "Fragments precede includes on installation; includes precede fragment
\* removal on undo": with one installer at a time the include never names a
\* fragment that is missing or was never filled, also after a crash between
\* the two steps.
NoDanglingInclude ==
  (Cardinality(Procs) = 1 /\ Block(disk[Targets[Len(Targets)]]) # NoBlock) =>
    \A f \in Files : Block(disk[f]) # NoBlock

\* The run of p has done what it was asked on every target.
Done(p) ==
  \A f \in Files :
    IF op[p] = "undo" THEN Block(disk'[f]) = NoBlock
    ELSE Block(disk'[f]) # NoBlock /\ Block(disk'[f]).profile = profile[p]

EndsDone ==
  \A p \in Procs :
    (Procs = {p} /\ pc[p] # "idle" /\ pc'[p] = "idle" /\ code'[p] = 0 /\ ~dry[p]) => Done(p)

\* A run of the only installer that exits 0 has done what it was asked on
\* every target, also on the ones it found nothing to do for; the user may
\* have edited the sections meanwhile.
SuccessMeansDone == [][EndsDone]_vars

\* "On partial failure, completed owned steps remain for explicit
\* retry/undo": once the failed run is over, unedited sections can be undone
\* under some profile.
PartialFailureUndoable ==
  (/\ \A p \in Procs : pc[p] = "idle"
   /\ \A f \in Files : Edits(disk[f]) = {}) =>
    \E prof \in Profiles : \A f \in Files : ~Rejects(disk[f], "undo", prof)

=============================================================================
