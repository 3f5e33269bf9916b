-------------------------- MODULE GitInstallProofs --------------------------
(***************************************************************************)
(* Theorems about GitInstall, for every list of targets, any number of     *)
(* overlapping installers, runs, crashes and edits.                        *)
(*                                                                         *)
(* The properties speak of files; the installer writes what it planned     *)
(* many steps earlier.  InstallInv therefore follows the plans: what they  *)
(* were made from, what they make of it, and how the disk compares with    *)
(* them while they are carried out.                                        *)
(***************************************************************************)
EXTENDS GitInstall, FiniteSetTheorems, TLAPS

\* The position in installation order of the k-th step that p applies, and
\* the plan for its current step.
Place(p, k) == IF op[p] = "undo" THEN Len(Targets) + 1 - k ELSE k
Due(p) == plans[p][Place(p, step[p])]

\* A plan is of its target, was not rejected, and stands until the run ends.
Planned(p) ==
  /\ pc[p] \in {"idle", "screen"} => plans[p] = <<>> /\ step[p] = 1
  /\ pc[p] = "plan" => Len(plans[p]) = step[p] - 1
  /\ pc[p] \in {"apply", "commit"} => Len(plans[p]) = Len(Targets)
  /\ pc[p] = "commit" => op[p] # "check" /\ ~dry[p]
  /\ \A i \in DOMAIN plans[p] :
       /\ plans[p][i].file = Targets[i]
       /\ ~Rejects(plans[p][i].before, op[p], profile[p])
       /\ plans[p][i].after = After(plans[p][i].before, op[p], profile[p])

\* What is about to be renamed over a file has all of the user's edits of it
\* but the exposed ones.
Keeps(p) ==
  pc[p] = "commit" => made[Due(p).file] \ exposed \subseteq Edits(Due(p).after)

\* c is the file f as it was before the first run, or that with a section.
Faithful(f, c) ==
  IF Block(c) = NoBlock THEN c = orig[f]
  ELSE /\ Owned(c) /\ User(c) = User(orig[f])
       /\ Block(c).created = (orig[f] = Absent)

\* A file the user has not edited is faithful, on disk and in every plan.
Restorable ==
  \A f \in Files : made[f] = Edits(orig[f]) =>
    /\ Faithful(f, disk[f])
    /\ \A p \in Procs : \A i \in DOMAIN plans[p] :
         plans[p][i].file = f => Faithful(f, plans[p][i].before)

\* Both have a section of the same profile, or neither has one.
Alike(c, d) ==
  /\ Block(c) = NoBlock <=> Block(d) = NoBlock
  /\ Block(c) # NoBlock => Block(c).profile = Block(d).profile

\* The plan for target i has been carried out.
Passed(p, i) == pc[p] \in {"apply", "commit"} /\ Place(p, i) < step[p]

\* A lone installer finds and leaves the sections as its plans say.
Tracked(p) ==
  Procs = {p} /\ ~dry[p] => \A i \in DOMAIN plans[p] :
    Alike(disk[Targets[i]], IF Passed(p, i) THEN plans[p][i].after ELSE plans[p][i].before)

InstallInv ==
  /\ TypeOK
  /\ \A p \in Procs : Planned(p) /\ Keeps(p) /\ Tracked(p)
  /\ EditsSurvive /\ Restorable /\ NoDanglingInclude

-----------------------------------------------------------------------------
(* Targets and plans *)

LEMMA TargetFacts ==
  ASSUME TypeOK
  PROVE  /\ Len(Targets) \in Nat /\ Len(Targets) >= 1 /\ DOMAIN Targets = 1..Len(Targets)
         /\ \A i \in DOMAIN Targets : Targets[i] \in Files
         /\ \A i, j \in DOMAIN Targets : Targets[i] = Targets[j] => i = j
         /\ \A f \in Files : \E i \in DOMAIN Targets : f = Targets[i]
         /\ IsFiniteSet(Procs)
<1>1. Targets \in Seq(Files) /\ Targets # <<>>
  BY GitInstallAssumption DEF TypeOK, Targets, Files
<1>2. Len(Targets) \in Nat /\ DOMAIN Targets = 1..Len(Targets) /\ Len(Targets) # 0
  BY <1>1
<1>3. /\ \A i \in DOMAIN Targets : Targets[i] \in Files
      /\ \A f \in Files : \E i \in DOMAIN Targets : f = Targets[i]
  BY DEF Files
<1>4. /\ \A i, j \in DOMAIN Targets : Targets[i] = Targets[j] => i = j
      /\ IsFiniteSet(Procs)
  BY GitInstallAssumption DEF TypeOK, Targets, Procs
<1> QED BY <1>2, <1>3, <1>4

\* Places are positions, and no two steps have the same one.
LEMMA PlaceFacts ==
  ASSUME TypeOK, NEW p, NEW k \in DOMAIN Targets
  PROVE  /\ Place(p, k) \in DOMAIN Targets
         /\ Place(p, Place(p, k)) = k
         /\ Order(op[p])[k] = Targets[Place(p, k)]
  BY TargetFacts DEF Place, Order

\* The change that Reread and CommitStep look up is the plan for the step.
LEMMA ChangeIsDue ==
  ASSUME TypeOK, NEW p \in Procs, Planned(p), pc[p] \in {"apply", "commit"}
  PROVE  /\ Change(p) = Due(p)
         /\ Place(p, step[p]) \in DOMAIN plans[p] /\ DOMAIN plans[p] = DOMAIN Targets
         /\ Due(p).file = Targets[Place(p, step[p])]
         /\ Due(p) \in Changes
<1>1. step[p] \in DOMAIN Targets
  BY DEF TypeOK
<1>2. plans[p] \in Seq(Changes)
  BY DEF TypeOK
<1>3. DOMAIN plans[p] = DOMAIN Targets
  <2>1. Len(plans[p]) = Len(Targets)
    BY DEF Planned
  <2> QED BY <1>2, <2>1, TargetFacts
<1>4. Place(p, step[p]) \in DOMAIN plans[p]
  BY <1>1, <1>3, PlaceFacts
<1>5. Due(p).file = Targets[Place(p, step[p])] /\ Due(p) \in Changes
  <2>1. plans[p][Place(p, step[p])] \in Changes
    BY <1>2, <1>4
  <2>2. plans[p][Place(p, step[p])].file = Targets[Place(p, step[p])]
    BY <1>4 DEF Planned
  <2> QED BY <2>1, <2>2 DEF Due
<1>6. Order(op[p])[step[p]] = Targets[Place(p, step[p])]
  BY <1>1, PlaceFacts
<1>7. \A x \in {plans[p][i] : i \in DOMAIN plans[p]} :
         x.file = Targets[Place(p, step[p])] => x = Due(p)
  <2> TAKE x \in {plans[p][i] : i \in DOMAIN plans[p]}
  <2>1. PICK i \in DOMAIN plans[p] : x = plans[p][i]
    OBVIOUS
  <2>2. x.file = Targets[i]
    BY <2>1 DEF Planned
  <2> QED BY <1>3, <1>4, <2>1, <2>2, TargetFacts DEF Due
<1>8. Due(p) \in {plans[p][i] : i \in DOMAIN plans[p]}
  BY <1>4 DEF Due
<1>9. Change(p) = Due(p)
  BY <1>5, <1>6, <1>7, <1>8 DEF Change
<1> QED BY <1>3, <1>4, <1>5, <1>9

LEMMA ContentParts ==
  ASSUME NEW c \in Contents
  PROVE  /\ User(c) \in SUBSET Tokens /\ Block(c) \in Blocks \cup {NoBlock}
         /\ Edits(c) \in SUBSET Tokens
         /\ Block(c) # NoBlock => /\ c # Absent /\ c \in Content
                                  /\ Block(c).profile \in Profiles
                                  /\ Block(c).created \in BOOLEAN
                                  /\ Block(c).edits \in SUBSET Tokens
<1>1. CASE c = Absent
  BY <1>1 DEF User, Block, Edits
<1>2. CASE c \in Content
  BY <1>2, AbsenceAssumption DEF User, Block, Edits, Content, Blocks
<1> QED BY <1>1, <1>2 DEF Contents

\* What a plan makes of a file it was not rejected for: the same edits of
\* the user's, and the section that was asked for.
LEMMA AfterFacts ==
  ASSUME NEW c \in Contents, NEW o \in Ops, NEW prof \in Profiles, ~Rejects(c, o, prof)
  PROVE  /\ After(c, o, prof) \in Contents
         /\ Edits(After(c, o, prof)) = Edits(c)
         /\ o = "undo" => Block(After(c, o, prof)) = NoBlock
         /\ o # "undo" => /\ Block(After(c, o, prof)) # NoBlock
                          /\ Block(After(c, o, prof)).profile = prof
<1>0. User(c) \in SUBSET Tokens /\ (Block(c) = NoBlock \/ Owned(c))
  BY ContentParts DEF Rejects
<1>a. Edits(c) = User(c)
  BY <1>0 DEF Edits, Owned
<1>1. CASE o = "install"
  <2>1. After(c, o, prof) = Installed(c, prof)
    BY <1>1 DEF After
  <2>2. Created(c) \in BOOLEAN
    BY ContentParts DEF Created, Owned
  <2>3. Section(prof, Created(c)) \in Blocks /\ Section(prof, Created(c)).edits = {}
        /\ Section(prof, Created(c)).profile = prof
    BY <2>2 DEF Section, Blocks
  <2>4. Installed(c, prof) \in Content /\ Installed(c, prof).user = User(c)
        /\ Installed(c, prof).block = Section(prof, Created(c))
    BY <2>3, ContentParts DEF Installed, Content
  <2>5. User(Installed(c, prof)) = User(c) /\ Block(Installed(c, prof)) = Section(prof, Created(c))
    BY <2>4, AbsenceAssumption DEF User, Block
  <2>6. Section(prof, Created(c)) # NoBlock
    BY <2>3, AbsenceAssumption
  <2> QED BY <1>1, <1>a, <2>1, <2>3, <2>4, <2>5, <2>6 DEF Edits, Contents
<1>2. CASE o = "undo"
  <2>1. After(c, o, prof) = Retired(c)
    BY <1>2 DEF After
  <2>2. CASE ~Owned(c)
    <3>1. Retired(c) = c /\ Block(c) = NoBlock
      BY <1>0, <2>2 DEF Retired
    <3> QED BY <1>2, <2>1, <3>1
  <2>3. CASE Owned(c) /\ Block(c).created /\ User(c) = {}
    <3>1. Retired(c) = Absent
      BY <2>3 DEF Retired
    <3> QED BY <1>2, <1>a, <2>1, <2>3, <3>1 DEF Contents, Edits, User, Block
  <2>4. CASE Owned(c) /\ ~(Block(c).created /\ User(c) = {})
    <3>1. Retired(c) = [user |-> User(c), block |-> NoBlock]
      BY <2>4 DEF Retired
    <3>2. Retired(c) \in Content /\ Retired(c).user = User(c) /\ Retired(c).block = NoBlock
      BY <3>1, ContentParts DEF Content
    <3>3. User(Retired(c)) = User(c) /\ Block(Retired(c)) = NoBlock
      BY <3>2, AbsenceAssumption DEF User, Block
    <3> QED BY <1>2, <1>a, <2>1, <3>2, <3>3 DEF Contents, Edits
  <2> QED BY <2>2, <2>3, <2>4
<1>3. CASE o = "check"
  <2>1. After(c, o, prof) = c
    BY <1>3 DEF After
  <2> QED BY <1>3, <2>1 DEF Rejects, Owned
<1> QED BY <1>1, <1>2, <1>3 DEF Ops

\* Plans are faithful to a file as long as what they were made from is.
LEMMA AfterFaithful ==
  ASSUME TypeOK, NEW f \in Files, NEW c \in Contents, NEW o \in Ops, NEW prof \in Profiles,
         ~Rejects(c, o, prof), Faithful(f, c)
  PROVE  Faithful(f, After(c, o, prof))
<1>0. /\ orig[f] = Absent \/ orig[f] \in [user : SUBSET {0}, block : {NoBlock}]
      /\ Block(orig[f]) = NoBlock
  BY DEF TypeOK, Block
<1>1. CASE o = "install"
  <2>1. After(c, o, prof) = Installed(c, prof)
    BY <1>1 DEF After
  <2>2. Created(c) = (orig[f] = Absent) /\ User(c) = User(orig[f])
    BY DEF Faithful, Created, Owned
  <2>3. Created(c) \in BOOLEAN
    BY <2>2
  <2>4. Section(prof, Created(c)) \in Blocks /\ Section(prof, Created(c)).edits = {}
        /\ Section(prof, Created(c)).created = Created(c)
    BY <2>3 DEF Section, Blocks
  <2>5. Installed(c, prof) \in Content /\ Installed(c, prof).user = User(c)
        /\ Installed(c, prof).block = Section(prof, Created(c))
    BY <2>4, ContentParts DEF Installed, Content
  <2>6. User(Installed(c, prof)) = User(c) /\ Block(Installed(c, prof)) = Section(prof, Created(c))
    BY <2>5, AbsenceAssumption DEF User, Block
  <2>7. Section(prof, Created(c)) # NoBlock
    BY <2>4, AbsenceAssumption
  <2> QED BY <2>1, <2>2, <2>4, <2>6, <2>7 DEF Faithful, Owned
<1>2. CASE o = "undo"
  <2>1. After(c, o, prof) = Retired(c)
    BY <1>2 DEF After
  <2>2. CASE ~Owned(c)
    BY <2>1, <2>2 DEF Retired
  <2>3. CASE Owned(c)
    <3>1. User(c) = User(orig[f]) /\ Block(c).created = (orig[f] = Absent)
      BY <2>3 DEF Faithful, Owned
    <3>2. CASE orig[f] = Absent
      <4>1. User(c) = {}
        BY <3>1, <3>2 DEF User
      <4> QED BY <1>0, <2>1, <2>3, <3>1, <3>2, <4>1 DEF Retired, Faithful
    <3>3. CASE orig[f] # Absent
      <4>1. orig[f] = [user |-> User(orig[f]), block |-> NoBlock]
        BY <1>0, <3>3 DEF User
      <4>2. Retired(c) = [user |-> User(c), block |-> NoBlock]
        BY <2>3, <3>1, <3>3 DEF Retired
      <4> QED BY <1>0, <2>1, <3>1, <4>1, <4>2 DEF Faithful
    <3> QED BY <3>2, <3>3
  <2> QED BY <2>2, <2>3
<1>3. CASE o = "check"
  BY <1>3 DEF After
<1> QED BY <1>1, <1>2, <1>3 DEF Ops

-----------------------------------------------------------------------------
(* The steps, by what they do *)

Same(q) ==
  /\ pc'[q] = pc[q] /\ op'[q] = op[q] /\ profile'[q] = profile[q]
  /\ dry'[q] = dry[q] /\ plans'[q] = plans[q] /\ step'[q] = step[q]

\* A step of installer p, which no other installer takes part in.
Acts(p) ==
  /\ UNCHANGED <<scope, orig, made, exposed>>
  /\ \A q \in Procs : q # p => Same(q)

\* p begins or ends a run.
Clears(p) == pc'[p] \in {"idle", "screen"} /\ plans'[p] = <<>> /\ step'[p] = 1

\* p goes on with its run.
Goes(p) == op'[p] = op[p] /\ profile'[p] = profile[p] /\ dry'[p] = dry[p]

Turns(p) == Acts(p) /\ disk' = disk /\ Clears(p)

Screens(p) ==
  /\ Acts(p) /\ Goes(p) /\ disk' = disk
  /\ pc[p] = "screen" /\ pc'[p] = "plan" /\ plans'[p] = plans[p] /\ step'[p] = step[p]

NewPlan(p) ==
  LET f == Targets[step[p]]
  IN  [file |-> f, before |-> disk[f], after |-> After(disk[f], op[p], profile[p])]

Plans(p) ==
  /\ Acts(p) /\ Goes(p) /\ disk' = disk
  /\ pc[p] = "plan" /\ ~Rejects(disk[Targets[step[p]]], op[p], profile[p])
  /\ plans'[p] = Append(plans[p], NewPlan(p))
  /\ \/ step[p] < Len(Targets) /\ step'[p] = step[p] + 1 /\ pc'[p] = "plan"
     \/ step[p] = Len(Targets) /\ step'[p] = 1 /\ pc'[p] = "apply"

Skips(p) ==
  /\ Acts(p) /\ Goes(p) /\ disk' = disk
  /\ pc[p] = "apply" /\ pc'[p] = "apply" /\ plans'[p] = plans[p]
  /\ op[p] = "check" \/ dry[p] \/ Due(p).before = Due(p).after
  /\ step[p] < Len(Targets) /\ step'[p] = step[p] + 1

Stages(p) ==
  /\ Acts(p) /\ Goes(p) /\ disk' = disk
  /\ pc[p] = "apply" /\ pc'[p] = "commit" /\ plans'[p] = plans[p] /\ step'[p] = step[p]
  /\ op[p] # "check" /\ ~dry[p] /\ disk[Due(p).file] = Due(p).before

Writes(p) ==
  /\ Acts(p) /\ Goes(p)
  /\ pc[p] = "commit" /\ disk' = [disk EXCEPT ![Due(p).file] = Due(p).after]
  /\ \/ /\ step[p] < Len(Targets) /\ step'[p] = step[p] + 1
        /\ pc'[p] = "apply" /\ plans'[p] = plans[p]
     \/ step[p] = Len(Targets) /\ Clears(p)

\* The user adds t to f, as one more edit, and leaves the section's profile.
UserAdds(f, c, t) ==
  /\ t \in Tokens \ {0} /\ c \in Contents
  /\ Edits(c) = Edits(disk[f]) \cup {t} /\ Alike(c, disk[f])
  /\ disk' = [disk EXCEPT ![f] = c]
  /\ made' = [made EXCEPT ![f] = @ \cup {t}]
  /\ exposed' \in {exposed, exposed \cup {t}}
  /\ (\E p \in Procs : pc[p] = "commit" /\ Due(p).file = f) => t \in exposed'
  /\ UNCHANGED <<scope, orig, pc, op, profile, dry, plans, step>>

StepOf(p) ==
  Turns(p) \/ Screens(p) \/ Plans(p) \/ Skips(p) \/ Stages(p) \/ Writes(p)

Step ==
  \/ \E p \in Procs : StepOf(p)
  \/ \E f \in Files, c \in Contents, t \in Tokens : UserAdds(f, c, t)
  \/ UNCHANGED vars

LEMMA StopTurns ==
  ASSUME TypeOK, NEW p \in Procs, NEW exit, Stop(p, exit),
         UNCHANGED <<scope, disk, orig, made, exposed, op, profile, dry>>
  PROVE  Turns(p)
  BY DEF Stop, Turns, Acts, Clears, Same, TypeOK

LEMMA InstallerSteps ==
  ASSUME TypeOK, NEW p \in Procs, Planned(p)
  PROVE  /\ \A o \in Ops, prof \in Profiles, d \in BOOLEAN : Start(p, o, prof, d) => Turns(p)
         /\ Screen(p) \/ IoError(p) \/ Crash(p) => Turns(p) \/ Screens(p)
         /\ Plan(p) => Turns(p) \/ Plans(p)
         /\ Reread(p) => Turns(p) \/ Skips(p) \/ Stages(p)
         /\ CommitStep(p) => Writes(p)
<1>0. /\ step[p] \in 1..Len(Targets) /\ Len(Targets) \in Nat
      /\ pc \in [Procs -> {"idle", "screen", "plan", "apply", "commit"}]
      /\ op \in [Procs -> Ops] /\ profile \in [Procs -> Profiles] /\ dry \in [Procs -> BOOLEAN]
      /\ plans \in [Procs -> Seq(Changes)] /\ step \in [Procs -> DOMAIN Targets]
  BY TargetFacts DEF TypeOK
<1>1. ASSUME NEW o \in Ops, NEW prof \in Profiles, NEW d \in BOOLEAN, Start(p, o, prof, d)
      PROVE  Turns(p)
  BY <1>0, <1>1 DEF Start, Turns, Acts, Clears, Same
<1>2. ASSUME Screen(p) \/ IoError(p) \/ Crash(p) PROVE Turns(p) \/ Screens(p)
  <2>1. CASE IoError(p) \/ Crash(p)
    BY <2>1, StopTurns DEF IoError, Crash
  <2>2. CASE Screen(p)
    <3>1. CASE Stop(p, 2)
      BY <2>2, <3>1, StopTurns DEF Screen
    <3>2. CASE ~Stop(p, 2)
      BY <1>0, <2>2, <3>2 DEF Screen, Screens, Acts, Goes, Same
    <3> QED BY <3>1, <3>2
  <2> QED BY <1>2, <2>1, <2>2
<1>3. ASSUME Plan(p) PROVE Turns(p) \/ Plans(p)
  <2>1. CASE Rejects(disk[Targets[step[p]]], op[p], profile[p])
    BY <1>3, <2>1, StopTurns DEF Plan
  <2>2. CASE ~Rejects(disk[Targets[step[p]]], op[p], profile[p])
    <3>1. /\ plans' = [plans EXCEPT ![p] = Append(@, NewPlan(p))]
          /\ IF step[p] < Len(Targets)
               THEN step' = [step EXCEPT ![p] = @ + 1] /\ UNCHANGED pc
               ELSE step' = [step EXCEPT ![p] = 1] /\ pc' = [pc EXCEPT ![p] = "apply"]
          /\ pc[p] = "plan" /\ UNCHANGED <<scope, disk, orig, made, exposed, op, profile, dry>>
      BY <1>3, <2>2 DEF Plan, NewPlan
    <3> QED BY <1>0, <2>2, <3>1 DEF Plans, Acts, Goes, Same
  <2> QED BY <2>1, <2>2
<1>4. ASSUME Reread(p) PROVE Turns(p) \/ Skips(p) \/ Stages(p)
  <2>0. Change(p) = Due(p)
    BY <1>4, ChangeIsDue DEF Reread
  <2>1. CASE op[p] = "check" \/ dry[p] \/ Due(p).before = Due(p).after
    <3>1. Advance(p) /\ pc[p] = "apply" /\ UNCHANGED <<scope, disk, orig, made, exposed, op, profile, dry>>
      BY <1>4, <2>0, <2>1 DEF Reread
    <3>2. CASE step[p] < Len(Targets)
      BY <1>0, <2>1, <3>1, <3>2 DEF Advance, Skips, Acts, Goes, Same
    <3>3. CASE ~(step[p] < Len(Targets))
      BY <3>1, <3>3, StopTurns DEF Advance
    <3> QED BY <3>2, <3>3
  <2>2. CASE ~(op[p] = "check" \/ dry[p] \/ Due(p).before = Due(p).after) /\ ~Fresh(p)
    BY <1>4, <2>0, <2>2, StopTurns DEF Reread
  <2>3. CASE ~(op[p] = "check" \/ dry[p] \/ Due(p).before = Due(p).after) /\ Fresh(p)
    BY <1>0, <1>4, <2>0, <2>3 DEF Reread, Fresh, Stages, Acts, Goes, Same
  <2> QED BY <2>1, <2>2, <2>3
<1>5. ASSUME CommitStep(p) PROVE Writes(p)
  <2>0. Change(p) = Due(p)
    BY <1>5, ChangeIsDue DEF CommitStep
  <2>1. /\ pc[p] = "commit" /\ disk' = [disk EXCEPT ![Due(p).file] = Due(p).after]
        /\ Advance(p) /\ UNCHANGED <<scope, orig, made, exposed, op, profile, dry>>
    BY <1>5, <2>0 DEF CommitStep
  <2>2. CASE step[p] < Len(Targets)
    BY <1>0, <2>1, <2>2 DEF Advance, Writes, Acts, Goes, Same
  <2>3. CASE ~(step[p] < Len(Targets))
    <3>1. step[p] = Len(Targets)
      BY <1>0, <2>3
    <3> QED BY <1>0, <2>1, <2>3, <3>1 DEF Advance, Stop, Clears, Writes, Acts, Goes, Same
  <2> QED BY <2>2, <2>3
<1> QED BY <1>1, <1>2, <1>3, <1>4, <1>5

\* A new edit is none of the edits made before, and is not 0, which stands
\* for what was in the file at first.
LEMMA CountType == ASSUME TypeOK PROVE Count \in Nat
<1>1. UNION {made[f] : f \in Files} \in SUBSET Tokens
  BY DEF TypeOK
<1>2. UNION {made[f] : f \in Files} \ {0} \in SUBSET Tokens
  BY <1>1
<1>3. IsFiniteSet(Tokens)
  BY FS_Interval, GitInstallAssumption DEF Tokens
<1>4. IsFiniteSet(UNION {made[f] : f \in Files} \ {0})
  BY <1>2, <1>3, FS_Subset
<1> QED BY <1>4, FS_CardinalityType DEF Count

LEMMA UserSteps ==
  ASSUME TypeOK, \A p \in Procs : Planned(p), NEW f \in Files, Edit(f) \/ EditSection(f)
  PROVE  \E c \in Contents, t \in Tokens : UserAdds(f, c, t)
<1> DEFINE t == Count + 1
<1>0. disk[f] \in Contents
  BY DEF TypeOK
<1>1. Count < MaxEdits
  BY DEF Edit, EditSection, UserWrites
<1>2. t \in Tokens \ {0}
  BY <1>1, CountType, GitInstallAssumption DEF Tokens
<1>3. \A p \in Procs : pc[p] = "commit" => Change(p) = Due(p)
  BY ChangeIsDue
<1>4. ASSUME NEW c \in Contents, Edits(c) = Edits(disk[f]) \cup {t}, Alike(c, disk[f]),
             UserWrites(f, c, t)
      PROVE  UserAdds(f, c, t)
  <2> HIDE DEF t
  <2>1. exposed' \in {exposed, exposed \cup {t}} /\ (Window(f) => t \in exposed')
    BY <1>4 DEF UserWrites
  <2>2. (\E p \in Procs : pc[p] = "commit" /\ Due(p).file = f) => Window(f)
    BY <1>3 DEF Window
  <2> QED BY <1>2, <1>4, <2>1, <2>2 DEF UserWrites, UserAdds, procs
<1>5. CASE Edit(f)
  <2> DEFINE c == [user |-> User(disk[f]) \cup {t}, block |-> Block(disk[f])]
  <2>1. UserWrites(f, c, t)
    BY <1>5 DEF Edit
  <2> HIDE DEF t
  <2>2. c \in Content
    BY <1>0, <1>2, ContentParts DEF Content
  <2>3. c.user = User(disk[f]) \cup {t} /\ c.block = Block(disk[f])
    OBVIOUS
  <2> HIDE DEF c
  <2>4. User(c) = User(disk[f]) \cup {t} /\ Block(c) = Block(disk[f])
    BY <2>2, <2>3, AbsenceAssumption DEF User, Block
  <2>5. Edits(c) = Edits(disk[f]) \cup {t} /\ Alike(c, disk[f])
    BY <2>4 DEF Edits, Alike
  <2>6. c \in Contents
    BY <2>2 DEF Contents
  <2> QED BY <1>2, <1>4, <2>1, <2>5, <2>6
<1>6. CASE EditSection(f)
  <2> DEFINE c == [disk[f] EXCEPT !.block.edits = @ \cup {t}]
             d == disk[f]
  <2>1. UserWrites(f, c, t) /\ Block(d) # NoBlock
    BY <1>6 DEF EditSection
  <2> HIDE DEF t
  <2>2. d \in Content /\ d.block \in Blocks /\ Block(d) = d.block /\ User(d) = d.user
    <3>1. d # Absent /\ d \in Content
      BY <1>0, <2>1, ContentParts
    <3>2. Block(d) = d.block /\ User(d) = d.user
      BY <3>1 DEF Block, User
    <3> QED BY <2>1, <3>1, <3>2 DEF Content
  <2>3. c = [d EXCEPT !.block = [d.block EXCEPT !.edits = d.block.edits \cup {t}]]
    OBVIOUS
  <2> DEFINE b == [d.block EXCEPT !.edits = d.block.edits \cup {t}]
  <2>4. b \in Blocks /\ b.profile = d.block.profile /\ b.edits = d.block.edits \cup {t}
    BY <1>2, <2>2 DEF Blocks
  <2>5. c = [d EXCEPT !.block = b]
    BY <2>3
  <2> HIDE DEF b, d
  <2>6. c \in Content /\ c.user = d.user /\ c.block = b
    BY <2>2, <2>4, <2>5 DEF Content
  <2> HIDE DEF c
  <2>7. User(c) = d.user /\ Block(c) = b /\ b # NoBlock
    BY <2>4, <2>6, AbsenceAssumption DEF User, Block
  <2>8. Edits(c) = Edits(d) \cup {t} /\ Alike(c, d)
    BY <2>1, <2>2, <2>4, <2>7 DEF Edits, Alike
  <2>9. c \in Contents
    BY <2>6 DEF Contents
  <2> QED BY <1>2, <1>4, <2>1, <2>8, <2>9 DEF d
<1> QED BY <1>5, <1>6

LEMMA StepCases ==
  ASSUME TypeOK, \A p \in Procs : Planned(p), [Next]_vars
  PROVE  Step
<1>1. CASE UNCHANGED vars
  BY <1>1 DEF Step
<1>2. CASE \E f \in Files : Edit(f) \/ EditSection(f)
  BY <1>2, UserSteps DEF Step
<1>3. ASSUME NEW p \in Procs,
             \/ \E o \in Ops, prof \in Profiles, d \in BOOLEAN : Start(p, o, prof, d)
             \/ Screen(p) \/ Plan(p) \/ Reread(p) \/ CommitStep(p) \/ IoError(p) \/ Crash(p)
      PROVE  StepOf(p)
  BY <1>3, InstallerSteps DEF StepOf
<1> QED BY <1>1, <1>2, <1>3 DEF Next, Step

-----------------------------------------------------------------------------
(* Each part of the invariant, step by step *)

LEMMA InstallInit == ASSUME Init PROVE InstallInv
<1>1. orig \in [Files -> {Absent} \cup [user : SUBSET {0}, block : {NoBlock}]] /\ disk = orig
  BY DEF Init
<1>2. \A f \in Files : orig[f] \in Contents /\ Block(orig[f]) = NoBlock
                       /\ Edits(orig[f]) \in SUBSET Tokens
  <2> TAKE f \in Files
  <2>1. CASE orig[f] = Absent
    BY <2>1 DEF Contents, Block, Edits, User
  <2>2. CASE orig[f] \in [user : SUBSET {0}, block : {NoBlock}]
    <3>1. orig[f] \in Content
      BY <2>2, GitInstallAssumption DEF Content, Tokens
    <3>2. Block(orig[f]) = NoBlock
      BY <2>2 DEF Block
    <3> QED BY <3>1, <3>2, ContentParts DEF Contents
  <2> QED BY <1>1, <2>1, <2>2
<1>3. scope \in Scopes /\ 1 \in DOMAIN Targets
  <2>1. scope \in Scopes /\ Targets \in Seq(Files) /\ Targets # <<>>
    BY GitInstallAssumption DEF Init, Targets, Files
  <2> QED BY <2>1
<1>4. plans = [p \in Procs |-> <<>>] /\ \A p \in Procs : Len(plans[p]) = 0 /\ DOMAIN plans[p] = {}
  BY DEF Init
<1>5. TypeOK
  <2>1. disk \in [Files -> Contents] /\ made \in [Files -> SUBSET Tokens]
    BY <1>1, <1>2 DEF Init
  <2>2. plans \in [Procs -> Seq(Changes)]
    BY <1>4
  <2>3. step \in [Procs -> DOMAIN Targets]
    BY <1>3 DEF Init
  <2> QED BY <1>1, <1>3, <2>1, <2>2, <2>3, GitInstallAssumption DEF Init, TypeOK, Ops
<1>6. ASSUME NEW p \in Procs PROVE Planned(p) /\ Keeps(p) /\ Tracked(p)
  BY <1>4 DEF Init, Planned, Keeps, Tracked
<1>7. EditsSurvive
  BY <1>1 DEF Init, EditsSurvive
<1>8. Restorable
  BY <1>1, <1>2, <1>4 DEF Restorable, Faithful
<1>9. NoDanglingInclude
  <2>1. Targets[Len(Targets)] \in Files
    BY <1>5, TargetFacts
  <2> QED BY <1>1, <1>2, <2>1 DEF NoDanglingInclude
<1> QED BY <1>5, <1>6, <1>7, <1>8, <1>9 DEF InstallInv

LEMMA TypeNext ==
  ASSUME TypeOK, \A p \in Procs : Planned(p), [Next]_vars
  PROVE  TypeOK'
<1>0. /\ Len(Targets) \in Nat /\ DOMAIN Targets = 1..Len(Targets) /\ Len(Targets) >= 1
      /\ \A i \in DOMAIN Targets : Targets[i] \in Files
  BY TargetFacts
<1>a. /\ scope' = scope /\ orig' = orig
      /\ Targets' = Targets /\ Files' = Files /\ Procs' = Procs /\ Changes' = Changes
  <2>1. scope' = scope /\ orig' = orig
    BY DEF Next, Start, Screen, Plan, Reread, CommitStep, IoError, Crash, Edit, EditSection,
           UserWrites, vars
  <2> QED BY <2>1 DEF Targets, Files, Procs, Changes
<1>1. CASE UNCHANGED vars
  BY <1>1, <1>a DEF vars, TypeOK
<1>2. ASSUME NEW f \in Files, NEW c \in Contents, NEW t \in Tokens, UserAdds(f, c, t),
             UNCHANGED <<code, runs>>
      PROVE  TypeOK'
  <2>1. disk' \in [Files -> Contents] /\ made' \in [Files -> SUBSET Tokens] /\ exposed' \subseteq Tokens
    BY <1>2 DEF UserAdds, TypeOK
  <2> QED BY <1>2, <1>a, <2>1 DEF UserAdds, TypeOK
<1>b. ASSUME NEW p \in Procs, NEW exit \in {0, 2, 3, 137}, Stop(p, exit)
      PROVE  /\ pc' \in [Procs -> {"idle", "screen", "plan", "apply", "commit"}]
             /\ plans' \in [Procs -> Seq(Changes)]
             /\ step' \in [Procs -> DOMAIN Targets] /\ code' \in [Procs -> {0, 2, 3, 137}]
  <2>1. <<>> \in Seq(Changes) /\ 1 \in DOMAIN Targets
    BY <1>0
  <2> QED BY <1>b, <2>1 DEF Stop, TypeOK
<1>3. ASSUME NEW p \in Procs, NEW o \in Ops, NEW prof \in Profiles, NEW d \in BOOLEAN,
             Start(p, o, prof, d)
      PROVE  TypeOK'
  <2>1. <<>> \in Seq(Changes) /\ 1 \in DOMAIN Targets
    BY <1>0
  <2>2. runs' \in 0..MaxRuns
    BY <1>3, GitInstallAssumption DEF Start, TypeOK
  <2> QED BY <1>3, <1>a, <2>1, <2>2 DEF Start, TypeOK
<1>4. ASSUME NEW p \in Procs, Screen(p) \/ IoError(p) \/ Crash(p) PROVE TypeOK'
  <2>1. CASE \E exit \in {2, 3, 137} : Stop(p, exit)
    BY <1>4, <1>a, <1>b, <2>1 DEF Screen, IoError, Crash, TypeOK
  <2>2. CASE ~ \E exit \in {2, 3, 137} : Stop(p, exit)
    <3>1. /\ pc' = [pc EXCEPT ![p] = "plan"]
          /\ UNCHANGED <<disk, made, exposed, op, profile, dry, plans, step, code, runs>>
      BY <1>4, <2>2 DEF Screen, IoError, Crash
    <3>2. pc' \in [Procs -> {"idle", "screen", "plan", "apply", "commit"}]
      BY <3>1 DEF TypeOK
    <3> QED BY <1>a, <3>1, <3>2 DEF TypeOK
  <2> QED BY <2>1, <2>2
<1>5. ASSUME NEW p \in Procs, Plan(p) PROVE TypeOK'
  <2>1. CASE Rejects(disk[Targets[step[p]]], op[p], profile[p])
    BY <1>5, <1>a, <1>b, <2>1 DEF Plan, TypeOK
  <2>2. CASE ~Rejects(disk[Targets[step[p]]], op[p], profile[p])
    <3>1. /\ plans' = [plans EXCEPT ![p] = Append(@, NewPlan(p))]
          /\ IF step[p] < Len(Targets)
               THEN step' = [step EXCEPT ![p] = @ + 1] /\ UNCHANGED pc
               ELSE step' = [step EXCEPT ![p] = 1] /\ pc' = [pc EXCEPT ![p] = "apply"]
          /\ UNCHANGED <<disk, made, exposed, op, profile, dry, code, runs>>
      BY <1>5, <2>2 DEF Plan, NewPlan
    <3>2. Targets[step[p]] \in Files /\ disk[Targets[step[p]]] \in Contents
      BY <1>0 DEF TypeOK
    <3>3. NewPlan(p) \in Changes
      BY <2>2, <3>2, AfterFacts DEF NewPlan, Changes, TypeOK
    <3>4. plans' \in [Procs -> Seq(Changes)]
      BY <3>1, <3>3 DEF TypeOK
    <3>5. /\ step' \in [Procs -> DOMAIN Targets]
          /\ pc' \in [Procs -> {"idle", "screen", "plan", "apply", "commit"}]
      <4>1. CASE step[p] < Len(Targets)
        <5>1. step[p] + 1 \in DOMAIN Targets
          BY <1>0, <4>1 DEF TypeOK
        <5>2. step' = [step EXCEPT ![p] = step[p] + 1] /\ pc' = pc
          BY <3>1, <4>1
        <5> QED BY <5>1, <5>2 DEF TypeOK
      <4>2. CASE ~(step[p] < Len(Targets))
        <5>1. 1 \in DOMAIN Targets
          BY <1>0
        <5>2. step' = [step EXCEPT ![p] = 1] /\ pc' = [pc EXCEPT ![p] = "apply"]
          BY <3>1, <4>2
        <5> QED BY <5>1, <5>2 DEF TypeOK
      <4> QED BY <4>1, <4>2
    <3> QED BY <1>a, <3>1, <3>4, <3>5 DEF TypeOK
  <2> QED BY <2>1, <2>2
<1>c. ASSUME NEW p \in Procs, Advance(p)
      PROVE  /\ pc' \in [Procs -> {"idle", "screen", "plan", "apply", "commit"}]
             /\ plans' \in [Procs -> Seq(Changes)]
             /\ step' \in [Procs -> DOMAIN Targets] /\ code' \in [Procs -> {0, 2, 3, 137}]
  <2>1. CASE step[p] < Len(Targets)
    <3>1. step[p] + 1 \in DOMAIN Targets
      BY <1>0, <2>1 DEF TypeOK
    <3>2. /\ step' = [step EXCEPT ![p] = step[p] + 1] /\ pc' = [pc EXCEPT ![p] = "apply"]
          /\ UNCHANGED <<code, plans>>
      BY <1>c, <2>1 DEF Advance
    <3> QED BY <3>1, <3>2 DEF TypeOK
  <2>2. CASE ~(step[p] < Len(Targets))
    BY <1>b, <1>c, <2>2 DEF Advance
  <2> QED BY <2>1, <2>2
<1>6. ASSUME NEW p \in Procs, Reread(p) PROVE TypeOK'
  <2>1. CASE Advance(p) \/ Stop(p, 2)
    BY <1>6, <1>a, <1>b, <1>c, <2>1 DEF Reread, TypeOK
  <2>2. CASE ~(Advance(p) \/ Stop(p, 2))
    <3>1. /\ pc' = [pc EXCEPT ![p] = "commit"]
          /\ UNCHANGED <<disk, made, exposed, op, profile, dry, plans, step, code, runs>>
      BY <1>6, <2>2 DEF Reread
    <3>2. pc' \in [Procs -> {"idle", "screen", "plan", "apply", "commit"}]
      BY <3>1 DEF TypeOK
    <3> QED BY <1>a, <3>1, <3>2 DEF TypeOK
  <2> QED BY <2>1, <2>2
<1>7. ASSUME NEW p \in Procs, CommitStep(p) PROVE TypeOK'
  <2>1. Change(p) = Due(p) /\ Due(p) \in Changes
    BY <1>7, ChangeIsDue DEF CommitStep
  <2>2. disk' \in [Files -> Contents]
    BY <1>7, <2>1 DEF CommitStep, Changes, TypeOK
  <2> QED BY <1>7, <1>a, <1>c, <2>2 DEF CommitStep, TypeOK
<1>8. ASSUME NEW f \in Files, Edit(f) \/ EditSection(f) PROVE TypeOK'
  <2>1. UNCHANGED <<code, runs>>
    BY <1>8 DEF Edit, EditSection, UserWrites, procs
  <2> QED BY <1>2, <1>8, <2>1, UserSteps
<1> QED BY <1>1, <1>3, <1>4, <1>5, <1>6, <1>7, <1>8 DEF Next

\* The scope and the original contents do not change.
LEMMA Frame ==
  ASSUME Step
  PROVE  /\ scope' = scope /\ orig' = orig
         /\ Targets' = Targets /\ Files' = Files /\ Procs' = Procs
<1>1. scope' = scope /\ orig' = orig
  BY DEF Step, StepOf, Turns, Screens, Plans, Skips, Stages, Writes, Acts, UserAdds, vars
<1> QED BY <1>1 DEF Targets, Files, Procs

LEMMA SameUnprimed ==
  ASSUME Step, NEW q \in Procs, Same(q)
  PROVE  /\ Planned(q)' = Planned(q)
         /\ Due(q)' = Due(q) /\ \A i : Passed(q, i)' = Passed(q, i)
  BY Frame DEF Same, Planned, Due, Place, Passed

\* The plans, one step of their own installer at a time.
LEMMA PlannedStep ==
  ASSUME TypeOK, \A p \in Procs : Planned(p), Step
  PROVE  \A p \in Procs : Planned(p)'
<1>0. Targets' = Targets /\ Len(Targets) \in Nat
  BY Frame, TargetFacts
<1> SUFFICES ASSUME NEW p \in Procs PROVE Planned(p)'
  OBVIOUS
<1>a. plans[p] \in Seq(Changes) /\ step[p] \in 1..Len(Targets)
  BY TargetFacts DEF TypeOK
<1>1. CASE Same(p)
  BY <1>1, SameUnprimed
<1>2. CASE StepOf(p)
  <2>1. CASE Turns(p)
    BY <2>1 DEF Turns, Clears, Planned
  <2>2. CASE Screens(p)
    <3>1. Len(plans[p]) = 0 /\ step[p] = 1
      BY <2>2 DEF Screens, Planned
    <3> QED BY <1>0, <2>2, <3>1 DEF Screens, Goes, Planned
  <2>3. CASE Plans(p)
    <3>1. Len(plans[p]) = step[p] - 1
      BY <2>3 DEF Plans, Planned
    <3>2. /\ plans'[p] = Append(plans[p], NewPlan(p))
          /\ Len(plans'[p]) = step[p]
          /\ plans'[p][step[p]] = NewPlan(p)
          /\ \A i \in 1..(step[p] - 1) : plans'[p][i] = plans[p][i]
          /\ DOMAIN plans'[p] = 1..step[p] /\ DOMAIN plans[p] = 1..(step[p] - 1)
      BY <1>a, <2>3, <3>1 DEF Plans
    <3>3. /\ NewPlan(p).file = Targets[step[p]] /\ NewPlan(p).before = disk[Targets[step[p]]]
          /\ NewPlan(p).after = After(NewPlan(p).before, op[p], profile[p])
      BY DEF NewPlan
    <3>4. ASSUME NEW i \in DOMAIN plans'[p]
          PROVE  /\ plans'[p][i].file = Targets[i]
                 /\ ~Rejects(plans'[p][i].before, op[p], profile[p])
                 /\ plans'[p][i].after = After(plans'[p][i].before, op[p], profile[p])
      <4>1. CASE i = step[p]
        BY <2>3, <3>2, <3>3, <4>1 DEF Plans
      <4>2. CASE i # step[p]
        <5>1. i \in DOMAIN plans[p] /\ plans'[p][i] = plans[p][i]
          BY <1>a, <3>2, <4>2
        <5> QED BY <5>1 DEF Planned
      <4> QED BY <4>1, <4>2
    <3>5. /\ pc'[p] = "plan" => Len(plans'[p]) = step'[p] - 1
          /\ pc'[p] \in {"apply", "commit"} => Len(plans'[p]) = Len(Targets)
          /\ pc'[p] \in {"plan", "apply"}
      BY <1>a, <2>3, <3>2 DEF Plans
    <3> QED BY <1>0, <2>3, <3>4, <3>5 DEF Plans, Goes, Planned
  <2>4. CASE Skips(p) \/ Stages(p)
    BY <1>0, <2>4 DEF Skips, Stages, Goes, Planned
  <2>5. CASE Writes(p)
    BY <1>0, <2>5 DEF Writes, Goes, Clears, Planned
  <2> QED BY <1>2, <2>1, <2>2, <2>3, <2>4, <2>5 DEF StepOf
<1> QED BY <1>1, <1>2 DEF Step, StepOf, Turns, Screens, Plans, Skips, Stages, Writes, Acts,
                          UserAdds, Same, vars

\* Every plan satisfies what AfterFacts and AfterFaithful say.
LEMMA PlanFacts ==
  ASSUME TypeOK, NEW p \in Procs, Planned(p), NEW i \in DOMAIN plans[p]
  PROVE  /\ plans[p][i].before \in Contents /\ plans[p][i].file \in Files
         /\ Edits(plans[p][i].after) = Edits(plans[p][i].before)
         /\ op[p] = "undo" => Block(plans[p][i].after) = NoBlock
         /\ op[p] # "undo" => /\ Block(plans[p][i].after) # NoBlock
                              /\ Block(plans[p][i].after).profile = profile[p]
         /\ op[p] = "check" => plans[p][i].after = plans[p][i].before
         /\ \A f \in Files : Faithful(f, plans[p][i].before) => Faithful(f, plans[p][i].after)
<1>1. op[p] \in Ops /\ profile[p] \in Profiles /\ plans[p] \in Seq(Changes)
  BY DEF TypeOK
<1>2. plans[p][i] \in Changes
  BY <1>1
<1>3. plans[p][i].before \in Contents /\ plans[p][i].file \in Files
  BY <1>2 DEF Changes
<1>4. /\ ~Rejects(plans[p][i].before, op[p], profile[p])
      /\ plans[p][i].after = After(plans[p][i].before, op[p], profile[p])
  BY DEF Planned
<1>5. op[p] = "check" => plans[p][i].after = plans[p][i].before
  BY <1>4 DEF After
<1> QED BY <1>1, <1>3, <1>4, <1>5, AfterFacts, AfterFaithful

\* Another installer's step, or the user's, leaves a pending rename pending.
LEMMA EditsStep ==
  ASSUME InstallInv, Step
  PROVE  EditsSurvive' /\ \A p \in Procs : Keeps(p)'
<1>0. TypeOK /\ EditsSurvive /\ (\A p \in Procs : Planned(p) /\ Keeps(p)) /\ Files' = Files
  BY Frame DEF InstallInv
<1>a. \A f \in Files : made[f] \in SUBSET Tokens /\ disk \in [Files -> Contents]
                       /\ made \in [Files -> SUBSET Tokens]
  BY <1>0 DEF TypeOK
<1>b. ASSUME NEW q \in Procs, Same(q), made' = made, exposed' = exposed PROVE Keeps(q)'
  BY <1>0, <1>b, SameUnprimed DEF Keeps, Same
<1>1. CASE UNCHANGED vars
  <2>1. \A q \in Procs : Same(q)
    BY <1>1 DEF vars, Same
  <2> QED BY <1>0, <1>1, <1>b, <2>1 DEF vars, EditsSurvive
<1>2. ASSUME NEW p \in Procs, StepOf(p) PROVE EditsSurvive' /\ \A q \in Procs : Keeps(q)'
  <2>1. /\ made' = made /\ exposed' = exposed
        /\ \A q \in Procs : q # p => Same(q)
    BY <1>2 DEF StepOf, Turns, Screens, Plans, Skips, Stages, Writes, Acts
  <2>2. \A q \in Procs : q # p => Keeps(q)'
    BY <1>b, <2>1
  <2>3. CASE Writes(p)
    <3>1. Due(p).file \in Files /\ Due(p) \in Changes
      BY <1>0, <2>3, ChangeIsDue DEF Writes, Changes
    <3>2. made[Due(p).file] \ exposed \subseteq Edits(Due(p).after)
      BY <1>0, <2>3 DEF Writes, Keeps
    <3>3. EditsSurvive'
      <4> SUFFICES ASSUME NEW f \in Files PROVE made[f] \ exposed \subseteq Edits(disk'[f])
        BY <1>0, <2>1 DEF EditsSurvive
      <4>1. CASE f = Due(p).file
        BY <1>a, <2>3, <3>1, <3>2, <4>1 DEF Writes
      <4>2. CASE f # Due(p).file
        <5>1. disk'[f] = disk[f]
          BY <1>a, <2>3, <4>2 DEF Writes
        <5> QED BY <1>0, <5>1 DEF EditsSurvive
      <4> QED BY <4>1, <4>2
    <3>4. Keeps(p)'
      BY <2>3 DEF Writes, Clears, Keeps
    <3> QED BY <2>2, <3>3, <3>4
  <2>4. CASE ~Writes(p)
    <3>1. disk' = disk
      BY <1>2, <2>4 DEF StepOf, Turns, Screens, Plans, Skips, Stages
    <3>2. EditsSurvive'
      BY <1>0, <2>1, <3>1 DEF EditsSurvive
    <3>3. CASE Stages(p)
      <4>1. Due(p)' = Due(p)
        BY <3>3, Frame DEF Stages, Goes, Due, Place
      <4>2. Due(p).file \in Files /\ Edits(Due(p).after) = Edits(Due(p).before)
        BY <1>0, <3>3, ChangeIsDue, PlanFacts DEF Stages, Due, Changes
      <4>3. made[Due(p).file] \ exposed \subseteq Edits(Due(p).after)
        BY <1>0, <3>3, <4>2 DEF Stages, EditsSurvive
      <4>4. Keeps(p)'
        BY <2>1, <4>1, <4>3 DEF Keeps
      <4> QED BY <2>2, <3>2, <4>4
    <3>4. CASE ~Stages(p)
      <4>1. Keeps(p)'
        BY <1>2, <2>4, <3>4 DEF StepOf, Turns, Screens, Plans, Skips, Clears, Keeps
      <4> QED BY <2>2, <3>2, <4>1
    <3> QED BY <3>3, <3>4
  <2> QED BY <2>3, <2>4
<1>3. ASSUME NEW f \in Files, NEW c \in Contents, NEW t \in Tokens, UserAdds(f, c, t)
      PROVE  EditsSurvive' /\ \A p \in Procs : Keeps(p)'
  <2>1. /\ made'[f] = made[f] \cup {t} /\ disk'[f] = c /\ Edits(c) = Edits(disk[f]) \cup {t}
        /\ \A g \in Files : g # f => made'[g] = made[g] /\ disk'[g] = disk[g]
        /\ exposed \subseteq exposed'
    BY <1>3, <1>a DEF UserAdds
  <2>2. EditsSurvive'
    BY <1>0, <2>1 DEF EditsSurvive
  <2>3. ASSUME NEW p \in Procs, pc'[p] = "commit"
        PROVE  made'[Due(p)'.file] \ exposed' \subseteq Edits(Due(p)'.after)
    <3>1. Same(p) /\ pc[p] = "commit"
      BY <1>3, <2>3 DEF UserAdds, Same
    <3>2. Due(p)' = Due(p) /\ Due(p).file \in Files
      BY <1>0, <3>1, SameUnprimed, ChangeIsDue DEF Changes
    <3>3. made[Due(p).file] \ exposed \subseteq Edits(Due(p).after)
      BY <1>0, <3>1 DEF Keeps
    <3>4. Due(p).file = f => t \in exposed'
      BY <1>3, <3>1 DEF UserAdds
    <3> QED BY <2>1, <3>2, <3>3, <3>4
  <2> QED BY <2>2, <2>3 DEF Keeps
<1> QED BY <1>1, <1>2, <1>3 DEF Step

LEMMA RestorableStep ==
  ASSUME InstallInv, Step
  PROVE  Restorable'
<1>0. /\ TypeOK /\ Restorable /\ \A p \in Procs : Planned(p)
      /\ Files' = Files /\ Procs' = Procs /\ orig' = orig
  BY Frame DEF InstallInv
<1>a. disk \in [Files -> Contents] /\ made \in [Files -> SUBSET Tokens]
  BY <1>0 DEF TypeOK
<1> SUFFICES ASSUME NEW g \in Files, made'[g] = Edits(orig[g])
             PROVE  /\ Faithful(g, disk'[g])
                    /\ \A p \in Procs : \A i \in DOMAIN plans'[p] :
                         plans'[p][i].file = g => Faithful(g, plans'[p][i].before)
  BY <1>0 DEF Restorable, Faithful
<1>1. CASE UNCHANGED vars
  BY <1>0, <1>1 DEF vars, Restorable
<1>2. ASSUME NEW p \in Procs, StepOf(p)
      PROVE  /\ Faithful(g, disk'[g])
             /\ \A q \in Procs : \A i \in DOMAIN plans'[q] :
                  plans'[q][i].file = g => Faithful(g, plans'[q][i].before)
  <2>1. made' = made /\ \A q \in Procs : q # p => plans'[q] = plans[q]
    BY <1>2 DEF StepOf, Turns, Screens, Plans, Skips, Stages, Writes, Acts, Same
  <2>2. /\ Faithful(g, disk[g])
        /\ \A q \in Procs : \A i \in DOMAIN plans[q] :
             plans[q][i].file = g => Faithful(g, plans[q][i].before)
    BY <1>0, <2>1 DEF Restorable
  <2>3. Faithful(g, disk'[g])
    <3>1. CASE Writes(p)
      <4>1. /\ Place(p, step[p]) \in DOMAIN plans[p] /\ Due(p) = plans[p][Place(p, step[p])]
            /\ Due(p).file \in Files
        BY <1>0, <3>1, ChangeIsDue DEF Writes, Due, Changes
      <4>2. Due(p).file = g => Faithful(g, Due(p).after)
        BY <1>0, <2>2, <4>1, PlanFacts
      <4>3. disk'[g] = IF g = Due(p).file THEN Due(p).after ELSE disk[g]
        BY <1>a, <3>1 DEF Writes
      <4> QED BY <2>2, <4>2, <4>3
    <3>2. CASE ~Writes(p)
      BY <1>2, <2>2, <3>2 DEF StepOf, Turns, Screens, Plans, Skips, Stages
    <3> QED BY <3>1, <3>2
  <2>4. ASSUME NEW i \in DOMAIN plans'[p], plans'[p][i].file = g
        PROVE  Faithful(g, plans'[p][i].before)
    <3>1. CASE Plans(p)
      <4>1. plans[p] \in Seq(Changes) /\ plans'[p] = Append(plans[p], NewPlan(p))
        BY <1>0, <3>1 DEF Plans, TypeOK
      <4>2. \/ i \in DOMAIN plans[p] /\ plans'[p][i] = plans[p][i]
            \/ plans'[p][i] = NewPlan(p)
        BY <4>1
      <4>3. NewPlan(p).before = disk[NewPlan(p).file]
        BY DEF NewPlan
      <4> QED BY <2>2, <2>4, <4>2, <4>3
    <3>2. CASE plans'[p] = plans[p]
      BY <2>2, <2>4, <3>2
    <3>3. CASE plans'[p] = <<>>
      BY <3>3
    <3> QED BY <1>2, <3>1, <3>2, <3>3
            DEF StepOf, Turns, Screens, Skips, Stages, Writes, Clears
  <2> QED BY <2>1, <2>2, <2>3, <2>4
<1>3. ASSUME NEW f \in Files, NEW c \in Contents, NEW t \in Tokens, UserAdds(f, c, t)
      PROVE  /\ Faithful(g, disk'[g])
             /\ \A p \in Procs : \A i \in DOMAIN plans'[p] :
                  plans'[p][i].file = g => Faithful(g, plans'[p][i].before)
  <2>1. 0 \notin {t} /\ made'[f] = made[f] \cup {t}
    BY <1>3, <1>a DEF UserAdds
  <2>2. Edits(orig[g]) \subseteq {0}
    <3>1. CASE orig[g] = Absent
      BY <3>1 DEF Edits, User, Block
    <3>2. CASE orig[g] # Absent
      BY <1>0, <3>2 DEF TypeOK, Edits, User, Block
    <3> QED BY <3>1, <3>2
  <2>3. g # f
    BY <2>1, <2>2
  <2>4. disk'[g] = disk[g] /\ made'[g] = made[g] /\ plans' = plans
    BY <1>3, <1>a, <2>3 DEF UserAdds
  <2> QED BY <1>0, <2>4 DEF Restorable
<1> QED BY <1>1, <1>2, <1>3 DEF Step

\* What a lone installer finds on disk when its current step is done,
\* because there was nothing to do or because of a rename.
LEMMA Carried ==
  ASSUME InstallInv, NEW p \in Procs, Procs = {p}, ~dry[p], pc[p] \in {"apply", "commit"},
         \/ disk' = disk /\ (op[p] = "check" \/ Due(p).before = Due(p).after)
         \/ disk' = [disk EXCEPT ![Due(p).file] = Due(p).after]
  PROVE  \A i \in DOMAIN Targets :
           Alike(disk'[Targets[i]],
                 IF Place(p, i) <= step[p] THEN plans[p][i].after ELSE plans[p][i].before)
<1>0. TypeOK /\ Planned(p) /\ Tracked(p)
  BY DEF InstallInv
<1>1. /\ DOMAIN plans[p] = DOMAIN Targets /\ step[p] \in DOMAIN Targets
      /\ DOMAIN Targets = 1..Len(Targets) /\ Len(Targets) \in Nat
      /\ Due(p) = plans[p][Place(p, step[p])] /\ Due(p).file = Targets[Place(p, step[p])]
      /\ Place(p, step[p]) \in DOMAIN Targets /\ disk \in [Files -> Contents]
  BY <1>0, ChangeIsDue, TargetFacts DEF TypeOK, Due
<1> TAKE i \in DOMAIN Targets
<1>2. Targets[i] \in Files /\ Place(p, i) \in DOMAIN Targets /\ Place(p, Place(p, i)) = i
  BY <1>0, TargetFacts, PlaceFacts
<1>3. Alike(disk[Targets[i]],
            IF Place(p, i) < step[p] THEN plans[p][i].after ELSE plans[p][i].before)
  BY <1>0, <1>1 DEF Tracked, Passed
<1>4. CASE Place(p, i) = step[p]
  <2>1. i = Place(p, step[p]) /\ Due(p) = plans[p][i] /\ Due(p).file = Targets[i]
    BY <1>1, <1>2, <1>4
  <2>2. Alike(disk[Targets[i]], plans[p][i].before)
    BY <1>1, <1>2, <1>3, <1>4
  <2>3. op[p] = "check" => plans[p][i].after = plans[p][i].before
    BY <1>0, <1>1, PlanFacts
  <2>4. Alike(plans[p][i].after, plans[p][i].after)
    BY DEF Alike
  <2>5. Alike(disk'[Targets[i]], plans[p][i].after)
    BY <1>1, <1>2, <2>1, <2>2, <2>3, <2>4
  <2>6. Place(p, i) <= step[p]
    BY <1>1, <1>2, <1>4
  <2> QED BY <2>5, <2>6
<1>5. CASE Place(p, i) # step[p]
  <2>1. i # Place(p, step[p])
    BY <1>0, <1>1, <1>5, PlaceFacts
  <2>2. Targets[i] # Due(p).file
    BY <1>0, <1>1, <2>1, TargetFacts
  <2>3. disk'[Targets[i]] = disk[Targets[i]]
    BY <1>1, <1>2, <2>2
  <2>4. Place(p, i) <= step[p] <=> Place(p, i) < step[p]
    BY <1>1, <1>2, <1>5
  <2> QED BY <1>3, <2>3, <2>4
<1> QED BY <1>4, <1>5

LEMMA TrackedStep ==
  ASSUME InstallInv, Step
  PROVE  \A p \in Procs : Tracked(p)'
<1> SUFFICES ASSUME NEW p \in Procs PROVE Tracked(p)'
  OBVIOUS
<1>0. /\ TypeOK /\ Planned(p) /\ Tracked(p)
      /\ Targets' = Targets /\ Procs' = Procs /\ Files' = Files
  BY Frame DEF InstallInv
<1>a. /\ DOMAIN Targets = 1..Len(Targets) /\ Len(Targets) \in Nat
      /\ step[p] \in 1..Len(Targets) /\ disk \in [Files -> Contents]
      /\ plans[p] \in Seq(Changes)
  BY <1>0, TargetFacts DEF TypeOK
<1>b. DOMAIN plans[p] \subseteq DOMAIN Targets
  <2>1. Len(plans[p]) <= Len(Targets)
    <3>1. pc[p] \in {"idle", "screen"} => Len(plans[p]) = 0
      BY <1>0 DEF Planned
    <3> QED BY <1>0, <1>a, <3>1 DEF Planned, TypeOK
  <2> QED BY <1>a, <2>1
<1> SUFFICES ASSUME Procs = {p}, ~dry'[p], NEW i \in DOMAIN plans'[p]
             PROVE  Alike(disk'[Targets[i]], IF Passed(p, i)' THEN plans'[p][i].after
                                             ELSE plans'[p][i].before)
  BY <1>0 DEF Tracked
<1>1. CASE UNCHANGED vars
  <2>1. Same(p) /\ disk' = disk
    BY <1>1 DEF vars, Same
  <2>2. Passed(p, i)' = Passed(p, i)
    BY <2>1, SameUnprimed
  <2> QED BY <1>0, <2>1, <2>2 DEF Same, Tracked
<1>2. ASSUME NEW f \in Files, NEW c \in Contents, NEW t \in Tokens, UserAdds(f, c, t)
      PROVE  Alike(disk'[Targets[i]], IF Passed(p, i)' THEN plans'[p][i].after
                                      ELSE plans'[p][i].before)
  <2>1. Same(p)
    BY <1>2 DEF UserAdds, Same
  <2>2. Passed(p, i)' = Passed(p, i) /\ plans'[p] = plans[p] /\ ~dry[p] /\ i \in DOMAIN plans[p]
    BY <2>1, SameUnprimed DEF Same
  <2>3. Alike(disk[Targets[i]], IF Passed(p, i) THEN plans[p][i].after ELSE plans[p][i].before)
    BY <1>0, <2>2 DEF Tracked
  <2>4. Alike(disk'[Targets[i]], disk[Targets[i]])
    <3>1. Targets[i] \in Files
      BY <1>0, <1>b, <2>2, TargetFacts
    <3>2. CASE Targets[i] = f
      BY <1>2, <1>a, <3>2 DEF UserAdds
    <3>3. CASE Targets[i] # f
      BY <1>2, <1>a, <3>1, <3>3 DEF UserAdds, Alike
    <3> QED BY <3>2, <3>3
  <2> QED BY <2>2, <2>3, <2>4 DEF Alike
<1>3. CASE StepOf(p)
  <2>1. CASE Turns(p)
    BY <2>1 DEF Turns, Clears
  <2>2. CASE Screens(p)
    <3>1. plans'[p] = <<>>
      BY <1>0, <2>2 DEF Screens, Planned
    <3> QED BY <3>1
  <2>3. CASE Plans(p)
    <3>0. ~dry[p] /\ Place(p, i)' = Place(p, i)
      BY <1>0, <2>3 DEF Plans, Goes, Place
    <3>1. /\ Len(plans[p]) = step[p] - 1
          /\ DOMAIN plans'[p] = 1..step[p] /\ plans'[p][step[p]] = NewPlan(p)
          /\ \A j \in 1..(step[p] - 1) : plans'[p][j] = plans[p][j]
      BY <1>0, <1>a, <2>3 DEF Plans, Planned
    <3>2. ~Passed(p, i)'
      <4>1. i \in DOMAIN Targets
        BY <1>a, <3>1
      <4>2. Place(p, i) >= 1
        BY <1>0, <1>a, <4>1, PlaceFacts
      <4>3. pc'[p] = "plan" \/ step'[p] = 1
        BY <2>3 DEF Plans
      <4>4. Place(p, i) \in Nat
        BY <1>0, <1>a, <4>1, PlaceFacts
      <4> QED BY <3>0, <4>2, <4>3, <4>4 DEF Passed
    <3>3. CASE i = step[p]
      BY <2>3, <3>1, <3>2, <3>3 DEF Plans, NewPlan, Alike
    <3>4. CASE i # step[p]
      <4>1. i \in DOMAIN plans[p] /\ plans'[p][i] = plans[p][i]
        BY <1>a, <3>1, <3>4
      <4>2. ~Passed(p, i)
        BY <2>3 DEF Plans, Passed
      <4>3. Alike(disk[Targets[i]], plans[p][i].before)
        BY <1>0, <3>0, <4>1, <4>2 DEF Tracked
      <4> QED BY <2>3, <3>2, <4>1, <4>3 DEF Plans
    <3> QED BY <3>3, <3>4
  <2>4. CASE Stages(p)
    <3>1. /\ disk' = disk /\ plans'[p] = plans[p] /\ ~dry[p]
          /\ Passed(p, i)' = Passed(p, i)
      BY <1>0, <2>4 DEF Stages, Goes, Passed, Place
    <3> QED BY <1>0, <3>1 DEF Tracked
  <2>5. CASE Skips(p) \/ Writes(p)
    <3>1. CASE plans'[p] = <<>>
      BY <3>1
    <3>2. CASE plans'[p] # <<>>
      <4>1. /\ plans'[p] = plans[p] /\ step'[p] = step[p] + 1 /\ pc'[p] = "apply"
            /\ Place(p, i)' = Place(p, i) /\ ~dry[p] /\ pc[p] \in {"apply", "commit"}
        BY <1>0, <2>5, <3>2 DEF Skips, Writes, Goes, Clears, Place
      <4>2. Alike(disk'[Targets[i]],
                  IF Place(p, i) <= step[p] THEN plans[p][i].after ELSE plans[p][i].before)
        BY <1>b, <2>5, <4>1, Carried DEF Skips, Writes
      <4>3. Place(p, i) \in Nat
        BY <1>0, <1>a, <1>b, <4>1, PlaceFacts
      <4>4. Passed(p, i)' <=> Place(p, i) <= step[p]
        BY <1>a, <4>1, <4>3 DEF Passed
      <4> QED BY <4>1, <4>2, <4>4
    <3> QED BY <3>1, <3>2
  <2> QED BY <1>3, <2>1, <2>2, <2>3, <2>4, <2>5 DEF StepOf
<1> QED BY <1>1, <1>2, <1>3 DEF Step

\* Installing, the include comes last; undoing, it goes first.
LEMMA IncludeStep ==
  ASSUME InstallInv, Step
  PROVE  NoDanglingInclude'
<1>0. TypeOK /\ NoDanglingInclude /\ Targets' = Targets /\ Files' = Files /\ Procs' = Procs
  BY Frame DEF InstallInv
<1> DEFINE n == Len(Targets)
<1>a. /\ n \in Nat /\ n >= 1 /\ DOMAIN Targets = 1..n /\ n \in DOMAIN Targets
      /\ disk \in [Files -> Contents] /\ Targets[n] \in Files
  BY <1>0, TargetFacts DEF TypeOK
<1> SUFFICES ASSUME Cardinality(Procs) = 1, Block(disk'[Targets[n]]) # NoBlock
             PROVE  \A f \in Files : Block(disk'[f]) # NoBlock
  BY <1>0 DEF NoDanglingInclude
<1> HIDE DEF n
<1>b. Block(disk[Targets[n]]) # NoBlock => \A f \in Files : Block(disk[f]) # NoBlock
  BY <1>0 DEF NoDanglingInclude, n
<1>1. CASE disk' = disk
  BY <1>1, <1>b
<1>2. ASSUME NEW f \in Files, NEW c \in Contents, NEW t \in Tokens, UserAdds(f, c, t)
      PROVE  \A g \in Files : Block(disk'[g]) # NoBlock
  <2>1. \A g \in Files : Block(disk'[g]) = NoBlock <=> Block(disk[g]) = NoBlock
    BY <1>2, <1>a DEF UserAdds, Alike
  <2> QED BY <1>a, <1>b, <2>1
<1>3. ASSUME NEW p \in Procs, Writes(p)
      PROVE  \A f \in Files : Block(disk'[f]) # NoBlock
  <2>1. Procs = {p}
    BY <1>0, TargetFacts, FS_Singleton
  <2>2. /\ Planned(p) /\ pc[p] = "commit" /\ ~dry[p] /\ op[p] # "check"
        /\ step[p] \in DOMAIN Targets
    BY <1>0, <1>3 DEF InstallInv, Writes, Planned, TypeOK
  <2>3. \A i \in DOMAIN Targets :
           Alike(disk'[Targets[i]],
                 IF Place(p, i) <= step[p] THEN plans[p][i].after ELSE plans[p][i].before)
    BY <1>3, <2>1, <2>2, Carried DEF Writes
  <2>4. /\ DOMAIN plans[p] = DOMAIN Targets
        /\ Due(p).file = Targets[Place(p, step[p])]
    BY <1>0, <2>2, ChangeIsDue
  <2>5. CASE op[p] = "undo"
    <3>1. Place(p, n) <= step[p]
      BY <1>a, <2>2, <2>5 DEF Place, n
    <3>2. Block(plans[p][n].after) = NoBlock
      BY <1>0, <1>a, <2>2, <2>4, <2>5, PlanFacts
    <3>3. FALSE
      BY <1>a, <2>3, <3>1, <3>2 DEF Alike
    <3> QED BY <3>3
  <2>6. CASE op[p] # "undo"
    <3>1. \A i \in DOMAIN Targets : Place(p, i) = i /\ Block(plans[p][i].after) # NoBlock
      BY <1>0, <2>2, <2>4, <2>6, PlanFacts DEF Place
    <3>2. \A i \in DOMAIN Targets : i <= step[p] => Block(disk'[Targets[i]]) # NoBlock
      BY <2>3, <3>1 DEF Alike
    <3>3. CASE step[p] = n
      BY <1>0, <1>a, <3>2, <3>3, TargetFacts
    <3>4. CASE step[p] # n
      <4>1. Targets[n] # Due(p).file
        BY <1>0, <1>a, <2>2, <2>4, <3>1, <3>4, TargetFacts
      <4>2. disk'[Targets[n]] = disk[Targets[n]]
        BY <1>3, <1>a, <4>1 DEF Writes
      <4>3. \A f \in Files : Block(disk[f]) # NoBlock
        BY <1>b, <4>2
      <4>4. Block(Due(p).after) # NoBlock
        BY <2>2, <2>4, <3>1 DEF Due
      <4>5. \A f \in Files : disk'[f] \in {disk[f], Due(p).after}
        BY <1>3, <1>a DEF Writes
      <4> QED BY <4>3, <4>4, <4>5
    <3> QED BY <3>3, <3>4
  <2> QED BY <2>5, <2>6
<1> QED BY <1>1, <1>2, <1>3 DEF Step, StepOf, Turns, Screens, Plans, Skips, Stages, vars

THEOREM InstallInvariance == Spec => []InstallInv
<1>1. InstallInv /\ [Next]_vars => InstallInv'
  <2> SUFFICES ASSUME InstallInv, [Next]_vars PROVE InstallInv'
    OBVIOUS
  <2>1. TypeOK /\ \A p \in Procs : Planned(p)
    BY DEF InstallInv
  <2>2. Step /\ TypeOK' /\ Procs' = Procs
    BY <2>1, StepCases, TypeNext, Frame
  <2>3. \A p \in Procs : Planned(p)' /\ Keeps(p)' /\ Tracked(p)'
    BY <2>1, <2>2, PlannedStep, EditsStep, TrackedStep
  <2>4. EditsSurvive' /\ Restorable' /\ NoDanglingInclude'
    BY <2>2, EditsStep, RestorableStep, IncludeStep
  <2> QED BY <2>2, <2>3, <2>4 DEF InstallInv
<1> QED BY <1>1, InstallInit, PTL DEF Spec

-----------------------------------------------------------------------------
(* The theorems *)

\* Every variable of the installer keeps its type; in particular what a plan
\* makes of a file is a file again, and every step has a plan.
THEOREM InstallTypeCorrectness == Spec => []TypeOK
  BY InstallInvariance, PTL DEF InstallInv

\* Whatever overlaps, fails or dies, only an edit made between a reread and
\* the rename after it can be lost, for any number of installers.
THEOREM UserEditsSurvive == Spec => []EditsSurvive
  BY InstallInvariance, PTL DEF InstallInv

\* An unedited file without a managed section is byte for byte what it was
\* before the first run.
THEOREM UndoIsExact == Spec => []UndoRestores
<1>1. InstallInv => UndoRestores
  BY DEF InstallInv, Restorable, Faithful, UndoRestores
<1> QED BY <1>1, InstallInvariance, PTL

\* For any list of targets the last one, the include, has a section only
\* while all the others have one.
THEOREM IncludesDoNotDangle == Spec => []NoDanglingInclude
  BY InstallInvariance, PTL DEF InstallInv

\* Exit code 0 means that every target is as asked.
THEOREM SuccessIsComplete == Spec => SuccessMeansDone
<1>1. InstallInv /\ [Next]_vars => [EndsDone]_vars
  <2> SUFFICES ASSUME InstallInv, Next PROVE EndsDone
    OBVIOUS
  <2> SUFFICES ASSUME NEW p \in Procs, Procs = {p}, pc[p] # "idle", pc'[p] = "idle",
                      code'[p] = 0, ~dry[p]
               PROVE  Done(p)
    BY DEF EndsDone
  <2>0. TypeOK /\ Planned(p)
    BY DEF InstallInv
  <2>a. /\ pc \in [Procs -> {"idle", "screen", "plan", "apply", "commit"}]
        /\ code \in [Procs -> {0, 2, 3, 137}]
        /\ step[p] \in DOMAIN Targets /\ DOMAIN Targets = 1..Len(Targets) /\ Len(Targets) \in Nat
    BY <2>0, TargetFacts DEF TypeOK
  <2>b. \A exit \in {2, 3, 137} : ~Stop(p, exit)
    BY <2>a DEF Stop
  <2>1. Reread(p) \/ CommitStep(p)
    <3>1. \A f \in Files : ~Edit(f) /\ ~EditSection(f)
      BY DEF Edit, EditSection, UserWrites, procs
    <3>2. \A o, prof, d : ~Start(p, o, prof, d)
      BY DEF Start
    <3>3. ~Screen(p)
      BY <2>a, <2>b DEF Screen
    <3>4. ~Plan(p)
      BY <2>a, <2>b DEF Plan
    <3>5. ~IoError(p) /\ ~Crash(p)
      BY <2>b DEF IoError, Crash
    <3> QED BY <3>1, <3>2, <3>3, <3>4, <3>5 DEF Next
  <2>2. pc[p] \in {"apply", "commit"} /\ Change(p) = Due(p)
    BY <2>0, <2>1, ChangeIsDue DEF Reread, CommitStep
  <2>3. Advance(p) => step[p] = Len(Targets)
    BY <2>a DEF Advance
  <2>4. /\ step[p] = Len(Targets)
        /\ \/ disk' = disk /\ (op[p] = "check" \/ Due(p).before = Due(p).after)
           \/ disk' = [disk EXCEPT ![Due(p).file] = Due(p).after]
    <3>1. CASE Reread(p)
      <4>1. Advance(p) /\ (op[p] = "check" \/ Due(p).before = Due(p).after)
        BY <2>a, <2>b, <2>2, <3>1 DEF Reread
      <4> QED BY <2>3, <3>1, <4>1 DEF Reread
    <3>2. CASE CommitStep(p)
      BY <2>2, <2>3, <3>2 DEF CommitStep
    <3> QED BY <2>1, <3>1, <3>2
  <2>5. \A i \in DOMAIN Targets : Alike(disk'[Targets[i]], plans[p][i].after)
    <3> TAKE i \in DOMAIN Targets
    <3>1. Place(p, i) \in DOMAIN Targets
      BY <2>0, PlaceFacts
    <3>2. Place(p, i) <= step[p]
      BY <2>4, <2>a, <3>1
    <3> QED BY <2>2, <2>4, <3>2, Carried
  <2>6. DOMAIN plans[p] = DOMAIN Targets
    BY <2>0, <2>2, ChangeIsDue
  <2>7. ASSUME NEW f \in Files
        PROVE  IF op[p] = "undo" THEN Block(disk'[f]) = NoBlock
               ELSE Block(disk'[f]) # NoBlock /\ Block(disk'[f]).profile = profile[p]
    <3>1. PICK i \in DOMAIN Targets : f = Targets[i]
      BY <2>0, TargetFacts
    <3> QED BY <2>0, <2>5, <2>6, <3>1, PlanFacts DEF Alike
  <2> QED BY <2>7 DEF Done
<1> QED BY <1>1, InstallInvariance, PTL DEF Spec, SuccessMeansDone

=============================================================================
