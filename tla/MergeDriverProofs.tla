------------------------- MODULE MergeDriverProofs -------------------------
(***************************************************************************)
(* Theorems about MergeDriver, for every set of command lines, every       *)
(* aliasing of the paths and every number of invocations and edits.        *)
(*                                                                         *)
(* None of the properties is inductive: each speaks of a file and of an    *)
(* ending that several steps lie between.  DriverInv says what holds at    *)
(* each step in between: which checks were passed, what was decided, and   *)
(* what is already on disk.                                                *)
(***************************************************************************)
EXTENDS MergeDriver, TLAPS

\* Steps before anything is decided, and steps after the report.
Early == {"idle", "select", "read", "execute"}
Late  == {"commitOutput", "print", "return"}

\* A running invocation has passed the checks on its paths.
Preflighted ==
  pc # "idle" => /\ ReportPreflight(req)
                 /\ req.lane # "legacy" => TypedOptionsValid(req)

\* What was decided fits the step.
PlanFits ==
  /\ pc \in Early => plan = NoPlan
  /\ plan.output # Absent => req.lane # "diff" /\ ~req.checkOnly
  /\ pc \in {"stageOutput", "commitOutput"} => plan.output # Absent
  /\ pc = "print" => req.lane = "diff"
  /\ pc \in {"stageReport", "commitReport"} => req.report # None
  /\ plan.output.kind # "report"

\* Ours is never a report, on disk or as it was read.
OursIsText ==
  /\ disk[canon["ours"]].kind # "report"
  /\ 2 \in DOMAIN seen => seen[2].kind # "report"
  /\ pc = "read" => Len(seen) < Len(Sources(req))
  /\ pc = "execute" => Len(seen) = Len(Sources(req))
  /\ pc \in {"idle", "select"} => seen = <<>>

\* Once the report is committed it stays, and has the code that was decided.
ReportInPlace ==
  (pc \in Late /\ req.report # None) => disk[canon[req.report]] = Report(plan.code)

\* The output is committed last; only the user replaces it then.
OutputInPlace ==
  (pc = "return" /\ plan.output # Absent) =>
    disk[Destination] = plan.output \/ disk[Destination].kind = "edited"

\* A report on disk is of an earlier invocation, or of this one once it has
\* been committed.
ReportsDated ==
  \A p \in Paths : disk[p].kind = "report" =>
    /\ disk[p].by \in 1..Attempt
    /\ disk[p].by = Attempt => pc \in Late /\ disk[p].code = plan.code

DriverInv ==
  /\ TypeOK /\ Preflighted /\ PlanFits /\ OursIsText
  /\ ReportInPlace /\ OutputInPlace /\ ReportsDated /\ ReportTrusted

-----------------------------------------------------------------------------
(* The steps, by what they do *)

\* An invocation begins with a request whose paths passed the checks.
Begins(r) ==
  /\ pc = "idle" /\ pc' \in {"read", "select"} /\ req' = r
  /\ ReportPreflight(r) /\ (r.lane # "legacy" => TypedOptionsValid(r))
  /\ UNCHANGED <<canon, disk, seen, plan, past, edits>>

\* An invocation ends with a status: early, with an error; late, with the
\* decided code or because a write or the printing failed; or killed.
Ends(status) ==
  /\ \/ pc \in Early /\ status \in {2, 3}
     \/ pc \in {"stageOutput", "stageReport", "commitReport", "commitOutput", "print"} /\ status = 3
     \/ pc \in {"print", "return"} /\ status = plan.code
     \/ pc # "idle" /\ status = Killed
  /\ End(status)
  /\ UNCHANGED <<canon, disk, edits>>

\* A source is read.
Reads ==
  /\ pc = "read" /\ seen' = Append(seen, disk[canon[Sources(req)[Len(seen) + 1]]])
  /\ pc' = (IF Len(seen') = Len(Sources(req)) THEN "execute" ELSE "read")
  /\ UNCHANGED <<canon, disk, req, plan, past, edits>>

\* A decision that leaves something to write, print or return.
Decides ==
  /\ pc \in {"select", "read", "execute"}
  /\ plan' \in [code : 0..3, output : Contents, reported : BOOLEAN, settled : BOOLEAN]
  /\ plan'.output # Absent => req.lane # "diff" /\ ~req.checkOnly /\ pc' = "stageOutput"
  /\ plan'.output.kind # "report"
  /\ \/ pc' = "stageOutput" /\ plan'.output # Absent
     \/ pc' = "stageReport" /\ req.report # None
     \/ pc' = "print" /\ req.lane = "diff" /\ req.report = None
     \/ pc' = "return" /\ req.report = None
  /\ UNCHANGED <<canon, disk, req, seen, past, edits>>

\* A step that writes nothing and decides nothing.
Moves ==
  /\ \/ pc = "select" /\ pc' = "read"
     \/ pc = "stageOutput" /\ req.report # None /\ pc' = "stageReport"
     \/ pc = "stageOutput" /\ req.report = None /\ pc' = "commitOutput"
     \/ pc = "stageReport" /\ pc' = "commitReport"
  /\ UNCHANGED <<canon, disk, req, seen, plan, past, edits>>

WritesReport ==
  /\ pc = "commitReport"
  /\ disk' = [disk EXCEPT ![canon[req.report]] = Report(plan.code)]
  /\ \/ pc' = "commitOutput" /\ plan.output # Absent
     \/ pc' = "print" /\ plan.output = Absent /\ req.lane = "diff"
     \/ pc' = "return" /\ plan.output = Absent
  /\ UNCHANGED <<canon, req, seen, plan, past, edits>>

WritesOutput ==
  /\ pc = "commitOutput" /\ pc' = "return"
  /\ disk' = [disk EXCEPT ![Destination] = plan.output]
  /\ UNCHANGED <<canon, req, seen, plan, past, edits>>

Step ==
  \/ \E r \in Requests : Begins(r)
  \/ \E status \in 0..3 \cup {Killed} : Ends(status)
  \/ Reads \/ Decides \/ Moves \/ WritesReport \/ WritesOutput
  \/ \E p \in Paths : Edit(p)

LEMMA SourcesAreThree ==
  ASSUME NEW r \in MergeDriverOptions
  PROVE  /\ Sources(r) \in Seq(Paths)
         /\ Len(Sources(r)) = (IF r.lane = "diff" THEN 2 ELSE 3)
         /\ Sources(r)[2] = "ours"
<1>1. CASE r.lane = "diff"
  BY <1>1 DEF Sources, Paths
<1>2. CASE r.lane # "diff"
  BY <1>2 DEF Sources, Paths
<1> QED BY <1>1, <1>2

\* finish_failure with a diagnostic ends at once, or decides to report.
LEMMA FailureSteps ==
  ASSUME TypeOK, PlanFits, pc \in {"select", "read", "execute"}, NEW c \in {2, 3},
         FinishFailure(c), UNCHANGED <<canon, disk, edits>>
  PROVE  Ends(c) \/ Decides
<1>1. CASE req.report = None /\ ~(req.lane = "diff" /\ req.json)
  BY <1>1 DEF FinishFailure, Exit, Ends, Early
<1>2. CASE ~(req.report = None /\ ~(req.lane = "diff" /\ req.json))
  <2>1. plan' = [code |-> c, output |-> Absent, reported |-> TRUE, settled |-> FALSE]
    BY <1>2 DEF FinishFailure, NoPlan
  <2>2. Absent \in Contents /\ Absent.kind # "report"
    BY DEF Absent, Contents
  <2>3. plan' \in [code : 0..3, output : Contents, reported : BOOLEAN, settled : BOOLEAN]
    BY <2>1, <2>2
  <2>4. plan'.output = Absent
    BY <2>1
  <2>5. /\ pc' = IF req.report # None THEN "stageReport" ELSE "print"
        /\ UNCHANGED <<req, seen, past>>
    BY <1>2 DEF FinishFailure, Go
  <2> QED BY <1>2, <2>2, <2>3, <2>4, <2>5 DEF Decides
<1> QED BY <1>1, <1>2

\* A settled operation decides.
LEMMA DecideSteps ==
  ASSUME TypeOK, pc = "execute", NEW c \in 0..3, NEW o \in Contents,
         o.kind # "report", o # Absent => req.lane # "diff" /\ ~req.checkOnly,
         Decide(c, o), UNCHANGED <<canon, disk, edits>>
  PROVE  Decides
<1>1. plan' = [code |-> c, output |-> o, reported |-> TRUE, settled |-> TRUE]
  BY DEF Decide
<1>2. /\ plan' \in [code : 0..3, output : Contents, reported : BOOLEAN, settled : BOOLEAN]
      /\ plan'.output = o
  BY <1>1
<1>3. UNCHANGED <<req, seen, past>>
  BY DEF Decide, Go
<1>4. CASE o # Absent
  <2>1. pc' = "stageOutput"
    BY <1>4 DEF Decide, Go
  <2> QED BY <1>2, <1>3, <1>4, <2>1 DEF Decides
<1>5. CASE o = Absent /\ req.report # None
  <2>1. pc' = "stageReport"
    BY <1>5 DEF Decide, Go
  <2> QED BY <1>2, <1>3, <1>5, <2>1 DEF Decides
<1>6. CASE o = Absent /\ req.report = None
  <2>1. pc' = IF req.lane = "diff" THEN "print" ELSE "return"
    BY <1>6 DEF Decide, Go
  <2> QED BY <1>2, <1>3, <1>6, <2>1 DEF Decides
<1> QED BY <1>4, <1>5, <1>6

\* What the engines return is text, never a report.
LEMMA ResultTexts ==
  ASSUME TypeOK, OursIsText, pc = "execute"
  PROVE  \A o \in Outputs \cup {Marked} : o \in Contents /\ o.kind # "report"
<1>1. Len(seen) \in {2, 3} /\ seen \in Seq(Contents) /\ req \in MergeDriverOptions
  BY SourcesAreThree DEF OursIsText, TypeOK
<1>2. seen[2] \in Contents /\ seen[2].kind # "report"
  BY <1>1 DEF OursIsText
<1>3. Attempt \in Nat
  BY DEF TypeOK, Attempt
<1>4. Absent \in Contents /\ Merged \in Contents /\ Marked \in Contents
  BY <1>3 DEF Absent, Merged, Marked, Contents
<1>5. Absent.kind # "report" /\ Merged.kind # "report" /\ Marked.kind # "report"
  BY DEF Absent, Merged, Marked
<1> QED BY <1>2, <1>4, <1>5 DEF Outputs

\* The typed merge, complete or not.
LEMMA TypedSteps ==
  ASSUME TypeOK, PlanFits, OursIsText, ExecuteTyped
  PROVE  Decides \/ \E status \in {2, 3} : Ends(status)
<1> USE DEF ExecuteTyped
<1>1. CASE \E c \in {2, 3} : FinishFailure(c)
  BY <1>1, FailureSteps
<1>2. CASE \E c \in {2, 3} : Exit(c)
  BY <1>2 DEF Exit, Ends, Early
<1>3. ASSUME NEW result \in OperationResults,
             Decide(TypedCode(result), TypedOutput(result))
      PROVE  Decides
  <2>1. TypedCode(result) \in 0..3
    BY DEF TypedCode
  <2>2. result.output \in Outputs /\ result.conflicted \in {Absent, Marked}
    BY <1>3 DEF OperationResults
  <2>3. TypedOutput(result) \in Outputs \cup {Marked}
    BY <2>2 DEF TypedOutput, Outputs
  <2>4. TypedOutput(result) # Absent => req.lane # "diff" /\ ~req.checkOnly
    BY DEF TypedOutput
  <2> QED BY <1>3, <2>1, <2>3, <2>4, DecideSteps, ResultTexts
<1> QED BY <1>1, <1>2, <1>3

LEMMA DiffSteps ==
  ASSUME TypeOK, PlanFits, OursIsText, ExecuteDiff
  PROVE  Decides \/ \E status \in {2, 3} : Ends(status)
<1> USE DEF ExecuteDiff
<1>1. CASE \E c \in {2, 3} : FinishFailure(c)
  BY <1>1, FailureSteps
<1>2. CASE Exit(3)
  BY <1>2 DEF Exit, Ends, Early
<1>3. ASSUME NEW c \in 0..3, Decide(c, Absent)
      PROVE  Decides
  BY <1>3, DecideSteps, ResultTexts DEF Outputs
<1> QED BY <1>1, <1>2, <1>3

\* The legacy merge with its fallbacks.
LEMMA LegacySteps ==
  ASSUME TypeOK, PlanFits, OursIsText, ExecuteLegacy
  PROVE  Decides \/ \E status \in {2, 3} : Ends(status)
<1> USE DEF ExecuteLegacy
<1>1. CASE \E c \in {2, 3} : Exit(c)
  BY <1>1 DEF Exit, Ends, Early
<1>2. ASSUME NEW result \in LegacyOutcomes,
             Decide(LegacyCode(result), IF req.checkOnly THEN Absent ELSE result.output)
      PROVE  Decides
  <2>1. LegacyCode(result) \in 0..3
    BY DEF LegacyCode
  <2>2. \A r \in LegacyResults \cup {Unsupported} :
           FullFile(r).output \in Outputs \cup {Marked}
    <3> TAKE r \in LegacyResults \cup {Unsupported}
    <3>1. Unsupported \in [ok : {FALSE}, output : {Absent, Marked}]
      BY DEF Unsupported
    <3>2. CASE r \in [ok : {TRUE}, output : Outputs]
      BY <3>2 DEF FullFile
    <3>3. CASE r \in [ok : {FALSE}, output : {Absent, Marked}]
      <4>1. r.output \in {Absent, Marked} /\ Absent \in Outputs
        BY <3>3 DEF Outputs
      <4> QED BY <3>3, <4>1 DEF FullFile
    <3> QED BY <3>1, <3>2, <3>3 DEF LegacyResults
  <2>3. \A git, plain \in LegacyResults :
           ApplyMergeFallbacks(Unsupported, git, plain) \in LegacyResults \cup {Unsupported}
    BY DEF ApplyMergeFallbacks
  <2>4. result.output \in Outputs \cup {Marked}
    BY <1>2, <2>2, <2>3 DEF LegacyOutcomes
  <2>5. req.lane # "diff"
    OBVIOUS
  <2>6. Absent \in Outputs
    BY DEF Outputs
  <2> QED BY <1>2, <2>1, <2>4, <2>5, <2>6, DecideSteps, ResultTexts
<1> QED BY <1>1, <1>2

\* Every step of the driver is one of these.
LEMMA StepCases ==
  ASSUME DriverInv, Next
  PROVE  Step
<1>0. TypeOK /\ PlanFits /\ OursIsText
  BY DEF DriverInv
<1>1. CASE \E r \in Requests : Start(r)
  BY <1>1 DEF Start, Step, Begins, Ends, Exit, Early
<1>2. CASE SelectParser
  <2>1. CASE \E c \in {2, 3} : FinishFailure(c)
    BY <1>0, <1>2, <2>1, FailureSteps DEF SelectParser, Step
  <2>2. CASE Go("read") /\ UNCHANGED plan
    BY <1>2, <2>2 DEF SelectParser, Go, Moves, Step
  <2> QED BY <1>2, <2>1, <2>2 DEF SelectParser
<1>3. CASE ReadSource
  <2>1. CASE FinishFailure(2)
    BY <1>0, <1>3, <2>1, FailureSteps DEF ReadSource, Step
  <2>2. CASE Exit(2)
    BY <1>3, <2>2 DEF ReadSource, Exit, Ends, Early, Step
  <2>3. ASSUME ~FinishFailure(2), ~Exit(2) PROVE Reads
    BY <1>3, <2>3 DEF ReadSource, Reads
  <2> QED BY <2>1, <2>2, <2>3 DEF Step
<1>4. CASE ExecuteTyped \/ ExecuteDiff \/ ExecuteLegacy
  BY <1>0, <1>4, TypedSteps, DiffSteps, LegacySteps DEF Step
<1>5. CASE StageOutput \/ StageReport
  BY <1>5 DEF StageOutput, StageReport, Go, Exit, Moves, Ends, Step
<1>6. CASE CommitReport
  <2>1. CASE disk' = disk /\ Exit(3)
    BY <1>6, <2>1 DEF CommitReport, Exit, Ends, Step
  <2>2. ASSUME ~(disk' = disk /\ Exit(3)) PROVE WritesReport
    <3>1. /\ pc = "commitReport" /\ pc' = AfterReport
          /\ disk' = [disk EXCEPT ![canon[req.report]] = Report(plan.code)]
          /\ UNCHANGED <<canon, req, seen, plan, past, edits>>
      BY <1>6, <2>2 DEF CommitReport, Go
    <3>2. \/ AfterReport = "commitOutput" /\ plan.output # Absent
          \/ AfterReport = "print" /\ plan.output = Absent /\ req.lane = "diff"
          \/ AfterReport = "return" /\ plan.output = Absent
      BY DEF AfterReport
    <3> QED BY <3>1, <3>2 DEF WritesReport
  <2> QED BY <2>1, <2>2 DEF Step
<1>7. CASE CommitOutput
  BY <1>7 DEF CommitOutput, Go, Exit, Ends, WritesOutput, Step
<1>8. CASE PrintDiff \/ Return
  <2>1. plan.code \in 0..3
    BY <1>0 DEF TypeOK
  <2> QED BY <1>8, <2>1 DEF PrintDiff, Return, Exit, Ends, Step
<1>9. CASE Kill
  BY <1>9 DEF Kill, Ends, Step
<1>10. CASE \E p \in Paths : Edit(p)
  BY <1>10 DEF Step
<1> QED BY <1>1, <1>2, <1>3, <1>4, <1>5, <1>6, <1>7, <1>8, <1>9, <1>10 DEF Next

-----------------------------------------------------------------------------
(* The invariant *)

LEMMA InitInv == ASSUME Init PROVE DriverInv
<1> USE DEF Init
<1>1. Absent \in Contents /\ \A p \in Paths : Source(p) \in Contents
  BY DEF Absent, Source, Contents
<1>2. NoRequest \in MergeDriverOptions
  BY DEF NoRequest, MergeDriverOptions, Lanes, Paths, None
<1>3. NoPlan \in [code : 0..3, output : Contents, reported : BOOLEAN, settled : BOOLEAN]
  BY <1>1 DEF NoPlan
<1>4. disk \in [Paths -> Contents]
  BY <1>1
<1>5. TypeOK
  BY <1>2, <1>3, <1>4 DEF TypeOK, Steps
<1>6. \A p \in Paths : disk[p].kind # "report"
  BY DEF Absent, Source, Paths
<1>7. canon["ours"] \in Paths
  BY OptionsAssumption DEF Paths
<1>8. PlanFits
  BY DEF PlanFits, NoPlan, Absent
<1>9. OursIsText
  BY <1>6, <1>7 DEF OursIsText
<1> QED BY <1>5, <1>6, <1>8, <1>9
        DEF DriverInv, Preflighted, ReportInPlace, OutputInPlace, ReportsDated,
            ReportTrusted, Late, NoPlan

\* What an ending leaves in the variables of the invocation.
LEMMA EndTypes ==
  ASSUME TypeOK, NEW status \in 0..3 \cup {Killed}, Ends(status)
  PROVE  /\ TypeOK' /\ pc' = "idle" /\ plan' = NoPlan /\ seen' = <<>>
         /\ Len(past') = Len(past) + 1
         /\ \A i \in 1..Len(past) : past'[i] = past[i]
         /\ past'[Attempt] = [exit |-> status,
                              pending |-> plan.output # Absent \/ req.lane = "diff"]
<1> DEFINE e == [exit |-> status, pending |-> plan.output # Absent \/ req.lane = "diff"]
<1>1. /\ past' = Append(past, e) /\ pc' = "idle" /\ req' = NoRequest
      /\ seen' = <<>> /\ plan' = NoPlan /\ UNCHANGED <<canon, disk, edits>>
  BY DEF Ends, End
<1>2. e \in [exit : 0..3 \cup {Killed}, pending : BOOLEAN]
  OBVIOUS
<1>3. past \in Seq([exit : 0..3 \cup {Killed}, pending : BOOLEAN])
  BY DEF TypeOK
<1>4. past' \in Seq([exit : 0..3 \cup {Killed}, pending : BOOLEAN])
  BY <1>1, <1>2, <1>3
<1>5. NoRequest \in MergeDriverOptions
  BY DEF NoRequest, MergeDriverOptions, Lanes, Paths, None
<1>6. NoPlan \in [code : 0..3, output : Contents, reported : BOOLEAN, settled : BOOLEAN]
  BY DEF NoPlan, Absent, Contents
<1>7. TypeOK'
  BY <1>1, <1>4, <1>5, <1>6 DEF TypeOK, Steps
<1> HIDE DEF e
<1>8. /\ Len(past') = Len(past) + 1 /\ past'[Attempt] = e
      /\ \A i \in 1..Len(past) : past'[i] = past[i]
  BY <1>1, <1>3 DEF Attempt
<1> QED BY <1>1, <1>7, <1>8 DEF e

\* The paths of a request name files.
LEMMA PathsResolve ==
  ASSUME TypeOK
  PROVE  /\ \A p \in Paths : canon[p] \in Paths
         /\ Destination \in Paths
         /\ req.report # None => canon[req.report] \in Paths
  BY OptionsAssumption DEF TypeOK, Destination, MergeDriverOptions

LEMMA TypesKept ==
  ASSUME DriverInv, Step
  PROVE  TypeOK'
<1>0. TypeOK
  BY DEF DriverInv
<1>1. CASE \E r \in Requests : Begins(r)
  BY <1>0, <1>1, OptionsAssumption DEF Begins, TypeOK, Steps
<1>2. CASE \E status \in 0..3 \cup {Killed} : Ends(status)
  BY <1>0, <1>2, EndTypes
<1>3. CASE Reads
  <2>1. Len(seen) + 1 \in DOMAIN Sources(req) /\ Sources(req) \in Seq(Paths)
    BY <1>0, <1>3, SourcesAreThree DEF Reads, DriverInv, OursIsText, TypeOK
  <2>2. disk[canon[Sources(req)[Len(seen) + 1]]] \in Contents
    BY <1>0, <2>1, PathsResolve DEF TypeOK
  <2> QED BY <1>0, <1>3, <2>2 DEF Reads, TypeOK, Steps
<1>4. CASE Decides
  BY <1>0, <1>4 DEF Decides, TypeOK, Steps
<1>5. CASE Moves
  BY <1>0, <1>5 DEF Moves, TypeOK, Steps
<1>6. CASE WritesReport
  <2>1. Report(plan.code) \in Contents
    BY <1>0 DEF Report, Attempt, Contents, TypeOK
  <2> QED BY <1>0, <1>6, <2>1 DEF WritesReport, TypeOK, Steps
<1>7. CASE WritesOutput
  BY <1>0, <1>7 DEF WritesOutput, TypeOK, Steps
<1>8. CASE \E p \in Paths : Edit(p)
  <2>1. Edited(edits + 1) \in Contents
    BY <1>0 DEF Edited, Contents, TypeOK
  <2> QED BY <1>0, <1>8, <2>1 DEF Edit, TypeOK
<1> QED BY <1>1, <1>2, <1>3, <1>4, <1>5, <1>6, <1>7, <1>8 DEF Step

\* The checks are made once and the layout does not change; what is decided
\* is decided once and kept until the end.
LEMMA PlanKept ==
  ASSUME DriverInv, Step
  PROVE  (Preflighted /\ PlanFits)'
<1>0. TypeOK /\ Preflighted /\ PlanFits
  BY DEF DriverInv
<1> USE DEF Preflighted, PlanFits, Early, ReportPreflight, ReportIsDistinct, TypedOptionsValid
<1>1. CASE \E r \in Requests : Begins(r)
  BY <1>0, <1>1 DEF Begins, NoPlan
<1>2. CASE \E status \in 0..3 \cup {Killed} : Ends(status)
  BY <1>0, <1>2, EndTypes DEF NoPlan, Absent
<1>3. CASE Reads
  BY <1>0, <1>3 DEF Reads
<1>4. CASE Decides
  BY <1>0, <1>4 DEF Decides
<1>5. CASE Moves
  BY <1>0, <1>5 DEF Moves
<1>6. CASE WritesReport
  BY <1>0, <1>6 DEF WritesReport
<1>7. CASE WritesOutput
  BY <1>0, <1>7 DEF WritesOutput
<1>8. CASE \E p \in Paths : Edit(p)
  BY <1>0, <1>8 DEF Edit
<1> QED BY <1>1, <1>2, <1>3, <1>4, <1>5, <1>6, <1>7, <1>8 DEF Step

\* The report of a running invocation goes to none of its sources and not to
\* its output.
LEMMA ReportApart ==
  ASSUME DriverInv, pc # "idle", req.report # None
  PROVE  /\ \A i \in DOMAIN Sources(req) : canon[req.report] # canon[Sources(req)[i]]
         /\ canon[req.report] # canon["ours"]
         /\ req.lane # "diff" => canon[req.report] # Destination
<1>1. ReportIsDistinct(req.report, IF req.lane = "diff" THEN {"base", "ours"}
                                   ELSE {"base", "ours", "theirs", req.output})
  BY DEF DriverInv, Preflighted, ReportPreflight
<1>2. CASE req.lane = "diff"
  <2>1. Sources(req) = <<"base", "ours">>
    BY <1>2 DEF Sources
  <2>2. \A i \in DOMAIN Sources(req) : Sources(req)[i] \in {"base", "ours"}
    BY <2>1
  <2> QED BY <1>1, <1>2, <2>2 DEF ReportIsDistinct
<1>3. CASE req.lane # "diff"
  <2>1. Sources(req) = <<"base", "ours", "theirs">>
    BY <1>3 DEF Sources
  <2>2. \A i \in DOMAIN Sources(req) : Sources(req)[i] \in {"base", "ours", "theirs"}
    BY <2>1
  <2> QED BY <1>1, <1>3, <2>2 DEF ReportIsDistinct, Destination
<1> QED BY <1>2, <1>3

LEMMA OursKept ==
  ASSUME DriverInv, Step
  PROVE  OursIsText'
<1>0. TypeOK /\ OursIsText /\ PlanFits
  BY DEF DriverInv
<1>a. /\ canon["ours"] \in Paths /\ seen \in Seq(Contents)
      /\ Len(Sources(req)) \in {2, 3} /\ Sources(req)[2] = "ours"
  BY <1>0, PathsResolve, SourcesAreThree DEF TypeOK, Paths
<1>1. CASE \E r \in Requests : Begins(r)
  <2>1. PICK r \in Requests : Begins(r)
    BY <1>1
  <2>2. Len(Sources(r)) \in {2, 3}
    BY SourcesAreThree, OptionsAssumption
  <2>3. seen' = <<>> /\ req' = r /\ pc' \in {"read", "select"} /\ UNCHANGED <<canon, disk>>
    BY <1>0, <2>1 DEF Begins, OursIsText
  <2>4. Len(seen') = 0 /\ DOMAIN seen' = {}
    BY <2>3
  <2> QED BY <1>0, <2>2, <2>3, <2>4 DEF OursIsText
<1>2. CASE \E status \in 0..3 \cup {Killed} : Ends(status)
  <2>1. UNCHANGED <<canon, disk>>
    BY <1>2 DEF Ends
  <2> QED BY <1>0, <1>2, <2>1, EndTypes DEF OursIsText
<1>3. CASE Reads
  <2>1. /\ Len(seen') = Len(seen) + 1
        /\ \A i \in 1..Len(seen) : seen'[i] = seen[i]
        /\ Len(seen) = 1 => seen'[2] = disk[canon["ours"]]
    BY <1>3, <1>a DEF Reads
  <2>2. 2 \in DOMAIN seen' => seen'[2].kind # "report"
    BY <1>0, <1>3, <1>a, <2>1 DEF OursIsText, Reads
  <2>3. /\ pc' = "read" => Len(seen') < Len(Sources(req'))
        /\ pc' = "execute" => Len(seen') = Len(Sources(req'))
        /\ pc' \notin {"idle", "select"}
    BY <1>0, <1>3, <1>a, <2>1 DEF OursIsText, Reads
  <2> QED BY <1>0, <1>3, <2>2, <2>3 DEF OursIsText, Reads
<1>4. CASE Decides
  BY <1>0, <1>4 DEF Decides, OursIsText
<1>5. CASE Moves
  BY <1>0, <1>5, <1>a DEF Moves, OursIsText
<1>6. CASE WritesReport
  <2>1. canon[req.report] # canon["ours"]
    BY <1>0, <1>6, ReportApart DEF WritesReport, PlanFits
  <2> QED BY <1>0, <1>6, <1>a, <2>1 DEF WritesReport, OursIsText, TypeOK
<1>7. CASE WritesOutput
  <2>1. disk'[canon["ours"]] \in {disk[canon["ours"]], plan.output}
    BY <1>0, <1>7, <1>a DEF WritesOutput, TypeOK
  <2> QED BY <1>0, <1>7, <2>1 DEF WritesOutput, OursIsText, PlanFits
<1>8. CASE \E p \in Paths : Edit(p)
  <2>1. Edited(edits').kind # "report"
    BY DEF Edited
  <2>2. disk'[canon["ours"]] \in {disk[canon["ours"]], Edited(edits')}
    BY <1>0, <1>8, <1>a DEF Edit, TypeOK
  <2> QED BY <1>0, <1>8, <2>1, <2>2 DEF Edit, OursIsText
<1> QED BY <1>1, <1>2, <1>3, <1>4, <1>5, <1>6, <1>7, <1>8 DEF Step

\* A committed report is overwritten neither by the output, which goes to
\* another file, nor by the user.
LEMMA ReportStays ==
  ASSUME DriverInv, Step
  PROVE  ReportInPlace'
<1>0. TypeOK /\ ReportInPlace /\ PlanFits
  BY DEF DriverInv
<1>a. Report(plan.code).kind = "report"
  BY DEF Report
<1> USE DEF ReportInPlace, Late
<1>1. CASE \E r \in Requests : Begins(r)
  BY <1>1 DEF Begins
<1>2. CASE \E status \in 0..3 \cup {Killed} : Ends(status)
  BY <1>0, <1>2, EndTypes
<1>3. CASE Reads
  BY <1>3 DEF Reads
<1>4. CASE Decides
  BY <1>4 DEF Decides
<1>5. CASE Moves
  BY <1>5 DEF Moves
<1>6. CASE WritesReport
  <2>1. canon[req.report] \in Paths
    BY <1>0, <1>6, PathsResolve DEF WritesReport, PlanFits
  <2>2. disk'[canon[req.report]] = Report(plan.code)
    BY <1>0, <1>6, <2>1 DEF WritesReport, TypeOK
  <2> QED BY <1>6, <2>2 DEF WritesReport, Report, Attempt
<1>7. CASE WritesOutput
  <2>1. req.lane # "diff"
    BY <1>0, <1>7 DEF WritesOutput, PlanFits
  <2>2. req.report # None => canon[req.report] # Destination /\ canon[req.report] \in Paths
    BY <1>0, <1>7, <2>1, ReportApart, PathsResolve DEF WritesOutput
  <2>3. req.report # None => disk'[canon[req.report]] = disk[canon[req.report]]
    BY <1>0, <1>7, <2>2 DEF WritesOutput, TypeOK
  <2> QED BY <1>0, <1>7, <2>3 DEF WritesOutput, Report, Attempt
<1>8. CASE \E p \in Paths : Edit(p)
  <2>1. PICK p \in Paths : Edit(p)
    BY <1>8
  <2>2. disk[p].kind # "report"
    BY <2>1 DEF Edit
  <2>3. \A f \in Paths : disk[f].kind = "report" => disk'[f] = disk[f]
    BY <1>0, <2>1, <2>2 DEF Edit, TypeOK
  <2>4. UNCHANGED <<canon, req, plan, pc, past>>
    BY <2>1 DEF Edit
  <2> QED BY <1>0, <1>a, <2>3, <2>4, PathsResolve DEF Report, Attempt
<1> QED BY <1>1, <1>2, <1>3, <1>4, <1>5, <1>6, <1>7, <1>8 DEF Step

\* After its commit the output is replaced by the user only.
LEMMA OutputStays ==
  ASSUME DriverInv, Step
  PROVE  OutputInPlace'
<1>0. TypeOK /\ OutputInPlace /\ PlanFits
  BY DEF DriverInv
<1> USE DEF OutputInPlace, Destination
<1>1. CASE \E r \in Requests : Begins(r)
  BY <1>1 DEF Begins
<1>2. CASE \E status \in 0..3 \cup {Killed} : Ends(status)
  BY <1>0, <1>2, EndTypes
<1>3. CASE Reads
  BY <1>3 DEF Reads
<1>4. CASE Decides
  BY <1>4 DEF Decides
<1>5. CASE Moves
  BY <1>5 DEF Moves
<1>6. CASE WritesReport
  BY <1>6 DEF WritesReport
<1>7. CASE WritesOutput
  <2>1. disk'[Destination] = plan.output
    BY <1>0, <1>7, PathsResolve DEF WritesOutput, TypeOK
  <2> QED BY <1>7, <2>1 DEF WritesOutput
<1>8. CASE \E p \in Paths : Edit(p)
  <2>1. PICK p \in Paths : Edit(p)
    BY <1>8
  <2>2. \A f \in Paths : disk'[f] \in {disk[f], Edited(edits')}
    BY <1>0, <2>1 DEF Edit, TypeOK
  <2>3. Edited(edits').kind = "edited"
    BY DEF Edited
  <2>4. UNCHANGED <<canon, req, plan, pc, past>>
    BY <2>1 DEF Edit
  <2> QED BY <1>0, <2>2, <2>3, <2>4, PathsResolve
<1> QED BY <1>1, <1>2, <1>3, <1>4, <1>5, <1>6, <1>7, <1>8 DEF Step

\* A new report is dated with the running invocation; the next invocation
\* has a number of its own.
LEMMA DatesKept ==
  ASSUME DriverInv, Step
  PROVE  ReportsDated'
<1>0. TypeOK /\ ReportsDated /\ PlanFits
  BY DEF DriverInv
<1>a. Attempt \in Nat \ {0} /\ Attempt = Len(past) + 1
  BY <1>0 DEF TypeOK, Attempt
<1> USE DEF ReportsDated, Late
<1>1. CASE \E r \in Requests : Begins(r)
  BY <1>0, <1>1 DEF Begins, Attempt
<1>2. CASE \E status \in 0..3 \cup {Killed} : Ends(status)
  <2>1. Attempt' = Attempt + 1 /\ disk' = disk
    BY <1>0, <1>2, EndTypes DEF Ends, Attempt
  <2> QED BY <1>0, <1>a, <2>1
<1>3. CASE Reads
  BY <1>0, <1>3 DEF Reads, Attempt
<1>4. CASE Decides
  BY <1>0, <1>4 DEF Decides, Attempt
<1>5. CASE Moves
  BY <1>0, <1>5 DEF Moves, Attempt
<1>6. CASE WritesReport
  <2>1. Report(plan.code).by = Attempt /\ Report(plan.code).code = plan.code
    BY DEF Report
  <2>2. Attempt' = Attempt
    BY <1>6 DEF WritesReport, Attempt
  <2>3. \A p \in Paths : disk'[p] \in {disk[p], Report(plan.code)}
    BY <1>0, <1>6 DEF WritesReport, TypeOK
  <2> QED BY <1>0, <1>6, <1>a, <2>1, <2>2, <2>3 DEF WritesReport
<1>7. CASE WritesOutput
  <2>1. Attempt' = Attempt
    BY <1>7 DEF WritesOutput, Attempt
  <2>2. \A p \in Paths : disk'[p] \in {disk[p], plan.output}
    BY <1>0, <1>7 DEF WritesOutput, TypeOK
  <2> QED BY <1>0, <1>7, <2>1, <2>2 DEF WritesOutput, PlanFits
<1>8. CASE \E p \in Paths : Edit(p)
  <2>1. \A f \in Paths : disk'[f] \in {disk[f], Edited(edits')}
    BY <1>0, <1>8 DEF Edit, TypeOK
  <2>2. Edited(edits').kind # "report"
    BY DEF Edited
  <2>3. Attempt' = Attempt
    BY <1>8 DEF Edit, Attempt
  <2> QED BY <1>0, <1>8, <2>1, <2>2, <2>3 DEF Edit
<1> QED BY <1>1, <1>2, <1>3, <1>4, <1>5, <1>6, <1>7, <1>8 DEF Step

\* Reports of invocations that have ended do not change, and an invocation
\* that ends after its report either returns the code in it, or is killed,
\* or fails with something left to commit or print.
LEMMA TrustKept ==
  ASSUME DriverInv, Step
  PROVE  ReportTrusted'
<1>0. TypeOK /\ ReportTrusted /\ ReportsDated /\ PlanFits
  BY DEF DriverInv
<1>a. Attempt \in Nat \ {0} /\ Attempt = Len(past) + 1
  BY <1>0 DEF TypeOK, Attempt
<1>1. CASE UNCHANGED past
  <2>1. \A p \in Paths : disk'[p].kind = "report" =>
                            disk'[p] = disk[p] \/ disk'[p] = Report(plan.code)
    <3>1. CASE UNCHANGED disk
      BY <3>1
    <3>2. CASE WritesReport
      BY <1>0, <3>2 DEF WritesReport, TypeOK
    <3>3. CASE WritesOutput
      BY <1>0, <3>3 DEF WritesOutput, TypeOK, PlanFits
    <3>4. CASE \E p \in Paths : Edit(p)
      <4>1. \A f \in Paths : disk'[f] \in {disk[f], Edited(edits')}
        BY <1>0, <3>4 DEF Edit, TypeOK
      <4> QED BY <4>1 DEF Edited
    <3> QED BY <3>1, <3>2, <3>3, <3>4 DEF Step, Begins, Ends, Reads, Decides, Moves
  <2>2. Report(plan.code).by = Attempt
    BY DEF Report
  <2> QED BY <1>0, <1>1, <1>a, <2>1, <2>2 DEF ReportTrusted
<1>2. CASE \E status \in 0..3 \cup {Killed} : Ends(status)
  <2>1. PICK status \in 0..3 \cup {Killed} : Ends(status)
    BY <1>2
  <2>2. /\ Len(past') = Attempt /\ disk' = disk
        /\ \A i \in 1..Len(past) : past'[i] = past[i]
    BY <1>0, <1>a, <2>1, EndTypes DEF Ends
  <2>3. /\ past'[Attempt].exit = status
        /\ past'[Attempt].pending = (plan.output # Absent \/ req.lane = "diff")
    BY <1>0, <2>1, EndTypes
  <2>4. pc \in Late => \/ status = plan.code \/ status = Killed
                       \/ status = 3 /\ (plan.output # Absent \/ req.lane = "diff")
    BY <1>0, <2>1 DEF Ends, Late, Early, PlanFits
  <2> SUFFICES ASSUME NEW p \in Paths, disk[p].kind = "report"
               PROVE  LET e == past'[disk[p].by] IN
                      \/ e.exit = disk[p].code \/ e.exit = Killed
                      \/ e.exit = 3 /\ e.pending
    BY <2>2 DEF ReportTrusted
  <2>5. CASE disk[p].by = Attempt
    BY <1>0, <2>3, <2>4, <2>5 DEF ReportsDated
  <2>6. CASE disk[p].by # Attempt
    <3>1. disk[p].by \in 1..Len(past)
      BY <1>0, <1>a, <2>6 DEF ReportsDated
    <3> QED BY <1>0, <2>2, <3>1 DEF ReportTrusted, TypeOK
  <2> QED BY <2>5, <2>6
<1> QED BY <1>1, <1>2 DEF Step, Begins, Reads, Decides, Moves, WritesReport, WritesOutput, Edit

LEMMA InvKept ==
  ASSUME DriverInv, [Next]_vars
  PROVE  DriverInv'
<1>1. CASE Next
  BY <1>1, StepCases, TypesKept, PlanKept, OursKept, ReportStays, OutputStays, DatesKept,
     TrustKept DEF DriverInv
<1>2. CASE UNCHANGED vars
  BY <1>2 DEF vars, DriverInv, TypeOK, Preflighted, PlanFits, OursIsText, ReportInPlace,
     OutputInPlace, ReportsDated, ReportTrusted, ReportPreflight, ReportIsDistinct,
     TypedOptionsValid, Report, Attempt, Destination
<1> QED BY <1>1, <1>2

-----------------------------------------------------------------------------
(* Theorems *)

LEMMA Invariance == Spec => []DriverInv
  BY InitInv, InvKept, PTL DEF Spec

\* Type correctness of the commands, for every sequence of invocations.
THEOREM DriverTypeCorrectness == Spec => []TypeOK
  BY Invariance, PTL DEF DriverInv

\* A report on disk disagrees with the exit status only of an invocation
\* that was killed, or failed with something left to commit or print.
THEOREM ReportsAreTrusted == Spec => []ReportTrusted
  BY Invariance, PTL DEF DriverInv

\* Only reports are written before the destination, which is replaced last
\* and, when a report was asked for, after it.
THEOREM DestinationComesLast == Spec => DestinationWrittenLast
<1>1. DriverInv /\ [Next]_vars => [ReplacesLast]_vars
  <2> SUFFICES ASSUME DriverInv, Next, NEW p \in Paths, disk'[p] # disk[p], edits' = edits
               PROVE  \/ disk'[p].kind = "report" /\ req.report # None /\ p = canon[req.report]
                      \/ /\ p = Destination
                         /\ pc' = "return"
                         /\ req.report # None => disk[canon[req.report]] = Report(plan.code)
    BY DEF ReplacesLast, vars
  <2>1. disk \in [Paths -> Contents] /\ edits \in Nat
    BY DEF DriverInv, TypeOK
  <2>2. WritesReport \/ WritesOutput
    BY <2>1, StepCases DEF Step, Begins, Ends, Reads, Decides, Moves, Edit
  <2>3. CASE WritesReport
    <3>1. Report(plan.code).kind = "report" /\ req.report # None
      BY <2>3 DEF Report, WritesReport, DriverInv, PlanFits
    <3> QED BY <2>1, <2>3, <3>1 DEF WritesReport
  <2>4. CASE WritesOutput
    BY <2>1, <2>4 DEF WritesOutput, DriverInv, ReportInPlace, Late
  <2> QED BY <2>2, <2>3, <2>4
<1> QED BY <1>1, Invariance, PTL DEF Spec, DestinationWrittenLast

\* The exit code tells what is at the destination and in the report.
THEOREM ExitIsTruthful == Spec => TruthfulExit
<1>1. DriverInv /\ [Next]_vars => [ExitsTruthfully]_vars
  <2> SUFFICES ASSUME DriverInv, Next, Len(past') > Len(past)
               PROVE  ExitsTruthfully
    BY DEF ExitsTruthfully, vars
  <2>0. TypeOK /\ PlanFits /\ ReportInPlace /\ OutputInPlace
    BY DEF DriverInv
  <2>1. PICK status \in 0..3 \cup {Killed} : Ends(status)
    BY <2>0, StepCases DEF Step, Begins, Reads, Decides, Moves, WritesReport, WritesOutput,
       Edit, TypeOK
  <2>2. past'[Len(past')].exit = status
    BY <2>0, <2>1, EndTypes DEF Attempt
  <2>3. ASSUME status \in {0, 1}, plan.output # Absent
        PROVE  disk[Destination] = plan.output \/ disk[Destination].kind = "edited"
    BY <2>0, <2>1, <2>3 DEF Ends, Early, Killed, PlanFits, OutputInPlace
  <2>4. ASSUME status \in {0, 1, 2}, plan.reported, req.report # None
        PROVE  disk[canon[req.report]] = Report(status)
    <3>1. ~NoPlan.reported
      BY DEF NoPlan
    <3> QED BY <2>0, <2>1, <2>4, <3>1 DEF Ends, Early, Late, Killed, PlanFits, ReportInPlace
  <2> QED BY <2>2, <2>3, <2>4 DEF ExitsTruthfully
<1> QED BY <1>1, Invariance, PTL DEF Spec, TruthfulExit

\* No source is replaced but ours or, in the legacy lane, the one the output
\* was told to replace; a check or a diff replaces none, and a report never.
THEOREM SourcesAreSpared == Spec => InputsSurvive
<1>1. DriverInv /\ [Next]_vars => [SparesInputs]_vars
  <2> SUFFICES ASSUME DriverInv, Next, NEW i \in DOMAIN Sources(req),
                      disk'[canon[Sources(req)[i]]] # disk[canon[Sources(req)[i]]],
                      edits' = edits
               PROVE  LET f == canon[Sources(req)[i]] IN
                      /\ req.lane # "diff" /\ ~req.checkOnly /\ f = Destination
                      /\ disk'[f].kind # "report"
                      /\ req.lane = "typed" => f \notin {canon["base"], canon["theirs"]}
    BY DEF SparesInputs, vars
  <2> DEFINE f == canon[Sources(req)[i]]
  <2>0. TypeOK /\ PlanFits /\ Preflighted
    BY DEF DriverInv
  <2>1. f \in Paths
    BY <2>0, SourcesAreThree, PathsResolve DEF TypeOK
  <2>2. ~WritesReport
    <3> SUFFICES ASSUME WritesReport PROVE FALSE
      OBVIOUS
    <3>1. canon[req.report] # f
      BY <2>0, ReportApart DEF WritesReport, PlanFits
    <3> QED BY <2>0, <2>1, <3>1 DEF WritesReport, TypeOK
  <2>3. WritesOutput
    BY <2>0, <2>2, StepCases DEF Step, Begins, Ends, Reads, Decides, Moves, Edit, TypeOK
  <2>4. f = Destination /\ disk'[f] = plan.output
    BY <2>0, <2>1, <2>3 DEF WritesOutput, TypeOK
  <2>5. req.lane # "diff" /\ ~req.checkOnly /\ plan.output.kind # "report"
    BY <2>0, <2>3 DEF WritesOutput, PlanFits
  <2>6. req.lane = "typed" => Destination \notin {canon["base"], canon["theirs"]}
    BY <2>0, <2>3 DEF WritesOutput, Preflighted, TypedOptionsValid, ReportIsDistinct, Destination
  <2> QED BY <2>4, <2>5, <2>6
<1> QED BY <1>1, Invariance, PTL DEF Spec, InputsSurvive

=============================================================================
