------------------------------ MODULE MergeDriver ------------------------------
(***************************************************************************)
(* The merge-driver and diff-driver commands of smorg-rs: what one         *)
(* invocation reads, decides, stages and commits, and with which exit code *)
(* it ends.  Git or a user starts the commands one after the other on the  *)
(* same files; an editor may rewrite a source between any two steps, every *)
(* file-system call may fail, and the process may be killed.               *)
(*                                                                         *)
(* lane "typed"  : typed_driver::run_merge, explicit provider and backend; *)
(* lane "legacy" : run_merge_driver with its fallback chain;               *)
(* lane "diff"   : typed_driver::run_diff, which writes only a report.     *)
(*                                                                         *)
(* A file's content is a record: who produced it and what it says.  The    *)
(* engines that merge and compare text are external to the commands: any   *)
(* result they may return is tried.                                        *)
(***************************************************************************)
EXTENDS Naturals, Sequences, FiniteSets

CONSTANTS
  Layouts,       \* which path names which file: [Paths -> Paths], symbolic links resolved
  Requests,      \* the command lines that may be given
  MaxAttempts,   \* bound on invocations
  MaxEdits       \* bound on edits by the user

Paths == {"base", "ours", "theirs", "out", "report"}

Lanes == {"typed", "legacy", "diff"}

None == "none"

(***************************************************************************)
(* The options a lane looks at.  --strict and --fallback none both leave   *)
(* the legacy lane without fallbacks; the typed lane accepts no other      *)
(* setting, so "fallback" is FALSE there.  "complete" stands for the typed *)
(* selectors: provider, backend and profile given, nothing legacy asked.   *)
(***************************************************************************)
MergeDriverOptions ==
  [ lane : Lanes, complete : BOOLEAN, report : Paths \cup {None}, output : Paths,
    checkOnly : BOOLEAN, exitCode : BOOLEAN, writeConflict : BOOLEAN,
    fallback : BOOLEAN, json : BOOLEAN ]

NoRequest ==
  [ lane |-> "legacy", complete |-> TRUE, report |-> None, output |-> "ours", checkOnly |-> FALSE,
    exitCode |-> FALSE, writeConflict |-> FALSE, fallback |-> FALSE, json |-> FALSE ]

ASSUME OptionsAssumption ==
  /\ Requests \subseteq MergeDriverOptions
  /\ Layouts \subseteq [Paths -> Paths]
  /\ MaxAttempts \in Nat
  /\ MaxEdits \in Nat

VARIABLES
  canon,     \* the layout: the file a path resolves to
  disk,      \* the content of every file
  req,       \* the options of the running invocation
  seen,      \* the sources read so far
  plan,      \* what the invocation decided: exit code, output to write, diagnostic to report
  pc,
  past,      \* how the earlier invocations ended
  edits

vars == <<canon, disk, req, seen, plan, pc, past, edits>>

Killed == 99

Absent == [kind |-> "absent", by |-> 0, code |-> 0]
Source(p) == [kind |-> p, by |-> 0, code |-> 0]
Edited(k) == [kind |-> "edited", by |-> k, code |-> 0]

\* The number of the running invocation.
Attempt == Len(past) + 1

Merged == [kind |-> "merged", by |-> Attempt, code |-> 0]
Marked == [kind |-> "marked", by |-> Attempt, code |-> 0]
Report(code) == [kind |-> "report", by |-> Attempt, code |-> code]

\* Nothing decided.  "reported": the end is worth a report, which a failure without a
\* diagnostic is not; "settled": the engine returned a result.
NoPlan == [code |-> 0, output |-> Absent, reported |-> FALSE, settled |-> FALSE]

Steps == {"idle", "select", "read", "execute", "stageOutput", "stageReport",
          "commitReport", "commitOutput", "print", "return"}

Sources(r) == IF r.lane = "diff" THEN <<"base", "ours">>
                                 ELSE <<"base", "ours", "theirs">>

Init ==
  /\ canon \in Layouts
  /\ disk = [p \in Paths |-> IF p \in {"base", "ours", "theirs"} THEN Source(p) ELSE Absent]
  /\ req = NoRequest
  /\ seen = <<>>
  /\ plan = NoPlan
  /\ pc = "idle"
  /\ past = <<>>
  /\ edits = 0

-----------------------------------------------------------------------------
(***************************************************************************)
(* Ends of an invocation.                                                  *)
(***************************************************************************)

\* The invocation goes on to another step.
Go(step) == pc' = step /\ UNCHANGED <<req, seen, past>>

\* The process is gone: it leaves its exit status, and whether it still had an
\* output to commit or an answer to print when it decided.
End(status) ==
  /\ past' = Append(past, [exit |-> status,
                           pending |-> plan.output # Absent \/ req.lane = "diff"])
  /\ pc' = "idle"
  /\ req' = NoRequest
  /\ seen' = <<>>
  /\ plan' = NoPlan

\* The process returns from main.  A StagedFile it still holds is dropped, which
\* removes the temporary file.  Errors without a diagnostic end here directly.
Exit(code) == End(code)

(***************************************************************************)
(* finish_failure for an error that carries a diagnostic: the report says  *)
(* "error" and goes through the same staging as any other; diff-driver     *)
(* prints it too when --json asks for it.                                  *)
(***************************************************************************)
FinishFailure(code) ==
  IF req.report = None /\ ~(req.lane = "diff" /\ req.json)
    THEN Exit(code)
    ELSE /\ plan' = [NoPlan EXCEPT !.code = code, !.reported = TRUE]
         /\ Go(IF req.report # None THEN "stageReport" ELSE "print")

-----------------------------------------------------------------------------
(***************************************************************************)
(* Preflight.                                                              *)
(***************************************************************************)

\* path_safety::report_is_distinct
ReportIsDistinct(path, protected) ==
  \A p \in protected : canon[path] # canon[p]

\* The files a report must not replace.
ReportPreflight(r) ==
  r.report # None =>
    ReportIsDistinct(r.report,
       IF r.lane = "diff" THEN {"base", "ours"}
                          ELSE {"base", "ours", "theirs", r.output})

\* Fault: the names of the paths are compared, not the files they resolve to.
TypedOptionsValid_ByName(r) ==
  /\ r.complete
  /\ r.lane = "typed" => (r.exitCode => r.checkOnly) /\ r.output \notin {"base", "theirs"}

\* The checks of typed merge() and diff() that precede selection.
TypedOptionsValid(r) ==
  /\ r.complete
  /\ r.lane = "typed" => /\ r.exitCode => r.checkOnly
                         /\ ReportIsDistinct(r.output, {"base", "theirs"})

\* run_merge_driver and run_diff_driver up to the first read.  A path that cannot
\* be resolved ends them like an unsafe one.
Start(r) ==
  /\ pc = "idle"
  /\ Len(past) < MaxAttempts
  /\ \/ /\ ReportPreflight(r)
        /\ r.lane # "legacy" => TypedOptionsValid(r)
        /\ pc' = (IF r.lane = "legacy" THEN "read" ELSE "select")
        /\ req' = r
        /\ UNCHANGED <<seen, plan, past>>
     \/ Exit(2)
  /\ UNCHANGED <<canon, disk, edits>>

\* select_parser: the profile, provider, family and backend must agree.
SelectParser ==
  /\ pc = "select"
  /\ \/ Go("read") /\ UNCHANGED plan
     \/ \E code \in {2, 3} : FinishFailure(code)
  /\ UNCHANGED <<canon, disk, edits>>

\* read_sources, fs::read_to_string: one source at a time, in the order of the roles.
ReadSource ==
  LET path == Sources(req)[Len(seen) + 1] IN
  /\ pc = "read"
  /\ \/ /\ disk[canon[path]] # Absent
        /\ seen' = Append(seen, disk[canon[path]])
        /\ pc' = (IF Len(seen') = Len(Sources(req)) THEN "execute" ELSE "read")
        /\ UNCHANGED <<req, plan, past>>
     \/ IF req.lane = "legacy" THEN Exit(2) ELSE FinishFailure(2)
  /\ UNCHANGED <<canon, disk, edits>>

-----------------------------------------------------------------------------
(***************************************************************************)
(* Results.  Output is Absent, the bytes of ours, or a new text.           *)
(***************************************************************************)
Outputs == {Absent, seen[2], Merged}

OperationResults ==
  [ok : BOOLEAN, conflict : BOOLEAN, output : Outputs, conflicted : {Absent, Marked}]

\* The exit code merge_sources settles on for a typed result.
TypedCode(result) ==
  CASE result.conflict                -> 1
    [] ~result.conflict /\ ~result.ok -> 2
    [] OTHER -> IF req.checkOnly /\ req.exitCode /\ result.output # seen[2] THEN 1 ELSE 0

\* The text it writes: none for a check, for a failure, or to leave ours in a conflict.
TypedOutput(result) ==
  CASE req.checkOnly                                          -> Absent
    [] ~req.checkOnly /\ result.conflict /\ req.writeConflict -> result.conflicted
    [] ~req.checkOnly /\ result.ok /\ ~result.conflict        -> result.output
    [] OTHER                                                  -> Absent

\* A result the profile had to complete but did not.
TypedIncomplete(result) ==
  \/ result.conflict /\ req.writeConflict /\ ~req.checkOnly /\ result.conflicted = Absent
  \/ result.ok /\ ~result.conflict /\ result.output = Absent

\* A settled operation goes on to what it has to write, the output staged first.
Decide(code, output) ==
  /\ plan' = [code |-> code, output |-> output, reported |-> TRUE, settled |-> TRUE]
  /\ Go(CASE output # Absent                           -> "stageOutput"
          [] output = Absent /\ req.report # None      -> "stageReport"
          [] OTHER -> IF req.lane = "diff" THEN "print" ELSE "return")

(***************************************************************************)
(* merge_sources: register the parser, execute, print the diagnostics and  *)
(* settle the outcome.  kernel_failure gives 2, or 3 for an unknown code;  *)
(* an incomplete result is a failure without a report, as is a diagnostic  *)
(* that cannot be printed.                                                 *)
(***************************************************************************)
ExecuteTyped ==
  /\ pc = "execute"
  /\ req.lane = "typed"
  /\ \/ \E code \in {2, 3} : FinishFailure(code)
     \/ Exit(3)
     \/ \E result \in OperationResults :
          IF TypedIncomplete(result)
            THEN Exit(2)
            ELSE Decide(TypedCode(result), TypedOutput(result))
  /\ UNCHANGED <<canon, disk, edits>>

\* diff: the outcome comes from the kernel's change ids; a failed diff is never "changed".
ExecuteDiff ==
  /\ pc = "execute"
  /\ req.lane = "diff"
  /\ \/ \E code \in {2, 3} : FinishFailure(code)
     \/ Exit(3)
     \/ \E ok, changed \in BOOLEAN :
          Decide(IF ~ok THEN 2 ELSE IF changed /\ req.exitCode THEN 1 ELSE 0, Absent)
  /\ UNCHANGED <<canon, disk, edits>>

(***************************************************************************)
(* apply_merge_fallbacks and the full-file conflict of the legacy lane.    *)
(* merge_by_path answers for the languages with a structured provider; the *)
(* others fail and go on to git merge-file, whose conflicts keep ok false, *)
(* then to the plain-text merge when git has no output.  What still failed *)
(* without an output becomes one conflict over the whole file.             *)
(***************************************************************************)
LegacyResults == [ok : {TRUE}, output : Outputs] \cup [ok : {FALSE}, output : {Absent, Marked}]

Unsupported == [ok |-> FALSE, output |-> Absent]

ApplyMergeFallbacks(result, git, plain) ==
  CASE git.output # Absent                                      -> git
    [] git.output = Absent /\ plain.ok /\ plain.output # Absent -> plain
    [] OTHER                                                    -> result

FullFile(result) ==
  IF ~result.ok /\ result.output = Absent /\ req.fallback
    THEN [result EXCEPT !.output = Marked] ELSE result

LegacyOutcomes ==
  {FullFile(r) : r \in LegacyResults}
  \cup {FullFile(IF req.fallback THEN ApplyMergeFallbacks(Unsupported, git, plain) ELSE Unsupported) :
          git \in LegacyResults, plain \in LegacyResults}

LegacyCode(result) ==
  IF ~result.ok \/ (req.checkOnly /\ req.exitCode /\ result.output # seen[2]) THEN 1 ELSE 0

\* The rest of run_merge_driver up to staging; a rejected profile ends it with 2.
ExecuteLegacy ==
  /\ pc = "execute"
  /\ req.lane = "legacy"
  /\ \/ Exit(2)
     \/ \E result \in LegacyOutcomes :
          IF result.ok /\ result.output = Absent
            THEN Exit(3)
            ELSE Decide(LegacyCode(result), IF req.checkOnly THEN Absent ELSE result.output)
  /\ UNCHANGED <<canon, disk, edits>>

-----------------------------------------------------------------------------
(***************************************************************************)
(* StagedFile: a complete temporary file beside the destination, renamed   *)
(* over it by commit.  Any of the calls may fail, and the destination is   *)
(* then as it was.                                                         *)
(***************************************************************************)
Destination == canon[req.output]

\* Fault: the output replaces its destination as soon as it is complete.
StageOutput_Commits ==
  /\ pc = "stageOutput"
  /\ \/ /\ disk' = [disk EXCEPT ![Destination] = plan.output]
        /\ Go(IF req.report # None THEN "stageReport" ELSE "return")
        /\ UNCHANGED plan
     \/ disk' = disk /\ Exit(3)
  /\ UNCHANGED <<canon, edits>>

StageOutput ==
  /\ pc = "stageOutput"
  /\ \/ Go(IF req.report # None THEN "stageReport" ELSE "commitOutput") /\ UNCHANGED plan
     \/ Exit(3)
  /\ UNCHANGED <<canon, disk, edits>>

StageReport ==
  /\ pc = "stageReport"
  /\ \/ Go("commitReport") /\ UNCHANGED plan
     \/ Exit(3)
  /\ UNCHANGED <<canon, disk, edits>>

\* What follows a committed report.
AfterReport ==
  CASE plan.output # Absent -> "commitOutput"
    [] plan.output = Absent /\ req.lane = "diff" /\ (plan.settled \/ req.json) -> "print"
    [] OTHER -> "return"

\* Fault: a report that cannot be replaced is only worth a warning.
CommitReport_Lenient ==
  /\ pc = "commitReport"
  /\ disk' \in {disk, [disk EXCEPT ![canon[req.report]] = Report(plan.code)]}
  /\ Go(AfterReport)
  /\ UNCHANGED <<canon, plan, edits>>

CommitReport ==
  /\ pc = "commitReport"
  /\ \/ /\ disk' = [disk EXCEPT ![canon[req.report]] = Report(plan.code)]
        /\ Go(AfterReport)
        /\ UNCHANGED plan
     \/ disk' = disk /\ Exit(3)
  /\ UNCHANGED <<canon, edits>>

CommitOutput ==
  /\ pc = "commitOutput"
  /\ \/ /\ disk' = [disk EXCEPT ![Destination] = plan.output]
        /\ Go("return")
        /\ UNCHANGED plan
     \/ disk' = disk /\ Exit(3)
  /\ UNCHANGED <<canon, edits>>

\* diff-driver writes its answer to standard output after the report is in place.
PrintDiff ==
  /\ pc = "print"
  /\ \E code \in {plan.code, 3} : Exit(code)
  /\ UNCHANGED <<canon, disk, edits>>

\* Fault: a conflict that was written out counts as success.
Return_ConflictWritten ==
  /\ pc = "return"
  /\ Exit(IF plan.output # Absent THEN 0 ELSE plan.code)
  /\ UNCHANGED <<canon, disk, edits>>

Return ==
  /\ pc = "return"
  /\ Exit(plan.code)
  /\ UNCHANGED <<canon, disk, edits>>

-----------------------------------------------------------------------------
\* The process is killed: nothing more is written, and nothing staged is removed.
Kill ==
  /\ pc # "idle"
  /\ End(Killed)
  /\ UNCHANGED <<canon, disk, edits>>

\* The user saves ours, or the merge result of an earlier invocation.
Edit(p) ==
  /\ edits < MaxEdits
  /\ p \in {"ours", "out"}
  /\ disk[p].kind \notin {"absent", "report"}
  /\ edits' = edits + 1
  /\ disk' = [disk EXCEPT ![p] = Edited(edits')]
  /\ UNCHANGED <<canon, req, seen, plan, pc, past>>

Next ==
  \/ \E r \in Requests : Start(r)
  \/ SelectParser \/ ReadSource
  \/ ExecuteTyped \/ ExecuteDiff \/ ExecuteLegacy
  \/ StageOutput \/ StageReport \/ CommitReport \/ CommitOutput
  \/ PrintDiff \/ Return
  \/ Kill
  \/ \E p \in Paths : Edit(p)

Spec == Init /\ [][Next]_vars

-----------------------------------------------------------------------------
(***************************************************************************)
(* Properties.                                                             *)
Contents == [kind : Paths \cup {"absent", "edited", "merged", "marked", "report"},
             by : Nat, code : 0..3]

\* The variables stay in their types.
TypeOK ==
  /\ canon \in Layouts
  /\ disk \in [Paths -> Contents]
  /\ req \in MergeDriverOptions
  /\ seen \in Seq(Contents)
  /\ plan \in [code : 0..3, output : Contents, reported : BOOLEAN, settled : BOOLEAN]
  /\ pc \in Steps
  /\ past \in Seq([exit : 0..3 \cup {Killed}, pending : BOOLEAN])
  /\ edits \in Nat

\* A step of the commands replaces a report, or the destination in the end.
ReplacesLast ==
  \A p \in Paths :
    (disk'[p] # disk[p] /\ edits' = edits) =>
      \/ disk'[p].kind = "report" /\ req.report # None /\ p = canon[req.report]
      \/ /\ p = Destination
         /\ pc' = "return"
         /\ req.report # None => disk[canon[req.report]] = Report(plan.code)

(***************************************************************************)
(* "Commit the report first so report failures cannot modify the merge     *)
(* destination" (main.rs): apart from reports, the only file the commands  *)
(* ever replace is the merge destination, as their last step, and, when a  *)
(* report was asked for, only once the report with the final exit code is  *)
(* in place.  So an invocation that ends with 2 or 3, or is killed before  *)
(* that step, leaves every edit of the user where it was.                  *)
(***************************************************************************)
DestinationWrittenLast == [][ReplacesLast]_vars

\* The step that ends an invocation ends it with a code that is true.
ExitsTruthfully ==
  Len(past') > Len(past) =>
    LET exit == past'[Len(past')].exit IN
    /\ (exit \in {0, 1} /\ plan.output # Absent) =>
          \/ disk[Destination] = plan.output
          \/ disk[Destination].kind = "edited"
    /\ (exit \in {0, 1, 2} /\ plan.reported /\ req.report # None) =>
          disk[canon[req.report]] = Report(exit)

(***************************************************************************)
(* What the caller may conclude from the exit code: with 0 or 1 the output *)
(* the engine settled on is at the destination (or the user has already    *)
(* saved over it), and with 0, 1 or 2 a requested report, where one is due, *)
(* is this invocation's and carries the same code.                         *)
(***************************************************************************)
TruthfulExit == [][ExitsTruthfully]_vars

(***************************************************************************)
(* What a reader of the report alone may conclude.  The report precedes    *)
(* the output commit and, in diff-driver, the printed answer, so it can    *)
(* outlive a failure: it disagrees with the exit status only for an        *)
(* invocation that was killed, or that ended with 3 and still had an       *)
(* output to commit or an answer to print.  The report of a check-only or  *)
(* leave-ours merge is never wrong in that way.  A report that is still    *)
(* there after later invocations is the last one that reached its commit.  *)
(***************************************************************************)
ReportTrusted ==
  \A p \in Paths :
    LET report == disk[p] IN
    (report.kind = "report" /\ report.by <= Len(past)) =>
       LET e == past[report.by] IN
       \/ e.exit = report.code
       \/ e.exit = Killed
       \/ e.exit = 3 /\ e.pending

\* A step of the commands replaces no source it should not.
SparesInputs ==
  \A i \in DOMAIN Sources(req) :
    LET f == canon[Sources(req)[i]] IN
    (disk'[f] # disk[f] /\ edits' = edits) =>
       /\ req.lane # "diff"
       /\ ~req.checkOnly
       /\ f = Destination
       /\ disk'[f].kind # "report"
       /\ req.lane = "typed" => f \notin {canon["base"], canon["theirs"]}

(***************************************************************************)
(* No invocation replaces one of its sources by a report, a check-only or  *)
(* diff invocation replaces none at all, and a typed merge never replaces  *)
(* base or theirs, whatever path or link is given for the output and the   *)
(* report.  (The legacy lane lets --output name any of the sources.)       *)
(***************************************************************************)
InputsSurvive == [][SparesInputs]_vars

=============================================================================
