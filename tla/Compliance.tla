------------------------------- MODULE Compliance -------------------------------
(***************************************************************************)
(* The nightly evaluation of one product's controls                        *)
(* (complianceEvaluationService.ts): for each control bound to it the      *)
(* evaluator looks for a signal within the control's cadence, upserts the  *)
(* current verdict, starts an alert that nobody awaits when an automated   *)
(* control goes from pass to fail, and appends to the history; then it     *)
(* closes the run and computes the posture from the current verdicts.      *)
(*                                                                         *)
(* Left out: the reminders and the drift detection, and changes of the     *)
(* bindings; the categories of the posture (one stands for all); the email *)
(* that follows a notification, whose failure is only logged.              *)
(***************************************************************************)
EXTENDS Integers, FiniteSets, FiniteSetsExt

CONSTANTS
    Controls,           \* the product's active bindings to active controls
    HumanControls,      \* those of control_class 'human'
    Cadence,            \* CADENCE_MS, in days
    MaxDays,            \* bound: the days
    MaxRuns,            \* bound: evaluation runs
    MaxSignals,         \* bound: signals
    MaxEvalFaults,      \* bound: statements that throw, processes that die, alerts that fail
    Unevaluated         \* no row in compliance_current_verdicts

ASSUME ComplianceAssumption ==
    /\ HumanControls \subseteq Controls /\ IsFiniteSet(Controls) /\ Cadence \in [Controls -> Nat]
    /\ MaxDays \in Nat

VARIABLES
    complianceDay,
    burnIn,             \* compliance_product_registrations.burn_in_state
    evidence,           \* compliance_signal_evidence
    verdicts,           \* compliance_current_verdicts
    history,            \* compliance_verdict_history
    evalRuns,           \* compliance_evaluation_runs
    posture,            \* compliance_posture_scores: the controls counted by verdict
    evaluation,         \* the job: where it is and what it holds; broken: it died before it
                        \* ended, or its failure could not be recorded
    dispatches,         \* fireControlFailureAlert calls under way: the control
    notifications,      \* alert_notifications: the control, its content_hash and the day
    owed,               \* history: drops from pass to fail of an automated control
    lostAlerts,         \* history: drops whose alert died with its process or failed
    evalFaults

complianceVars == <<complianceDay, burnIn, evidence, verdicts, history, evalRuns, posture,
                    evaluation, dispatches, notifications, owed, lostAlerts, evalFaults>>

Verdict == {"pass", "fail", "overdue", "observe"}
Days == 0..MaxDays

\* COUNT(*) FILTER (WHERE verdict = ...) over the current verdicts.
VerdictCounts == [v \in Verdict |-> Quantify(Controls, LAMBDA c : verdicts[c] = v)]

NoCounts == [v \in Verdict |-> 0]

NoEvaluation == [at |-> "none", todo |-> {}, enforced |-> FALSE, previous |-> [c \in {} |-> "pass"],
                 control |-> Unevaluated, verdict |-> "pass", counts |-> NoCounts, broken |-> FALSE]

ComplianceInit ==
    /\ complianceDay = 0 /\ burnIn = "observe"
    /\ evidence = {}
    /\ verdicts = [c \in Controls |-> Unevaluated]
    /\ history = {} /\ evalRuns = [r \in {} |-> [status |-> "running"]]
    /\ posture = NoCounts
    /\ evaluation = NoEvaluation
    /\ dispatches = {} /\ notifications = {}
    /\ owed = {} /\ lostAlerts = {}
    /\ evalFaults = 0

-----------------------------------------------------------------------------
EvalFault == evalFaults < MaxEvalFaults /\ evalFaults' = evalFaults + 1

\* POST /compliance/signals; the operator's promotion to enforced; the clock.
IngestSignal(c, day) ==
    /\ Cardinality(evidence) < MaxSignals
    /\ day <= complianceDay
    /\ evidence' = evidence \cup {[control |-> c, observed |-> day, gap |-> burnIn = "observe"]}
    /\ UNCHANGED <<complianceDay, burnIn, verdicts, history, evalRuns, posture, evaluation,
                   dispatches, notifications, owed, lostAlerts, evalFaults>>

Promote ==
    /\ burnIn = "observe"
    /\ burnIn' = "enforced"
    /\ UNCHANGED <<complianceDay, evidence, verdicts, history, evalRuns, posture, evaluation,
                   dispatches, notifications, owed, lostAlerts, evalFaults>>

NextComplianceDay ==
    /\ complianceDay < MaxDays
    /\ complianceDay' = complianceDay + 1
    /\ UNCHANGED <<burnIn, evidence, verdicts, history, evalRuns, posture, evaluation, dispatches,
                   notifications, owed, lostAlerts, evalFaults>>

-----------------------------------------------------------------------------
\* The runs are numbered; the job in hand works on the newest.
ThisRun == Cardinality(DOMAIN evalRuns)
RowsOf(run) == {h \in history : h.run = run}

\* The cron's job, or the one its queue puts back: a row for the run.
BeginRun ==
    /\ evaluation.at \in {"none", "again"}
    /\ ThisRun < MaxRuns
    /\ evalRuns' = [r \in 1..(ThisRun + 1) |->
                        IF r <= ThisRun THEN evalRuns[r]
                        ELSE [status |-> "running", counts |-> NoCounts]]
    /\ evaluation' = [evaluation EXCEPT !.at = "begun", !.broken = (evaluation.at = "again")]
    /\ UNCHANGED <<complianceDay, burnIn, evidence, verdicts, history, posture, dispatches,
                   notifications, owed, lostAlerts, evalFaults>>

\* The registration, the bindings and the verdicts before the run.
ReadPrevious ==
    /\ evaluation.at = "begun"
    /\ evaluation' = [evaluation EXCEPT !.at = IF Controls = {} THEN "count" ELSE "next",
                                        !.todo = Controls, !.previous = verdicts,
                                        !.enforced = (burnIn = "enforced")]
    /\ UNCHANGED <<complianceDay, burnIn, evidence, verdicts, history, evalRuns, posture, dispatches,
                   notifications, owed, lostAlerts, evalFaults>>

\* A signal that counts and is no older than the control's cadence.
Attested(c) == \E s \in evidence : /\ s.control = c /\ ~s.gap
                                   /\ s.observed >= complianceDay - Cadence[c]

VerdictOn(c) ==
    IF ~evaluation.enforced THEN "observe"
    ELSE IF Attested(c) THEN "pass"
    ELSE IF c \in HumanControls THEN "overdue" ELSE "fail"

LookUpSignal(c) ==
    /\ evaluation.at = "next" /\ c \in evaluation.todo
    /\ evaluation' = [evaluation EXCEPT !.at = "upsert", !.control = c, !.verdict = VerdictOn(c)]
    /\ UNCHANGED <<complianceDay, burnIn, evidence, verdicts, history, evalRuns, posture, dispatches,
                   notifications, owed, lostAlerts, evalFaults>>

Dropped(c) == /\ evaluation.previous[c] = "pass" /\ evaluation.verdict = "fail"
              /\ c \notin HumanControls

\* The verdict; the alert of a drop starts in the same turn and is not awaited.
UpsertVerdict ==
    LET c == evaluation.control
        drop == IF Dropped(c) THEN {[control |-> c, day |-> complianceDay]} ELSE {}
    IN /\ evaluation.at = "upsert"
       /\ verdicts' = [verdicts EXCEPT ![c] = evaluation.verdict]
       /\ dispatches' = dispatches \cup drop
       /\ owed' = owed \cup drop
       /\ evaluation' = [evaluation EXCEPT !.at = "history"]
       /\ UNCHANGED <<complianceDay, burnIn, evidence, history, evalRuns, posture, notifications,
                      lostAlerts, evalFaults>>

\* Mutant: only a verdict that changes is appended.
InsertHistoryOnChange ==
    LET c == evaluation.control
        left == evaluation.todo \ {c}
        row == [run |-> ThisRun, control |-> c, verdict |-> evaluation.verdict]
    IN /\ evaluation.at = "history"
       /\ history' = history \cup (IF evaluation.previous[c] = evaluation.verdict THEN {} ELSE {row})
       /\ evaluation' = [evaluation EXCEPT !.todo = left, !.counts[evaluation.verdict] = @ + 1,
                                           !.at = IF left = {} THEN "count" ELSE "next"]
       /\ UNCHANGED <<complianceDay, burnIn, evidence, verdicts, evalRuns, posture, dispatches,
                      notifications, owed, lostAlerts, evalFaults>>

InsertHistory ==
    LET c == evaluation.control
        left == evaluation.todo \ {c}
    IN /\ evaluation.at = "history"
       /\ history' = history \cup {[run |-> ThisRun, control |-> c, verdict |-> evaluation.verdict]}
       /\ evaluation' = [evaluation EXCEPT !.todo = left, !.counts[evaluation.verdict] = @ + 1,
                                           !.at = IF left = {} THEN "count" ELSE "next"]
       /\ UNCHANGED <<complianceDay, burnIn, evidence, verdicts, evalRuns, posture, dispatches,
                      notifications, owed, lostAlerts, evalFaults>>

CompleteRun ==
    /\ evaluation.at = "count"
    /\ evalRuns' = [evalRuns EXCEPT ![ThisRun] = [status |-> "completed",
                                                  counts |-> evaluation.counts]]
    /\ evaluation' = [evaluation EXCEPT !.at = "posture"]
    /\ UNCHANGED <<complianceDay, burnIn, evidence, verdicts, history, posture, dispatches,
                   notifications, owed, lostAlerts, evalFaults>>

ComputePosture ==
    /\ evaluation.at = "posture"
    /\ posture' = VerdictCounts
    /\ evaluation' = NoEvaluation
    /\ UNCHANGED <<complianceDay, burnIn, evidence, verdicts, history, evalRuns, dispatches,
                   notifications, owed, lostAlerts, evalFaults>>

\* Mutant: the alerts wait for the end of the run.
ThrowDropsAlerts ==
    /\ evaluation.at \notin {"none", "again"}
    /\ EvalFault
    /\ evalRuns' = [evalRuns EXCEPT ![ThisRun].status = "failed"]
    /\ evaluation' = NoEvaluation
    /\ dispatches' = {}
    /\ UNCHANGED <<complianceDay, burnIn, evidence, verdicts, history, posture, notifications, owed,
                   lostAlerts>>

\* A statement throws: the run is marked failed, if that UPDATE does not throw too, and the job,
\* which has no attempts left, is over.  The alerts under way go on.
EvaluationThrows ==
    /\ evaluation.at \notin {"none", "again"}
    /\ EvalFault
    /\ \/ /\ evalRuns' = [evalRuns EXCEPT ![ThisRun].status = "failed"]
          /\ evaluation' = NoEvaluation
       \/ evaluation' = [NoEvaluation EXCEPT !.broken = TRUE] /\ UNCHANGED evalRuns
    /\ UNCHANGED <<complianceDay, burnIn, evidence, verdicts, history, posture, dispatches,
                   notifications, owed, lostAlerts>>

\* The process dies with the alerts under way; the queue puts a job back once.
EvaluationDies ==
    /\ evaluation.at \notin {"none", "again"}
    /\ EvalFault
    /\ evaluation' = [NoEvaluation EXCEPT !.at = IF evaluation.broken THEN "none" ELSE "again",
                                          !.broken = TRUE]
    /\ lostAlerts' = lostAlerts \cup dispatches /\ dispatches' = {}
    /\ UNCHANGED <<complianceDay, burnIn, evidence, verdicts, history, evalRuns, posture,
                   notifications, owed>>

-----------------------------------------------------------------------------
\* contentHashSeed: the control and the day of the dispatch.
Seed(d) == [control |-> d.control, day |-> complianceDay]

\* deliverAlert: INSERT ... ON CONFLICT (content_hash) DO NOTHING.  A rule is in force.
DispatchAlert(d) ==
    /\ notifications' = IF \E n \in notifications : n.seed = Seed(d) THEN notifications
                        ELSE notifications \cup {[control |-> d.control, day |-> complianceDay,
                                                  seed |-> Seed(d)]}
    /\ dispatches' = dispatches \ {d}
    /\ UNCHANGED <<complianceDay, burnIn, evidence, verdicts, history, evalRuns, posture, evaluation,
                   owed, lostAlerts, evalFaults>>

\* A query throws: the error is logged.
DispatchFails(d) ==
    /\ EvalFault
    /\ dispatches' = dispatches \ {d} /\ lostAlerts' = lostAlerts \cup {d}
    /\ UNCHANGED <<complianceDay, burnIn, evidence, verdicts, history, evalRuns, posture, evaluation,
                   notifications, owed>>

ComplianceNext ==
    \/ \E c \in Controls, day \in Days : IngestSignal(c, day)
    \/ Promote \/ NextComplianceDay
    \/ BeginRun \/ ReadPrevious
    \/ \E c \in Controls : LookUpSignal(c)
    \/ UpsertVerdict \/ InsertHistory \/ CompleteRun \/ ComputePosture
    \/ EvaluationThrows \/ EvaluationDies
    \/ \E d \in dispatches : DispatchAlert(d) \/ DispatchFails(d)

ComplianceSpec == ComplianceInit /\ [][ComplianceNext]_complianceVars

-----------------------------------------------------------------------------
\* Type invariant of the evidence, the verdicts, the runs, the job and the alerts.
ComplianceTypeOK ==
    LET Drop == [control : Controls, day : Days]
        RunCounts == [Verdict -> 0..Cardinality(Controls)]
    IN /\ complianceDay \in Days /\ burnIn \in {"observe", "enforced"}
       /\ evidence \subseteq [control : Controls, observed : Days, gap : BOOLEAN]
       /\ verdicts \in [Controls -> Verdict \cup {Unevaluated}]
       /\ history \subseteq [run : DOMAIN evalRuns, control : Controls, verdict : Verdict]
       /\ \A r \in DOMAIN evalRuns : evalRuns[r] \in [status : {"running", "completed", "failed"},
                                                      counts : RunCounts]
       /\ posture \in RunCounts
       /\ evaluation.at \in {"none", "again", "begun", "next", "upsert", "history", "count", "posture"}
       /\ evaluation.todo \subseteq Controls /\ evaluation.verdict \in Verdict
       /\ dispatches \subseteq Drop /\ owed \subseteq Drop /\ lostAlerts \subseteq Drop
       /\ notifications \subseteq [control : Controls, day : Days,
                                   seed : [control : Controls \cup {Unevaluated}, day : Days]]

\* Every drop of an automated control from pass to fail is notified on its day or later, or its
\* alert is under way, or was lost with its process or to an error that was logged: a run that
\* fails afterwards takes none of its alerts with it, and the run that follows, which finds the
\* control failed already, need not tell (complianceEvaluationService.ts:138-144,
\* complianceAlertService.ts:67-121).
DropIsNotified ==
    \A o \in owed \ (dispatches \cup lostAlerts) :
        \E n \in notifications : n.control = o.control /\ n.day >= o.day

\* What a completed run counts is its own rows, one for each control, through failures, deaths and
\* jobs that are run again; and once a job has ended with such a run, unless it broke off, the
\* posture is that of the current verdicts (complianceEvaluationService.ts:31-60, 126-155).
CompletedRunIsWhole ==
    /\ \A r \in DOMAIN evalRuns : evalRuns[r].status = "completed" =>
        /\ evalRuns[r].counts = [v \in Verdict |-> Quantify(RowsOf(r), LAMBDA h : h.verdict = v)]
        /\ \A c \in Controls : \E h \in RowsOf(r) : h.control = c
        /\ Cardinality(RowsOf(r)) = Cardinality(Controls)
    /\ /\ evaluation.at = "none" /\ ~evaluation.broken
       /\ ThisRun > 0 /\ evalRuns[ThisRun].status = "completed"
       => posture = VerdictCounts
================================================================================
