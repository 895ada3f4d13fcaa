---------------------------- MODULE EvalVerdict ----------------------------
(***************************************************************************)
(* What the evaluation service concludes from the checks: the verdict of   *)
(* the LLM judges, the status of a case, the summary of a run and its      *)
(* gate, the comparison of two runs, the coverage of the case library      *)
(* (services/agent_eval_service.py, agents/eval_judge.py).                 *)
(*                                                                         *)
(* A result of a case is a record: case, agent, status, severity and scope *)
(* (of the case; "none" when the result carries no metadata), failed (the  *)
(* failures of its checks, as in EvalChecks). A run is [results, at]: at   *)
(* is when it ended.                                                       *)
(***************************************************************************)
EXTENDS EvalChecks, FiniteSetsExt, Integers, SequencesExt

---------------------------------------------------------------------------
(* The LLM judges *)

\* What a judge answers: form "none" (no client), "raises", "garbled" or
\* "json"; its word on passed ("yes", "no", "absent"); whether the overall
\* score reaches the bar (60 of 100, 0.6 of 1); the dimensions it names as
\* failed and those it scores under the bar or leaves out.
_validate_judge_result(a) ==
  a.passed = "yes" \/ (a.passed = "absent" /\ a.high)

judge(a) == a.form = "json" /\ _validate_judge_result(a)

normalize_correctness_judge_result(a) ==
  [passed |-> _validate_judge_result(a), failed |-> a.named \cup a.weak]

\* Without an answer every dimension counts as failed.
judge_correctness(a, dims) ==
  IF a.form = "json" THEN normalize_correctness_judge_result(a)
  ELSE [passed |-> FALSE, failed |-> dims]

\* The word of the judge decides, also when it names failed dimensions.
CorrectnessCheck(v) ==
  Check("llm_judge_correctness", IF v.failed # {} THEN "high" ELSE "warning", v.passed)

JudgeChecks(c, a, dims) ==
  (IF c.judge THEN Check("llm_judge", "warning", judge(a)) ELSE {})
  \cup IF c.correctness THEN CorrectnessCheck(judge_correctness(a, dims)) ELSE {}

---------------------------------------------------------------------------
(* The status of a case *)

Severe == {"fatal", "critical", "high"}

StatusOf(failed) ==
  IF \E f \in failed : f.severity \in Severe THEN "failed"
  ELSE IF failed # {} THEN "warning" ELSE "passed"

_evaluate_case(id, c, o, r, a, dims) ==
  LET failed == run_eval_checks(o, c, r) \cup JudgeChecks(c, a, dims)
  IN  [case |-> id, agent |-> c.agent, status |-> StatusOf(failed),
       severity |-> c.severity, scope |-> c.scope, failed |-> failed]

\* A result without checks: the case is missing, has no output, or the model
\* that should produce one failed.
Unchecked(id, agent, status) ==
  [case |-> id, agent |-> agent, status |-> status,
   severity |-> "none", scope |-> "agent", failed |-> {}]

---------------------------------------------------------------------------
(* The summary of a run and its gate *)

NotPassed == {"warning", "failed", "error"}
WithStatus(results, s) == {r \in results : r.status \in s}

_result_includes_severity(r, severities) ==
  r.severity \in severities \/ \E f \in r.failed : f.severity \in severities

HighSeverities     == {"high", "critical", "fatal"}
CriticalSeverities == {"critical", "fatal"}

\* Mutant: the severity of a failed check is not counted, only the one of its
\* case.
_summary_of_cases(results) ==
  LET bad == WithStatus(results, NotPassed)
  IN  [count    |-> Cardinality(results),
       passed   |-> Cardinality(WithStatus(results, {"passed"})),
       failed   |-> Cardinality(WithStatus(results, {"failed", "error"})),
       high     |-> Cardinality({r \in bad : r.severity \in HighSeverities}),
       critical |-> Cardinality({r \in bad : r.severity \in CriticalSeverities})]

_summary(results) ==
  LET bad == WithStatus(results, NotPassed)
  IN  [count    |-> Cardinality(results),
       passed   |-> Cardinality(WithStatus(results, {"passed"})),
       failed   |-> Cardinality(WithStatus(results, {"failed", "error"})),
       high     |-> Cardinality({r \in bad : _result_includes_severity(r, HighSeverities)}),
       critical |-> Cardinality({r \in bad : _result_includes_severity(r, CriticalSeverities)})]

\* The pass rate of a run without cases is 0. min is in percent.
BelowRate(passed, count, min) == 100 * passed < min * count \/ (count = 0 /\ min > 0)

NoLimit == -1

_evaluate_gate_dict(s, g) ==
  LET reasons ==
        (IF g.fail_on_critical /\ s.critical > 0 THEN {"critical"} ELSE {})
        \cup (IF g.fail_on_high /\ s.high > 0 THEN {"high"} ELSE {})
        \cup (IF g.max_failed # NoLimit /\ s.failed > g.max_failed THEN {"failed"} ELSE {})
        \cup (IF BelowRate(s.passed, s.count, g.min_pass_rate) THEN {"rate"} ELSE {})
  IN  [passed |-> reasons = {}, reasons |-> reasons]

_DEFAULT_GATE ==
  [fail_on_critical |-> TRUE, fail_on_high |-> FALSE, min_pass_rate |-> 90, max_failed |-> NoLimit]

_build_scope_breakdown(results) ==
  [scope \in {"agent", "node"} |->
     LET mine == {r \in results : r.scope = scope}
     IN  [count |-> Cardinality(mine), failed |-> Cardinality(WithStatus(mine, {"failed"}))]]

\* Failures of node cases are told as reasons and leave the verdict alone.
WithNodes(gate, breakdown, include_node) ==
  IF include_node /\ breakdown["node"].failed > 0
  THEN [gate EXCEPT !.reasons = @ \cup {"nodes"}] ELSE gate

---------------------------------------------------------------------------
(* The comparison of two runs *)

CasesOf(results) == {r.case : r \in results}
ResultOf(results, id) == CHOOSE r \in results : r.case = id
_result_failed_checks(r) == {f.name : f \in r.failed}

compare_eval_runs(baseline, candidate) ==
  LET common == CasesOf(baseline) \cap CasesOf(candidate)
      bad(results, id) == ResultOf(results, id).status \in NotPassed
      added == {id \in CasesOf(candidate) \ CasesOf(baseline) : bad(candidate, id)}
      still == {id \in common : bad(baseline, id) /\ bad(candidate, id)}
      new   == {id \in common : ~bad(baseline, id) /\ bad(candidate, id)} \cup added
  IN  [new_failures   |-> new,
       fixed_cases    |-> {id \in common : bad(baseline, id) /\ ~bad(candidate, id)},
       still_failing  |-> still,
       missing        |-> CasesOf(baseline) \ CasesOf(candidate),
       check_regressions |->
         {id \in common : _result_failed_checks(ResultOf(candidate, id))
                          \ _result_failed_checks(ResultOf(baseline, id)) # {}},
       critical       |-> {id \in new \cup still :
                             ResultOf(candidate, id).severity = "critical"}]

---------------------------------------------------------------------------
(* The coverage of the library *)

\* Occurrences of a case in the results of the runs.
Occurrences(id, runs) ==
  {x \in UNION {{n} \X runs[n].results : n \in DOMAIN runs} : x[2].case = id}

\* The status in the run that ended last; "none" if the case was never run.
LastStatus(id, runs) ==
  LET seen == Occurrences(id, runs)
  IN  IF seen = {} THEN "none"
      ELSE (CHOOSE x \in seen : \A y \in seen : runs[y[1]].at <= runs[x[1]].at)[2].status

\* The row of an agent: cases is the function of its cases.
AgentRow(cases, runs) ==
  LET ids   == DOMAIN cases
      on    == {id \in ids : cases[id].enabled}
      seen  == UNION {Occurrences(id, runs) : id \in ids}
  IN  [ids      |-> ids,
       enabled  |-> on,
       high     |-> {id \in ids : cases[id].severity = "high"},
       critical |-> {id \in ids : cases[id].severity = "critical"},
       never    |-> {id \in ids : Occurrences(id, runs) = {}},
       seen     |-> Cardinality(seen),
       passed   |-> Cardinality({x \in seen : x[2].status = "passed"}),
       severe   |-> {id \in ids : /\ LastStatus(id, runs) \in NotPassed
                                  /\ cases[id].severity \in {"high", "critical"}},
       tags     |-> UNION {cases[id].tags : id \in on},
       unjudged |-> {id \in on : cases[id].severity = "critical" /\ ~cases[id].judge}]

Gap(type, severity, open) == IF open THEN {[type |-> type, severity |-> severity]} ELSE {}

build_coverage_gaps(row) ==
  LET on == row.enabled # {}
  IN  Gap("no_enabled_cases", "critical", ~on)
      \cup Gap("no_high_cases", "medium", on /\ row.high = {})
      \cup Gap("no_critical_cases", "high", on /\ row.critical = {})
      \cup Gap("low_recent_pass_rate",
               IF 10 * row.passed < 8 * row.seen THEN "critical" ELSE "high",
               row.seen > 0 /\ 10 * row.passed < 9 * row.seen)
      \cup Gap("high_critical_failures", "critical", row.severe # {})
      \cup Gap("never_evaluated_cases", "medium", row.never # {})
      \cup Gap("no_regression_cases", "high", on /\ "regression" \notin row.tags)
      \cup Gap("judge_not_configured_for_critical", "medium", row.unjudged # {})

RecommendedAction(type) ==
  CASE type \in {"no_enabled_cases", "no_high_cases", "no_critical_cases"} -> "create_eval_case"
    [] type = "no_regression_cases"               -> "add_regression_tag"
    [] type \in {"low_recent_pass_rate", "high_critical_failures"} -> "fix_failed_cases"
    [] type = "never_evaluated_cases"             -> "run_agent_regression"
    [] type = "judge_not_configured_for_critical" -> "enable_judge"

build_coverage_recommendations(gaps) ==
  {[priority |-> g.severity, action |-> RecommendedAction(g.type)] : g \in gaps}

\* The coverage of an agent that has a case in the listing.
get_eval_coverage(cases, runs) ==
  LET gaps == build_coverage_gaps(AgentRow(cases, runs))
  IN  [gaps |-> gaps, recommendations |-> build_coverage_recommendations(gaps)]
---------------------------------------------------------------------------
(* What the judges of correctness have found, across the runs *)

\* A judged result: agent, overall (score of a hundred), passed, failed and warnings
\* (the dimensions named), scores (a score for each dimension that has one).
DimensionsOf(judged) == UNION {r.failed \cup r.warnings \cup DOMAIN r.scores : r \in Range(judged)}
Average(scores) == IF scores = <<>> THEN 0 ELSE FoldLeft(+, 0, scores) \div Len(scores)
Overall(judged) == Average([i \in DOMAIN judged |-> judged[i].overall])
FailedIn(judged) == SelectSeq(judged, LAMBDA r : ~r.passed)

\* The three dimensions in which an agent has had its lowest scores.
WeakestOf(judged) ==
  LET scored == UNION {DOMAIN r.scores : r \in Range(judged)}
      lowest(d) == Min({r.scores[d] : r \in {x \in Range(judged) : d \in DOMAIN x.scores}})
      ranked == SetToSortSeq(scored, LAMBDA d, e : lowest(d) < lowest(e))
  IN  SubSeq(ranked, 1, Min({3, Len(ranked)}))

\* A dimension that is named but never scored has an average of nothing.
DimensionRow(d, judged) ==
  LET scored == SelectSeq(judged, LAMBDA r : d \in DOMAIN r.scores)
      naming == SelectSeq(judged, LAMBDA r : d \in r.failed)
  IN  [average  |-> Average([i \in DOMAIN scored |-> scored[i].scores[d]]),
       failed   |-> Len(naming),
       warnings |-> Len(SelectSeq(judged, LAMBDA r : d \in r.warnings)),
       affected |-> {r.agent : r \in Range(naming)}]

\* runs: for each run, newest first, its results that a judge has seen.
get_correctness_summary(runs) ==
  LET judged == FlattenSeq(runs)
      by(agent) == SelectSeq(judged, LAMBDA r : r.agent = agent)
      failures == FailedIn(judged)
  IN  [cases      |-> Len(judged),
       average    |-> Overall(judged),
       dimensions |-> FoldLeft(LAMBDA n, r : n + Cardinality(r.failed), 0, judged),
       high_risk  |-> Len(failures),
       by_agent   |-> [a \in {r.agent : r \in Range(judged)} |->
                        [cases |-> Len(by(a)), average |-> Overall(by(a)), weakest |-> WeakestOf(by(a)),
                         failed |-> Len(FailedIn(by(a)))]],
       by_dimension |-> [d \in DimensionsOf(judged) |-> DimensionRow(d, judged)],
       recent     |-> SubSeq(failures, 1, Min({20, Len(failures)}))]
===========================================================================
