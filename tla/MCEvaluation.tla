--------------------------- MODULE MCEvaluation ---------------------------
(* Instances of EvalLibrary for TLC. *)
EXTENDS EvalLibrary

CONSTANTS admin, cli

TwoRequesters == {admin, cli}
Symmetry == Permutations(TwoRequesters)

\* A decision that satisfies the checks, one that advises to go all in, and
\* one that says next to nothing.
Object(keys, says) == [form |-> "object", keys |-> keys, full |-> keys, says |-> says, doc |-> NoDoc]
MCOutputs ==
  "calm" :> [Object({"action", "data_limitations", "major_risks"},
                    {"risk", "observe", "hold", "sizing", "stop", "because", "maybe", "constraints"})
             EXCEPT !.doc = [NoDoc EXCEPT !.action = "wait", !.limit = "at_limit"]]
  @@ "all_in" :> [Object({"action", "data_limitations", "major_risks"}, {"risk", "buy", "all_in"})
                  EXCEPT !.doc = [NoDoc EXCEPT !.action = "wait", !.limit = "at_limit"]]
  @@ "bare" :> Object({"action"}, {"buy"})

Decision(severity, tags, output) ==
  [EmptyCase("trade_decision") EXCEPT !.severity = severity, !.tags = tags, !.output = output]

MCBuiltin ==
  "heavy" :> [Decision("critical", {"regression", "over_position"}, "none") EXCEPT !.judge = TRUE]
  @@ "cash" :> [EmptyCase("account_copilot") EXCEPT !.severity = "high", !.tags = {"regression"},
                                                  !.meta = {"no_cash"}, !.limits = TRUE]

MCSnapshots ==
  "replay1" :> [agent |-> "trade_decision", output |-> "all_in", tools |-> {"quote"}, limits |-> FALSE]

Live == [Decision("high", {"regression"}, "calm") EXCEPT !.correctness = TRUE]
Risk == [build_node_eval_case("trade_decision", "risk_control", "calm") EXCEPT !.tags = {"regression"}]

Profile(changes) == Over([version |-> 1], Over(changes, DefaultProfile))

Lenient == [_DEFAULT_GATE EXCEPT !.min_pass_rate = 0]

\* Nothing stored yet, or a library in use with a run that failed.
MCFirstStores ==
  { [cases |-> <<>>, runs |-> <<>>, feedback |-> <<>>, profiles |-> <<>>],
    [cases |-> MCBuiltin @@ "live" :> Live @@ "node" :> Risk,
     runs  |-> "run0" :> [results |-> {NoVerdict("heavy", "trade_decision", "warning"),
                                       NoVerdict("live", "trade_decision", "error")},
                          at |-> 0, gate |-> NoGate, config |-> [fail_on_critical |-> FALSE],
                          compared |-> "no"],
     feedback |-> "note0" :> Complaint("eval_result", "none", "heavy", "none", "trade_decision",
                                       FALSE, FALSE),
     profiles |-> "trade_decision" :> Profile([tag |-> "regression", on_code_change |-> TRUE,
                                               include_node |-> TRUE, gate |-> Lenient])] }

Regression(agent, nodes, gate) ==
  [op |-> "regression", agent |-> agent, mode |-> "static", tag |-> "regression",
   severity |-> "", include_disabled |-> FALSE, include_judge |-> FALSE,
   include_node |-> nodes, node |-> "", gate |-> gate, baseline |-> "run0"]

Gate(agents, dry_run) ==
  [op |-> "gate", agents |-> agents, harness |-> TRUE, prompts |-> FALSE,
   nodes |-> [a \in {"trade_decision", "account_copilot"} |-> {"risk_control"}],
   run_not_recommended |-> FALSE, dry_run |-> dry_run, max_agents |-> 10]

Run(mode, agent, todo) == [op |-> "run", mode |-> mode, agent |-> agent, todo |-> todo]

Posted(output) == [Decision("low", {"regression"}, output) EXCEPT !.made = "posted"]

CaseRequests ==
  { [op |-> "update", todo |-> <<"heavy">>, change |-> [title |-> "edited"]],
    [op |-> "update", todo |-> <<"live">>, change |-> [tags |-> {}]],
    [op |-> "archive", todo |-> <<"heavy">>],
    [op |-> "unarchive", todo |-> <<"heavy">>],
    [op |-> "bulk", todo |-> <<"heavy", "live">>, change |-> [enabled |-> FALSE]],
    [op |-> "clone", todo |-> <<"live">>],
    [op |-> "create", id |-> "", case |-> Decision("medium", {"regression"}, "all_in")],
    [op |-> "create", id |-> "live", case |-> Posted("bare")],
    [op |-> "create", id |-> "case1", case |-> Posted("calm")],
    [op |-> "seed", todo |-> <<"heavy", "cash">>, force |-> TRUE],
    [op |-> "seed", todo |-> <<"heavy", "cash">>, force |-> FALSE],
    [op |-> "from_replay", replay |-> "replay1"],
    [op |-> "from_trace", agent |-> "trade_decision", node |-> "risk_control", output |-> "bare"] }

RunRequests ==
  { Run("static", "trade_decision", <<"replay1", "live">>),
    Run("static", "trade_decision", <<>>),
    Run("live_mock", "trade_decision", <<"heavy">>),
    Regression("trade_decision", TRUE, Lenient),
    Regression("trade_decision", FALSE, _DEFAULT_GATE),
    Gate({"trade_decision", "account_copilot"}, FALSE),
    Gate({"trade_decision"}, TRUE) }

OtherRequests ==
  { [op |-> "note", id |-> "note0", status |-> "triaged"],
    [op |-> "convert", id |-> "note0", enabled |-> TRUE],
    [op |-> "complain", feedback |-> Complaint("replay", "none", "none", "replay1",
                                               "trade_decision", FALSE, FALSE)],
    [op |-> "complain", feedback |-> Complaint("eval_result", "run0", "heavy", "none",
                                               "trade_decision", FALSE, FALSE)],
    [op |-> "convert", id |-> "note1", enabled |-> TRUE],
    [op |-> "from_failures", run |-> "run0"],
    [op |-> "upsert", agent |-> "account_copilot", payload |-> [tag |-> "regression",
                                                                on_code_change |-> TRUE]],
    [op |-> "upsert", agent |-> "trade_decision", payload |-> [mode |-> "live_mock"]],
    [op |-> "disable", agent |-> "trade_decision"] }

MCMenu == CaseRequests \cup RunRequests \cup OtherRequests

Said(passed, high, named) ==
  [form |-> "json", passed |-> passed, high |-> high, named |-> named, weak |-> {}]
MCJudgeAnswers == {NoAnswer, Said("yes", TRUE, {}), Said("absent", FALSE, {"safety"})}
MCDimensions == {"safety"}

MCCaseIds     == {"case1", "case2", "case3", "case4"}
MCFeedbackIds == {"note1", "note2", "note3", "note4", "note5", "note6"}
MCRunIds      == {"run1", "run2", "run3", "run4", "run5", "run6"}
MCReportIds   == {"report1", "report2", "report3"}

---------------------------------------------------------------------------
(* The judgement, over sample inputs *)

\* One case of each agent and of each node, with what makes its checks apply.
SampleCases ==
  {[EmptyCase(a) EXCEPT !.tags = {"over_position", "weak_catalyst", "hindsight"},
                        !.expects = {"data_missing"}, !.meta = {"no_cash", "about_trading"}] :
     a \in InvestmentAgents \cup AccountAgents}
  \cup {build_node_eval_case("trade_decision", n, "none") :
          n \in {"market_trend", "fundamental_valuation", "event_catalyst",
                 "risk_control", "final_decision"}}

SamplePhrases == {"risk", "buy", "sizing", "stop", "maybe", "because", "basis", "event", "business"}
SampleText(says) ==
  [Object({"action", "data_limitations"}, says) EXCEPT !.doc = [NoDoc EXCEPT !.action = "add_batch"]]

Badness(status) == CASE status = "passed" -> 0 [] status = "warning" -> 1 [] OTHER -> 2
Judged(c, says) == Badness(StatusOf(run_eval_checks(SampleText(says), c, NoReplay)))

\* Advice to go all in never makes the verdict on an output milder, whatever
\* else it says: the output fails for it, whatever agent or node it is of.
ASSUME AllInNeverHelps ==
  \A c \in SampleCases, says \in SUBSET SamplePhrases :
     /\ Judged(c, says \cup {"all_in"}) >= Judged(c, says)
     /\ Judged(c, says \cup {"all_in"}) = 2

SampleIds == {"live", "node", "heavy"}
SampleResult(id, status) ==
  [NoVerdict(id, "trade_decision", status) EXCEPT
     !.failed = IF status = "passed" THEN {} ELSE Check("investment_safety", "warning", FALSE)]
SampleResults ==
  UNION {{ {SampleResult(id, s[id]) : id \in ids} : s \in [ids -> {"passed", "warning", "error"}]} :
           ids \in SUBSET SampleIds}

\* What one run breaks the other one fixes; a case is new, still failing or
\* fixed, and in no two of them.
ASSUME CompareMirrors ==
  \A a, b \in SampleResults :
     LET there == compare_eval_runs(a, b)
         back  == compare_eval_runs(b, a)
     IN  /\ there.new_failures \cap CasesOf(a) = back.fixed_cases
         /\ there.still_failing = back.still_failing
         /\ there.new_failures \cap (there.still_failing \cup there.fixed_cases) = {}
         /\ CasesOf(WithStatus(b, NotPassed)) = there.new_failures \cup there.still_failing

SampleLibrary == [id \in SampleIds |-> IF id = "node" THEN Risk
                                        ELSE IF id = "live" THEN Live ELSE MCBuiltin[id]]
GapTypes(runsSeen) == {g.type : g \in get_eval_coverage(SampleLibrary, runsSeen).gaps}
RunOf(results, at) == [results |-> results, at |-> at]

\* After a run in which every case has passed, no case counts as never
\* evaluated or as failing, and no gap is there that was not there before.
ASSUME GoodRunClosesGaps ==
  \A a \in SampleResults :
     LET before == "run0" :> RunOf(a, 0)
         after  == before @@ "run1" :> RunOf({SampleResult(id, "passed") : id \in SampleIds}, 1)
     IN  /\ GapTypes(after) \subseteq GapTypes(before)
         /\ GapTypes(after) \cap {"never_evaluated_cases", "high_critical_failures"} = {}
SampleDimensions == {"safety", "evidence"}
JudgedResults ==
  [agent : {"trade_decision", "account_copilot"}, overall : {40, 90}, passed : BOOLEAN,
   failed : SUBSET SampleDimensions, warnings : {{}}, scores : {<<>>, "safety" :> 30, "safety" :> 80 @@ "evidence" :> 60}]
Total(f) == FoldFunction(+, 0, f)

\* However the judged results are spread over runs: the failures of the agents add up
\* to all failures, those of the dimensions to the dimensions that failed, and a
\* dimension that fails without a score shows the average of the worst one.
ASSUME CorrectnessAddsUp ==
  \A a, b \in JudgedResults :
     LET all == get_correctness_summary(<<<<a>>, <<>>, <<b>>>>)
     IN  /\ all = get_correctness_summary(<<<<a, b>>>>)
         /\ Total([x \in DOMAIN all.by_agent |-> all.by_agent[x].failed]) = all.high_risk
         /\ Total([d \in DOMAIN all.by_dimension |-> all.by_dimension[d].failed]) = all.dimensions
         /\ \A d \in DOMAIN all.by_dimension :
              d \notin DOMAIN a.scores \cup DOMAIN b.scores => all.by_dimension[d].average = 0
===========================================================================
