---------------------------- MODULE EvalLibrary ----------------------------
(***************************************************************************)
(* The library of the evaluation harness: cases, runs, feedback on bad     *)
(* cases, regression profiles and gate reports, each a document of         *)
(* Elasticsearch, and the requests of the administration that change them  *)
(* (services/agent_eval_service.py, agent_eval_repository.py,              *)
(* agent_regression_profile_service.py, agent_change_impact_service.py,    *)
(* agent_regression_gate_service.py).                                      *)
(*                                                                         *)
(* A request runs in a thread of its own. It reads whole documents and     *)
(* writes whole documents back: reads and writes are steps, and any of     *)
(* them may raise, a write also after Elasticsearch has applied it.        *)
(***************************************************************************)
EXTENDS EvalVerdict, SequencesExt

CONSTANTS
  Requesters,
  Menu,        \* the requests that may be made: records with a field op
  MaxOps,      \* requests made in all
  MaxFaults,   \* calls of Elasticsearch that raise
  BuiltinCase, \* id -> document, list_builtin_eval_cases()
  Snapshots,   \* replay id -> [agent, output, tools, limits]
  Outputs,     \* name of an output -> output of EvalChecks
  MockAnswers, \* names of the outputs an LLM may give in a live mock run
  JudgeAnswers,
  Dimensions,  \* of the correctness rubric
  CaseIds, FeedbackIds, RunIds, ReportIds,  \* ids of new documents
  FirstStores  \* what may be stored at first

VARIABLES cases, runs, feedback, profiles, reports,
          req,     \* what each requester is doing
          ops, faults

store == <<cases, runs, feedback, profiles, reports>>
libraryVars == <<cases, runs, feedback, profiles, reports, req, ops, faults>>

NoDocument == [missing |-> TRUE]
Idle == [op |-> [op |-> "idle"], at |-> "idle", todo |-> <<>>, key |-> <<"none", "none">>,
         doc |-> NoDocument, stale |-> FALSE, results |-> {}, run |-> "none",
         plan |-> <<>>, done |-> {}]

\* Ids are fresh; how many there are bounds what is stored.
Spare(ids, f)   == ids \ DOMAIN f # {}
Fresh(ids, f)   == CHOOSE id \in ids : id \notin DOMAIN f
Put(f, id, doc) == [x \in DOMAIN f \cup {id} |-> IF x = id THEN doc ELSE f[x]]

\* The document with these fields, and the old one's others.
Over(new, old) == [x \in DOMAIN old \cup DOMAIN new |-> IF x \in DOMAIN new THEN new[x] ELSE old[x]]

EmptyOutput == [form |-> "object", keys |-> {}, full |-> {}, says |-> {}, doc |-> NoDoc]
NoReplay == [given |-> FALSE, tools |-> {}, limits |-> FALSE]

---------------------------------------------------------------------------
(* Reading the library *)

Matches(c, s) ==
  /\ s.agent \in {"", c.agent}  /\ s.severity \in {"", c.severity}
  /\ s.scope \in {"", c.scope}  /\ s.node \in {"", c.node}
  /\ s.tag = "" \/ s.tag \in c.tags
  /\ s.enabled => c.enabled
  /\ ~c.archived

\* When nothing stored matches, the built-in cases are searched: also those
\* whose stored copy has been archived or disabled.
list_cases(s) ==
  LET stored == {id \in DOMAIN cases : Matches(cases[id], s)}
      source == IF stored # {} THEN cases ELSE BuiltinCase
  IN  Restrict(source, {id \in DOMAIN source : Matches(source[id], s)})

Known(id) == id \in DOMAIN cases \cup DOMAIN BuiltinCase

\* Mutant: the built-in case wins over its stored copy.
get_builtin_first(id) == IF id \in DOMAIN BuiltinCase THEN BuiltinCase[id] ELSE cases[id]

get_case(id) == IF id \in DOMAIN cases THEN cases[id] ELSE BuiltinCase[id]

select_cases_for_eval(s, include_judge) ==
  LET found == list_cases(s)
  IN  {id \in DOMAIN found : include_judge \/ ~found[id].judge}

---------------------------------------------------------------------------
(* The steps of a request *)

Stands(r, step) == req[r].at = step
Goes(r, next) == req' = [req EXCEPT ![r] = next]

\* An exception ends the request; the gate catches it and goes on with the
\* next agent.
Answered(r, passed, error) ==
  IF req[r].op.op # "gate" THEN Idle
  ELSE LET left == Tail(req[r].plan)
       IN  [req[r] EXCEPT
              !.done = @ \cup {[agent |-> Head(req[r].plan).agent,
                                run |-> IF error THEN "none" ELSE req[r].run,
                                passed |-> passed, error |-> error]},
              !.plan = left, !.results = {}, !.run = "none", !.todo = <<>>,
              !.at = IF left = <<>> THEN "report" ELSE "select"]

InGateRun(r) == req[r].op.op = "gate" /\ req[r].at \notin {"analyze", "report"}
Raised(r) == IF InGateRun(r) THEN Answered(r, FALSE, TRUE) ELSE Idle

\* A write applied by Elasticsearch, whose answer may be lost. Requests that
\* hold the document hold an old one now.
Writes(r, key, next) ==
  /\ \E lost \in {FALSE} \cup (IF faults < MaxFaults THEN {TRUE} ELSE {}) :
        /\ faults' = faults + IF lost THEN 1 ELSE 0
        /\ req' = [q \in Requesters |->
                     IF q = r THEN IF lost THEN Raised(r) ELSE next
                     ELSE [req[q] EXCEPT !.stale = @ \/ req[q].key = key]]
  /\ UNCHANGED ops

WritesCase(r, id, doc, next) ==
  /\ cases' = Put(cases, id, doc)
  /\ Writes(r, <<"case", id>>, next)
  /\ UNCHANGED <<runs, feedback, profiles, reports>>

WritesRun(r, id, doc, next) ==
  /\ runs' = Put(runs, id, doc)
  /\ Writes(r, <<"run", id>>, next)
  /\ UNCHANGED <<cases, feedback, profiles, reports>>

WritesFeedback(r, id, doc, key, next) ==
  /\ feedback' = Put(feedback, id, doc)
  /\ Writes(r, key, next)
  /\ UNCHANGED <<cases, runs, profiles, reports>>

WritesProfile(r, agent, doc, next) ==
  /\ profiles' = Put(profiles, agent, doc)
  /\ Writes(r, <<"profile", agent>>, next)
  /\ UNCHANGED <<cases, runs, feedback, reports>>

Reads(r, next) == Goes(r, next) /\ UNCHANGED <<store, ops, faults>>

\* A call of Elasticsearch that is not applied raises.
Raise(r) ==
  /\ req[r] # Idle
  /\ faults < MaxFaults
  /\ faults' = faults + 1
  /\ Goes(r, Raised(r))
  /\ UNCHANGED <<store, ops>>

FirstStep(op) ==
  CASE op.op \in {"update", "archive", "unarchive", "bulk", "clone", "seed"} -> "read_case"
    [] op.op \in {"create", "from_replay", "from_trace"} -> "create"
    [] op.op = "run" -> IF op.todo = <<>> THEN "list" ELSE "evaluate"
    [] op.op = "regression"    -> "select"
    [] op.op = "gate"          -> "analyze"
    [] op.op \in {"note", "convert"} -> "read_feedback"
    [] op.op = "complain"      -> "save_feedback"
    [] op.op = "from_failures" -> "read_run"
    [] op.op \in {"upsert", "disable"} -> "read_profile"

Begin(r) ==
  /\ req[r] = Idle /\ ops < MaxOps
  /\ \E op \in Menu :
        Goes(r, [Idle EXCEPT !.op = op, !.at = FirstStep(op),
                             !.todo = IF "todo" \in DOMAIN op THEN op.todo ELSE <<>>])
  /\ ops' = ops + 1
  /\ UNCHANGED <<store, faults>>

---------------------------------------------------------------------------
(* Changing cases *)

Merged(op, c) ==
  CASE op.op \in {"update", "bulk"} -> Over(op.change, c)
    [] op.op = "archive"   -> [c EXCEPT !.archived = TRUE, !.enabled = FALSE]
    [] op.op = "unarchive" -> [c EXCEPT !.archived = FALSE]
    [] op.op = "clone"     -> [c EXCEPT !.source = "manual", !.enabled = FALSE,
                                        !.archived = FALSE, !.correctness = FALSE,
                                        !.judge = FALSE, !.title = "copy"]
    [] op.op = "seed"      -> c

\* The next case of a bulk update or of the seeding, or the end.
Onward(r) ==
  LET left == Tail(req[r].todo)
  IN  IF left = <<>> THEN Idle
      ELSE [req[r] EXCEPT !.todo = left, !.at = "read_case", !.doc = NoDocument,
                          !.key = <<"none", "none">>, !.stale = FALSE]

SeverityValues == {"low", "medium", "high", "critical"}

Skips(r, id) ==
  LET op == req[r].op
  IN  CASE op.op = "seed"   -> id \in DOMAIN cases /\ ~op.force
        [] op.op \in {"update", "bulk"} ->
             \/ ~Known(id)
             \/ "severity" \in DOMAIN op.change /\ op.change.severity \notin SeverityValues
        [] OTHER            -> ~Known(id)

ReadCase(r) ==
  /\ Stands(r, "read_case")
  /\ LET id == Head(req[r].todo)
     IN  Reads(r, IF Skips(r, id) THEN Onward(r)
                  ELSE [req[r] EXCEPT !.key = <<"case", id>>, !.stale = FALSE, !.at = "save_case",
                                      !.doc = IF req[r].op.op = "seed" THEN BuiltinCase[id]
                                                                       ELSE get_case(id)])

SaveCase(r) ==
  /\ Stands(r, "save_case")
  /\ req[r].op.op = "clone" => Spare(CaseIds, cases)
  /\ LET op == req[r].op
         id == IF op.op = "clone" THEN Fresh(CaseIds, cases) ELSE Head(req[r].todo)
     IN  WritesCase(r, id, Merged(op, req[r].doc), Onward(r))

\* The expectations of a case made from a recorded run: the tools it called,
\* the limitations it had, its own output as the one to evaluate.
build_eval_case_from_replay(replay) ==
  LET s == Snapshots[replay]
  IN  [agent |-> s.agent, scope |-> "agent", node |-> "", severity |-> "medium",
       tags |-> {"replay"}, enabled |-> TRUE, archived |-> FALSE, source |-> "replay",
       title |-> replay, output |-> s.output, judge |-> FALSE, correctness |-> FALSE,
       fields |-> IF s.agent = "trade_decision" THEN {"action", "data_limitations"} ELSE {},
       forbidden |-> {}, tools |-> s.tools, limits |-> s.limits, mock |-> s.tools,
       expects |-> IF s.limits THEN {"data_missing"} ELSE {}, meta |-> {}, made |-> "none"]

\* A case of one node, from its trace or from the call of the model.
build_node_eval_case(agent, node, output) ==
  [agent |-> agent, scope |-> "node", node |-> node, severity |-> "medium",
   tags |-> {"node"}, enabled |-> TRUE, archived |-> FALSE, source |-> "node_trace",
   title |-> node, output |-> output, judge |-> FALSE, correctness |-> FALSE, fields |-> {},
   forbidden |-> {}, tools |-> {}, limits |-> FALSE, mock |-> {}, expects |-> {},
   meta |-> {}, made |-> "none"]

\* A payload with a case_id: the case is stored under it, also over another one.
Named(op) == op.op = "create" /\ op.id # ""

CreateCase(r) ==
  /\ Stands(r, "create")
  /\ ~Named(req[r].op) => Spare(CaseIds, cases)
  /\ LET op == req[r].op
     IN  WritesCase(r, IF Named(op) THEN op.id ELSE Fresh(CaseIds, cases),
                    CASE op.op = "create"      -> op.case
                      [] op.op = "from_replay" -> build_eval_case_from_replay(op.replay)
                      [] op.op = "from_trace"  -> build_node_eval_case(op.agent, op.node, op.output),
                    Idle)

---------------------------------------------------------------------------
(* Running evaluations *)

NoAnswer == [form |-> "none", passed |-> "absent", high |-> FALSE, named |-> {}, weak |-> {}]
Judges(c) == IF c.judge \/ c.correctness THEN JudgeAnswers ELSE {NoAnswer}

Verdict(id, c, output, r, a) ==
  Over([output |-> output],
       _evaluate_case(id, c, IF output = "none" THEN EmptyOutput ELSE Outputs[output],
                      r, a, Dimensions))

NoVerdict(id, agent, status) == Over([output |-> "none"], Unchecked(id, agent, status))

\* The replay of a live mock run is made from the expectations of the case.
MockReplay(c) == [given |-> TRUE, tools |-> c.mock, limits |-> c.limits]
MockAgents == InvestmentAgents \cup AccountAgents

_evaluate_case_live_mock(id) ==
  IF ~Known(id) THEN {NoVerdict(id, "unknown", "error")}
  ELSE LET c == get_case(id)
       IN  IF c.agent \notin MockAgents THEN {NoVerdict(id, c.agent, "warning")}
           ELSE {NoVerdict(id, c.agent, "error")}
                \cup {Verdict(id, c, o, MockReplay(c), a) : o \in MockAnswers, a \in Judges(c)}

_evaluate_case_id(id) ==
  IF ~Known(id) THEN {NoVerdict(id, "unknown", "error")}
  ELSE LET c == get_case(id)
       IN  IF c.output = "none" THEN {NoVerdict(id, c.agent, "warning")}
           ELSE {Verdict(id, c, c.output, NoReplay, a) : a \in Judges(c)}

_evaluate_replay(replay) ==
  IF replay \notin DOMAIN Snapshots THEN {NoVerdict(replay, "unknown", "error")}
  ELSE LET s == Snapshots[replay]
       IN  {Verdict(replay, build_eval_case_from_replay(replay), s.output,
                    [given |-> TRUE, tools |-> s.tools, limits |-> s.limits], NoAnswer)}

\* The results an id may get in the run of r.
Possible(r, id) ==
  LET mode == IF req[r].op.op = "gate" THEN Head(req[r].plan).mode ELSE req[r].op.mode
  IN  IF req[r].doc # NoDocument
      THEN {Verdict(id, req[r].doc[id], req[r].doc[id].output, NoReplay, a)
            : a \in Judges(req[r].doc[id])}
      ELSE IF mode = "live_mock" THEN _evaluate_case_live_mock(id)
      ELSE IF id \in DOMAIN Snapshots THEN _evaluate_replay(id) ELSE _evaluate_case_id(id)

\* Without cases and replays the enabled cases of the agent are taken; a
\* static run evaluates the documents of the listing.
ListCases(r) ==
  /\ Stands(r, "list")
  /\ LET found == list_cases([agent |-> req[r].op.agent, severity |-> "", scope |-> "",
                              node |-> "", tag |-> "", enabled |-> TRUE])
     IN  Reads(r, [req[r] EXCEPT !.todo = SetToSeq(DOMAIN found), !.at = "evaluate",
                                 !.doc = IF req[r].op.mode = "static" THEN found ELSE NoDocument])

Evaluate(r) ==
  /\ Stands(r, "evaluate") /\ req[r].todo # <<>>
  /\ \E result \in Possible(r, Head(req[r].todo)) :
        Reads(r, [req[r] EXCEPT !.results = @ \cup {result}, !.todo = Tail(@)])

NoGate == [passed |-> FALSE, reasons |-> {"none"}]

SaveRun(r) ==
  /\ Stands(r, "evaluate") /\ req[r].todo = <<>> /\ Spare(RunIds, runs)
  /\ LET id == Fresh(RunIds, runs)
     IN  WritesRun(r, id, [results |-> req[r].results, at |-> Cardinality(DOMAIN runs),
                           gate |-> NoGate, config |-> [fail_on_critical |-> FALSE],
                           compared |-> "no"],
                   IF req[r].op.op = "run" THEN Idle
                   ELSE [req[r] EXCEPT !.at = "patch", !.run = id])

---------------------------------------------------------------------------
(* Regression runs *)

Payload(r) == IF req[r].op.op = "gate" THEN Head(req[r].plan) ELSE req[r].op

Selector(p, scope) ==
  [agent |-> p.agent, tag |-> p.tag, severity |-> p.severity, scope |-> scope,
   node |-> IF scope = "node" THEN p.node ELSE "", enabled |-> ~p.include_disabled]

Chosen(r, ids) ==
  IF ids = {} THEN Raised(r) ELSE [req[r] EXCEPT !.todo = SetToSeq(ids), !.at = "evaluate"]

SelectCases(r) ==
  /\ Stands(r, "select")
  /\ LET p   == Payload(r)
         ids == select_cases_for_eval(Selector(p, "agent"), p.include_judge)
     IN  Reads(r, IF p.include_node
                  THEN [req[r] EXCEPT !.todo = SetToSeq(ids), !.at = "select_nodes"]
                  ELSE Chosen(r, ids))

SelectNodeCases(r) ==
  /\ Stands(r, "select_nodes")
  /\ LET p == Payload(r)
     IN  Reads(r, Chosen(r, ToSet(req[r].todo)
                            \cup select_cases_for_eval(Selector(p, "node"), p.include_judge)))

\* The run is stored once more, with its gate.
GateOf(p, results) ==
  WithNodes(_evaluate_gate_dict(_summary(results), p.gate),
            _build_scope_breakdown(results), p.include_node)

PatchRun(r) ==
  /\ Stands(r, "patch")
  /\ LET p    == Payload(r)
         gate == GateOf(p, req[r].results)
     IN  WritesRun(r, req[r].run,
                   [runs[req[r].run] EXCEPT !.gate = gate,
                      !.config = [fail_on_critical |-> p.gate.fail_on_critical]],
                   IF p.baseline = "none" THEN Answered(r, gate.passed, FALSE)
                   ELSE [req[r] EXCEPT !.at = "compare"])

\* And once more with the comparison.
CompareRun(r) ==
  /\ Stands(r, "compare")
  /\ LET p == Payload(r)
         id == req[r].run
     IN  WritesRun(r, id,
                   [runs[id] EXCEPT !.compared =
                      IF p.baseline \notin DOMAIN runs THEN "missing"
                      ELSE IF compare_eval_runs(runs[p.baseline].results, runs[id].results).new_failures
                              = {} THEN "fine" ELSE "worse"],
                   Answered(r, runs[id].gate.passed, FALSE))

---------------------------------------------------------------------------
(* The regression gate *)

\* The agents whose files have changed, and with a change of the harness or
\* of the prompt management those whose profile asks for it.
Impacted(op) ==
  op.agents
  \cup (IF op.harness THEN {a \in DOMAIN profiles : profiles[a].enabled} ELSE {})
  \cup (IF op.prompts THEN {a \in DOMAIN profiles : profiles[a].on_prompt_save} ELSE {})

Recommended(a) == profiles[a].enabled /\ profiles[a].on_code_change

build_regression_payload_from_profile(a, nodes) ==
  LET p == profiles[a]
  IN  [agent |-> a, mode |-> p.mode, tag |-> p.tag, severity |-> p.severity,
       include_disabled |-> p.include_disabled, include_judge |-> p.include_judge,
       include_node |-> p.include_node, gate |-> p.gate, baseline |-> "none",
       node |-> IF Cardinality(nodes) = 1 /\ p.include_node
                THEN CHOOSE n \in nodes : TRUE ELSE p.node]

Analyze(r) ==
  /\ Stands(r, "analyze")
  /\ LET op   == req[r].op
         todo == {a \in Impacted(op) \cap DOMAIN profiles :
                    op.run_not_recommended \/ Recommended(a)}
         plan == SetToSeq({build_regression_payload_from_profile(a, op.nodes[a]) : a \in todo})
     IN  Reads(r, IF Len(plan) > op.max_agents THEN Idle
                  ELSE [req[r] EXCEPT !.plan = plan,
                          !.at = IF plan = <<>> \/ op.dry_run THEN "report" ELSE "select"])

\* Mutant: an agent whose run raised does not count.
_build_report_of_runs(op, done) ==
  [runs |-> done,
   status |-> CASE op.dry_run -> "dry_run"
                [] ~op.dry_run /\ (\A d \in done : d.passed \/ d.error) -> "passed"
                [] OTHER -> "failed"]

_build_report(op, done) ==
  LET ok == \A d \in done : d.passed
  IN  [runs |-> done,
       status |-> CASE op.dry_run -> "dry_run"
                    [] ~op.dry_run /\ ok -> "passed"
                    [] ~op.dry_run /\ ~ok /\ (\E d \in done : d.error) -> "error"
                    [] OTHER -> "failed"]

SaveReport(r) ==
  /\ Stands(r, "report") /\ Spare(ReportIds, reports)
  /\ reports' = Put(reports, Fresh(ReportIds, reports), _build_report(req[r].op, req[r].done))
  /\ Writes(r, <<"report", "none">>, Idle)
  /\ UNCHANGED <<cases, runs, feedback, profiles>>

---------------------------------------------------------------------------
(* Feedback *)

\* Two marks for the properties: automatic, a report of the failures of a run stored it;
\* raced, another feedback on the run was stored after that report had listed them.
Complaint(source, run, case, replay, agent, automatic, raced) ==
  [source |-> source, run |-> run, case |-> case, replay |-> replay, agent |-> agent,
   status |-> "open", converted |-> "none", automatic |-> automatic, raced |-> raced]

\* create_feedback stores a new document, update_feedback changes a stored one.
ReadFeedback(r) ==
  /\ Stands(r, "read_feedback")
  /\ LET id == req[r].op.id
     IN  Reads(r, IF id \notin DOMAIN feedback THEN Idle
                  ELSE [req[r] EXCEPT !.doc = feedback[id], !.key = <<"feedback", id>>,
                          !.at = IF req[r].op.op = "note" THEN "save_feedback" ELSE "convert"])

SaveFeedback(r) ==
  /\ Stands(r, "save_feedback")
  /\ req[r].op.op = "complain" => Spare(FeedbackIds, feedback)
  /\ LET op == req[r].op
     IN  IF op.op = "note"
         THEN WritesFeedback(r, op.id, [req[r].doc EXCEPT !.status = op.status],
                             <<"feedback", op.id>>, Idle)
         ELSE WritesFeedback(r, Fresh(FeedbackIds, feedback), op.feedback,
                             <<"failures", op.feedback.run>>, Idle)

EmptyCase(agent) ==
  [build_node_eval_case(agent, "", "none") EXCEPT !.scope = "agent", !.tags = {},
                                                  !.source = "feedback", !.title = "feedback"]

\* The case a feedback is about, or an empty one.
CaseOfFeedback(f) ==
  IF f.source \in {"replay", "agent_run"} /\ f.replay \in DOMAIN Snapshots
  THEN build_eval_case_from_replay(f.replay)
  ELSE IF f.source = "eval_result" /\ Known(f.case)
  THEN [get_case(f.case) EXCEPT !.source = "feedback"]
  ELSE EmptyCase(f.agent)

SaveConverted(r) ==
  /\ Stands(r, "convert") /\ Spare(CaseIds, cases)
  /\ LET id == Fresh(CaseIds, cases)
     IN  WritesCase(r, id,
                    [CaseOfFeedback(req[r].doc) EXCEPT !.enabled = req[r].op.enabled,
                       !.tags = @ \cup {"bad_case"}, !.made = req[r].op.id],
                    [req[r] EXCEPT !.at = "mark", !.todo = <<id>>])

MarkConverted(r) ==
  /\ Stands(r, "mark")
  /\ LET id == req[r].op.id
     IN  WritesFeedback(r, id, [req[r].doc EXCEPT !.status = "converted",
                                                  !.converted = Head(req[r].todo)],
                        <<"feedback", id>>, Idle)

\* Mutant: the feedbacks of the run are not found again.
ReportedNever(run) == {}

ReportedCases(run) == {feedback[f].case : f \in {g \in DOMAIN feedback : feedback[g].run = run}}

\* One feedback for each result that has not passed and has none yet.
ReadFailures(r) ==
  /\ Stands(r, "read_run")
  /\ LET run == req[r].op.run
         new == CasesOf(WithStatus(runs[run].results, NotPassed)) \ ReportedCases(run)
     IN  Reads(r, IF run \notin DOMAIN runs \/ new = {} THEN Idle
                  ELSE [req[r] EXCEPT !.todo = SetToSeq(new), !.at = "save_failure",
                                      !.key = <<"failures", run>>, !.stale = FALSE])

SaveFailure(r) ==
  /\ Stands(r, "save_failure") /\ Spare(FeedbackIds, feedback)
  /\ LET run  == req[r].op.run
         id   == Head(req[r].todo)
         left == Tail(req[r].todo)
     IN  WritesFeedback(r, Fresh(FeedbackIds, feedback),
                        Complaint("eval_result", run, id, "none",
                                  ResultOf(runs[run].results, id).agent, TRUE, req[r].stale),
                        <<"failures", run>>,
                        IF left = <<>> THEN Idle ELSE [req[r] EXCEPT !.todo = left])

---------------------------------------------------------------------------
(* Regression profiles *)

DefaultProfile ==
  [enabled |-> TRUE, mode |-> "static", tag |-> "", severity |-> "",
   include_disabled |-> FALSE, include_judge |-> FALSE, include_node |-> FALSE,
   node |-> "", gate |-> _DEFAULT_GATE, on_code_change |-> FALSE, on_prompt_save |-> FALSE]

ReadProfile(r) ==
  /\ Stands(r, "read_profile")
  /\ LET a == req[r].op.agent
     IN  Reads(r, IF a \notin DOMAIN profiles /\ req[r].op.op = "disable" THEN Idle
                  ELSE [req[r] EXCEPT !.key = <<"profile", a>>, !.at = "save_profile",
                          !.doc = IF a \in DOMAIN profiles THEN profiles[a] ELSE NoDocument])

\* What an upsert does not name gets its default; of the stored profile only
\* the version is taken.
SaveProfile(r) ==
  /\ Stands(r, "save_profile")
  /\ LET op  == req[r].op
         old == req[r].doc
         version == IF old = NoDocument THEN 1 ELSE old.version + 1
     IN  WritesProfile(r, op.agent,
                       Over([version |-> version],
                            IF op.op = "disable" THEN Over([enabled |-> FALSE], old)
                                                 ELSE Over(op.payload, DefaultProfile)), Idle)

---------------------------------------------------------------------------
LibraryInit ==
  /\ \E first \in FirstStores :
        /\ cases = first.cases /\ runs = first.runs
        /\ feedback = first.feedback /\ profiles = first.profiles
  /\ reports = << >>
  /\ req = [r \in Requesters |-> Idle]
  /\ ops = 0 /\ faults = 0

LibraryNext ==
  \E r \in Requesters :
     \/ Begin(r) \/ Raise(r)
     \/ ReadCase(r) \/ SaveCase(r) \/ CreateCase(r)
     \/ ListCases(r) \/ Evaluate(r) \/ SaveRun(r)
     \/ SelectCases(r) \/ SelectNodeCases(r) \/ PatchRun(r) \/ CompareRun(r)
     \/ Analyze(r) \/ SaveReport(r)
     \/ ReadFeedback(r) \/ SaveFeedback(r) \/ SaveConverted(r) \/ MarkConverted(r)
     \/ ReadFailures(r) \/ SaveFailure(r)
     \/ ReadProfile(r) \/ SaveProfile(r)

LibrarySpec == LibraryInit /\ [][LibraryNext]_libraryVars

---------------------------------------------------------------------------
(* The values of the constants *)

CaseDocument(c) == DOMAIN c = DOMAIN EmptyCase("")
RunDocument(n)  == /\ DOMAIN n = {"results", "at", "gate", "config", "compared"}
                   /\ IsFiniteSet(n.results)
FeedbackDocument(f) == DOMAIN f = DOMAIN Complaint("", "", "", "", "", FALSE, FALSE)

\* The agent of a case, where it comes from and whether it is archived are not among
\* the fields an update may name; only built-in cases are seeded.
Request(op) ==
  /\ op.op \in {"update", "archive", "unarchive", "bulk", "clone", "seed", "create", "from_replay",
                 "from_trace", "run", "regression", "gate", "note", "convert", "complain",
                 "from_failures", "upsert", "disable"}
  /\ op.op \in {"update", "bulk"} =>
       DOMAIN op.change \subseteq DOMAIN EmptyCase("") \ {"agent", "archived", "source"}
  /\ op.op = "create"   => CaseDocument(op.case) /\ (op.id # "" => op.case.made = "posted")
  /\ op.op = "seed"     => "todo" \in DOMAIN op /\ op.todo \in Seq(DOMAIN BuiltinCase) \ {<<>>}
  /\ op.op = "complain" => /\ FeedbackDocument(op.feedback) /\ op.feedback.converted = "none"
                           /\ ~op.feedback.automatic

ConversionsTrue(fb, cs) ==
  \A f \in DOMAIN fb :
    fb[f].converted # "none" =>
      fb[f].converted \in DOMAIN cs /\ cs[fb[f].converted].made \in {f, "posted"}

SeesAllIn(run) ==
  run.gate.passed /\ run.config.fail_on_critical =>
    \A x \in run.results : x.output # "none" => "all_in" \notin Outputs[x.output].says

FirstStore(first) ==
  /\ \A id \in DOMAIN first.cases : CaseDocument(first.cases[id])
  /\ \A n \in DOMAIN first.runs : RunDocument(first.runs[n]) /\ SeesAllIn(first.runs[n])
  /\ \A f \in DOMAIN first.feedback : FeedbackDocument(first.feedback[f])
  /\ \A f \in DOMAIN first.feedback : first.feedback[f].converted \notin DOMAIN BuiltinCase
  /\ ConversionsTrue(first.feedback, first.cases)

ASSUME LibraryAssumption ==
  /\ MaxOps \in Nat /\ MaxFaults \in Nat
  /\ CaseIds \cap DOMAIN BuiltinCase = {}
  /\ \A id \in DOMAIN BuiltinCase : CaseDocument(BuiltinCase[id]) /\ BuiltinCase[id].made = "none"
  /\ \A op \in Menu : Request(op)
  /\ \A first \in FirstStores : FirstStore(first)

---------------------------------------------------------------------------
(* Properties *)

\* The fields a request asks to change.
Asked(op) ==
  CASE op.op \in {"update", "bulk"} -> DOMAIN op.change
    [] op.op = "archive"   -> {"archived", "enabled"}
    [] op.op = "unarchive" -> {"archived"}
    [] op.op = "seed" /\ op.force -> DOMAIN EmptyCase("")
    [] OTHER -> {}

\* A save of a stored case changes only what its request asked to change: the
\* work of another administrator is undone only by a request that was under
\* way when it was stored, or by one that posts a whole case under this id. (The
\* services read, merge and save the document as a whole, without a version.)
EditsKept ==
  [][\A id \in DOMAIN cases :
       cases'[id] # cases[id] =>
         \E r \in Requesters :
            \/ /\ Stands(r, "create") /\ Named(req[r].op)
               /\ req[r].op.id = id /\ cases'[id] = req[r].op.case
            \/ /\ req[r].key = <<"case", id>>
               /\ \/ req[r].stale
                  \/ \A x \in DOMAIN cases[id] \ Asked(req[r].op) : cases'[id][x] = cases[id][x]]_libraryVars

\* What one document says of another is so, whatever raised on the way: a
\* feedback that is marked as converted names a stored case that was made from
\* it, or one posted in its place; a gate report that says passed names stored
\* runs whose gates passed.
ClaimsAreTrue ==
  /\ ConversionsTrue(feedback, cases)
  /\ \A n \in DOMAIN reports :
       reports[n].status = "passed" =>
         \A d \in reports[n].runs : d.run \in DOMAIN runs /\ runs[d.run].gate.passed

\* Reporting the failures of a run adds no feedback to one that has a feedback
\* already, of an earlier report that broke off or by hand, unless a feedback on
\* the run was stored while the report was under way. (By hand a failure may be
\* reported any number of times: create_feedback looks for nothing.)
OneFeedbackPerFailure ==
  [][\A f \in DOMAIN feedback' \ DOMAIN feedback :
       feedback'[f].automatic /\ ~feedback'[f].raced =>
         \A g \in DOMAIN feedback :
            feedback[g].run = feedback'[f].run => feedback[g].case # feedback'[f].case]_libraryVars

\* A gate that is to fail on critical failures does not pass a run in which an
\* output advised to go all in, whatever the agent and the metadata of its case,
\* whatever rate of passed cases the gate asks for and whatever the judges said.
GateSeesAllIn == \A n \in DOMAIN runs : SeesAllIn(runs[n])
===========================================================================
