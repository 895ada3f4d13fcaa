------------------------------ MODULE LlmAccess ------------------------------
(***************************************************************************)
(* What stands between the agents and the language model: the file of      *)
(* providers and which of them is used (LLMService, llm_service.py), one   *)
(* call over HTTP (GenericOpenAICompatibleClient), its measurement         *)
(* (llm_observability.py, llm_call_metrics_service.py), and the versions   *)
(* of the prompts (admin_prompt_repository.py, admin_prompt_service.py).   *)
(*                                                                         *)
(* A provider is its id, its flags, its limits and its prices; name, key,  *)
(* URL and models are part of whether a request is well formed.  The       *)
(* prompts are of one key: `store` maps the number of a version to its     *)
(* document.                                                               *)
(***************************************************************************)
EXTENDS Integers, Sequences, FiniteSets, SequencesExt, Functions

Nobody == [id |-> "nobody"]
Rejected == <<Nobody>>

Total(s) == FoldLeft(LAMBDA x, y : x + y, 0, s)

----------------------------------------------------------------------------
(* Providers *)

\* Limits are in thousands of tokens.
DefaultLimits == [window |-> 200, input |-> 150, output |-> 10]
WithinLimits(l) == l.window >= 1 /\ l.input >= 1 /\ l.output >= 1 /\ l.input + l.output <= l.window
_validate_provider_values(p) ==
  p.formed /\ WithinLimits(p.limits) /\ (p.thinking => p.effort \in {"high", "max"})

\* A stored provider as it is read: gaps (0) are filled, nothing is validated.
_provider_from_dict(l) ==
  LET or(x, y) == IF x = 0 THEN y ELSE x
      output == or(l.output, DefaultLimits.output)
      window == or(l.window, DefaultLimits.window)
      room == IF window - output < DefaultLimits.input THEN window - output ELSE DefaultLimits.input
  IN  [window |-> window, input |-> or(l.input, IF room < 1 THEN 1 ELSE room), output |-> output]

FirstOf(ps, Good(_)) == IF \E i \in DOMAIN ps : Good(ps[i]) THEN SelectSeq(ps, Good)[1] ELSE Nobody
IndexOf(ps, id) == {i \in DOMAIN ps : ps[i].id = id}

\* The provider of the environment counts only while none is stored.
_list_providers_with_env_fallback(ps, env) == IF ps # <<>> THEN ps ELSE env
\* enable: the setting llm_enable
get_active_provider(enable, ps, env) ==
  LET all == _list_providers_with_env_fallback(ps, env)
      active == FirstOf(all, LAMBDA p : p.active /\ p.enabled)
  IN  IF ~enable THEN Nobody
      ELSE IF active # Nobody THEN active ELSE FirstOf(all, LAMBDA p : p.enabled)
_get_provider_by_id(ps, env, id) == FirstOf(_list_providers_with_env_fallback(ps, env), LAMBDA p : p.id = id)

Activated(ps, id) == [i \in DOMAIN ps |-> [ps[i] EXCEPT !.active = (ps[i].id = id)]]

\* The prices are not among the fields of a request.
create_provider(ps, id, payload) ==
  IF ~_validate_provider_values(payload) THEN Rejected
  ELSE LET first == payload.enabled /\ \A i \in DOMAIN ps : ~ps[i].active
       IN  Append(IF first THEN Activated(ps, id) ELSE ps,
                  [id |-> id, active |-> first, enabled |-> payload.enabled, thinking |-> payload.thinking,
                   effort |-> payload.effort, formed |-> TRUE, limits |-> payload.limits, price |-> 0])

\* changes: a record of the fields to set; a provider that is disabled is not active.
update_provider(ps, id, changes) ==
  IF IndexOf(ps, id) = {} THEN Rejected
  ELSE LET i == CHOOSE i \in IndexOf(ps, id) : TRUE
           new == [f \in DOMAIN ps[i] |-> IF f \in DOMAIN changes THEN changes[f] ELSE ps[i][f]]
       IN  IF ~_validate_provider_values(new) THEN Rejected
           ELSE [ps EXCEPT ![i] = [new EXCEPT !.active = @ /\ new.enabled]]

delete_provider(ps, id) ==
  IF IndexOf(ps, id) = {} THEN Rejected
  ELSE LET i == CHOOSE i \in IndexOf(ps, id) : TRUE
           rest == RemoveAt(ps, i)
           next == FirstOf(rest, LAMBDA p : p.enabled)
       IN  IF ps[i].active /\ next # Nobody THEN Activated(rest, next.id) ELSE rest

set_active_provider(ps, id) ==
  IF \E i \in IndexOf(ps, id) : ps[i].enabled THEN Activated(ps, id) ELSE Rejected

\* A request to the routes of the providers, and the file after it.
Apply(ps, r) ==
  LET new == CASE r.op = "create" -> create_provider(ps, r.id, r.payload)
               [] r.op = "update" -> update_provider(ps, r.id, r.payload)
               [] r.op = "delete" -> delete_provider(ps, r.id)
               [] r.op = "activate" -> set_active_provider(ps, r.id)
  IN  IF new = Rejected THEN ps ELSE new

----------------------------------------------------------------------------
(* One call *)

\* A message with nothing but the reasoning of a provider is dropped.
sanitize_chat_messages(ms, keep) ==
  LET kept == SelectSeq(ms, LAMBDA m : ~(m.content = "" /\ ~m.policy /\ ~m.calls /\ m.reasoning))
  IN  [i \in DOMAIN kept |-> [kept[i] EXCEPT !.reasoning = @ /\ keep]]

\* The policy is part of the first message of the system, once: it is put behind the
\* text of that message (policy: the message has it), or is a message of its own.
apply_global_output_language_policy(ms) ==
  LET system == [role |-> "system", content |-> "", policy |-> TRUE, calls |-> FALSE, reasoning |-> FALSE]
  IN  IF ms = <<>> \/ ms[1].role # "system" THEN <<system>> \o ms ELSE [ms EXCEPT ![1].policy = TRUE]

\* DeepSeek is told whether to think; while it thinks, there is no temperature.
_apply_deepseek_thinking_payload(p, deepseek, disabled) ==
  [thinking |-> IF ~deepseek THEN "unsaid" ELSE IF disabled \/ ~p.thinking THEN "disabled" ELSE "enabled",
   temperature |-> ~(deepseek /\ p.thinking /\ ~disabled)]

\* What the transport or the status of the answer is reported as.
_post_chat_payload(answer) ==
  CASE answer = "timeout" -> "TIMEOUT"
    [] answer \in {"401", "403"} -> "AUTH_FAILED"
    [] answer = "404" -> "MODEL_NOT_FOUND"
    [] answer = "429" -> "RATE_LIMITED"
    [] answer \in {"unreachable", "not_json", "not_an_object", "no_choices", "400", "500", "503"} -> "PROVIDER_ERROR"
    [] OTHER -> "ok"

\* chat turns a message without content into the four letters of None, the call with
\* tools keeps the gap.
Content(message, tools) == IF message.content # "null" THEN message.content ELSE IF tools THEN "null" ELSE "None"

\* A call is checked, made, and measured whether it succeeds or raises; what goes
\* wrong while it is measured is only logged.
chat_with_metadata(p, answer, message, tools, metrics) ==
  LET code == IF p = Nobody \/ ~p.enabled THEN "LLMConfigError" ELSE _post_chat_payload(answer)
  IN  [raised |-> code # "ok",
       content |-> IF code = "ok" THEN Content(message, tools) ELSE "null",
       recorded |-> IF metrics = "works" THEN code ELSE "nothing"]

test_provider(ps, env, id, answer) ==
  LET p == _get_provider_by_id(ps, env, id)
      call == chat_with_metadata(p, answer, [content |-> "OK"], FALSE, "works")
  IN  IF p = Nobody THEN "not_found"
      ELSE IF ~call.raised THEN "success" ELSE IF p.enabled THEN "failure" ELSE "refused"

\* In millionths; 0 stands for None.
estimate_llm_cost(p, usage) == usage.prompt * p.price + usage.completion * p.price

\* The measured calls of a page; the percentile takes the rank rounded half to even.
_percentile(values, percentile) ==
  LET n == Len(values)
      x == percentile * (n - 1)
      rank == (x \div 100) + (IF x % 100 > 50 \/ (x % 100 = 50 /\ (x \div 100) % 2 = 1) THEN 1 ELSE 0)
  IN  IF n = 0 THEN 0 ELSE SortSeq(values, <)[rank + 1]
_summary(calls) ==
  [call_count |-> Len(calls), ok |-> Len(SelectSeq(calls, LAMBDA c : c.ok)),
   total_tokens |-> Total([i \in DOMAIN calls |-> calls[i].tokens]),
   p95 |-> _percentile([i \in DOMAIN calls |-> calls[i].latency], 95)]
_bucket(calls) ==
  [m \in {calls[i].model : i \in DOMAIN calls} |->
     LET of == SelectSeq(calls, LAMBDA c : c.model = m)
     IN  [call_count |-> Len(of), total_tokens |-> Total([i \in DOMAIN of |-> of[i].tokens]),
          avg_latency |-> Total([i \in DOMAIN of |-> of[i].latency]) \div Len(of)]]

----------------------------------------------------------------------------
(* The versions of a prompt *)

ListSize == 100
Code     == "code"  \* the default content, from the code

\* The oldest hundred, by when they were created.
list_prompt_versions(store) ==
  {v \in DOMAIN store : Cardinality({w \in DOMAIN store : store[w].created < store[v].created}) < ListSize}
ActiveVersions(store) == {v \in DOMAIN store : store[v].status = "active"}
get_active_prompt(store) ==
  LET newest == {v \in ActiveVersions(store) : \A w \in ActiveVersions(store) : store[w].updated <= store[v].updated}
  IN  IF newest = {} THEN 0 ELSE CHOOSE v \in newest : TRUE

NextVersion(store) ==
  LET listed == list_prompt_versions(store)
  IN  IF listed = {} THEN 1 ELSE (CHOOSE v \in listed : \A w \in listed : w <= v) + 1
_save_version(store, v, content, status, now) ==
  (v :> [status |-> status, content |-> content, created |-> now, updated |-> now]) @@ store

create_version(store, content, now) == _save_version(store, NextVersion(store), content, "draft", now)

\* Activation archives whatever is active, then puts the version as it was read.
Archived(store, now) ==
  [v \in DOMAIN store |-> IF store[v].status = "active" THEN [store[v] EXCEPT !.status = "archived", !.updated = now]
                          ELSE store[v]]
PutActive(store, v, existing, now) == (v :> [existing EXCEPT !.status = "active", !.updated = now]) @@ store
activate_version(store, v, now) ==
  IF v \notin DOMAIN store THEN store ELSE PutActive(Archived(store, now), v, store[v], now)

ensure_default_versions(store, now) ==
  IF get_active_prompt(store) # 0 THEN store ELSE _save_version(store, NextVersion(store), Code, "active", now)
create_version_from_code_default(store, now) ==
  IF get_active_prompt(store) # 0 /\ store[get_active_prompt(store)].content = Code THEN store
  ELSE create_version(store, Code, now)

\* What the agents run with; a store that cannot be read falls back to the code.
get_runtime_prompt(store, readable) ==
  IF readable /\ get_active_prompt(store) # 0
  THEN [content |-> store[get_active_prompt(store)].content, source |-> "admin_active"]
  ELSE [content |-> Code, source |-> "code_default"]
resolve_runtime_prompt(store, service, readable) ==
  IF service THEN get_runtime_prompt(store, readable) ELSE [content |-> Code, source |-> "fallback"]

\* A request to the routes of the prompts; activations name a version.
PromptAction(store, r, now) ==
  CASE r.op = "create" -> create_version(store, "edited", now)
    [] r.op = "sync" -> create_version_from_code_default(store, now)
    [] r.op = "seed" -> ensure_default_versions(store, now)
    [] r.op = "activate" -> activate_version(store, r.version, now)

----------------------------------------------------------------------------
(* What follows, over short histories *)

Payload(enabled) == [formed |-> TRUE, enabled |-> enabled, thinking |-> FALSE, effort |-> "high", limits |-> DefaultLimits]
Requests ==
  {[op |-> "create", id |-> i, payload |-> Payload(e)] : i \in {"fresh"}, e \in BOOLEAN}
  \cup {[op |-> "update", id |-> i, payload |-> [enabled |-> e]] : i \in {"p1", "p2"}, e \in BOOLEAN}
  \cup {[op |-> o, id |-> i, payload |-> <<>>] : o \in {"delete", "activate"}, i \in {"p1", "p2"}}
Env == <<[id |-> "env-default", active |-> TRUE, enabled |-> TRUE, thinking |-> FALSE, effort |-> "high",
          formed |-> TRUE, limits |-> DefaultLimits, price |-> 0]>>
\* The file after a history of requests; the n-th provider created is called p<n>.
Names == <<"p1", "p2", "p3", "p4">>
After(history) ==
  FoldLeft(LAMBDA s, r :
             IF r.op = "create" THEN [ps |-> Apply(s.ps, [r EXCEPT !.id = Names[s.n + 1]]), n |-> s.n + 1]
             ELSE [ps |-> Apply(s.ps, r), n |-> s.n],
           [ps |-> <<>>, n |-> 0], history).ps
Histories == {<<c, d>> \o h : c, d \in {r \in Requests : r.op = "create"}, h \in UNION {[1..n -> Requests] : n \in 0..2}}

\* However the providers are edited, at most one is active and it is enabled, and a
\* model is reached whenever the setting allows it and some provider is enabled; but a
\* file with only disabled providers hides the one of the environment
\* (llm_service.py:577-701, 993-998).
ASSUME OneActiveProvider ==
  \A h \in Histories :
    LET ps == After(h) IN
    /\ Cardinality({i \in DOMAIN ps : ps[i].active}) <= 1
    /\ \A i \in DOMAIN ps : ps[i].active => ps[i].enabled /\ get_active_provider(TRUE, ps, Env) = ps[i]
    /\ \A on \in BOOLEAN :
         (get_active_provider(on, ps, Env) = Nobody)
         = (~on \/ (ps # <<>> /\ \A i \in DOMAIN ps : ~ps[i].enabled))

\* Who replaces a disabled provider is the first that is enabled, without being marked:
\* enabling the old one again does not bring it back unless it comes first (648-668).
ASSUME DisablingForgets ==
  LET back(id) == After(<<[op |-> "create", id |-> "", payload |-> Payload(TRUE)], [op |-> "create", id |-> "", payload |-> Payload(TRUE)],
                          [op |-> "activate", id |-> id, payload |-> <<>>], [op |-> "update", id |-> id, payload |-> [enabled |-> FALSE]],
                          [op |-> "update", id |-> id, payload |-> [enabled |-> TRUE]]>>)
  IN  \A id \in {"p1", "p2"} : get_active_provider(TRUE, back(id), Env).id = "p1"

\* No request sets a price, so that the cost of a call is known only where the file
\* was edited by hand (586-628, 630-672; llm_observability.py:116-121).
ASSUME CostIsUnknown ==
  \A h \in Histories : \A i \in DOMAIN After(h) : estimate_llm_cost(After(h)[i], [prompt |-> 5, completion |-> 5]) = 0

\* Limits read from the file may be ones that no request could have set.
ASSUME FilledLimits ==
  \A w \in {0, 8, 10, 20, 160, 200} : \A o \in {0, 4, 10} :
    WithinLimits(_provider_from_dict([window |-> w, input |-> 0, output |-> o]))
    = ((IF w = 0 THEN 200 ELSE w) > (IF o = 0 THEN 10 ELSE o))

SomeMessages ==
  {[role |-> r, content |-> c, policy |-> FALSE, calls |-> k, reasoning |-> g] :
     r \in {"system", "user"}, c \in {"", "text"}, k \in BOOLEAN, g \in BOOLEAN}
\* Sent twice through, the messages stay the same; the policy comes first, and neither
\* a call of a tool nor a text is lost, that of the system included (81-140).
ASSUME PolicyOnce ==
  \A ms \in {<<>>} \cup {<<a>> : a \in SomeMessages} \cup {<<a, b>> : a, b \in SomeMessages} : \A keep \in BOOLEAN :
    LET once == apply_global_output_language_policy(sanitize_chat_messages(ms, keep))
        has(seq, Good(_)) == Len(SelectSeq(seq, Good))
    IN  /\ apply_global_output_language_policy(sanitize_chat_messages(once, keep)) = once
        /\ once[1].policy /\ has(once, LAMBDA m : m.policy) = 1
        /\ has(once, LAMBDA m : m.calls) = has(ms, LAMBDA m : m.calls)
        /\ has(once, LAMBDA m : m.content # "") = has(ms, LAMBDA m : m.content # "")

\* A call is recorded as it ended, and one of a message without content returns a
\* text that no schema meets rather than nothing (369-371, 731-808).
ASSUME CallsAreRecorded ==
  \A p \in {Nobody, Env[1], [Env[1] EXCEPT !.enabled = FALSE]} : \A tools \in BOOLEAN : \A metrics \in {"works", "fails"} :
  \A answer \in {"timeout", "unreachable", "no_choices", "401", "404", "429", "500", "200"} : \A content \in {"null", "text"} :
    LET call == chat_with_metadata(p, answer, [content |-> content], tools, metrics) IN
    /\ metrics = "works" => call.raised = (call.recorded # "ok")
    /\ call.raised = (p # Env[1] \/ answer # "200")
    /\ ~call.raised /\ ~tools => call.content \in {"text", "None"}

\* The page of the administrator tests a disabled provider as a bad request.
ASSUME TestsNeedEnabled ==
  /\ test_provider(<<[Env[1] EXCEPT !.enabled = FALSE]>>, Env, "env-default", "200") = "refused"
  /\ test_provider(<<>>, Env, "env-default", "401") = "failure"

\* With fewer than a dozen calls the 95th percentile is their maximum.
ASSUME PercentileIsMax ==
  \A n \in 1..30 : (_percentile([i \in 1..n |-> i], 95) = n) = (n <= 11)

Request(op) == [op |-> op, version |-> 0]
Activate(v) == [op |-> "activate", version |-> v]
PromptOps == {Request("create"), Request("sync"), Request("seed"), Activate(1), Activate(2)}
PromptAfter(ops) == FoldLeft(LAMBDA s, i : PromptAction(s, ops[i], i), <<>>, [i \in DOMAIN ops |-> i])
\* One request at a time, at most one version is active, and once one is, one stays:
\* what the agents run with is then what was activated (admin_prompt_repository.py:102-194).
ASSUME OneActivePrompt ==
  \A ops \in UNION {[1..n -> PromptOps] : n \in 1..5} :
    LET store == PromptAfter(ops)
        before == PromptAfter(Front(ops))
    IN  /\ Cardinality(ActiveVersions(store)) <= 1
        /\ ActiveVersions(before) # {} => ActiveVersions(store) # {}
        /\ Last(ops).version \in DOMAIN before =>
             get_runtime_prompt(store, TRUE) = [content |-> before[Last(ops).version].content, source |-> "admin_active"]

\* A store that is edited, then activated but for its last write: the agents are back
\* on the code, and seeding makes that the active version (135-163, 169-194).
ASSUME HalfActivated ==
  LET store == PromptAfter(<<Request("seed"), Request("create"), Activate(2), Request("create")>>)
      half == Archived(store, 9)
  IN  /\ get_runtime_prompt(store, TRUE).content = "edited"
      /\ get_runtime_prompt(half, TRUE) = [content |-> Code, source |-> "code_default"]
      /\ get_runtime_prompt(ensure_default_versions(half, 10), TRUE) = [content |-> Code, source |-> "admin_active"]

\* Two activations at once may leave both active; the agents follow the one that began
\* later, even where the other one was written last.
ASSUME ActivationsOverlap ==
  LET store == PromptAfter(<<Request("create"), Request("create"), Request("create")>>)
      both == Archived(Archived(store, 4), 5)
      end == PutActive(PutActive(both, 2, store[2], 5), 1, store[1], 4)
  IN  ActiveVersions(end) = {1, 2} /\ get_active_prompt(end) = 2

\* Every request to follow the code adds a draft while the active version differs, and
\* the draft that follows the hundred and first replaces it, active or not (55-72, 116-129).
ASSUME DraftsOverwrite ==
  LET drafts(n) == [i \in 1..n |-> [status |-> "draft", content |-> Code, created |-> i, updated |-> i]]
      active == activate_version([drafts(101) EXCEPT ![101].content = "edited"], 101, 102)
      next == create_version(active, "draft", 103)
  IN  /\ \A n \in {0, 5, 99, 100} : create_version_from_code_default(drafts(n), n + 1) = drafts(n + 1)
      /\ get_runtime_prompt(active, TRUE).content = "edited"
      /\ DOMAIN next = 1..101 /\ ActiveVersions(next) = {}
=============================================================================
