------------------------- MODULE MarketSources -------------------------
(***************************************************************************)
(* The sources of market events and what an administrator does to them:   *)
(* MarketEventAdminService on the source documents of Elasticsearch        *)
(* (MarketEventRepository) and on the file of credentials                   *)
(* (MarketEventCredentialStore).  Requests are handled by threads, of one   *)
(* process or of two, and both stores are read and written as a whole.     *)
(***************************************************************************)
EXTENDS Integers, Sequences, FiniteSets

CONSTANTS Sources,      \* the sources that are seeded
          Keyed,        \* those that require an API key
          Managed,      \* those the administrators work on
          Admins,       \* threads that serve administrators
          MaxRequests   \* bound: requests of administrators, and for synchronisations

ASSUME SourcesAssumption == Keyed \subseteq Sources /\ Managed \subseteq Sources /\ MaxRequests \in Nat

VARIABLES src,      \* source documents: enabled, result of the last check
          keys,     \* the sources with a credential in the file
          admin,    \* the request a thread is serving
          asked,    \* history: the last switch that was stored
          clashed,  \* history: two rewrites of one document overlapped
          spent     \* requests so far

sourceVars == <<src, keys, admin, asked, clashed, spent>>

Idle == [at |-> "idle"]

(* seed_sources: what is missing is added with its defaults, every source *)
(* is enabled                                                              *)
SourcesInit ==
    /\ src = [s \in Sources |-> [enabled |-> TRUE, check |-> "never"]]
    /\ keys = {}
    /\ admin = [a \in Admins |-> Idle]
    /\ asked = [s \in Sources |-> TRUE]
    /\ clashed = FALSE
    /\ spent = 0

(* _check_ready *)
Ready(s) == src[s].enabled /\ (s \in Keyed => s \in keys)

Ask(a, request) ==
    /\ admin[a].at = "idle" /\ spent < MaxRequests
    /\ admin' = [admin EXCEPT ![a] = request] /\ spent' = spent + 1
    /\ UNCHANGED <<src, keys, asked, clashed>>

(* PATCH of a source: only the switch is told apart from other fields *)
Patch(a, s) ==
    \E on \in BOOLEAN : Ask(a, [at |-> "read", s |-> s, set |-> [enabled |-> on]])

(* test_source: a source that was disabled when it was read is skipped *)
Test(a, s) ==
    Ask(a, IF src[s].enabled THEN [at |-> "health", s |-> s]
           ELSE [at |-> "read", s |-> s, set |-> [check |-> "SKIPPED"]])

(* health_check of the provider reads the source again, then goes out *)
HealthCheck(a) ==
    /\ admin[a].at = "health"
    /\ \E result \in IF Ready(admin[a].s) THEN {"SUCCESS", "FAILED", "SKIPPED"}
                     ELSE {"SKIPPED"} :
          admin' = [admin EXCEPT ![a] = [at |-> "read", s |-> admin[a].s,
                                         set |-> [check |-> result]]]
    /\ UNCHANGED <<src, keys, asked, clashed, spent>>

(* MarketEventRepository.update_source: the search ... *)
ReadSource(a) ==
    /\ admin[a].at = "read"
    /\ admin' = [admin EXCEPT ![a] = [at |-> "write", s |-> admin[a].s, set |-> admin[a].set,
                                      copy |-> src[admin[a].s]]]
    /\ UNCHANGED <<src, keys, asked, clashed, spent>>

\* Mutant: what is not set falls back to the seeded default.
ApplyToDefaults(doc, set) ==
    [f \in DOMAIN doc |-> IF f \in DOMAIN set THEN set[f] ELSE IF f = "enabled" THEN TRUE ELSE "never"]

(* existing.update(updates) *)
Apply(doc, set) == [f \in DOMAIN doc |-> IF f \in DOMAIN set THEN set[f] ELSE doc[f]]

(* ... and the write of the whole document *)
WriteSource(a) ==
    LET r == admin[a] IN
    /\ r.at = "write"
    /\ src' = [src EXCEPT ![r.s] = Apply(r.copy, r.set)]
    /\ asked' = IF "enabled" \in DOMAIN r.set THEN [asked EXCEPT ![r.s] = r.set.enabled] ELSE asked
    /\ clashed' = (clashed \/ \E b \in Admins \ {a} : admin[b].at = "write" /\ admin[b].s = r.s)
    /\ admin' = [admin EXCEPT ![a] = Idle]
    /\ UNCHANGED <<keys, spent>>

(* save_credential and delete_credential read the list of the file ... *)
OpenKeys(a, s) ==
    \E keep \in BOOLEAN : Ask(a, [at |-> "keys", s |-> s, keep |-> keep, copy |-> keys])

(* ... and replace the file *)
SaveKeys(a) ==
    LET r == admin[a] IN
    /\ r.at = "keys"
    /\ keys' = IF r.keep THEN r.copy \union {r.s} ELSE r.copy \ {r.s}
    /\ admin' = [admin EXCEPT ![a] = Idle]
    /\ UNCHANGED <<src, asked, clashed, spent>>

AdminStep(a) == HealthCheck(a) \/ ReadSource(a) \/ WriteSource(a) \/ SaveKeys(a)

SourcesNext ==
    \E a \in Admins :
        \/ \E s \in Managed : Patch(a, s) \/ Test(a, s)
        \/ \E s \in Managed \intersect Keyed : OpenKeys(a, s)
        \/ AdminStep(a)

(***************************************************************************)
(* An administrator's switch stays as it was last stored, although a        *)
(* connection test that began before it stores its own result, in the same  *)
(* document, after it (test_source): the document is read again after the   *)
(* test.  Two rewrites that overlap between search and write lose one.      *)
(***************************************************************************)
SwitchKept == ~clashed => \A s \in Sources : src[s].enabled = asked[s]
=============================================================================
