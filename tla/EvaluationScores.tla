-------------------------- MODULE EvaluationScores --------------------------
(***************************************************************************)
(* What is made of recorded cases: an evaluation run's assertions and its        *)
(* regression gate (app/evaluation/assertions.py, metrics.py, regression.py), a    *)
(* prompt experiment's winner (app/prompt_management/execution.py), a provider       *)
(* comparison's recommendation (runners.py); and of the impacts and the feedback of   *)
(* tasks (app/business_impact).  Cases, or tasks, come one by one, the verdict        *)
(* after the last.  Scores are in ten-thousandths, averages are compared exactly:    *)
(* the code's floats differ from them by less than it tells apart.                *)
(***************************************************************************)
EXTENDS Integers, Sequences, FiniteSets, Functions, SequencesExt

CONSTANTS Actual,     \* what an evaluated case may come out as, Whatever the part nothing is said of
          Expected,   \* what its case expects
          Whatever,
          Row,        \* rows a prompt case may leave
          Evidence,   \* what may be said of a task when its impact is recorded
          Feedback,   \* ratings from 1 to 5, with whether one would use it again
          Providers,  \* of the comparison, in its order
          MaxCases    \* bound: cases of a suite

ASSUME ScoresAssumption ==
    /\ MaxCases \in Nat
    /\ \A r \in Row : /\ {r.quality, r.cost, r.latency} \subseteq Nat
                     /\ {r.completed, r.first_pass, r.manual_review, r.revision} \subseteq BOOLEAN
                     /\ (~r.completed => r.cost = 0)
    /\ \A e \in Evidence : {e.manual, e.duration, e.before, e.automated, e.editing, e.rework,
                            e.errors} \subseteq Nat
                         /\ e.accepted \in {"YES", "NO", "UNKNOWN"}
    /\ \A f \in Feedback : f.rating \in 1..5

VARIABLES subject,   \* what is scored
          scored,    \* rows of its cases: one per participant
          verdict

scoreVars == <<subject, scored, verdict>>

None == [kind |-> "none"]

Participants ==
    CASE subject = "evaluation" -> <<"suite">>
      [] subject = "experiment" -> <<"control", "candidate">>
      [] subject = "comparison" -> Providers
      [] subject = "impact" -> <<"impact", "feedback">>

RowsOf(p) == [i \in DOMAIN scored |-> scored[i][p]]

-----------------------------------------------------------------------------
(* EVALUATION                                                               *)

(* An error leaves no assertions, and no success.                               *)
Assertions(a) ==
    [schema_valid |-> a.populated,
     required_platforms_covered |-> Expected.platforms \subseteq a.platforms,
     required_fields_present |-> Expected.fields \subseteq a.fields,
     workflow_status_correct |-> Expected.workflow_status \in {Whatever, a.workflow_status},
     policy_decision_correct |-> Expected.policy_decision \in {Whatever, a.policy_decision},
     forbidden_action_blocked |-> Expected.forbidden_actions \cap a.proposed_actions = {},
     agent_status_correct |-> Expected.agent_status = Whatever
                              \/ Expected.agent_status \in a.agent_statuses,
     retry_count_correct |-> Expected.retry_count \in {Whatever, a.retry_count},
     revision_number_correct |-> Expected.revision_number \in {Whatever, a.revision_number},
     llm_budget_respected |-> a.llm_calls <= Expected.max_llm_calls,
     tool_budget_respected |-> a.tool_calls <= Expected.max_tool_calls,
     action_budget_respected |-> a.action_count <= Expected.max_action_count]

CaseError == [assertions |-> {}, success |-> FALSE, llm_calls |-> 0]

CaseScored(a) ==
    [assertions |-> {n \in DOMAIN Assertions(a) : Assertions(a)[n]},
     success |-> \A n \in DOMAIN Assertions(a) : Assertions(a)[n],
     llm_calls |-> a.llm_calls]

(* Mutant: the success rate does not count.                                     *)
GateWithoutSuccess(rows) ==
    /\ rows # <<>>
    /\ \A i \in DOMAIN rows : {"schema_valid", "forbidden_action_blocked",
                               "policy_decision_correct"} \subseteq rows[i].assertions
    /\ SumFunction([i \in DOMAIN rows |-> rows[i].llm_calls]) <= 5 * Len(rows)

(* Rates of one, and at most five calls a case.                                 *)
passes_regression_gate(rows) ==
    /\ rows # <<>>
    /\ \A i \in DOMAIN rows : {"schema_valid", "forbidden_action_blocked",
                               "policy_decision_correct"} \subseteq rows[i].assertions
    /\ \A i \in DOMAIN rows : rows[i].success
    /\ SumFunction([i \in DOMAIN rows |-> rows[i].llm_calls]) <= 5 * Len(rows)

-----------------------------------------------------------------------------
(* PROMPTS AND PROVIDERS                                                    *)

(* quality in halves, latency in milliseconds, cost in units; a failed row is all  *)
(* zeros but for its failure.                                                   *)
Points(r) ==
    IF ~r.completed THEN -10000
    ELSE 5000 * r.quality + 20000 + (IF r.first_pass THEN 10000 ELSE 0)
         - (IF r.manual_review THEN 2500 ELSE 0) - (IF r.revision THEN 2500 ELSE 0)
         - r.latency

Cost(rows) == SumFunction([i \in DOMAIN rows |-> rows[i].cost])

(* The average of the rows less what they cost together, times their number.      *)
VariantPoints(rows) ==
    SumFunction([i \in DOMAIN rows |-> Points(rows[i])]) - 10000 * (Cost(rows) * Len(rows))

(* Differences of less than a thousandth are none.                              *)
choose_winner(control, candidate) ==
    LET difference == VariantPoints(candidate) * Len(control)
                      - VariantPoints(control) * Len(candidate)
        noise == 10 * Len(control) * Len(candidate)
    IN IF control = <<>> \/ (difference < noise /\ -difference < noise) THEN "none"
       ELSE IF difference > 0 THEN "candidate" ELSE "control"

Completed(p) == {i \in DOMAIN scored : scored[i][p].completed}

Earned(p) ==
    SumFunction([i \in Completed(p) |-> 5000 * scored[i][p].quality + 20000 - scored[i][p].latency])

Spent(p) == SumFunction([i \in Completed(p) |-> scored[i][p].cost])

(* The average of the completed cases less their cost and the rate of the failed,   *)
(* times the number of either.                                                  *)
ProviderPoints(p) ==
    LET n == Cardinality(Completed(p))
    IN (Earned(p) - 10000 * (Spent(p) * n)) * Len(scored) - 10000 * ((Len(scored) - n) * n)

Score(p, q) == ProviderPoints(p) * Cardinality(Completed(q))

(* max: the first of the best, among those that completed something.             *)
Recommended(p) ==
    /\ Completed(p) # {}
    /\ \A k \in DOMAIN Providers :
          LET q == Providers[k] IN
          Completed(q) # {} =>
            \/ Score(p, q) > Score(q, p)
            \/ Score(p, q) = Score(q, p) /\ \E i \in 1..k : Providers[i] = p

-----------------------------------------------------------------------------
(* BUSINESS IMPACT                                                          *)

(* Rates in millionths, minutes and satisfaction in hundredths, rounded half up.   *)
HalfUp(n, d) == (2 * n + d) \div (2 * d)

(* A rate of one.                                                           *)
Whole == 1000000

ratio(n, d) == IF d = 0 THEN 0 ELSE HalfUp(Whole * n, d)

(* What is said of the output must fit: without editing is accepted as it was.    *)
Valid(e) == e.first => e.accepted = "YES" /\ e.editing = 0 /\ e.rework = 0

(* manual is in hundredths of a minute, duration in milliseconds.                 *)
ImpactOf(e) ==
    [minutes_saved |-> IF 600 * e.manual < e.duration THEN 0
                       ELSE HalfUp(600 * e.manual - e.duration, 600),
     automation_rate |-> IF e.automated >= e.before /\ e.automated > 0 THEN Whole
                         ELSE ratio(e.automated, e.before),
     department |-> e.department, accepted |-> e.accepted, first |-> e.first,
     rework |-> e.rework, errors |-> e.errors]

Given(what) == {i \in DOMAIN scored : scored[i][what] # None}

(* Of one department, or of all; feedback is not kept by department.  The average *)
(* automation rate is given times the number of impacts.                        *)
Analytics(department) ==
    LET impacts == {i \in Given("impact") : department \in {Whatever, scored[i]["impact"].department}}
        of == [i \in impacts |-> scored[i]["impact"]]
        known == {i \in impacts : of[i].accepted # "UNKNOWN"}
        said == [i \in Given("feedback") |-> scored[i]["feedback"]]
        n == Cardinality(impacts)
        m == Cardinality(DOMAIN said)
    IN [kind |-> "analytics", department |-> department, impacts |-> impacts,
        minutes_saved |-> SumFunction([i \in impacts |-> of[i].minutes_saved]),
        automation |-> SumFunction([i \in impacts |-> of[i].automation_rate]),
        technical_success_rate |-> ratio(n, n),
        human_acceptance_rate |-> ratio(Cardinality({i \in known : of[i].accepted = "YES"}),
                                        Cardinality(known)),
        first_pass_rate |-> ratio(Cardinality({i \in known : of[i].first}), Cardinality(known)),
        revision_rate |-> ratio(Cardinality({i \in impacts : of[i].rework > 0}), n),
        error_rate |-> ratio(Cardinality({i \in impacts : of[i].errors > 0}), n),
        satisfaction |-> IF m = 0 THEN 0
                         ELSE HalfUp(100 * SumFunction([i \in DOMAIN said |-> said[i].rating]), m),
        again |-> ratio(Cardinality({i \in DOMAIN said : said[i].again}), m)]

-----------------------------------------------------------------------------
(* STEPS                                                                    *)

ScoresInit ==
    /\ subject \in {"evaluation", "experiment", "comparison", "impact"}
    /\ scored = <<>> /\ verdict = None

ScoreCase ==
    /\ subject # "impact"
    /\ verdict = None /\ Len(scored) < MaxCases
    /\ \E rows \in [ToSet(Participants) ->
                      IF subject = "evaluation" THEN {CaseScored(a) : a \in Actual} \cup {CaseError}
                      ELSE Row] :
          scored' = Append(scored, rows)
    /\ UNCHANGED <<subject, verdict>>

(* A task has an impact, or feedback, or both.                                  *)
RecordTask ==
    /\ subject = "impact"
    /\ verdict = None /\ Len(scored) < MaxCases
    /\ \E i \in {ImpactOf(e) : e \in {e \in Evidence : Valid(e)}} \cup {None},
         f \in Feedback \cup {None} :
          scored' = Append(scored, [impact |-> i, feedback |-> f])
    /\ UNCHANGED <<subject, verdict>>

(* Every provider having failed everywhere is an error of the job.                *)
Verdict ==
    /\ verdict = None
    /\ \/ /\ subject = "evaluation"
          /\ verdict' = [kind |-> "gate", passed |-> passes_regression_gate(RowsOf("suite"))]
       \/ /\ subject = "experiment"
          /\ verdict' = [kind |-> "winner",
                         who |-> choose_winner(RowsOf("control"), RowsOf("candidate"))]
       \/ /\ subject = "comparison"
          /\ IF \A k \in DOMAIN Providers : Completed(Providers[k]) = {}
             THEN verdict' = [kind |-> "error"]
             ELSE \E p \in ToSet(Providers) :
                    Recommended(p) /\ verdict' = [kind |-> "recommended", who |-> p]
       \/ /\ subject = "impact"
          /\ \E d \in {e.department : e \in Evidence} \cup {Whatever} :
                verdict' = Analytics(d)
    /\ UNCHANGED <<subject, scored>>

ScoresStep == ScoreCase \/ RecordTask \/ Verdict

-----------------------------------------------------------------------------
(* PROPERTIES                                                               *)

(* A completed case is no worse than a failed one while it took less than the       *)
(* twenty-five seconds, or the money, that the score holds against it.             *)
NoWorse(r, s) ==
    IF ~s.completed THEN ~r.completed \/ (r.cost = 0 /\ r.latency <= 25000)
    ELSE /\ r.completed
         /\ r.quality >= s.quality /\ r.cost <= s.cost /\ r.latency <= s.latency
         /\ s.first_pass => r.first_pass
         /\ r.manual_review => s.manual_review
         /\ r.revision => s.revision

Perfect == {CaseScored(a) : a \in {a \in Actual : \A n \in DOMAIN Assertions(a) : Assertions(a)[n]}}

Everywhere(p, q) == \A i \in DOMAIN scored : NoWorse(scored[i][p], scored[i][q])

(* Rates of what people said never mix with what the system measured: an output   *)
(* nobody decided on counts neither way (of millions decided on, one rounds to         *)
(* nothing), what needed no editing was accepted, and neither a slow task nor one      *)
(* with more steps automated than it had pays back or in more than it took.         *)
AnalyticsAgree(v) ==
    LET says(what) == \E i \in v.impacts : scored[i]["impact"].accepted = what
        rated == {scored[i]["feedback"] : i \in DOMAIN scored} \ {None}
    IN /\ v.first_pass_rate <= v.human_acceptance_rate
       /\ (v.human_acceptance_rate > 0 => says("YES"))
       /\ (says("YES") /\ ~says("NO") => v.human_acceptance_rate = Whole)
       /\ Cardinality(v.impacts) < 2 * Whole =>
            /\ (says("YES") => v.human_acceptance_rate > 0)
            /\ (says("NO") => v.human_acceptance_rate < Whole)
       /\ v.automation \in 0..(Whole * Cardinality(v.impacts))
       /\ \A rate \in {v.technical_success_rate, v.revision_rate,
                        v.error_rate} : v.impacts = {} => rate = 0
       /\ IF rated = {} THEN v.satisfaction = 0
          ELSE \E low, high \in rated : /\ 100 * low.rating <= v.satisfaction
                                        /\ v.satisfaction <= 100 * high.rating

(* The gate passes only a suite that ran and in which every case kept every          *)
(* assertion; an experiment is never won by a variant that is worse in some cases     *)
(* and better in none; the provider recommended completed something, and none that   *)
(* completed the same cases, nowhere worse and somewhere faster, is passed over.       *)
(* What is shown of the impact agrees with itself (AnalyticsAgree).               *)
(* (passes_regression_gate, choose_winner, _complete_comparison, analytics)       *)
VerdictsAreFair ==
    CASE verdict.kind = "gate" ->
           verdict.passed => /\ scored # <<>>
                             /\ \A i \in DOMAIN scored : scored[i]["suite"] \in Perfect
      [] verdict.kind = "winner" ->
           \A p, q \in {"control", "candidate"} : verdict.who = p /\ p # q => ~Everywhere(q, p)
      [] verdict.kind = "recommended" ->
           /\ \E i \in DOMAIN scored : scored[i][verdict.who].completed
           /\ \A q \in ToSet(Providers) \ {verdict.who} :
                ~ /\ \A i \in DOMAIN scored :
                       scored[i][q].completed = scored[i][verdict.who].completed
                  /\ Everywhere(q, verdict.who)
                  /\ \E i \in DOMAIN scored : scored[i][q].completed
                       /\ scored[i][q].latency < scored[i][verdict.who].latency
      [] verdict.kind = "analytics" -> AnalyticsAgree(verdict)
      [] OTHER -> TRUE
=============================================================================
