------------------------------ MODULE Services ------------------------------
(***************************************************************************)
(* Services that share no state: a provider is asked, a file or a document is      *)
(* analysed, recorded cases are scored, alerts are reconciled, prompt versions are   *)
(* managed.  A behaviour is one call of one of the first four, or the life of the    *)
(* alerts or of a template, the others being idle.                             *)
(***************************************************************************)
EXTENDS ProviderCalls, CsvReports, DocumentFindings, EvaluationScores, Alerts, PromptVersions

VARIABLE service    \* whose behaviour this is

servicesVars == <<service, callVars, csvVars, docVars, scoreVars, alertVars, promptVars>>

CallsIdle == /\ configured = {} /\ chain = <<>> /\ tried = <<>>
             /\ outcome = Pending /\ attempt = 1 /\ delays = <<>>

CsvIdle == columns = {} /\ rows = <<>> /\ csvPhase = "idle" /\ report = Missing

DocIdle == lines = <<>> /\ docPhase = "idle" /\ result = [type |-> "none"]

ScoresIdle == subject = "idle" /\ scored = <<>> /\ verdict = [kind |-> "idle"]

ServicesInit ==
    /\ service \in {"provider", "csv", "document", "scores", "alerts", "prompts"}
    /\ IF service = "provider" THEN CallsInit ELSE CallsIdle
    /\ IF service = "csv" THEN CsvInit ELSE CsvIdle
    /\ IF service = "document" THEN DocInit ELSE DocIdle
    /\ IF service = "scores" THEN ScoresInit ELSE ScoresIdle
    /\ AlertsInit /\ PromptInit

ServicesNext ==
    \/ CallsStep /\ UNCHANGED <<service, csvVars, docVars, scoreVars, alertVars, promptVars>>
    \/ CsvStep /\ UNCHANGED <<service, callVars, docVars, scoreVars, alertVars, promptVars>>
    \/ DocStep /\ UNCHANGED <<service, callVars, csvVars, scoreVars, alertVars, promptVars>>
    \/ ScoresStep /\ UNCHANGED <<service, callVars, csvVars, docVars, alertVars, promptVars>>
    \/ /\ service = "alerts" /\ AlertsStep
       /\ UNCHANGED <<service, callVars, csvVars, docVars, scoreVars, promptVars>>
    \/ /\ service = "prompts" /\ PromptNext
       /\ UNCHANGED <<service, callVars, csvVars, docVars, scoreVars, alertVars>>

ServicesSpec == ServicesInit /\ [][ServicesNext]_servicesVars
=============================================================================
