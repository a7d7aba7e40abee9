---------------------------- MODULE ProviderCalls ----------------------------
(***************************************************************************)
(* A structured completion: ProviderRouter goes through its chain             *)
(* (app/llm/router.py), the clients map what comes over the wire to errors of   *)
(* the application (openai_client.py, provider_http.py and what is built on     *)
(* it), and the job that asked is retried or not by the error that is left       *)
(* (app/jobs/retry.py).  Handlers that call one client are a chain of one.       *)
(***************************************************************************)
EXTENDS Integers, Sequences, SequencesExt

CONSTANTS Provider,       \* ProviderName
          SdkProvider,    \* those called by the OpenAI SDK, the others by httpx
          Fallbacks,      \* chains the router may be configured with
          MaxCost,        \* max_estimated_cost
          MaxAttempts,    \* of the job
          BaseDelay,      \* job_retry_base_seconds
          MaxDelay        \* job_retry_max_seconds

ASSUME ProviderAssumption ==
    /\ SdkProvider \subseteq Provider /\ "none" \notin Provider
    /\ \A f \in Fallbacks : f \in Seq(Provider)
    /\ MaxCost \in Nat /\ MaxAttempts \in Nat \ {0}
    /\ BaseDelay \in Nat /\ MaxDelay \in Nat

VARIABLES configured,  \* providers with a client in the registry
          chain,       \* what the router goes through
          tried,       \* what the candidates answered, in order
          outcome,     \* of the call: a provider or an error
          attempt,     \* of the job
          delays       \* seconds the job was put back for

callVars == <<configured, chain, tried, outcome, attempt, delays>>

(* What may come of a request: no answer, a refusal, an answer without text, one    *)
(* that is not JSON, or not of the schema asked for.                             *)
Refusal == {"timeout", "network", "429", "5xx", "4xx"}

Wire == Refusal \cup {"not_json", "empty", "schema", "ok"}

Error == {"TIMEOUT", "UNAVAILABLE", "RATE_LIMITED", "REJECTED", "RESPONSE", "CAPABILITY",
          "UNMAPPED"}

RefusalError(wire) ==
    CASE wire = "timeout" -> "TIMEOUT"
      [] wire = "network" -> "UNAVAILABLE"
      [] wire = "429" -> "RATE_LIMITED"
      [] wire = "5xx" -> "UNAVAILABLE"
      [] wire = "4xx" -> "REJECTED"

(* post_json and the checks of what it returns.                                 *)
HttpError(wire) == IF wire \in Refusal THEN RefusalError(wire) ELSE "RESPONSE"

(* The SDK parses; what it raises when it cannot is nobody's error.              *)
SdkError(wire) ==
    IF wire \in Refusal THEN RefusalError(wire)
    ELSE IF wire = "empty" THEN "REJECTED" ELSE "UNMAPPED"

ErrorOf(p, wire) == IF p \in SdkProvider THEN SdkError(wire) ELSE HttpError(wire)

Transient == {"TIMEOUT", "UNAVAILABLE", "RATE_LIMITED"}

(* base_seconds * 2 ** (attempt_count - 1).                                      *)
Backoff[n \in 1..MaxAttempts] == IF n = 1 THEN BaseDelay ELSE 2 * Backoff[n - 1]

RetryDelay(n) == IF Backoff[n] <= MaxDelay THEN Backoff[n] ELSE MaxDelay

Pending == [kind |-> "none"]

Fails(e) == outcome' = [kind |-> "error", error |-> e]

-----------------------------------------------------------------------------
FirstFour(c) == SubSeq(c, 1, IF Len(c) > 4 THEN 4 ELSE Len(c))

(* The provider asked for, then the fallbacks that differ.                      *)
Candidates(p, fallback) ==
    LET upTo[n \in 0..Len(fallback)] ==
          IF n = 0 THEN <<p>>
          ELSE IF fallback[n] = p THEN upTo[n - 1] ELSE Append(upTo[n - 1], fallback[n])
    IN upTo[Len(fallback)]

(* Four in all.                                                                *)
Chain(p, fallback) == FirstFour(Candidates(p, fallback))

CallsInit ==
    /\ configured \in SUBSET Provider
    /\ \E p \in Provider, f \in Fallbacks : chain = Chain(p, f)
    /\ tried = <<>>
    /\ outcome = Pending
    /\ attempt = 1
    /\ delays = <<>>

Candidate == chain[Len(tried) + 1]

(* registry.validate raises out of the loop.                                    *)
NotConfigured ==
    /\ outcome = Pending /\ Len(tried) < Len(chain)
    /\ Candidate \notin configured
    /\ Fails("CAPABILITY")
    /\ UNCHANGED <<configured, chain, tried, attempt, delays>>

Answers(result) ==
    /\ outcome = Pending /\ Len(tried) < Len(chain)
    /\ Candidate \in configured
    /\ tried' = Append(tried, result)
    /\ UNCHANGED <<configured, chain, attempt, delays>>

(* An answer that costs more than it may is an error of the rate-limit kind.     *)
Succeeds ==
    /\ Answers("OK")
    /\ outcome' = [kind |-> "result", provider |-> Candidate,
                   fallbackFrom |-> IF Len(tried) > 0 THEN chain[1] ELSE "none"]

(* Mutant: any error sends the router to the next candidate.                     *)
FailingGoesOn(e) ==
    /\ Answers(e)
    /\ IF Len(tried) + 1 < Len(chain) THEN UNCHANGED outcome ELSE Fails(e)

(* Errors the router knows are kept and the next candidate is asked, any other    *)
(* is raised; after the last one the error kept last is.                         *)
Failing(e) ==
    /\ Answers(e)
    /\ IF e \in Transient /\ Len(tried) + 1 < Len(chain)
       THEN UNCHANGED outcome ELSE Fails(e)

CandidateAnswers ==
    \E wire \in Wire, cost \in 0..(MaxCost + 1) :
        IF wire # "ok" THEN cost = 0 /\ Failing(ErrorOf(Candidate, wire))
        ELSE IF cost > MaxCost THEN Failing("RATE_LIMITED") ELSE Succeeds

(* classify_job_error, schedule_retry: the next attempt calls again.             *)
JobRetries ==
    /\ outcome.kind = "error" /\ outcome.error \in Transient
    /\ attempt < MaxAttempts
    /\ attempt' = attempt + 1
    /\ delays' = Append(delays, RetryDelay(attempt))
    /\ tried' = <<>> /\ outcome' = Pending
    /\ UNCHANGED <<configured, chain>>

CallsStep == NotConfigured \/ CandidateAnswers \/ JobRetries

-----------------------------------------------------------------------------
(* PROPERTIES                                                               *)

Ended == outcome # Pending

FirstOnce(c) == \A i \in 2..Len(c) : c[i] # c[1]

(* The provider asked for is not asked again as a fallback (which other one is       *)
(* twice in the chain, the operator decides), and nobody after an answer; a result    *)
(* is that of the first candidate that gave one it may, and says so; an error is    *)
(* that of the last one asked, all before it having failed for the moment only;     *)
(* a job is tried again only for such an error, later every time but at most the     *)
(* maximum (ProviderRouter.complete_structured, retry_delay_seconds).              *)
CallsAreRouted ==
    /\ FirstOnce(chain)
    /\ \A i \in 1..Len(tried) : tried[i] \notin Transient => i = Len(tried) /\ Ended
    /\ outcome.kind = "result" =>
         /\ tried[Len(tried)] = "OK" /\ outcome.provider = chain[Len(tried)]
         /\ (outcome.fallbackFrom = "none") = (outcome.provider = chain[1])
    /\ outcome.kind = "error" =>
         IF outcome.error = "CAPABILITY" THEN chain[Len(tried) + 1] \notin configured
         ELSE /\ outcome.error = tried[Len(tried)]
              /\ outcome.error \in Transient => Len(tried) = Len(chain)
    /\ Len(delays) = attempt - 1
    /\ \A i \in 1..Len(delays) : delays[i] <= MaxDelay /\ (i > 1 => delays[i - 1] <= delays[i])
=============================================================================
