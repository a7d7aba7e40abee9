--------------------------- MODULE PromptVersions ---------------------------
(***************************************************************************)
(* One managed prompt template and its versions                            *)
(* (app/prompt_management/service.py, app/repositories/prompt_repository.py) *)
(* under managers whose requests overlap, and the tasks that resolve the    *)
(* active version.                                                          *)
(*                                                                         *)
(* A request first reads the version it is about, without a lock, and then  *)
(* locks the template; the version stays in the session's identity map as   *)
(* it was first read, so everything it decides after the lock is decided on *)
(* the status of before.  The template is first read with the lock.  A      *)
(* request is two steps here: the read, and the transaction under the lock. *)
(***************************************************************************)
EXTENDS Naturals, Sequences, FiniteSets

CONSTANTS Manager,         \* requests of managers and admins that overlap
          VersionLimit,    \* bound of the model: versions created
          ActivationLimit  \* bound of the model: the template's version counter

ASSUME PromptAssumption == VersionLimit \in Nat /\ ActivationLimit \in Nat \ {0}

VARIABLES counter,   \* prompt_templates.version, 0 while there is no template
          versions,  \* the versions of the template, by number
          requests,  \* [Manager -> the request it is in the middle of]
          announced, \* numbers whose PROMPT_VERSION_ACTIVATED event is in the outbox
          resolved   \* numbers that tasks took as their prompt

promptVars == <<counter, versions, requests, announced, resolved>>

VersionStatus == {"DRAFT", "TESTING", "APPROVED", "ACTIVE", "RETIRED"}

(* approved: approved_by is set; submitted: it has been TESTING.              *)
Version == [status : VersionStatus, submitted : BOOLEAN, approved : BOOLEAN]

(* What a request asks for, the number it is about, the status it has read,   *)
(* and the template version its client expects.                              *)
Request == [asks : {"CREATE", "TESTING", "APPROVED", "RETIRED", "ACTIVE"},
            number : 1..VersionLimit,
            seen : VersionStatus,
            expected : 1..ActivationLimit]

NoRequest == [asks |-> "nothing"]

PromptTypeOK ==
    /\ counter \in 0..ActivationLimit
    /\ versions \in Seq(Version) /\ Len(versions) <= VersionLimit
    /\ requests \in [Manager -> Request \cup {NoRequest}]
    /\ announced \subseteq 1..VersionLimit
    /\ resolved \subseteq 1..VersionLimit

-----------------------------------------------------------------------------
(* The statuses from which a request may lead to the one it asks for.         *)
From(asks) ==
    CASE asks = "TESTING"  -> {"DRAFT"}
      [] asks = "APPROVED" -> {"TESTING"}
      [] asks = "RETIRED"  -> {"ACTIVE"}
      [] asks = "ACTIVE"   -> {"APPROVED", "RETIRED"}

Draft == [status |-> "DRAFT", submitted |-> FALSE, approved |-> FALSE]

(* get_active_version: one row at most, by the partial unique index.          *)
Active == {n \in DOMAIN versions : versions[n].status = "ACTIVE"}

Begin(m, asks, n, seen) ==
    requests' = [requests EXCEPT ![m] =
                   [asks |-> asks, number |-> n, seen |-> seen, expected |-> counter]]

Answered(m) == requests' = [requests EXCEPT ![m] = NoRequest]

Transitioned(r, asks) ==
    [r EXCEPT !.status = asks,
              !.submitted = @ \/ asks = "TESTING",
              !.approved = @ \/ asks = "APPROVED"]

-----------------------------------------------------------------------------
PromptInit ==
    /\ counter = 0
    /\ versions = <<>>
    /\ requests = [m \in Manager |-> NoRequest]
    /\ announced = {}
    /\ resolved = {}

(* A second template of the same slug is refused by the unique constraint.    *)
CreateTemplate ==
    /\ counter = 0
    /\ counter' = 1
    /\ UNCHANGED <<versions, requests, announced, resolved>>

(* create_version: next_version is read without a lock.                       *)
ReadNextVersion(m) ==
    /\ counter > 0 /\ requests[m] = NoRequest
    /\ Len(versions) < VersionLimit
    /\ Begin(m, "CREATE", Len(versions) + 1, "DRAFT")
    /\ UNCHANGED <<counter, versions, announced, resolved>>

(* The insert; a number taken meanwhile is an IntegrityError.                 *)
InsertVersion(m) ==
    /\ requests[m].asks = "CREATE"
    /\ versions' = IF requests[m].number \in DOMAIN versions
                   THEN versions ELSE Append(versions, Draft)
    /\ Answered(m)
    /\ UNCHANGED <<counter, announced, resolved>>

(* Mutant: nobody asks whether the status read leads to the target.           *)
ReadVersionUnguarded(m, asks, n) ==
    /\ requests[m] = NoRequest
    /\ n \in DOMAIN versions
    /\ Begin(m, asks, n, versions[n].status)
    /\ UNCHANGED <<counter, versions, announced, resolved>>

(* transition, activate and rollback up to the lock.  A request whose         *)
(* expected_status is not the one read, or does not lead to its target, is a   *)
(* conflict now as well as later; the template version its client expects is   *)
(* at best the current one.                                                    *)
ReadVersion(m, asks, n) ==
    /\ requests[m] = NoRequest
    /\ n \in DOMAIN versions
    /\ versions[n].status \in From(asks)
    /\ Begin(m, asks, n, versions[n].status)
    /\ UNCHANGED <<counter, versions, announced, resolved>>

(* Under the template's lock, on the status read before it.                   *)
Transition(m) ==
    /\ requests[m].asks \in {"TESTING", "APPROVED", "RETIRED"}
    /\ versions' = [versions EXCEPT ![requests[m].number] =
                      Transitioned(@, requests[m].asks)]
    /\ Answered(m)
    /\ UNCHANGED <<counter, announced, resolved>>

(* Mutant: the template was read before it was locked, so the version that is *)
(* compared is the one of before.                                             *)
ActivateStale(m) ==
    LET n == requests[m].number
        retired == [i \in DOMAIN versions |->
                      IF i \in Active /\ i # n
                      THEN [versions[i] EXCEPT !.status = "RETIRED"] ELSE versions[i]]
    IN  /\ requests[m].asks = "ACTIVE"
        /\ requests[m].expected < ActivationLimit
        /\ versions' = [retired EXCEPT ![n].status = "ACTIVE"]
        /\ counter' = requests[m].expected + 1
        /\ announced' = announced \cup {n}
        /\ Answered(m)
        /\ UNCHANGED resolved

(* Under the lock: the template must be as expected, the active version is    *)
(* retired first, and the event has one key per version, so activating a       *)
(* version again adds no event.                                                *)
Activate(m) ==
    LET n == requests[m].number
        retired == [i \in DOMAIN versions |->
                      IF i \in Active /\ i # n
                      THEN [versions[i] EXCEPT !.status = "RETIRED"] ELSE versions[i]]
    IN  /\ requests[m].asks = "ACTIVE"
        /\ requests[m].expected = counter
        /\ counter < ActivationLimit
        /\ versions' = [retired EXCEPT ![n].status = "ACTIVE"]
        /\ counter' = counter + 1
        /\ announced' = announced \cup {n}
        /\ Answered(m)
        /\ UNCHANGED resolved

(* The template changed: a conflict.  Any request may also die on the way.    *)
Refuse(m) ==
    /\ requests[m] # NoRequest
    /\ Answered(m)
    /\ UNCHANGED <<counter, versions, announced, resolved>>

(* A task takes the active version and keeps it.                              *)
Resolve ==
    /\ \E n \in Active : resolved' = resolved \cup {n}
    /\ UNCHANGED <<counter, versions, requests, announced>>

PromptNext ==
    \/ CreateTemplate
    \/ Resolve
    \/ \E m \in Manager :
         \/ ReadNextVersion(m) \/ InsertVersion(m)
         \/ \E asks \in {"TESTING", "APPROVED", "RETIRED", "ACTIVE"}, n \in 1..VersionLimit :
              ReadVersion(m, asks, n)
         \/ Transition(m) \/ Activate(m) \/ Refuse(m)

PromptSpec == PromptInit /\ [][PromptNext]_promptVars

-----------------------------------------------------------------------------
(* PROPERTIES                                                               *)

(* "Activation and rollback require the latest expected_template_version; a   *)
(* successful change increments that version so concurrent stale requests      *)
(* receive 409" (docs/prompt-management-guide.md): of the requests that expect  *)
(* one template version only one activates, it leaves one active version       *)
(* whatever stale transitions wrote meanwhile, and between activations the      *)
(* active version may disappear but not change.                                *)
ActivationsSerialize ==
    [][IF counter' = counter
       THEN Active' \subseteq Active
       ELSE counter' = counter + 1 /\ (counter > 0 => \E n \in 1..VersionLimit : Active' = {n})]_promptVars

(* No overwritten status smuggles in a prompt: every version that is approved, *)
(* active or retired, or that a task ever took, was submitted for testing and  *)
(* approved by a manager (PromptService.transition, activate and resolve).     *)
OnlyApprovedRuns ==
    /\ PromptTypeOK
    /\ \A n \in DOMAIN versions :
          versions[n].status \in {"APPROVED", "ACTIVE", "RETIRED"} \/ n \in resolved
          => versions[n].submitted /\ versions[n].approved

(* "Prompt version changed; refresh and retry" (prompt_management/service.py): *)
(* the active version is replaced or retired, and no stale request puts it     *)
(* back to an earlier status.  The code does not have this property: see      *)
(* Known behaviour in the README.                                             *)
StaleTransitionsRefused ==
    [][\A n \in Active : versions'[n].status \in {"ACTIVE", "RETIRED"}]_promptVars
=============================================================================
