--------------------------- MODULE TaskOperations ---------------------------
(***************************************************************************)
(* What is around an applied task: the delivery that requests it, its          *)
(* outcome, the evidence recorded of it.                                      *)
(***************************************************************************)
EXTENDS Webhooks, ImpactFeedback

operationsVars == <<task, webhookVars, feedbackVars>>

OperationsInit == OutcomesInit /\ WebhooksInit /\ FeedbackInit

OperationsNext ==
    \/ OutcomesStep /\ UNCHANGED <<webhookVars, feedbackVars>>
    \/ WebhooksStep /\ UNCHANGED feedbackVars
    \/ FeedbackStep /\ UNCHANGED webhookVars

OperationsSpec == OperationsInit /\ [][OperationsNext]_operationsVars
=============================================================================
