------------------------------ MODULE Webhooks ------------------------------
(***************************************************************************)
(* Signed deliveries from n8n (app/integrations/n8n/service.py): a campaign  *)
(* with its workflow and job, or a file with its applied task and job, and    *)
(* the receipt, inserted in one transaction after the receipts were looked     *)
(* up by idempotency key and by signature without a lock.                     *)
(*                                                                         *)
(* A delivery is a request in flight; n8n repeats it as often as it likes,     *)
(* under its own key or another.  A body that is too long, a key that is, a     *)
(* signature that is wrong or out of its window are refused before anything    *)
(* is read and are not modelled.                                              *)
(***************************************************************************)
EXTENDS TaskOutcomes

CONSTANTS Delivery,    \* requests in flight
          Key,         \* idempotency keys
          Signature,   \* signed bodies, each with its timestamp
          Campaign     \* campaign ids

ASSUME WebhooksAssumption == Task \cap Campaign = {}   \* ids are UUIDs

VARIABLES receipts,    \* rows of n8n_webhook_receipts
          campaigns,   \* rows of campaigns, whoever created them
          runs,        \* jobs n8n:<key>:workflow, each with its campaign
          body,        \* [Signature -> the campaign the body names]
          call         \* [Delivery -> where the request is]

webhookVars == <<receipts, campaigns, runs, body, call>>

FileEndpoint == {"data-analysis", "document-processing"}

Endpoint == {"campaigns"} \cup FileEndpoint

Receipt == [key : Key, signature : Signature, endpoint : Endpoint, resource : Task \cup Campaign]

Unsent == [pc |-> "idle"]

WebhooksInit ==
    /\ receipts = {} /\ runs = {}
    /\ campaigns \in SUBSET Campaign
    /\ body \in [Signature -> Campaign]
    /\ call = [d \in Delivery |-> Unsent]

Goes(d, c) == call' = [call EXCEPT ![d] = c]

RefuseDelivery(d) == Goes(d, Unsent)

(* n8n has the answer: accepted, or accepted as a duplicate.                  *)
Answer(d, resource) ==
    Goes(d, [pc |-> "answered", key |-> call[d].key, resource |-> resource])

Known(k) == {r \in receipts : r.key = k}

Replayed(s) == {r \in receipts : r.signature = s}

Send(d) ==
    /\ call[d].pc = "idle"
    /\ \E e \in Endpoint, k \in Key, s \in Signature :
         Goes(d, [pc |-> "key", endpoint |-> e, key |-> k, signature |-> s])
    /\ UNCHANGED <<receipts, campaigns, runs, body>>

(* Only a file's endpoint is compared with the one the key was used for.      *)
LookUpKey(d) ==
    /\ call[d].pc = "key"
    /\ IF Known(call[d].key) = {} THEN Goes(d, [call[d] EXCEPT !.pc = "signature"])
       ELSE \E r \in Known(call[d].key) :
              IF call[d].endpoint \in FileEndpoint /\ r.endpoint # call[d].endpoint
              THEN RefuseDelivery(d) ELSE Answer(d, r.resource)
    /\ UNCHANGED <<receipts, campaigns, runs, body>>

LookUpSignature(d) ==
    /\ call[d].pc = "signature"
    /\ IF Replayed(call[d].signature) # {} THEN RefuseDelivery(d)
       ELSE Goes(d, [call[d] EXCEPT !.pc = "payload"])
    /\ UNCHANGED <<receipts, campaigns, runs, body>>

(* The uniqueness of key and signature is checked by the insert.              *)
Conflicts(d) ==
    \E r \in receipts : r.key = call[d].key \/ r.signature = call[d].signature

AddReceipt(d, resource) ==
    receipts' = receipts \cup {[key |-> call[d].key, signature |-> call[d].signature,
                                endpoint |-> call[d].endpoint, resource |-> resource]}

(* Campaign, workflow, job if asked for, receipt: all of them or, when one     *)
(* hits a constraint, none.                                                   *)
AcceptCampaign(d) ==
    LET c == body[call[d].signature] IN
    /\ call[d].pc = "payload" /\ call[d].endpoint = "campaigns"
    /\ IF c \in campaigns \/ Conflicts(d)
       THEN RefuseDelivery(d) /\ UNCHANGED <<receipts, campaigns, runs>>
       ELSE /\ campaigns' = campaigns \cup {c}
            /\ runs' \in {runs, runs \cup {<<call[d].key, c>>}}
            /\ AddReceipt(d, c)
            /\ Answer(d, c)
    /\ UNCHANGED <<task, body>>

(* Mutant: the service that creates the task commits it.                      *)
AcceptFileCommitsTask(d) ==
    /\ call[d].pc = "payload" /\ call[d].endpoint \in FileEndpoint
    /\ \E t \in {x \in Task : task[x] = "NONE"} :
         /\ task' = [task EXCEPT ![t] = "OPEN"]
         /\ IF Conflicts(d) THEN RefuseDelivery(d) /\ UNCHANGED receipts
            ELSE AddReceipt(d, t) /\ Answer(d, t)
    /\ UNCHANGED <<campaigns, runs, body>>

AcceptFile(d) ==
    /\ call[d].pc = "payload" /\ call[d].endpoint \in FileEndpoint
    /\ IF Conflicts(d) THEN RefuseDelivery(d) /\ UNCHANGED <<task, receipts>>
       ELSE \E t \in {x \in Task : task[x] = "NONE"} :
              /\ task' = [task EXCEPT ![t] = "OPEN"]
              /\ AddReceipt(d, t)
              /\ Answer(d, t)
    /\ UNCHANGED <<campaigns, runs, body>>

(* A campaign comes by the API as well; n8n gives up; a request dies.          *)
CreateCampaign(c) ==
    /\ c \notin campaigns
    /\ campaigns' = campaigns \cup {c}
    /\ UNCHANGED <<task, receipts, runs, body, call>>

GiveUp(d) ==
    /\ call[d].pc # "idle"
    /\ RefuseDelivery(d)
    /\ UNCHANGED <<receipts, campaigns, runs, body>>

WebhooksStep ==
    \/ \E d \in Delivery :
         \/ (Send(d) \/ LookUpKey(d) \/ LookUpSignature(d) \/ GiveUp(d)) /\ UNCHANGED task
         \/ AcceptCampaign(d) \/ AcceptFile(d)
    \/ \E c \in Campaign : CreateCampaign(c)

-----------------------------------------------------------------------------
(* PROPERTIES                                                               *)

(* However deliveries are repeated and overlap: a key and a signed body have    *)
(* been accepted once, what a delivery creates (task, workflow's job) is there   *)
(* if and only if its receipt is, and whoever was told a resource was told the    *)
(* one its key stands for (N8NService.accept_campaign, accept_file_task).        *)
DeliveredOnce ==
    /\ \A r, q \in receipts : r.key = q.key \/ r.signature = q.signature \/ r.resource = q.resource
                              => r = q
    /\ \A t \in Task : task[t] # "NONE" <=> \E r \in receipts : r.resource = t
    /\ \A r \in receipts : r.endpoint = "campaigns" => r.resource = body[r.signature]
                                                       /\ r.resource \in campaigns
    /\ \A j \in runs : \E r \in receipts : r.key = j[1] /\ r.resource = j[2]
    /\ \A d \in Delivery : call[d].pc = "answered" =>
         \E r \in receipts : r.key = call[d].key /\ r.resource = call[d].resource
=============================================================================
