------------------------------- MODULE Alerts -------------------------------
(***************************************************************************)
(* Operational alerts (app/operations/alerts.py, alert_rules.py): a             *)
(* reconciliation reads which conditions hold, opens an alert for each in a       *)
(* transaction of its own and resolves, in a last one, what it did not see;        *)
(* operators acknowledge and resolve alerts under the row's lock.  A failed        *)
(* workflow and a failed action each enqueue a reconciliation, so two may run       *)
(* at a time.  An alert is one per condition and hour; how often it occurred and     *)
(* who acted on it are left out.                                               *)
(***************************************************************************)
EXTENDS Naturals, FiniteSets

CONSTANTS Condition,    \* (type, resource) pairs of the managed types
          Reconciler,   \* reconciliations in progress
          Operator,     \* operators' requests in progress
          Limit,        \* rows of a kind a reconciliation looks at
          LastHour      \* bound: hours that pass

ASSUME AlertsAssumption == Limit \in Nat \ {0} /\ LastHour \in Nat

VARIABLES holds,      \* conditions that hold now
          alert,      \* [Condition \X hours -> status of the row, or NONE]
          hour,
          recon,      \* [Reconciler -> [pc, seen, todo]]
          operator    \* [Operator -> [pc, row, read, does]]

alertVars == <<holds, alert, hour, recon, operator>>

Rows == Condition \X (0..LastHour)

ActiveStatus == {"OPEN", "ACKNOWLEDGED"}

NoRow == [pc |-> "idle"]

Resting == [pc |-> "idle", seen |-> {}, todo |-> {}]

(* Rows under the lock of an operator's transaction.                            *)
Locked == {operator[o].row : o \in {p \in Operator : operator[p].pc = "locked"}}

AlertsInit ==
    /\ holds = {} /\ hour = 0
    /\ alert = [a \in Rows |-> "NONE"]
    /\ recon = [r \in Reconciler |-> Resting]
    /\ operator = [o \in Operator |-> NoRow]

(* Jobs die, actions fail and queues fill up and empty.                         *)
ConditionChanges ==
    /\ \E c \in Condition : holds' = IF c \in holds THEN holds \ {c} ELSE holds \cup {c}
    /\ UNCHANGED <<alert, hour, recon, operator>>

HourPasses ==
    /\ hour < LastHour /\ hour' = hour + 1
    /\ UNCHANGED <<holds, alert, recon, operator>>

(* The latest so many; the queries of one read are one snapshot here.            *)
ReadConditions(r) ==
    /\ recon[r].pc = "idle"
    /\ \E seen \in SUBSET holds :
          /\ Cardinality(seen) = IF Cardinality(holds) > Limit THEN Limit ELSE Cardinality(holds)
          /\ recon' = [recon EXCEPT ![r] = [pc |-> "opening", seen |-> seen, todo |-> seen]]
    /\ UNCHANGED <<holds, alert, hour, operator>>

(* Insert, or on conflict reopen: the upsert waits for the row.                  *)
OpenAlert(r) ==
    /\ recon[r].pc = "opening"
    /\ \E c \in recon[r].todo :
          /\ <<c, hour>> \notin Locked
          /\ alert' = [alert EXCEPT ![<<c, hour>>] = "OPEN"]
          /\ recon' = [recon EXCEPT ![r].todo = @ \ {c}]
    /\ UNCHANGED <<holds, hour, operator>>

(* ActiveStatus rows nobody has locked whose condition it did not see.                 *)
ResolveCleared(r) ==
    /\ recon[r].pc = "opening" /\ recon[r].todo = {}
    /\ alert' = [a \in Rows |-> IF alert[a] \in ActiveStatus /\ a \notin Locked /\ a[1] \notin recon[r].seen
                                THEN "RESOLVED" ELSE alert[a]]
    /\ recon' = [recon EXCEPT ![r] = Resting]
    /\ UNCHANGED <<holds, hour, operator>>

ReconcilerDies(r) ==
    /\ recon[r].pc # "idle"
    /\ recon' = [recon EXCEPT ![r] = Resting]
    /\ UNCHANGED <<holds, alert, hour, operator>>

(* Mutant: the row is read without its lock.                                    *)
ReadAlertUnlocked(o) ==
    /\ operator[o].pc = "idle"
    /\ \E a \in Rows, what \in {"ACKNOWLEDGED", "RESOLVED"} :
          /\ alert[a] # "NONE"
          /\ operator' = [operator EXCEPT ![o] =
                            [pc |-> "unlocked", row |-> a, read |-> alert[a], does |-> what]]
    /\ UNCHANGED <<holds, alert, hour, recon>>

(* _required_for_update.                                                      *)
ReadAlert(o) ==
    /\ operator[o].pc = "idle"
    /\ \E a \in Rows \ Locked, what \in {"ACKNOWLEDGED", "RESOLVED"} :
          /\ alert[a] # "NONE"
          /\ operator' = [operator EXCEPT ![o] =
                            [pc |-> "locked", row |-> a, read |-> alert[a], does |-> what]]
    /\ UNCHANGED <<holds, alert, hour, recon>>

(* What is resolved cannot be acknowledged and is not resolved again; a request     *)
(* that dies writes nothing.                                                   *)
WriteAlert(o) ==
    /\ operator[o].pc # "idle"
    /\ \/ operator[o].read # "RESOLVED" /\ alert' = [alert EXCEPT ![operator[o].row] = operator[o].does]
       \/ UNCHANGED alert
    /\ operator' = [operator EXCEPT ![o] = NoRow]
    /\ UNCHANGED <<holds, hour, recon>>

AlertsStep ==
    \/ ConditionChanges \/ HourPasses
    \/ \E r \in Reconciler : ReadConditions(r) \/ OpenAlert(r) \/ ResolveCleared(r) \/ ReconcilerDies(r)
    \/ \E o \in Operator : ReadAlert(o) \/ WriteAlert(o)

-----------------------------------------------------------------------------
(* PROPERTIES                                                               *)

(* Whatever operators and reconciliations do at a time, an alert that was resolved  *)
(* comes back as OPEN and only for a condition a reconciliation has just seen        *)
(* hold, never as ACKNOWLEDGED (AlertService.acknowledge, open, resolve_cleared).    *)
ResolvedComesBackOpen ==
    [][\A a \in Rows :
         alert[a] = "RESOLVED" /\ alert'[a] # "RESOLVED"
         => /\ alert'[a] = "OPEN" /\ a[2] = hour
            /\ \E r \in Reconciler : a[1] \in recon[r].seen]_alertVars
=============================================================================
