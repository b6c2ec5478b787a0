---------------------------- MODULE EscalationRetry ----------------------------
(***************************************************************************)
(* SupportEscalation with calls that fail a bounded number of times and    *)
(* agents who retry: "Each operation is safe to retry: a step already      *)
(* applied is skipped" (domain-support/src/escalation-workflow.ts).        *)
(***************************************************************************)
EXTENDS SupportEscalation

CONSTANT MaxFailures   \* bound: how often a session stops halfway

ASSUME MaxFailures \in Nat

VARIABLE failures

retryVars == <<vars, failures>>

RetryInit == Init /\ failures = 0

RetryNext ==
  \/ /\ \/ \E s \in Sessions : Begin(s) \/ Continue(s)
        \/ \E n \in Tenants, p \in Partners \cup {None} : PartnerChanges(n, p)
     /\ UNCHANGED failures
  \/ /\ failures < MaxFailures
     /\ failures' = failures + 1
     /\ \E s \in Sessions : Abandon(s)

\* A stopped ticket that tickets still wait on owes them its outcome.
OwesHandBack(t) == Status(t) \in STOPPED_STATUSES /\ Inbound(t) # {}

\* The agent's retry: the same operation again, on a ticket that owes it.
Retry(t) ==
  /\ UNCHANGED failures
  /\ \E s \in Sessions :
       IF Status(t) = "resolved"
       THEN StartResolve(s, t) /\ OwesHandBack(t)
       ELSE StartReturn(s, t) /\ OwesHandBack(t)

\* An awaited call returns or fails, and an agent whose call left a hand-back
\* undone calls again when it can.
Fairness ==
  /\ \A s \in Sessions : WF_retryVars(Continue(s) /\ UNCHANGED failures)
  /\ \A t \in Tickets : SF_retryVars(Retry(t))

RetrySpec == RetryInit /\ [][RetryNext]_retryVars /\ Fairness

\* A hand-back that stopped between the save and the gateway call is made up
\* for: whoever waits on a resolved or closed ticket is answered, or the ticket
\* is reopened.
HandBackCompletes ==
  \A t \in Tickets : OwesHandBack(t) ~> ~OwesHandBack(t)
===============================================================================
