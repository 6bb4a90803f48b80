------------------------------- MODULE Rollout -------------------------------
(***************************************************************************)
(* What one run of a job promises about its hosts, whatever the goroutines *)
(* do: a host is PENDING, then RUNNING or finished without having run, and *)
(* a finished host keeps its status.  At most Concurrency hosts run at a   *)
(* time and no host starts once MaxFailures hosts have failed              *)
(* (README.md: "after that many failed hosts, no new host starts").        *)
(* Runner implements this specification.                                   *)
(***************************************************************************)
EXTENDS Integers, FiniteSets

CONSTANTS
  Hosts,        \* the hosts of the run
  Concurrency,  \* how many hosts may run at the same time
  MaxFailures   \* failed hosts after which no host is started; 0 or less = no limit

VARIABLES
  status,       \* status[h]: where host h is in the run
  cancelled     \* the user interrupted the run

vars == <<status, cancelled>>

Final == {"SUCCESS", "FAILED", "SKIPPED", "CANCELLED"}

Status == {"PENDING", "RUNNING"} \cup Final

In(s) == {h \in Hosts : status[h] = s}

LimitReached == MaxFailures > 0 /\ Cardinality(In("FAILED")) >= MaxFailures

Init ==
  /\ status = [h \in Hosts |-> "PENDING"]
  /\ cancelled = FALSE

\* A host starts: a slot is free and the failure limit is not reached.
Start(h) ==
  /\ status[h] = "PENDING"
  /\ Cardinality(In("RUNNING")) < Concurrency
  /\ ~LimitReached
  /\ status' = [status EXCEPT ![h] = "RUNNING"]
  /\ UNCHANGED cancelled

\* A running host ends; only an interrupted run cancels hosts.
End(h, s) ==
  /\ status[h] = "RUNNING"
  /\ s = "CANCELLED" => cancelled
  /\ status' = [status EXCEPT ![h] = s]
  /\ UNCHANGED cancelled

\* A host is left out because too many others failed.
Skip(h) ==
  /\ status[h] = "PENDING"
  /\ LimitReached
  /\ status' = [status EXCEPT ![h] = "SKIPPED"]
  /\ UNCHANGED cancelled

\* A host is left out because the run was interrupted.
CancelPending(h) ==
  /\ status[h] = "PENDING"
  /\ cancelled
  /\ status' = [status EXCEPT ![h] = "CANCELLED"]
  /\ UNCHANGED cancelled

Cancel ==
  /\ cancelled' = TRUE
  /\ UNCHANGED status

Next ==
  \/ Cancel
  \/ \E h \in Hosts :
       \/ Start(h)
       \/ \E s \in {"SUCCESS", "FAILED", "CANCELLED"} : End(h, s)
       \/ Skip(h)
       \/ CancelPending(h)

Spec == Init /\ [][Next]_vars

=============================================================================
