---------------------------- MODULE MCLifecycle -----------------------------
(* A small instance of Lifecycle for TLC: two launches without an          *)
(* application, one launch with two applications, and two launches with    *)
(* one application.                                                        *)
EXTENDS Lifecycle

CONSTANTS d1, d2, a1, a2

\* A complete file, one without a logger, one without a protocol, and a short PathMax.
MCConfigurations ==
  {[log |-> TRUE, ops |-> TRUE, fits |-> TRUE],
   [log |-> FALSE, ops |-> TRUE, fits |-> TRUE],
   [log |-> TRUE, ops |-> FALSE, fits |-> TRUE],
   [log |-> TRUE, ops |-> TRUE, fits |-> FALSE]}

Bound(calls_, requests, processes) ==
  [k \in Kinds |-> CASE k = "system" -> calls_ [] k = "store" -> requests [] k = "kill" -> processes]

\* The store fails often enough to use up the retries of both bucket requests.
Startups == {Bound(2, 0, 1), Bound(0, 4, 1)}
Meetings == {Bound(1, 0, 0), Bound(0, 0, 1)}
MCFaultBounds == Startups \cup Meetings

Cast(daemons, applications) ==
  /\ pc = [d \in Daemons |-> IF d \in daemons THEN "off" ELSE "failed"]
  /\ apc = [a \in Applications |-> IF a \in applications THEN "unborn" ELSE "dead"]

MCInit ==
  /\ LifecycleInit
  /\ \/ Cast({d1, d2}, {}) /\ faults \in Startups
     \/ /\ Cast({d1}, {a1, a2}) \/ Cast({d1, d2}, {a1})
        /\ faults \in Meetings /\ bucket = "own"

MCSpec == MCInit /\ [][LifecycleNext]_vars /\ Fairness
=============================================================================
