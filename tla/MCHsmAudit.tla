----------------------------- MODULE MCHsmAudit -----------------------------
(* Instances of HsmAudit for TLC. *)
EXTENDS HsmAudit

CONSTANTS server, cli

Scenario(procs, steal, rivals, odd, errs) ==
    [procs |-> procs, steal |-> steal, rivals |-> rivals, odd |-> odd, errors |-> errs]

\* The server beside an operator's commands, with and without a lease that
\* expires under its holder, two operators who provision at a time, a command
\* that this build does not know, and the server alone.
MCScenarios ==
    {Scenario({server, cli}, FALSE, FALSE, {}, 1),
     Scenario({server, cli}, TRUE, FALSE, {}, 0),
     Scenario({server, cli}, FALSE, TRUE, {}, 0),
     Scenario({server}, FALSE, FALSE, {3}, 1),
     Scenario({server}, FALSE, FALSE, {}, 2)}

\* The server alone, without failures: the entry counter wraps.
MCAlone == {Scenario({server}, FALSE, FALSE, {}, 0)}
=============================================================================
