------------------------- MODULE MCWebhookDelivery -------------------------
(* Instances of WebhookDelivery for TLC. *)
EXTENDS WebhookDelivery

CONSTANTS f1, f2, d1, d2, h1

Scenario(fs, ds, test, was, n, batch, tries, errs) ==
    [fanouts |-> fs, deliverers |-> ds, testable |-> test, seeded |-> was,
     seq |-> n, batch |-> batch, attempts |-> tries, errors |-> errs]

\* Two fan-outs that overlap over a longer log, and two delivery loops that
\* overlap, from the very first start, with retries.
MCScenarios ==
    {Scenario({f1, f2}, {}, {h1}, TRUE, 2, 2, 1, 1),
     Scenario({f1}, {d1, d2}, {}, FALSE, 1, 1, 2, 1)}

\* Two fan-outs at the first start; one loop of each, without failures.
MCSeeding == {Scenario({f1, f2}, {}, {}, FALSE, 1, 1, 1, 0)}
MCOneOfEach == {Scenario({f1}, {d1}, {}, TRUE, 1, 1, 1, 0)}
=============================================================================
