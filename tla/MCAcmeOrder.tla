---------------------------- MODULE MCAcmeOrder ----------------------------
(***************************************************************************)
(* AcmeOrder for TLC.  Requests, orders and the DNS identifiers d1 and d2   *)
(* are interchangeable; m1 is an email identifier.                         *)
(***************************************************************************)
EXTENDS AcmeOrder, TLC

CONSTANTS d1, d2, m1

Symmetry == Permutations(Procs) \cup Permutations(Orders) \cup Permutations({d1, d2})

\* One DNS name, one order, one of each row; of the options, only deactivation.
Plain == [ids |-> {d1, d2}, names |-> 1, orders |-> 1, star |-> FALSE, preauth |-> FALSE,
          deactivate |-> TRUE, drops |-> FALSE, authzs |-> 1, certs |-> 1, lapses |-> 0]

\* An order for two names, none given up; a STAR order that is renewed; one with
\* expiries and an end-date; two e-mail orders that compete for one
\* pre-authorization; a store that fails on writes.
MCScenarios ==
    {[Plain EXCEPT !.names = 2, !.authzs = 2, !.deactivate = FALSE],
     [Plain EXCEPT !.star = TRUE, !.certs = 2],
     [Plain EXCEPT !.star = TRUE, !.lapses = 1],
     [Plain EXCEPT !.ids = {m1}, !.orders = 2, !.preauth = TRUE, !.certs = 0],
     [Plain EXCEPT !.drops = TRUE]}

MCStar == {[Plain EXCEPT !.star = TRUE]}
MCTwice == {[Plain EXCEPT !.certs = 2]}
MCPlain == {Plain}
=============================================================================
