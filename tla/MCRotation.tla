----------------------------- MODULE MCRotation -----------------------------
(* Small instances of Rotation.                                            *)
EXTENDS Rotation

CONSTANTS p1, p2, p3

Scenario(rotators, monitors, retirers, issuers, created, issued, failures) ==
    [rotators |-> rotators, monitors |-> monitors, retirers |-> retirers,
     issuers |-> issuers, holds |-> issued = 1, cas |-> created, leaves |-> issued,
     errors |-> failures]

\* Two rotations, one of them the monitor's, overlap a retirement; one
\* rotation and one retirement overlap a client, with two leaves, then with
\* one that is put on hold and an error.
MCScenarios == {Scenario({p1}, {p2}, {p3}, {}, 3, 0, 1),
                Scenario({p1}, {}, {p2}, {p3}, 3, 2, 0),
                Scenario({p1}, {}, {p2}, {p3}, 3, 1, 1)}

\* One operator does everything, one call after the other; only two rotations
\* and a retirement overlap.
MCSequential == {Scenario({p1}, {}, {p1}, {p1}, 3, 1, 0)}
MCLonger == {Scenario({p1}, {}, {p1}, {p1}, 4, 1, 0)}
MCOverlap == {Scenario({p1}, {p2}, {p3}, {}, 3, 0, 1)}
=============================================================================
