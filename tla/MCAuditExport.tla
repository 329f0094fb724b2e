---------------------------- MODULE MCAuditExport ----------------------------
(* Instances of AuditExport for TLC. *)
EXTENDS AuditExport

CONSTANTS r1, r2

\* Two exporters that overlap, one anchor job beside two replicas that append,
\* and two anchor jobs that overlap.
MCScenarios ==
    {[writers |-> {r1}, exporters |-> {r1, r2}, anchorers |-> {}],
     [writers |-> {r1, r2}, exporters |-> {}, anchorers |-> {r1}],
     [writers |-> {r1}, exporters |-> {}, anchorers |-> {r1, r2}]}
=============================================================================
