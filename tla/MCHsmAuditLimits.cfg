\* Claims that TLC refutes, one at a time: exchange the INVARIANT.
\* ForgottenIsStored: an acknowledgement that reaches a device which was reset since
\*   the fetch frees entries of the new log, which nothing has stored.
\* SinkIsACopy: trimWritten drops what is numbered behind the last entry of the
\*   file without comparing it, so a file that outlives a reset misses entries; and
\*   the first record after a torn line is appended to it and cannot be read back.
\* WrittenOnce: each process knows only the entries it wrote itself, and a failed
\*   flush leaves the position behind the records.
\* TailCoversAcknowledged: UpdateTail is unconditional, so the slower of two
\*   drains that share a stolen lease moves the tail back.
\* AcknowledgedIsKept, with Modulus = 6, MaxHead = 5 and MaxEpoch = 1: past half
\*   the counter a process whose LogFile is behind takes new entries for old ones.
SPECIFICATION Spec
CONSTANTS
    server = server
    cli = cli
    Scenarios <- MCScenarios
    Modulus = 16
    Ring = 2
    MaxHead = 3
    MaxEpoch = 2
CHECK_DEADLOCK FALSE
INVARIANT TailCoversAcknowledged
