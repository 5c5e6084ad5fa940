---------------------------- MODULE MCModbusClient ----------------------------
(* Small instances of ModbusClient.                                        *)
EXTENDS ModbusClient

Ask(fn, count) == [fn |-> fn, count |-> count]

\* A read of more coils than a byte holds, and a write; the poll thread reads
\* a 32-bit variable.
MCRequests == {Ask("coils", 9), Ask("write", 1)}
MCMappings == <<Ask("holding", 2)>>

\* Four is the byte count of two registers.
MCHighBytes == {4}
MCLines == BOOLEAN
=============================================================================
