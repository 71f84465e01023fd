------------------------------ MODULE MCIngest ------------------------------
(* An instance of Ingest for TLC: two series on one connection.            *)
EXTENDS Ingest

CONSTANTS oneMinute, fiveMinutes

MCSeries == <<oneMinute, fiveMinutes>>

=============================================================================
