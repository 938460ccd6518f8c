--------------------------- MODULE MCFlushArbiter ---------------------------
(* Three instructions in flight.                                            *)
EXTENDS FlushArbiter

MCUids == 1..3
=============================================================================
