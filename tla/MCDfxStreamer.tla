---------------------------- MODULE MCDfxStreamer ----------------------------
(* Two payloads, three rows, two readers; counters of three bits.            *)
EXTENDS DfxStreamer

CONSTANTS b0, b1, p0, p1

MCBeats == {b0, b1}
MCPort == {p0, p1}
=============================================================================
