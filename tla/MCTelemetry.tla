------------------------------ MODULE MCTelemetry ------------------------------
(* Telemetry with two registers, values of one byte and of two on the wire, and *)
(* a reply with one register only.                                              *)
EXTENDS Telemetry

MCFull == {<<5, 300>>}
MCReply == {<<5, 300>>, <<300>>}

=============================================================================
