--------------------------- MODULE MCInboundCall ---------------------------
(* One inbound call, with at most one ACK, one CANCEL and one BYE.         *)
EXTENDS InboundCall

=============================================================================
