----------------------------- MODULE MCPipeline -----------------------------
(***************************************************************************)
(* A small instance of the way from a booking to its mails.                *)
(***************************************************************************)
EXTENDS PipelineProperties

CONSTANT b1

MCBookings == {b1}
=============================================================================
