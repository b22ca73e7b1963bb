-------------------------- MODULE MCUsagePipeline --------------------------
(* The metering pipeline for TLC: its constants are plain numbers. *)
EXTENDS UsagePipeline
=============================================================================
