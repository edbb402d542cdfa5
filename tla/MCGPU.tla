------------------------------- MODULE MCGPU -------------------------------
(* A GPU with frames of three lines. *)
EXTENDS GemDroidGPU
=============================================================================
