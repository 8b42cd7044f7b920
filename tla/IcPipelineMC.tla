------------------------------ MODULE IcPipelineMC ------------------------------
(* Instances of IcPipeline for TLC.                                            *)
EXTENDS IcPipeline

CONSTANTS a, b, e1, e2, e3
================================================================================
