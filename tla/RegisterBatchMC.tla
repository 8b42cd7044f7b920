---------------------------- MODULE RegisterBatchMC ----------------------------
(* Instances of RegisterBatch for TLC.                                       *)
EXTENDS RegisterBatch

CONSTANTS n1, n2, n3, n4

FourNumbers == <<n1, n2, n3, n4>>
TwoNumbers  == <<n1, n2>>
================================================================================
