--------------------------- MODULE PaymentAgreementMC ---------------------------
(* Instances of PaymentAgreement for TLC.                                      *)
EXTENDS PaymentAgreement

CONSTANTS n1, n2, n3
================================================================================
