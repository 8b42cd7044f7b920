------------------------------ MODULE OpenAiSmsMC ------------------------------
(* Instances of OpenAiSms for TLC.                                            *)
EXTENDS OpenAiSms

One == {1}
Two == {1, 2}
================================================================================
