----------------------------- MODULE MCEventBus -----------------------------
(* The bus with two emitters and two subscribers, small enough for TLC.    *)
EXTENDS EventBus
=============================================================================
