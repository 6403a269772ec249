----------------------------- MODULE MCEvalGate -----------------------------
(* The evaluation gate with its bounds given by the configuration.         *)
EXTENDS EvalGate
=============================================================================
