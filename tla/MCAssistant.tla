----------------------------- MODULE MCAssistant -----------------------------
(* Assistant on small instances.                                              *)
EXTENDS Assistant
==============================================================================
