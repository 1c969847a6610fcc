----------------------- MODULE MCSystemServiceBridge -----------------------
(* The instance that TLC checks: two calls with a timeout and one without,  *)
(* the main handler and another window's.                                   *)
EXTENDS SystemServiceBridge
=============================================================================
