--------------------------- MODULE MCSecureSession ---------------------------
(* SecureSession on a small instance: who sends how much. *)
EXTENDS SecureSession, TLC

CONSTANTS a, b

Budget == (a :> 4) @@ (b :> 1)
=============================================================================
