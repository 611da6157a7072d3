---------------------------- MODULE MCVerifyChurn ---------------------------
(***************************************************************************)
(* Model-checking instance of VerifyChurn: one signature of each kind the  *)
(* walk tells apart, two that fail verification (so that a walk can go on  *)
(* past one of them), at most three referrers at once.                     *)
(***************************************************************************)
EXTENDS VerifyChurn, TLC

MCKind == ("v" :> "valid") @@ ("i1" :> "invalid") @@ ("i2" :> "invalid")
          @@ ("m" :> "metaMismatch") @@ ("e" :> "fetchError")
          @@ ("n" :> "nilOutcome")

MCSigs == DOMAIN MCKind

=============================================================================
