----------------------- MODULE MagnaRecoveryFlowSafety -----------------------
(* What the recovery flow promises to the person recovering. *)
EXTENDS MagnaRecoveryFlow, MagnaRecoveryPortalSafety

(* A record says submitted, and a witness is kept as that of a recovered    *)
(* Passport, only for a recovery that settled on Aztec, whatever crashed,   *)
(* failed, was dropped or was resumed in between.                           *)
RecordsAreTrue ==
    /\ pending.phase = "submitted" => pending.attempt \in consumed
    /\ witnesses \subseteq consumed

(* The page still holds the claim blinds of n, or can still save them. *)
InMemory(n) == tab.attempt = n /\ tab.stage \in {"sending", "settled"}

(* Once the root has moved to the recovered notes, their claim witness is   *)
(* saved or can be finished from the record (passport-recovery-v3-spec.md,  *)
(* 14.14): the page may fail anywhere after the transaction is sent.        *)
RecoveredPassportIsResumable ==
    live # NoAttempt =>
        live \in witnesses \/ pending.attempt = live \/ InMemory(live)

(* The same for a person who starts one recovery only: no crash, failed     *)
(* await, dropped transaction or repeated resume loses its witness.         *)
OnlyRecoveryIsResumable == attempts = 1 => RecoveredPassportIsResumable
=============================================================================
