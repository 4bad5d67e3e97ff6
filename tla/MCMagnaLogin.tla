------------------------------ MODULE MCMagnaLogin ------------------------------
(* Two logins of one page that share its popup: the first asks for one      *)
(* credential twice, the second for it once.                                *)
EXTENDS MagnaLoginSafety

CONSTANTS first, second, passport, popup
SharedPopup == [r \in Request |-> popup]
TwoAndOne == [r \in Request |-> IF r = first THEN <<passport, passport>> ELSE <<passport>>]
=============================================================================
