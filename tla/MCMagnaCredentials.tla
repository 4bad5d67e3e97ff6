--------------------------- MODULE MCMagnaCredentials ---------------------------
(* Requests named by what they ask for. *)
EXTENDS MagnaCredentialsSafety

CONSTANTS passport, again, renewal, instagram
Kinds == [a \in Attempt |->
    IF a = renewal THEN "renewal" ELSE IF a = instagram THEN "instagram" ELSE "passport"]
=============================================================================
