------------------------- MODULE MagnaVerificationSafety -------------------------
(* What the verification API promises of everything it mints and answers.   *)
EXTENDS MagnaVerification

(* Whatever files page and server were started from, a credential is minted *)
(* at the deployment its holder asked, for the root of that deployment's    *)
(* profile and scope (service.ts:960-997, 1046-1189).                       *)
IssuedWhereAsked == \A n \in notes :
    LET asked == ask[n.request].config IN
    /\ n.issuer = asked.issuer
    /\ Passport(n.request) => n.root = Root(asked)

(* The end of a passport credential follows from the day of its proof: no   *)
(* clock, delay or repeated request lets an old proof open a new month, and *)
(* none outlives the passport (service.ts:937-958, passport-issuance:318).  *)
ValidityFollowsProof == \A n \in notes : Passport(n.request) =>
    /\ n.until <= proof[n.request].date + Staleness + Validity
    /\ n.until <= Expiry

(* One rooted passport for a root at an issuer, whichever of two handlers   *)
(* simulated first, and one note for a renewal or an Instagram request that *)
(* was delivered twice (service.ts:1071-1088, 1252-1260, 1302-1310).        *)
MintedOnce == \A m, n \in notes :
    /\ m.issuer = n.issuer /\ m.mode = "rooted" /\ n.mode = "rooted" /\ m.root = n.root
       /\ {KindOf[m.request], KindOf[n.request]} = {"issue"} => m = n
    /\ m.request = n.request /\ KindOf[m.request] # "issue" => m = n

(* A redirect login is verified only on an assertion made for it, from a    *)
(* code read once, in time (session-code-store.ts:8-19, redirect.ts:70-91). *)
RedirectsAreBound ==
    /\ \A x, y \in reads : x.code = y.code => x = y
    /\ \A x \in reads : x.at <= x.expires
    /\ \A q \in Login : dapp[q] = "verified" => \E x \in reads : x.login = q /\ x.by = q
=============================================================================
