------------------------- MODULE MagnaCredentialsSafety -------------------------
(* What the credential flows of the management page promise the holder.     *)
EXTENDS MagnaCredentials

(* A witness is filed under the wallet whose notes it opens, and only once  *)
(* they are in a block: whatever wallet was opened while the phone, the     *)
(* prover and the API worked (App.tsx:1450-1476, storage.ts:145-165).       *)
WitnessesFollowNotes == \A x \in witness : \E r \in minted :
    /\ r.claims = x.claims
    /\ x = [claims |-> r.claims, owner |-> owner[r.claims], mode |-> x.mode]

(* A flow that reaches its end has left the witness of what it minted: a    *)
(* credential without one is a flow whose page or answer was lost, and      *)
(* nothing that happened beside it took the witness away.                   *)
OnlyLossLosesWitness == \A r \in minted :
    stage[r.claims] \in {"refreshing", "done"}
        => \E x \in witness : x.claims = r.claims /\ x.owner = owner[r.claims]

(* Where passports are rooted, a login offers a credential that is alive    *)
(* whenever the wallet holds one and this browser ever kept its witness,    *)
(* and offers none that is dead: superseded, revoked and converted notes    *)
(* that PXE still lists do not get in the way, and linking keeps the        *)
(* handle's witness (wallet-login.ts:41-141, storage.ts:225-284).           *)
LoginServesHolder == mode = "rooted" => \A w \in Wallet, instagram \in BOOLEAN :
    /\ \A r \in Selectable(w, instagram) : Live(r)
    /\ \A r \in Discovered(w) :
          (/\ Instagram(r) = instagram /\ Live(r)
           /\ \E x \in witness : x.claims = r.claims /\ x.owner = w)
          => Selectable(w, instagram) # {}

(* A passport request whose phone has sent every proof ends, with or        *)
(* without the SDK's result, the API or the page's session: the timer of    *)
(* App.tsx:1377-1389 outlives the request it was set for.                   *)
RequestsEnd == \A a \in {b \in Attempt : KindOf[b] = "passport"} :
    stage[a] = "proved" ~> stage[a] \notin Waiting
=============================================================================
