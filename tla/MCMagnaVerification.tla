-------------------------- MODULE MCMagnaVerification --------------------------
(* Two deployments, two profiles: what the .env files name changes apart   *)
(* from the manifest.  Requests are named by what they ask for.  A          *)
(* behaviour is about one request and every change around it, about two     *)
(* passports of one person on one deployment, or about redirect logins:     *)
(* these share only the server with the others.  There is one redeployment, *)
(* after it one change of profile, and the root of the development registry *)
(* rotates once.                                                            *)
EXTENDS MagnaVerificationSafety

CONSTANTS passport, again, renewal, instagram, x1
Kinds == [r \in Request |-> IF r = instagram THEN "instagram"
                            ELSE IF r = renewal THEN "renew" ELSE "issue"]
First == [issuer |-> "first", profile |-> "development", scope |-> "onboarding", keys |-> {"k1"}]
Production == [First EXCEPT !.profile = "production", !.keys = {"k1", "k2"}]
Configs == {[c EXCEPT !.issuer = i] : c \in {First, Production}, i \in {"first", "second"}}

VARIABLE about
MCInit ==
    /\ Init /\ page = First /\ trusted["development"] = {x1} /\ trusted["production"] = {x1}
    /\ about \in {{passport}, {renewal}, {instagram}, {passport, again}, {}}
Alone == Cardinality(about) = 1
MCNext ==
    /\ Next /\ UNCHANGED about
    /\ \A r \in Request : ask'[r] # ask[r] => r \in about
    /\ about = {} \/ redirects' = redirects
    /\ Alone \/ <<files', trusted'>> = <<files, trusted>>
    /\ files'.issuer # files.issuer => files.issuer = "first"
    /\ files'.env.profile # files.env.profile =>
          files.env.profile = "development" /\ files.issuer = "second"
    /\ Cardinality(about) = 2 => now' = now
    /\ trusted'["production"] = trusted["production"]
    /\ trusted' # trusted => trusted["development"] = {x1}
MCSpec == MCInit /\ [][MCNext]_<<vars, about>>
=============================================================================
