----------------------- MODULE MagnaVerificationProofs -----------------------
(* Theorems about the verification API.  What a page posts is sealed by the *)
(* proof it posts: no later change of a file, of the server, of a clock or  *)
(* of the registry, and no repeated delivery, mints anything else.          *)
EXTENDS MagnaVerificationSafety, TLAPS

(* The flow of a page only goes forward, and posts only a finished proof. *)
Closed(r) == ask[r].stage \in {"proved", "posted", "issued", "failed"}
Received(r) == job[r].stage # "idle"

Flow(f) ==
    /\ f.stage \in {"asked", "wrapping", "proved", "posted", "issued", "failed"}
    /\ f = [stage |-> f.stage, owner |-> f.owner, mode |-> f.mode, config |-> f.config,
            date |-> 0]
Jobs == [stage : {"idle", "received", "verifying", "trusting", "sent", "done",
                  "refused", "gone"}, try : Nat]

VerificationShape ==
    /\ now \in Nat
    /\ ask = [r \in Request |-> ask[r]] /\ proof = [r \in Request |-> proof[r]]
    /\ \A r \in Request : ask[r] = [stage |-> "idle"] \/ Flow(ask[r])
    /\ \A r \in Request : ask[r].stage = "wrapping" => Passport(r) /\ proof[r].date \in Nat
    /\ job \in [Request -> Jobs]

(* The public inputs of a finished proof bind the deployment of the page    *)
(* that asked, and the root and the end that follow from its profile.       *)
Sealed(r) ==
    /\ Passport(r) =>
          /\ proof[r].root = Root(ask[r].config)
          /\ proof[r].context[2] = ask[r].config.issuer
          /\ proof[r].date \in Nat /\ proof[r].until \in Nat
          /\ proof[r].until <= Expiry
    /\ ~Passport(r) => proof[r].context = <<ask[r].owner, ask[r].config.issuer>>
Fresh(r) == Passport(r) => proof[r].until <= proof[r].date + Staleness + Validity

ProofSealed(r) ==
    /\ Received(r) => Closed(r)
    /\ Received(r) \/ ask[r].stage = "proved" => Sealed(r)
    /\ job[r].stage = "trusting" => Fresh(r)
ProofsSealed == \A r \in Request : ProofSealed(r)

(* A transaction names what the proof of its request named. *)
Covered(t) ==
    /\ t.request \in Request /\ Received(t.request) /\ Fresh(t.request)
    /\ t.issuer = ask[t.request].config.issuer
    /\ t.root = proof[t.request].root /\ t.until = proof[t.request].until
TxCovered == \A t \in pool \cup notes : Covered(t)

VerificationInv == VerificationShape /\ ProofsSealed /\ TxCovered /\ MintedOnce

(* A code is in the map or was read, and names one login. *)
CodesOnce ==
    /\ \A x, y \in codes \cup reads : x.code = y.code => x = y
    /\ \A x \in codes, y \in reads : x.code # y.code
Logins == dapp \in [Login -> {"idle", "away", "stranded", "verified", "failed"}]
RedirectInv == Logins /\ CodesOnce /\ RedirectsAreBound

-----------------------------------------------------------------------------
(* What a step does to one request. *)

Same(r) == ask'[r] = ask[r] /\ proof'[r] = proof[r] /\ job'[r] = job[r]

(* Nothing but the stages, once the server has it. *)
Keeps(r) ==
    /\ Closed(r)' /\ Received(r)'
    /\ ask'[r].config = ask[r].config /\ ask'[r].owner = ask[r].owner
    /\ proof'[r] = proof[r]

(* A request stays sealed, and what was sent for it stays covered. *)
Seals(r) == ProofSealed(r)' /\ (Received(r) => Keeps(r))

LEMMA SameSeals ==
    ASSUME NEW r \in Request, ProofSealed(r), Same(r)
    PROVE  Seals(r)
  BY DEF Seals, Keeps, ProofSealed, Same, Received, Closed, Sealed, Fresh, Passport

(* The flow of one request, its proof and its handler take new values. *)
LEMMA Moved ==
    ASSUME VerificationShape, NEW r \in Request,
           NEW f, Flow(f), ask' = [ask EXCEPT ![r] = f],
           NEW p, proof' = [proof EXCEPT ![r] = p],
           f.stage = "wrapping" => Passport(r) /\ p.date \in Nat,
           NEW j \in Jobs, job' = [job EXCEPT ![r] = j],
           now' = now
    PROVE  /\ VerificationShape'
           /\ ask'[r] = f /\ proof'[r] = p /\ job'[r] = j
           /\ \A q \in Request \ {r} : Same(q)
  <1>1. (now \in Nat)'
    BY DEF VerificationShape
  <1>2. (ask = [q \in Request |-> ask[q]])' /\ (proof = [q \in Request |-> proof[q]])'
    BY DEF VerificationShape
  <1>3. \A q \in Request \ {r} : Same(q)
    BY DEF Same, VerificationShape
  <1>4. ask'[r] = f /\ proof'[r] = p /\ job'[r] = j
    BY DEF VerificationShape
  <1>5. ASSUME NEW q \in Request
        PROVE  /\ (ask[q] = [stage |-> "idle"] \/ Flow(ask[q]))'
               /\ (ask[q].stage = "wrapping" => Passport(q) /\ proof[q].date \in Nat)'
    <2>1. CASE q = r
      BY <2>1, <1>4 DEF Passport
    <2>2. CASE q # r
      BY <2>2, <1>3 DEF VerificationShape, Flow, Same, Passport
    <2> QED
      BY <2>1, <2>2
  <1>6. (job \in [Request -> Jobs])'
    BY DEF VerificationShape
  <1> QED
    BY <1>1, <1>2, <1>3, <1>4, <1>5, <1>6 DEF VerificationShape

LEMMA Unmoved ==
    ASSUME VerificationShape, NEW r \in Request
    PROVE  /\ (proof' = proof => proof' = [proof EXCEPT ![r] = proof[r]])
           /\ (job' = job => job' = [job EXCEPT ![r] = job[r]])
           /\ job[r] \in Jobs
           /\ ask[r].stage # "idle" => Flow(ask[r])
  BY DEF VerificationShape

AtStage(a, s) == [a EXCEPT !.stage = s]
LEMMA WithStage ==
    ASSUME NEW a, Flow(a),
           NEW s \in {"asked", "wrapping", "proved", "posted", "issued", "failed"}
    PROVE  /\ Flow(AtStage(a, s)) /\ AtStage(a, s).stage = s
           /\ AtStage(a, s).owner = a.owner /\ AtStage(a, s).config = a.config
  <1>1. a = [stage |-> a.stage, owner |-> a.owner, mode |-> a.mode, config |-> a.config,
             date |-> 0]
    BY DEF Flow
  <1>2. AtStage(a, s) = [stage |-> s, owner |-> a.owner, mode |-> a.mode,
                         config |-> a.config, date |-> 0]
    BY <1>1 DEF AtStage
  <1> QED
    BY <1>2 DEF Flow

(* A step that moves one request, whose proof stays sealed, seals them all. *)
LEMMA MovedSeals ==
    ASSUME VerificationShape, ProofsSealed, NEW r \in Request, Seals(r),
           \A q \in Request \ {r} : Same(q)
    PROVE  \A q \in Request : Seals(q)
  BY SameSeals DEF ProofsSealed

-----------------------------------------------------------------------------
(* The page. *)

LEMMA ValidUntilIsBounded ==
    ASSUME NEW n \in Nat
    PROVE  ValidUntil(n) \in Nat /\ ValidUntil(n) <= Expiry
  BY VerificationAssumption DEF ValidUntil

LEMMA PageStep ==
    ASSUME VerificationShape, ProofsSealed, NEW r \in Request, Page(r)
    PROVE  VerificationShape' /\ \A q \in Request : Seals(q)
  <1> DEFINE To(s) == AtStage(ask[r], s)
             Stays(s) == /\ ask[r].stage # "idle" /\ now' = now
                         /\ ask' = [ask EXCEPT ![r] = To(s)]
  <1>1. ProofSealed(r) /\ now \in Nat /\ job[r] \in Jobs
    BY Unmoved DEF ProofsSealed, VerificationShape
  <1>2. ASSUME NEW s \in {"wrapping", "proved", "failed", "posted", "issued"}, Stays(s),
               NEW p, s = "wrapping" => Passport(r) /\ p.date \in Nat,
               proof' = [proof EXCEPT ![r] = p],
               NEW j \in Jobs, job' = [job EXCEPT ![r] = j]
        PROVE  /\ VerificationShape' /\ ask'[r].stage = s /\ proof'[r] = p /\ job'[r] = j
               /\ ask'[r].config = ask[r].config /\ ask'[r].owner = ask[r].owner
               /\ (Seals(r) => \A q \in Request : Seals(q))
    <2>1. Flow(ask[r])
      BY <1>2, Unmoved
    <2>2. Flow(To(s)) /\ To(s).stage = s /\ To(s).config = ask[r].config
          /\ To(s).owner = ask[r].owner
      BY <1>2, <2>1, WithStage
    <2>3. ask' = [ask EXCEPT ![r] = To(s)] /\ now' = now
      BY <1>2
    <2> HIDE DEF To, Stays
    <2>4. /\ VerificationShape' /\ ask'[r] = To(s) /\ proof'[r] = p /\ job'[r] = j
          /\ \A q \in Request \ {r} : Same(q)
      BY <1>2, <2>2, <2>3, Moved
    <2> QED
      BY <2>2, <2>4, MovedSeals
  <1>3. /\ proof' = proof => proof' = [proof EXCEPT ![r] = proof[r]]
        /\ job' = job => job' = [job EXCEPT ![r] = job[r]]
    BY Unmoved
  <1>4. CASE Begin(r)
    <2>1. PICK w \in Owner, m \in Modes :
             ask' = [ask EXCEPT ![r] = [stage |-> "asked", owner |-> w, mode |-> m,
                                        config |-> page, date |-> 0]]
      BY <1>4 DEF Begin
    <2> DEFINE f == [stage |-> "asked", owner |-> w, mode |-> m, config |-> page, date |-> 0]
    <2>2. Flow(f) /\ f.stage # "wrapping"
      BY DEF Flow
    <2>3. now' = now /\ ask' = [ask EXCEPT ![r] = f] /\ proof' = proof /\ job' = job
      BY <1>4, <2>1 DEF Begin, world
    <2>4. ~Received(r)
      BY <1>1, <1>4 DEF Begin, ProofSealed, Closed
    <2>9. PICK p, j : p = proof[r] /\ j = job[r]
      OBVIOUS
    <2>7. /\ ask' = [ask EXCEPT ![r] = f] /\ now' = now
          /\ f.stage = "wrapping" => Passport(r) /\ p.date \in Nat
          /\ proof' = [proof EXCEPT ![r] = p]
          /\ job' = [job EXCEPT ![r] = j] /\ j \in Jobs
      BY <1>1, <1>3, <2>2, <2>3, <2>9
    <2> HIDE DEF f
    <2>8. /\ VerificationShape' /\ ask'[r] = f /\ proof'[r] = p /\ job'[r] = j
          /\ \A q \in Request \ {r} : Same(q)
      BY <2>2, <2>7, Moved
    <2>5. /\ VerificationShape' /\ ask'[r] = f /\ proof'[r] = proof[r] /\ job'[r] = job[r]
          /\ \A q \in Request \ {r} : Same(q)
      BY <2>8, <2>9
    <2>6. Seals(r)
      BY <1>1, <2>4, <2>5 DEF Seals, ProofSealed, Received, f
    <2> QED
      BY <2>5, <2>6, MovedSeals
  <1>5. CASE PhoneProves(r)
    <2>1. PICK skew \in Skew, registry \in trusted[ask[r].config.profile] :
             proof' = [proof EXCEPT ![r] = [Committed(r, registry) EXCEPT !.date = now + skew]]
      BY <1>5 DEF PhoneProves
    <2> DEFINE p == [Committed(r, registry) EXCEPT !.date = now + skew]
    <2>2. p.date \in Nat
      BY <1>1, VerificationAssumption DEF Committed
    <2>3. Stays("wrapping") /\ Passport(r) /\ job' = job /\ proof' = [proof EXCEPT ![r] = p]
          /\ ask[r].stage = "asked"
      BY <1>5, <2>1 DEF PhoneProves, world, AtStage
    <2> HIDE DEF p, Stays
    <2>4. /\ VerificationShape' /\ ask'[r].stage = "wrapping" /\ job'[r] = job[r]
          /\ (Seals(r) => \A q \in Request : Seals(q))
      BY <1>1, <1>2, <2>2, <2>3, <1>3
    <2> QED
      BY <1>1, <2>3, <2>4 DEF Seals, ProofSealed, Received, Closed
  <1>6. CASE Wrap(r)
    <2>1. PICK skew \in Skew :
          LET until == ValidUntil(now + skew)
              p == proof[r] IN
          /\ MatchesOuterProof(r, until)
          /\ proof' = [proof EXCEPT ![r] =
                [action |-> p.action, until |-> until, date |-> p.date,
                 root |-> Root(ask[r].config), registry |-> p.registry,
                 profile |-> p.profile, key |-> "none",
                 context |-> Context(p.action, ask[r].config, ask[r].owner, ask[r].mode,
                                     Root(ask[r].config), until, p.registry, p.bound)]]
      BY <1>6 DEF Wrap
    <2> DEFINE until == ValidUntil(now + skew)
               p == [action |-> proof[r].action, until |-> until, date |-> proof[r].date,
                     root |-> Root(ask[r].config), registry |-> proof[r].registry,
                     profile |-> proof[r].profile, key |-> "none",
                     context |-> Context(proof[r].action, ask[r].config, ask[r].owner,
                                         ask[r].mode, Root(ask[r].config), until,
                                         proof[r].registry, proof[r].bound)]
    <2>2. until \in Nat /\ until <= Expiry
      BY <1>1, ValidUntilIsBounded, VerificationAssumption
    <2>3. ask[r].stage = "wrapping" /\ Passport(r) /\ proof[r].date \in Nat
      BY <1>6 DEF Wrap, VerificationShape
    <2>4. /\ p.root = Root(ask[r].config) /\ p.context[2] = ask[r].config.issuer
          /\ p.date \in Nat /\ p.until \in Nat /\ p.until <= Expiry
      BY <2>2, <2>3 DEF Context
    <2>5. Stays("proved") /\ job' = job /\ proof' = [proof EXCEPT ![r] = p]
      BY <1>6, <2>1 DEF Wrap, world, AtStage
    <2> HIDE DEF p, Stays
    <2>6. /\ VerificationShape' /\ ask'[r].stage = "proved" /\ job'[r] = job[r]
          /\ proof'[r] = p /\ ask'[r].config = ask[r].config
          /\ (Seals(r) => \A q \in Request : Seals(q))
      BY <1>1, <1>2, <2>5, <1>3
    <2> QED
      BY <1>1, <2>3, <2>4, <2>6
         DEF Seals, ProofSealed, Received, Closed, Sealed, Passport
  <1>7. CASE ProveInstagram(r)
    <2>1. PICK skew \in Skew, key \in Key :
          proof' = [proof EXCEPT ![r] =
              [action |-> "instagram", until |-> now + skew + Validity, date |-> now,
               root |-> "none", registry |-> "none", profile |-> "any", key |-> key,
               context |-> <<ask[r].owner, ask[r].config.issuer>>]]
      BY <1>7 DEF ProveInstagram
    <2> DEFINE p == [action |-> "instagram", until |-> now + skew + Validity, date |-> now,
                     root |-> "none", registry |-> "none", profile |-> "any", key |-> key,
                     context |-> <<ask[r].owner, ask[r].config.issuer>>]
    <2>2. p.context = <<ask[r].owner, ask[r].config.issuer>>
      OBVIOUS
    <2>3. Stays("proved") /\ ~Passport(r) /\ job' = job /\ proof' = [proof EXCEPT ![r] = p]
          /\ ask[r].stage = "asked"
      BY <1>7, <2>1 DEF ProveInstagram, world, Passport, AtStage
    <2> HIDE DEF p, Stays
    <2>4. /\ VerificationShape' /\ ask'[r].stage = "proved" /\ job'[r] = job[r]
          /\ proof'[r] = p /\ ask'[r].config = ask[r].config /\ ask'[r].owner = ask[r].owner
          /\ (Seals(r) => \A q \in Request : Seals(q))
      BY <1>1, <1>2, <2>3, <1>3
    <2> QED
      BY <1>1, <2>2, <2>3, <2>4
         DEF Seals, ProofSealed, Received, Closed, Sealed, Passport
  <1>8. CASE GiveUp(r) \/ PostFails(r) \/ Hear(r)
    <2>1. PICK s \in {"failed", "issued"} : Stays(s)
      BY <1>8 DEF GiveUp, PostFails, Hear, world, AtStage
    <2>2. /\ proof' = proof /\ job' = job
          /\ Hear(r) \/ ask[r].stage \in {"asked", "wrapping", "proved"}
      BY <1>8 DEF GiveUp, PostFails, Hear
    <2> HIDE DEF Stays
    <2>3. /\ VerificationShape' /\ ask'[r].stage = s /\ job'[r] = job[r]
          /\ proof'[r] = proof[r] /\ ask'[r].config = ask[r].config
          /\ ask'[r].owner = ask[r].owner
          /\ (Seals(r) => \A q \in Request : Seals(q))
      BY <1>1, <1>2, <2>1, <2>2, <1>3
    <2> QED
      BY <1>1, <2>3 DEF Seals, Keeps, ProofSealed, Received, Closed, Sealed, Fresh, Passport
  <1>9. CASE Post(r)
    <2> DEFINE j == [stage |-> "received", try |-> 1]
    <2>1. Stays("posted") /\ proof' = proof /\ job' = [job EXCEPT ![r] = j]
          /\ ask[r].stage = "proved" /\ j \in Jobs
      BY <1>9 DEF Post, world, Jobs, AtStage
    <2>2. j.stage = "received"
      OBVIOUS
    <2> HIDE DEF j, Stays
    <2>3. /\ VerificationShape' /\ ask'[r].stage = "posted" /\ job'[r] = j
          /\ proof'[r] = proof[r] /\ ask'[r].config = ask[r].config
          /\ ask'[r].owner = ask[r].owner
          /\ (Seals(r) => \A q \in Request : Seals(q))
      BY <1>2, <2>1, <1>3
    <2> QED
      BY <1>1, <2>1, <2>2, <2>3
         DEF Seals, Keeps, ProofSealed, Received, Closed, Sealed, Fresh, Passport
  <1>10. CASE Resend(r)
    <2> DEFINE j == [stage |-> "received", try |-> job[r].try + 1]
    <2>1. job' = [job EXCEPT ![r] = j]
      BY <1>10 DEF Resend
    <2>2. j \in Jobs /\ j.stage = "received" /\ job' = [job EXCEPT ![r] = j]
      BY <1>1, <2>1 DEF Jobs
    <2> HIDE DEF j
    <2>3. ask' = [ask EXCEPT ![r] = ask[r]] /\ Flow(ask[r]) /\ ask[r].stage = "posted"
          /\ now' = now /\ proof' = proof /\ Received(r)
      BY <1>10 DEF Resend, world, VerificationShape, Received
    <2>9. PICK f, p : f = ask[r] /\ p = proof[r]
      OBVIOUS
    <2>6. /\ ask' = [ask EXCEPT ![r] = f] /\ Flow(f) /\ now' = now
          /\ f.stage = "wrapping" => Passport(r) /\ p.date \in Nat
          /\ proof' = [proof EXCEPT ![r] = p]
      BY <1>3, <2>3, <2>9
    <2>7. /\ VerificationShape' /\ ask'[r] = f /\ job'[r] = j /\ proof'[r] = p
          /\ \A q \in Request \ {r} : Same(q)
      BY <2>2, <2>6, Moved
    <2>4. /\ VerificationShape' /\ ask'[r] = ask[r] /\ job'[r] = j /\ proof'[r] = proof[r]
          /\ \A q \in Request \ {r} : Same(q)
      BY <2>7, <2>9
    <2>5. Seals(r)
      BY <1>1, <2>2, <2>3, <2>4
         DEF Seals, Keeps, ProofSealed, Received, Closed, Sealed, Fresh, Passport
    <2> QED
      BY <2>4, <2>5, MovedSeals
  <1> QED
    BY <1>4, <1>5, <1>6, <1>7, <1>8, <1>9, <1>10 DEF Page

-----------------------------------------------------------------------------
(* The server and its surroundings. *)

LEMMA HandlerMoves ==
    ASSUME VerificationShape, ProofsSealed, NEW r \in Request, Received(r),
           NEW s \in {"verifying", "refused", "trusting", "sent", "done"},
           s = "trusting" => Fresh(r),
           job' = [job EXCEPT ![r].stage = s], HandlerOnly
    PROVE  VerificationShape' /\ \A q \in Request : Seals(q)
  <1>1. ask' = ask /\ proof' = proof /\ now' = now
    BY DEF HandlerOnly, world
  <1>2. /\ job' \in [Request -> Jobs] /\ job'[r].stage = s
        /\ \A q \in Request \ {r} : job'[q] = job[q]
    BY DEF VerificationShape, Jobs
  <1>3. VerificationShape'
    BY <1>1, <1>2 DEF VerificationShape, Flow, Passport
  <1>4. Seals(r)
    BY <1>1, <1>2 DEF Seals, Keeps, ProofsSealed, ProofSealed, Received, Closed, Sealed, Fresh,
                      Passport
  <1>5. \A q \in Request \ {r} : Same(q)
    BY <1>1, <1>2 DEF Same
  <1> QED
    BY <1>3, <1>4, <1>5, MovedSeals

(* Nothing of a request changes but the stage of its page or of its handler. *)
LEMMA WorldMoves ==
    ASSUME VerificationShape, ProofsSealed,
           now' \in Nat, proof' = proof,
           \/ ask' = ask
           \/ ask' = [r \in Request |->
                 IF ask[r].stage \in {"asked", "wrapping", "proved", "posted"}
                 THEN [ask[r] EXCEPT !.stage = "failed"] ELSE ask[r]],
           \/ job' = job
           \/ job' = [r \in Request |->
                 IF job[r].stage \in {"received", "verifying", "trusting", "sent"}
                 THEN [job[r] EXCEPT !.stage = "gone"] ELSE job[r]]
    PROVE  VerificationShape' /\ \A q \in Request : Seals(q)
  <1>1. ASSUME NEW r \in Request
        PROVE  \/ ask'[r] = ask[r]
               \/ /\ ask[r].stage # "idle" /\ ask'[r] = AtStage(ask[r], "failed")
    BY DEF AtStage
  <1>2. ASSUME NEW r \in Request
        PROVE  \/ ask'[r] = ask[r]
               \/ /\ ask[r].stage # "idle" /\ ask'[r].stage = "failed" /\ Flow(ask'[r])
                  /\ ask'[r].config = ask[r].config /\ ask'[r].owner = ask[r].owner
    BY <1>1, Unmoved, WithStage
  <1>3. job' \in [Request -> Jobs]
    BY DEF VerificationShape, Jobs
  <1>4. ASSUME NEW r \in Request
        PROVE  \/ job'[r] = job[r]
               \/ Received(r) /\ job'[r].stage = "gone"
    BY DEF VerificationShape, Jobs, Received
  <1>5. ask' = [r \in Request |-> ask'[r]]
    BY DEF VerificationShape
  <1>6. VerificationShape'
    BY <1>2, <1>3, <1>5 DEF VerificationShape, Flow, Passport
  <1>7. ASSUME NEW r \in Request
        PROVE  Seals(r)
    BY <1>2, <1>4 DEF Seals, Keeps, ProofsSealed, ProofSealed, Received, Closed, Sealed, Fresh,
                      Passport
  <1> QED
    BY <1>6, <1>7

LEMMA VerifiedIsFresh ==
    ASSUME VerificationShape, ProofsSealed, NEW r \in Request,
           Received(r), Passport(r) => TimeBounds(r)
    PROVE  Fresh(r)
  <1>1. now \in Nat /\ (Passport(r) => proof[r].date \in Nat /\ proof[r].until \in Nat)
    BY DEF VerificationShape, ProofsSealed, ProofSealed, Sealed
  <1> QED
    BY <1>1, VerificationAssumption DEF Fresh, TimeBounds

(* The context of an accepted proof names the issuer of the server. *)
LEMMA IssuesWhereAsked ==
    ASSUME NEW r \in Request, Sealed(r),
           IF Passport(r) THEN PassportContext(r) ELSE InstagramContext(r)
    PROVE  api.issuer = ask[r].config.issuer
  <1>1. CASE Passport(r)
    BY <1>1 DEF Sealed, PassportContext, Context
  <1>2. CASE ~Passport(r)
    BY <1>2 DEF Sealed, InstagramContext
  <1> QED
    BY <1>1, <1>2

LEMMA CoveredStays ==
    ASSUME NEW t, Covered(t), \A q \in Request : Seals(q)
    PROVE  Covered(t)'
  BY DEF Covered, Seals, Keeps, Fresh, Passport, Received

(* What the server may broadcast. *)
LEMMA ApiStep ==
    ASSUME VerificationShape, ProofsSealed, NEW r \in Request, Api(r) \/ HandlerThrows(r)
    PROVE  /\ VerificationShape' /\ \A q \in Request : Seals(q)
           /\ notes' = notes
           /\ \A t \in pool' : t \in pool \/ Covered(t)
  <1>1. Received(r) /\ notes' = notes
    BY DEF Api, Validate, Verified, Issue, Answer, HandlerThrows, HandlerOnly, Received
  <1>2. CASE Validate(r) \/ Answer(r) \/ HandlerThrows(r)
    <2>1. PICK s \in {"verifying", "refused", "done"} : job' = [job EXCEPT ![r].stage = s]
      BY <1>2 DEF Validate, Answer, HandlerThrows, Handler
    <2>2. HandlerOnly /\ pool' = pool
      BY <1>2 DEF Validate, Answer, HandlerThrows
    <2> QED
      BY <1>1, <2>1, <2>2, HandlerMoves
  <1>3. CASE Verified(r)
    <2>1. PICK s \in {"trusting", "refused"} :
             /\ job' = [job EXCEPT ![r].stage = s]
             /\ s = "trusting" => (Passport(r) => TimeBounds(r))
      BY <1>3 DEF Verified, Handler
    <2>2. HandlerOnly /\ pool' = pool
      BY <1>3 DEF Verified
    <2> QED
      BY <1>1, <2>1, <2>2, HandlerMoves, VerifiedIsFresh
  <1>4. CASE Issue(r)
    <2>1. PICK s \in {"sent", "refused"} : job' = [job EXCEPT ![r].stage = s]
      BY <1>4 DEF Issue, Handler
    <2>2. VerificationShape' /\ \A q \in Request : Seals(q)
      BY <1>1, <1>4, <2>1, HandlerMoves DEF Issue
    <2>3. ASSUME NEW t \in pool', t \notin pool
          PROVE  Covered(t)
      <3>1. /\ t = Tx(r)
            /\ IF Passport(r) THEN PassportContext(r) ELSE InstagramContext(r)
        BY <1>4, <2>3 DEF Issue
      <3>2. Sealed(r) /\ Fresh(r)
        BY <1>1, <1>4 DEF Issue, ProofsSealed, ProofSealed
      <3>3. api.issuer = ask[r].config.issuer
        BY <3>1, <3>2, IssuesWhereAsked
      <3> QED
        BY <1>1, <3>1, <3>2, <3>3 DEF Covered, Tx
    <2> QED
      BY <1>1, <2>2, <2>3
  <1> QED
    BY <1>2, <1>3, <1>4 DEF Api
-----------------------------------------------------------------------------
(* One mark each: what is included carries a nullifier no note has. *)
LEMMA NullifiersSuffice ==
    ASSUME NEW m, NEW n, m.issuer = n.issuer,
           \/ /\ {KindOf[m.request], KindOf[n.request]} = {"issue"}
              /\ m.mode = "rooted" /\ n.mode = "rooted" /\ m.root = n.root
           \/ m.request = n.request /\ KindOf[m.request] # "issue"
    PROVE  IssuanceNullifier(m) = IssuanceNullifier(n)
  <1>1. CASE KindOf[m.request] = "issue" /\ KindOf[n.request] = "issue"
             /\ m.mode = "rooted" /\ n.mode = "rooted" /\ m.root = n.root
    <2>1. IssuanceNullifier(m) = <<m.issuer, m.root>>
      BY <1>1 DEF IssuanceNullifier
    <2>2. IssuanceNullifier(n) = <<n.issuer, n.root>>
      BY <1>1 DEF IssuanceNullifier
    <2> QED
      BY <1>1, <2>1, <2>2
  <1>2. CASE m.request = n.request /\ KindOf[m.request] # "issue"
    BY <1>2 DEF IssuanceNullifier
  <1>3. {KindOf[m.request], KindOf[n.request]} = {"issue"}
            => KindOf[m.request] = "issue" /\ KindOf[n.request] = "issue"
    OBVIOUS
  <1> QED
    BY <1>1, <1>2, <1>3

LEMMA IncludeStep ==
    ASSUME VerificationInv, NEW t \in pool, Include(t)
    PROVE  VerificationInv'
  <1>1. /\ ask' = ask /\ proof' = proof /\ job' = job /\ now' = now
        /\ pool' = pool \ {t}
        /\ notes' = IF Spent(t) THEN notes ELSE notes \cup {t}
    BY DEF Include, world
  <1>2. VerificationShape' /\ \A q \in Request : Seals(q)
    BY <1>1, WorldMoves DEF VerificationInv, VerificationShape
  <1>3. TxCovered'
    BY <1>1, <1>2, CoveredStays DEF TxCovered, VerificationInv
  <1>4. MintedOnce'
    <2>1. CASE Spent(t)
      BY <1>1, <2>1 DEF VerificationInv, MintedOnce
    <2>2. CASE ~Spent(t)
      <3>1. ASSUME NEW n \in notes
            PROVE  /\ IssuanceNullifier(n) # IssuanceNullifier(t)
                   /\ n.request = t.request => n.issuer = t.issuer
        BY <2>2 DEF Spent, VerificationInv, TxCovered, Covered
      <3>2. ASSUME NEW n \in notes
            PROVE  /\ ~(/\ n.issuer = t.issuer /\ n.mode = "rooted" /\ t.mode = "rooted"
                        /\ n.root = t.root
                        /\ {KindOf[n.request], KindOf[t.request]} = {"issue"})
                   /\ ~(n.request = t.request /\ KindOf[n.request] # "issue")
        BY <3>1, NullifiersSuffice
      <3> QED
        BY <1>1, <2>2, <3>2 DEF VerificationInv, MintedOnce
    <2> QED
      BY <2>1, <2>2
  <1> QED
    BY <1>2, <1>3, <1>4 DEF VerificationInv, ProofsSealed, Seals

LEMMA VerificationInductive == VerificationInv /\ [Next]_vars => VerificationInv'
  <1> SUFFICES ASSUME VerificationInv, [Next]_vars
               PROVE  VerificationInv'
    OBVIOUS
  <1> USE DEF VerificationInv
  <1>1. ASSUME VerificationShape', \A q \in Request : Seals(q), notes' = notes,
               \A t \in pool' : t \in pool \/ Covered(t)
        PROVE  VerificationInv'
    <2>1. ProofsSealed'
      BY <1>1 DEF ProofsSealed, Seals
    <2>2. TxCovered'
      BY <1>1, CoveredStays DEF TxCovered
    <2>3. MintedOnce'
      BY <1>1 DEF MintedOnce
    <2> QED
      BY <1>1, <2>1, <2>2, <2>3
  <1>2. CASE \E r \in Request : Page(r)
    <2>1. PICK r \in Request : Page(r)
      BY <1>2
    <2>2. notes' = notes /\ pool' = pool
      BY <2>1 DEF Page, Begin, PhoneProves, Wrap, ProveInstagram, GiveUp, Post, PostFails,
                  Resend, Hear
    <2> QED
      BY <1>1, <2>1, <2>2, PageStep
  <1>3. CASE \E r \in Request : Api(r) \/ HandlerThrows(r)
    BY <1>1, <1>3, ApiStep
  <1>4. CASE \E t \in pool : Include(t)
    BY <1>4, IncludeStep
  <1>5. ASSUME now' \in Nat, proof' = proof, pool' = pool, notes' = notes,
               \/ ask' = ask
               \/ ask' = [r \in Request |->
                     IF ask[r].stage \in {"asked", "wrapping", "proved", "posted"}
                     THEN [ask[r] EXCEPT !.stage = "failed"] ELSE ask[r]],
               \/ job' = job
               \/ job' = [r \in Request |->
                     IF job[r].stage \in {"received", "verifying", "trusting", "sent"}
                     THEN [job[r] EXCEPT !.stage = "gone"] ELSE job[r]]
        PROVE  VerificationInv'
    BY <1>1, <1>5, WorldMoves
  <1>6. now \in Nat
    BY DEF VerificationShape
  <1>7. CASE Tick \/ FillEnv \/ ReloadPage \/ StartApi \/ Crash
    <2>1. now' \in Nat /\ proof' = proof /\ pool' = pool /\ notes' = notes
      BY <1>6, <1>7 DEF Tick, FillEnv, ReloadPage, StartApi, Crash, issuance
    <2>2. CASE ReloadPage
      BY <1>5, <2>1, <2>2 DEF ReloadPage
    <2>3. CASE Crash
      BY <1>5, <2>1, <2>3 DEF Crash
    <2>4. CASE Tick \/ FillEnv \/ StartApi
      <3>1. ask' = ask /\ job' = job
        BY <2>4 DEF Tick, FillEnv, StartApi, issuance
      <3> QED
        BY <1>5, <2>1, <3>1
    <2> QED
      BY <1>7, <2>2, <2>3, <2>4
  <1>8. CASE \/ \E c \in Config : Redeploy(c.issuer) \/ EditEnv(c)
             \/ \E profile \in DOMAIN trusted, root \in RegistryRoot :
                   RotateRegistry(profile, root)
             \/ \E q \in Login : LoginWithRedirect(q) \/ OpenAuthorizePage(q)
                   \/ \E c \in Code : CreateSessionCode(q, c)
             \/ \E c \in Code : CompleteRedirectLogin(c)
             \/ UNCHANGED vars
    <2>1. now' = now /\ ask' = ask /\ proof' = proof /\ job' = job /\ pool' = pool
          /\ notes' = notes
      BY <1>8 DEF Redeploy, EditEnv, RotateRegistry, LoginWithRedirect, OpenAuthorizePage,
                  CreateSessionCode, CompleteRedirectLogin, Exchange, RedirectOnly, world, issuance, vars
    <2> QED
      BY <1>5, <1>6, <2>1
  <1> QED
    BY <1>2, <1>3, <1>4, <1>7, <1>8 DEF Next

LEMMA VerificationInitially == Init => VerificationInv
  <1> SUFFICES ASSUME Init
               PROVE  VerificationInv
    OBVIOUS
  <1>1. VerificationShape
    BY DEF Init, VerificationShape, Jobs
  <1>2. ProofsSealed
    BY DEF Init, ProofsSealed, ProofSealed, Received
  <1> QED
    BY <1>1, <1>2 DEF Init, VerificationInv, TxCovered, MintedOnce

LEMMA VerificationInvariant == Spec => []VerificationInv
  BY VerificationInitially, VerificationInductive, PTL DEF Spec

(* Whatever was deployed, edited and restarted meanwhile, a credential is   *)
(* minted at the deployment and for the root of the page that asked.        *)
THEOREM MintedWhereAsked == Spec => []IssuedWhereAsked
  <1>1. VerificationInv => IssuedWhereAsked
    BY DEF VerificationInv, TxCovered, Covered, ProofsSealed, ProofSealed, Sealed,
           IssuedWhereAsked
  <1> QED
    BY <1>1, VerificationInvariant, PTL

(* No delay, clock or repeated request stretches a credential beyond the    *)
(* day of its proof, for any validity, staleness and skew.                  *)
THEOREM EndFollowsProof == Spec => []ValidityFollowsProof
  <1>1. VerificationInv => ValidityFollowsProof
    BY DEF VerificationInv, TxCovered, Covered, ProofsSealed, ProofSealed, Sealed, Fresh,
           ValidityFollowsProof
  <1> QED
    BY <1>1, VerificationInvariant, PTL

(* The marks of the contract stop the second of two handlers that both      *)
(* simulated a valid issuance, however many requests and tries there are.   *)
THEOREM MintsOnce == Spec => []MintedOnce
  BY VerificationInvariant, PTL DEF VerificationInv

-----------------------------------------------------------------------------
(* Redirect logins. *)

LEMMA RedirectInductive == RedirectInv /\ [Next]_vars => RedirectInv'
  <1> SUFFICES ASSUME RedirectInv, [Next]_vars
               PROVE  RedirectInv'
    OBVIOUS
  <1> USE DEF RedirectInv
  <1>1. CASE UNCHANGED redirects
    BY <1>1 DEF redirects, CodesOnce, RedirectsAreBound, Logins
  <1>2. CASE Crash
    BY <1>2 DEF Crash, CodesOnce, RedirectsAreBound, Logins
  <1>3. ASSUME NEW q \in Login, LoginWithRedirect(q) \/ OpenAuthorizePage(q)
        PROVE  RedirectInv'
    <2>1. codes' = codes /\ reads' = reads
      BY <1>3 DEF LoginWithRedirect, OpenAuthorizePage
    <2>2. Logins' /\ \A p \in Login : dapp'[p] = "verified" => dapp[p] = "verified"
      BY <1>3 DEF LoginWithRedirect, OpenAuthorizePage, Logins
    <2> QED
      BY <2>1, <2>2 DEF CodesOnce, RedirectsAreBound
  <1>4. ASSUME NEW q \in Login, NEW c \in Code, CreateSessionCode(q, c)
        PROVE  RedirectInv'
    <2>1. /\ codes' = codes \cup {Entry(q, c)} /\ reads' = reads /\ dapp' = dapp
          /\ \A x \in codes \cup reads : x.code # c
      BY <1>4 DEF CreateSessionCode
    <2>2. Entry(q, c).code = c
      BY DEF Entry
    <2> HIDE DEF Entry
    <2> QED
      BY <2>1, <2>2 DEF CodesOnce, RedirectsAreBound, Logins
  <1>5. ASSUME NEW c \in Code, CompleteRedirectLogin(c)
        PROVE  RedirectInv'
    <2> DEFINE New(x) == [code |-> c, login |-> x.login, by |-> pending, at |-> now,
                          expires |-> x.expires]
    <2>1. CASE UNCHANGED <<codes, reads>> /\ dapp' = [dapp EXCEPT ![pending] = "failed"]
      BY <2>1 DEF CodesOnce, RedirectsAreBound, Logins
    <2>2. CASE /\ Exchange(c)
               /\ \/ dapp' = [dapp EXCEPT ![pending] = Verdict(c)]
                  \/ dapp' = [dapp EXCEPT ![pending] = "failed"]
      <3>1. /\ codes' = codes \ Deleted(c)
            /\ reads' = reads \cup {New(x) : x \in Exchanged(c)}
        BY <2>2 DEF Exchange
      <3>2. \A q \in Login : dapp'[q] = "verified" =>
               \/ dapp[q] = "verified"
               \/ q = pending /\ \E x \in Exchanged(c) : x.login = pending
        BY <2>2 DEF Verdict, Logins
      <3>3. /\ \A x \in codes' : x \in codes /\ x.code # c
            /\ \A x \in Exchanged(c) : x \in codes /\ x.code = c /\ now <= x.expires
        BY <3>1 DEF Deleted, Exchanged
      <3>4. \A x \in Exchanged(c) : New(x).code = c /\ New(x).login = x.login
               /\ New(x).by = pending /\ New(x).at <= New(x).expires
        BY <3>3
      <3>5. \A x, y \in Exchanged(c) : x = y
        BY <3>3 DEF CodesOnce
      <3>6. \A y \in reads' : \/ y \in reads
                              \/ \E x \in Exchanged(c) : y = New(x)
        BY <3>1
      <3> HIDE DEF New
      <3>7. CodesOnce'
        BY <3>3, <3>4, <3>5, <3>6 DEF CodesOnce
      <3>8. RedirectsAreBound'
        <4>1. (\A x, y \in reads : x.code = y.code => x = y)'
          BY <3>7 DEF CodesOnce
        <4>2. (\A x \in reads : x.at <= x.expires)'
          BY <3>4, <3>6 DEF RedirectsAreBound
        <4>3. ASSUME NEW q \in Login, dapp'[q] = "verified"
              PROVE  \E x \in reads' : x.login = q /\ x.by = q
          <5>1. CASE q = pending /\ \E x \in Exchanged(c) : x.login = pending
            <6>1. PICK x \in Exchanged(c) : x.login = pending
              BY <5>1
            <6>2. New(x) \in reads'
              BY <3>1
            <6> QED
              BY <3>4, <5>1, <6>1, <6>2
          <5>2. CASE dapp[q] = "verified"
            BY <3>1, <4>3, <5>2 DEF RedirectsAreBound
          <5> QED
            BY <3>2, <4>3, <5>1, <5>2
        <4> QED
          BY <4>1, <4>2, <4>3 DEF RedirectsAreBound
      <3>9. Logins'
        BY <2>2 DEF Logins, Verdict
      <3> QED
        BY <3>7, <3>8, <3>9
    <2> QED
      BY <1>5, <2>1, <2>2 DEF CompleteRedirectLogin
  <1>6. \/ UNCHANGED redirects \/ Crash
        \/ \E q \in Login : LoginWithRedirect(q) \/ OpenAuthorizePage(q)
              \/ \E c \in Code : CreateSessionCode(q, c)
        \/ \E c \in Code : CompleteRedirectLogin(c)
    <2>1. CASE \E r \in Request : Page(r)
      BY <2>1 DEF Page, Begin, PhoneProves, Wrap, ProveInstagram, GiveUp, Post, PostFails,
                  Resend, Hear
    <2>2. CASE \E r \in Request : Api(r) \/ HandlerThrows(r)
      BY <2>2 DEF Api, Validate, Verified, Issue, Answer, HandlerThrows, HandlerOnly
    <2>3. CASE \E t \in pool : Include(t)
      BY <2>3 DEF Include
    <2>4. CASE Tick \/ FillEnv \/ ReloadPage \/ StartApi
      BY <2>4 DEF Tick, FillEnv, ReloadPage, StartApi
    <2>5. CASE \/ \E c \in Config : Redeploy(c.issuer) \/ EditEnv(c)
               \/ \E profile \in DOMAIN trusted, root \in RegistryRoot :
                     RotateRegistry(profile, root)
      BY <2>5 DEF Redeploy, EditEnv, RotateRegistry
    <2> QED
      BY <2>1, <2>2, <2>3, <2>4, <2>5 DEF Next, vars
  <1> QED
    BY <1>1, <1>2, <1>3, <1>4, <1>5, <1>6

(* A code is read once and in time, and a login is verified by an assertion *)
(* made for it, through any number of restarts of the server.               *)
THEOREM BoundRedirects == Spec => []RedirectsAreBound
  <1>1. Init => RedirectInv
    BY DEF Init, RedirectInv, CodesOnce, RedirectsAreBound, Logins
  <1> QED
    BY <1>1, RedirectInductive, PTL DEF Spec, RedirectInv
=============================================================================
