--------------------------- MODULE MagnaRightsProofs ---------------------------
(* Theorems about rights and money, for any companies, payers, prices and   *)
(* pages: an operator who was told that a top-up is done sees it, every     *)
(* right was paid for on its rail, and the budgets follow the ledger of     *)
(* module MagnaRightsLedger.                                                *)
EXTENDS MagnaRightsSafety, TLAPS, FiniteSetTheorems

-----------------------------------------------------------------------------
(* Top-ups. *)

(* The shape of the state as far as the argument needs it. *)
Message(m) == m.sponsor \in Company /\ m.amount \in Nat
Shape ==
    /\ remaining_verifies \in [Company -> Nat]
    /\ consumed_verifies \in [Company -> Nat]
    /\ nextPurchaseId \in Nat
    /\ \A m \in inbox : Message(m) /\ \E i \in 1 .. nextPurchaseId : m.nonce = L1Nonce(i)

What == {"l1", "l2", "read", "add", "verify"}
Point == {"register", "ready", "authorized", "bought", "approved", "mined", "claiming",
          "half", "checked"}
JobShape == [what : What, at : Point, sponsor : Company, amount : Nat,
             id : Nat, logged : Nat, tries : Nat, first : Nat, owed : Nat]
View == [counters : [remaining : [Company -> Nat], consumed : [Company -> Nat]],
         owed : [Company -> Nat]]
PageShape ==
    /\ job \in [Page -> JobShape \cup {None}]
    /\ shown \in [Page -> [total : Nat, owed : Nat] \cup {None}]
    /\ owed \in [Page -> [Company -> Nat]]
    /\ seen \in [Page -> View]
    /\ \A m \in mined : m.id \in Nat

(* What a page is owed is in the registry, and so is an L2 purchase it has  *)
(* not reported yet.                                                        *)
OwedIsHeld == \A t \in Page : \A s \in Company : owed[t][s] <= Held(s)
BoughtIsHeld == \A t \in Page : Running(t, "l2", "bought") =>
    owed[t][job[t].sponsor] + job[t].amount <= Held(job[t].sponsor)

(* The message of a page's L1 purchase is for what the page asked.          *)
BoughtIsAsked == \A t \in Page : \A at \in {"mined", "claiming"} : Running(t, "l1", at) =>
    /\ job[t].id <= nextPurchaseId
    /\ \A m \in inbox : m.nonce = L1Nonce(job[t].id) =>
          m.sponsor = job[t].sponsor /\ m.amount = job[t].amount

(* What a page was owed at the block its node has was in the registry there, *)
(* and rights used by then stay used.                                       *)
SeenIsPast == \A t \in Page : \A s \in Company :
    /\ seen[t].owed[s] <= seen[t].counters.remaining[s] + seen[t].counters.consumed[s]
    /\ seen[t].counters.consumed[s] <= consumed_verifies[s]

(* Half a snapshot is a lower bound that the other half can only raise.     *)
HalfIsEnough == \A t \in Page : Running(t, "read", "half") =>
    job[t].owed <= job[t].first + seen[t].counters.consumed[job[t].sponsor]

TopUpInv ==
    /\ Shape /\ PageShape
    /\ OwedIsHeld /\ BoughtIsHeld /\ BoughtIsAsked /\ SeenIsPast /\ HalfIsEnough
    /\ TopUpsAreShown

-----------------------------------------------------------------------------
(* What any call to the contracts does: rights change hands, none is lost,  *)
(* and a new message has a number of its own.                               *)
Grows ==
    /\ \A s \in Company : Held(s)' >= Held(s) /\ consumed_verifies'[s] >= consumed_verifies[s]
    /\ nextPurchaseId' >= nextPurchaseId
    /\ \A m \in inbox' \ inbox : \E i \in nextPurchaseId + 1 .. nextPurchaseId' :
          m.nonce = L1Nonce(i)

RightsVars == <<remaining_verifies, consumed_verifies, nextPurchaseId, inbox>>

LEMMA Still ==
    ASSUME Shape, UNCHANGED RightsVars
    PROVE  Shape' /\ Grows
  BY DEF Shape, RightsVars, Grows, Held, Message, L1Nonce

LEMMA Credits ==
    ASSUME Shape, NEW s \in Company, NEW n \in Nat, NEW k, NEW nonce,
           CreditRights(s, n, k, nonce),
           UNCHANGED <<consumed_verifies, nextPurchaseId, inbox>>
    PROVE  Shape' /\ Grows /\ Held(s)' = Held(s) + n
  BY DEF Shape, Grows, Held, Message, L1Nonce, CreditRights

LEMMA Consumes ==
    ASSUME Shape, NEW s \in Company, NEW n \in Nat, ConsumeRight(s, n)
    PROVE  Shape' /\ Grows
  BY DEF Shape, Grows, Held, Message, L1Nonce, ConsumeRight, portalVars, portalConfig

LEMMA Purchases ==
    ASSUME Shape, NEW p, NEW s \in Company, NEW n \in Nat, NEW k,
           PurchaseRights(p, s, n, k)
    PROVE  /\ Shape' /\ Grows
           /\ \A m \in inbox' : m.nonce = L1Nonce(nextPurchaseId') =>
                 m.sponsor = s /\ m.amount = n
  <1> DEFINE new == [recipient |-> l2RightsRegistry, sponsor |-> s, amount |-> n,
                     package |-> k, nonce |-> L1Nonce(nextPurchaseId + 1)]
  <1>1. /\ nextPurchaseId' = nextPurchaseId + 1 /\ inbox' = inbox \cup {new}
        /\ UNCHANGED <<remaining_verifies, consumed_verifies>>
    BY DEF PurchaseRights, registryVars, credits
  <1>2. Message(new) /\ new.nonce = L1Nonce(nextPurchaseId')
    BY <1>1 DEF Message
  <1> HIDE DEF new
  <1>3. Shape'
    BY <1>1, <1>2 DEF Shape, Message, L1Nonce
  <1>4. Grows
    BY <1>1, <1>2 DEF Shape, Grows, Held
  <1>5. ASSUME NEW m \in inbox', m.nonce = L1Nonce(nextPurchaseId')
        PROVE  m = new
    BY <1>1, <1>5 DEF Shape, L1Nonce
  <1> QED
    BY <1>2, <1>3, <1>4, <1>5 DEF new

LEMMA AnyCall ==
    ASSUME RightsAssumption, Shape, Next
    PROVE  Shape' /\ Grows
  <1>1. CASE PortalNext
    <2>1. ASSUME NEW l2 \in L2Contract, Initialize(l2) PROVE UNCHANGED RightsVars
      BY <2>1 DEF Initialize, RightsVars, registryVars, credits
    <2>2. ASSUME NEW t \in Treasury, SetTreasury(t) PROVE UNCHANGED RightsVars
      BY <2>2 DEF SetTreasury, RightsVars, registryVars, credits
    <2>3. ASSUME NEW n, Withdraw(n) PROVE UNCHANGED RightsVars
      BY <2>3 DEF Withdraw, RightsVars, registryVars, credits
    <2>4. ASSUME NEW p \in Payer, NEW s \in Company, NEW n \in Amount, NEW k \in Package,
                 PurchaseRights(p, s, n, k)
          PROVE  Shape' /\ Grows
      BY <2>4, Purchases DEF RightsAssumption
    <2> QED
      BY <1>1, <2>1, <2>2, <2>3, <2>4, Still DEF PortalNext
  <1>2. CASE RegistryNext
    <2>1. ASSUME NEW m \in inbox, ClaimL1Credit(m) PROVE Shape' /\ Grows
      <3>1. m.sponsor \in Company /\ m.amount \in Nat
        BY DEF Shape, Message
      <3>2. UNCHANGED <<consumed_verifies, nextPurchaseId, inbox>>
        BY <2>1 DEF ClaimL1Credit, portalVars
      <3> QED
        BY <2>1, <3>1, <3>2, Credits DEF ClaimL1Credit
    <2>2. ASSUME NEW s \in Company, NEW n \in Amount, ConsumeRight(s, n) PROVE Shape' /\ Grows
      BY <2>2, Consumes DEF RightsAssumption
    <2>3. ASSUME NEW a \in Adapter, InitializeL2PurchaseAdapter(a) PROVE UNCHANGED RightsVars
      BY <2>3 DEF InitializeL2PurchaseAdapter, RightsVars, portalVars, credits
    <2> QED
      BY <1>2, <2>1, <2>2, <2>3, Still DEF RegistryNext
  <1>3. CASE PurchaseNext
    <2>1. ASSUME NEW p \in Payer, NEW n, AuthorizePayment(p, n) PROVE UNCHANGED RightsVars
      BY <2>1 DEF AuthorizePayment, RightsVars, portalVars, registryVars, credits
    <2>2. ASSUME NEW p \in Payer, NEW s \in Company, NEW n \in Amount, NEW k \in Package,
                 PurchaseRightsPublic(p, s, n, k)
          PROVE  Shape' /\ Grows
      BY <2>2, Credits DEF PurchaseRightsPublic, CreditFromL2Payment, portalVars, RightsAssumption
    <2>3. ASSUME NEW a \in Adapter, NEW s \in Company, NEW n \in Amount, NEW k \in Package,
                 CreditByOtherAdapter(a, s, n, k)
          PROVE  Shape' /\ Grows
      BY <2>3, Credits DEF CreditByOtherAdapter, CreditFromL2Payment, portalVars, RightsAssumption
    <2> QED
      BY <1>3, <2>1, <2>2, <2>3, Still DEF PurchaseNext
  <1> QED
    BY <1>1, <1>2, <1>3 DEF Next

LEMMA OldMessage ==
    ASSUME Shape, Grows, NEW i \in Nat, i <= nextPurchaseId,
           NEW m \in inbox', m.nonce = L1Nonce(i)
    PROVE  m \in inbox
  BY DEF Shape, Grows, L1Nonce

-----------------------------------------------------------------------------
(* A block stays what it is when the registry moves on.                     *)
LEMMA KeptBySeen ==
    ASSUME TopUpInv, Shape', Grows, UNCHANGED seen
    PROVE  SeenIsPast'
  BY DEF TopUpInv, PageShape, View, SeenIsPast, Grows, Shape

(* What the chains do under a page keeps what is known of it.               *)
LEMMA KeptByGrowth ==
    ASSUME TopUpInv, Shape', Grows, UNCHANGED <<job, shown, owed, seen>>,
           mined' = mined
    PROVE  TopUpInv'
  <1>1. PageShape' /\ TopUpsAreShown'
    BY DEF TopUpInv, PageShape, TopUpsAreShown
  <1>2. OwedIsHeld' /\ BoughtIsHeld'
    BY DEF TopUpInv, PageShape, JobShape, OwedIsHeld, BoughtIsHeld, Running, Grows, Shape, Held
  <1>3. ASSUME NEW t \in Page, NEW at \in {"mined", "claiming"}, Running(t, "l1", at),
               NEW m \in inbox', m.nonce = L1Nonce(job[t].id)
        PROVE  m \in inbox
    BY <1>3, OldMessage DEF TopUpInv, PageShape, JobShape, BoughtIsAsked, Running
  <1>4. BoughtIsAsked'
    BY <1>3 DEF TopUpInv, PageShape, JobShape, BoughtIsAsked, Running, Grows, Shape
  <1>5. HalfIsEnough'
    BY DEF TopUpInv, PageShape, JobShape, HalfIsEnough, Running, Grows, Shape
  <1> QED
    BY <1>1, <1>2, <1>5, <1>4, KeptBySeen DEF TopUpInv

(* A page whose job ends, or moves to a point where nothing is bought or    *)
(* half read, owes the invariant nothing.                                   *)
LEMMA KeptByJob ==
    ASSUME TopUpInv, Shape', Grows, NEW t \in Page,
           NEW j \in JobShape \cup {None}, job' = [job EXCEPT ![t] = j],
           j # None => /\ ~(j.what = "l2" /\ j.at = "bought")
                       /\ ~(j.what = "l1" /\ j.at \in {"mined", "claiming"})
                       /\ ~(j.what = "read" /\ j.at = "half"),
           shown' = shown \/ shown' = [shown EXCEPT ![t] = None],
           UNCHANGED <<owed, mined, seen>>
    PROVE  TopUpInv'
  <1>1. PageShape'
    BY DEF TopUpInv, PageShape
  <1>2. OwedIsHeld' /\ BoughtIsHeld'
    BY DEF TopUpInv, PageShape, JobShape, OwedIsHeld, BoughtIsHeld, Running, Grows, Shape, Held
  <1>3. BoughtIsAsked'
    BY DEF TopUpInv, PageShape, JobShape, BoughtIsAsked, Running, Grows, Shape, L1Nonce
  <1>4. HalfIsEnough'
    BY DEF TopUpInv, PageShape, JobShape, HalfIsEnough, Running, Grows, Shape
  <1>5. TopUpsAreShown'
    BY DEF TopUpInv, PageShape, TopUpsAreShown
  <1> QED
    BY <1>1, <1>2, <1>3, <1>4, <1>5, KeptBySeen DEF TopUpInv

(* A page that keeps its L1 purchase and goes on to claim it.               *)
LEMMA KeptByClaiming ==
    ASSUME TopUpInv, Shape', Grows, NEW t \in Page,
           Running(t, "l1", "mined") \/ Running(t, "l1", "claiming"),
           NEW j \in JobShape, job' = [job EXCEPT ![t] = j],
           j.what = "l1", j.at = "claiming",
           j.id = job[t].id, j.sponsor = job[t].sponsor, j.amount = job[t].amount,
           UNCHANGED <<shown, owed, mined, seen>>
    PROVE  TopUpInv'
  <1>1. PageShape' /\ TopUpsAreShown'
    BY DEF TopUpInv, PageShape, TopUpsAreShown
  <1>2. OwedIsHeld' /\ BoughtIsHeld'
    BY DEF TopUpInv, PageShape, JobShape, OwedIsHeld, BoughtIsHeld, Running, Grows, Shape, Held
  <1>3. HalfIsEnough'
    BY DEF TopUpInv, PageShape, JobShape, HalfIsEnough, Running, Grows, Shape
  <1>4. BoughtIsAsked'
    <2> SUFFICES ASSUME NEW u \in Page, NEW at \in {"mined", "claiming"}, Running(u, "l1", at)'
                 PROVE  /\ job'[u].id <= nextPurchaseId'
                        /\ \A m \in inbox' : m.nonce = L1Nonce(job'[u].id) =>
                              m.sponsor = job'[u].sponsor /\ m.amount = job'[u].amount
      BY DEF BoughtIsAsked
    <2>1. PICK was \in {"mined", "claiming"} : Running(u, "l1", was)
      BY DEF Running, TopUpInv, PageShape
    <2>2. /\ job'[u].id = job[u].id /\ job'[u].sponsor = job[u].sponsor
          /\ job'[u].amount = job[u].amount
      BY DEF TopUpInv, PageShape
    <2>3. job[u].id \in Nat /\ job[u].id <= nextPurchaseId
      BY <2>1 DEF TopUpInv, PageShape, JobShape, Running, BoughtIsAsked
    <2>4. \A m \in inbox' : m.nonce = L1Nonce(job[u].id) => m \in inbox
      BY <2>3, OldMessage DEF TopUpInv
    <2> QED
      BY <2>1, <2>2, <2>3, <2>4 DEF TopUpInv, BoughtIsAsked, Grows, Shape
  <1> QED
    BY <1>1, <1>2, <1>3, <1>4, KeptBySeen DEF TopUpInv

LEMMA NewJob ==
    ASSUME NEW what \in What, NEW s \in Company, NEW n \in Nat
    PROVE  Job(what, s, n) \in JobShape
  BY DEF Job, JobShape, Point

(* A page is told that a top-up is done when the registry holds it.         *)
LEMMA KeptByTelling ==
    ASSUME TopUpInv, Shape', Grows, NEW t \in Page, job[t] # None, ToldDone(t),
           NEW s \in Company, s = job[t].sponsor,
           owed[t][s] + job[t].amount <= Held(s)',
           UNCHANGED <<shown, mined, seen>>
    PROVE  TopUpInv'
  <1> DEFINE j == job[t]
             k == Job("read", s, 0)
  <1>1. j \in JobShape /\ j.amount \in Nat
    BY DEF TopUpInv, PageShape, JobShape
  <1>2. k \in JobShape
    BY NewJob DEF What
  <1>3. /\ owed' = [owed EXCEPT ![t][s] = @ + j.amount]
        /\ job' = [job EXCEPT ![t] = k]
    BY DEF ToldDone
  <1> HIDE DEF j
  <1>4. PageShape' /\ TopUpsAreShown'
    BY <1>1, <1>2, <1>3 DEF TopUpInv, PageShape, TopUpsAreShown
  <1>5. OwedIsHeld'
    <2>1. \A u \in Page, c \in Company :
             owed'[u][c] = IF u = t /\ c = s THEN owed[u][c] + j.amount ELSE owed[u][c]
      BY <1>1, <1>3 DEF TopUpInv, PageShape
    <2>2. \A u \in Page, c \in Company : owed[u][c] \in Nat /\ owed[u][c] <= Held(c)
      BY DEF TopUpInv, PageShape, OwedIsHeld
    <2>3. \A c \in Company : Held(c) \in Nat /\ Held(c)' \in Nat /\ Held(c) <= Held(c)'
      BY DEF TopUpInv, Shape, Grows, Held
    <2>4. owed[t][s] + j.amount <= Held(s)'
      BY DEF j
    <2> QED
      BY <2>1, <2>2, <2>3, <2>4 DEF OwedIsHeld, Held
  <1>6. k.what = "read" /\ k.at = "register"
    BY DEF Job
  <1> HIDE DEF k
  <1>7. BoughtIsHeld'
    BY <1>1, <1>2, <1>3, <1>6
    DEF TopUpInv, PageShape, JobShape, BoughtIsHeld, Running, Grows, Shape, Held
  <1>8. BoughtIsAsked'
    <2> SUFFICES ASSUME NEW u \in Page, NEW at \in {"mined", "claiming"}, Running(u, "l1", at)'
                 PROVE  /\ job'[u].id <= nextPurchaseId'
                        /\ \A m \in inbox' : m.nonce = L1Nonce(job'[u].id) =>
                              m.sponsor = job'[u].sponsor /\ m.amount = job'[u].amount
      BY DEF BoughtIsAsked
    <2>1. job'[u] = job[u] /\ Running(u, "l1", at)
      BY <1>3, <1>6 DEF TopUpInv, PageShape, Running
    <2>2. job[u].id \in Nat /\ job[u].id <= nextPurchaseId
      BY <2>1 DEF TopUpInv, PageShape, JobShape, Running, BoughtIsAsked
    <2>3. \A m \in inbox' : m.nonce = L1Nonce(job[u].id) => m \in inbox
      BY <2>2, OldMessage DEF TopUpInv
    <2> QED
      BY <2>1, <2>2, <2>3 DEF TopUpInv, BoughtIsAsked, Grows, Shape
  <1>9. HalfIsEnough'
    BY <1>1, <1>2, <1>3, <1>6
    DEF TopUpInv, PageShape, JobShape, HalfIsEnough, Running, Grows, Shape
  <1> QED
    BY <1>4, <1>5, <1>7, <1>8, <1>9, KeptBySeen DEF TopUpInv

LEMMA Advances ==
    ASSUME PageShape, NEW t \in Page, job[t] # None, NEW at \in Point, Advance(t, at)
    PROVE  \E j \in JobShape :
              /\ job' = [job EXCEPT ![t] = j] /\ j.at = at
              /\ j.what = job[t].what /\ j.sponsor = job[t].sponsor
              /\ j.amount = job[t].amount /\ j.id = job[t].id
  <1> DEFINE j == [job[t] EXCEPT !.at = at]
  <1>1. job[t] \in JobShape
    BY DEF PageShape
  <1>2. /\ j \in JobShape /\ j.at = at /\ j.what = job[t].what
        /\ j.sponsor = job[t].sponsor /\ j.amount = job[t].amount /\ j.id = job[t].id
    BY <1>1 DEF JobShape
  <1>3. job' = [job EXCEPT ![t] = j]
    BY DEF Advance
  <1> QED
    BY <1>2, <1>3

(* Steps of a page that buy nothing, claim nothing and read no balance.     *)
LEMMA PlainSteps ==
    ASSUME RightsAssumption, TopUpInv, NEW t \in Page,
           \/ \E what \in What, s \in Company, n \in Nat : Begin(t, what, s, n)
           \/ RegisterKnownContracts(t) \/ Fail(t) \/ Reload(t) \/ SendAuthwit(t)
           \/ Approve(t) \/ SendAddGateway(t) \/ ReadSponsorAuthorization(t)
           \/ VerifyWithCompanySponsor(t)
    PROVE  TopUpInv'
  <1> USE DEF TopUpInv
  <1>1. ASSUME NEW what \in What, NEW s \in Company, NEW n \in Nat, Begin(t, what, s, n)
        PROVE  TopUpInv'
    <2>1. Job(what, s, n) \in JobShape /\ Job(what, s, n).at = "register"
      BY NewJob DEF Job
    <2>2. /\ job' = [job EXCEPT ![t] = Job(what, s, n)] /\ UNCHANGED <<shown, owed, mined, seen>>
          /\ UNCHANGED RightsVars
      BY <1>1 DEF Begin, vars, portalVars, registryVars, credits, chainVars, RightsVars
    <2> HIDE DEF TopUpInv
    <2>3. Shape' /\ Grows
      BY <2>2, Still DEF TopUpInv
    <2> QED
      BY <2>1, <2>2, <2>3, KeptByJob
  <1>2. CASE Fail(t) \/ Reload(t)
    <2>1. /\ job' = [job EXCEPT ![t] = None] /\ UNCHANGED <<owed, mined, seen>>
          /\ shown' = shown \/ shown' = [shown EXCEPT ![t] = None]
          /\ UNCHANGED RightsVars
      BY <1>2 DEF Fail, Reload, Ends, vars, portalVars, registryVars, credits, chainVars, RightsVars
    <2> HIDE DEF TopUpInv
    <2>2. Shape' /\ Grows
      BY <2>1, Still DEF TopUpInv
    <2> QED
      BY <2>1, <2>2, KeptByJob
  <1>3. CASE \E at \in {"ready", "authorized", "approved", "checked"} :
                job[t] # None /\ Advance(t, at) /\ UNCHANGED <<RightsVars, shown, owed, mined, seen>>
    <2>1. PICK at \in {"ready", "authorized", "approved", "checked"} :
                job[t] # None /\ Advance(t, at) /\ UNCHANGED <<RightsVars, shown, owed, mined, seen>>
      BY <1>3
    <2>2. PICK j \in JobShape : job' = [job EXCEPT ![t] = j] /\ j.at = at
      BY <2>1, Advances DEF Point
    <2> HIDE DEF TopUpInv
    <2>3. Shape' /\ Grows
      BY <2>1, Still DEF TopUpInv
    <2> QED
      BY <2>1, <2>2, <2>3, KeptByJob
  <1>4. CASE RegisterKnownContracts(t) \/ Approve(t) \/ ReadSponsorAuthorization(t)
    BY <1>3, <1>4 DEF RegisterKnownContracts, Approve, ReadSponsorAuthorization, Running,
       vars, portalVars, registryVars, credits, chainVars, RightsVars
  <1>5. CASE SendAuthwit(t)
    BY <1>3, <1>5 DEF SendAuthwit, Running, AuthorizePayment,
       vars, portalVars, registryVars, credits, chainVars, RightsVars
  <1>6. CASE SendAddGateway(t) \/ VerifyWithCompanySponsor(t)
    <2>1. /\ job[t] # None /\ job' = [job EXCEPT ![t] = None]
          /\ UNCHANGED <<shown, owed, mined, seen>>
          /\ UNCHANGED RightsVars \/ ConsumeRight(job[t].sponsor, 1)
      BY <1>6 DEF SendAddGateway, VerifyWithCompanySponsor, Running, Ends,
         vars, portalVars, registryVars, credits, chainVars, RightsVars
    <2>2. job[t].sponsor \in Company
      BY <2>1 DEF PageShape, JobShape
    <2> HIDE DEF TopUpInv
    <2>3. Shape' /\ Grows
      BY <2>1, <2>2, Still, Consumes DEF TopUpInv
    <2> QED
      BY <2>1, <2>3, KeptByJob
  <1> QED
    BY <1>1, <1>2, <1>4, <1>5, <1>6

-----------------------------------------------------------------------------
(* What a page asks for, as values that do not change under it.             *)
LEMMA Asked ==
    ASSUME PageShape, NEW t \in Page, job[t] # None
    PROVE  \E s \in Company, n \in Nat : job[t].sponsor = s /\ job[t].amount = n
  BY DEF PageShape, JobShape

(* The purchase on L2 credits the rights before the page is told.           *)
LEMMA SendPurchaseStep ==
    ASSUME RightsAssumption, TopUpInv, NEW t \in Page, SendPurchase(t)
    PROVE  TopUpInv'
  <1>1. Running(t, "l2", "authorized") /\ Advance(t, "bought") /\ UNCHANGED <<shown, owed, mined, seen>>
    BY DEF SendPurchase, chainVars
  <1>2. PICK s \in Company, n \in Nat : job[t].sponsor = s /\ job[t].amount = n
    BY <1>1, Asked DEF TopUpInv, Running
  <1>3. PICK k \in Package : PurchaseRightsPublic(WalletOf[t], s, n, k)
    BY <1>2 DEF SendPurchase
  <1>4. Shape' /\ Grows /\ Held(s)' = Held(s) + n
    BY <1>3, Credits DEF TopUpInv, PurchaseRightsPublic, CreditFromL2Payment, portalVars
  <1>5. PICK j \in JobShape :
           /\ job' = [job EXCEPT ![t] = j] /\ j.what = "l2" /\ j.at = "bought"
           /\ j.sponsor = s /\ j.amount = n
    BY <1>1, <1>2, Advances DEF TopUpInv, Point, Running
  <1>6. PageShape' /\ TopUpsAreShown'
    BY <1>1, <1>5 DEF TopUpInv, PageShape, TopUpsAreShown
  <1>7. OwedIsHeld'
    BY <1>1, <1>4 DEF TopUpInv, PageShape, OwedIsHeld, Grows, Shape, Held
  <1>8. BoughtIsHeld'
    <2> SUFFICES ASSUME NEW u \in Page, Running(u, "l2", "bought")'
                 PROVE  (owed[u][job[u].sponsor] + job[u].amount <= Held(job[u].sponsor))'
      BY DEF BoughtIsHeld
    <2>1. CASE u = t
      <3>1. job'[t].sponsor = s /\ job'[t].amount = n
        BY <1>5 DEF TopUpInv, PageShape
      <3>2. owed[t][s] \in Nat /\ owed[t][s] <= Held(s) /\ Held(s) \in Nat
        BY DEF TopUpInv, PageShape, OwedIsHeld, Shape, Held
      <3> QED
        BY <1>1, <1>4, <2>1, <3>1, <3>2 DEF Held
    <2>2. CASE u # t
      <3>1. job'[u] = job[u] /\ Running(u, "l2", "bought")
        BY <1>5, <2>2 DEF Running, TopUpInv, PageShape
      <3>2. job[u].sponsor \in Company /\ job[u].amount \in Nat
        BY <3>1 DEF TopUpInv, PageShape, JobShape, Running
      <3> QED
        BY <1>1, <1>4, <3>1, <3>2 DEF TopUpInv, PageShape, BoughtIsHeld, Grows, Shape, Held
    <2> QED
      BY <2>1, <2>2
  <1>9. BoughtIsAsked'
    BY <1>4, <1>5 DEF TopUpInv, PageShape, JobShape, BoughtIsAsked, Running, Grows, Shape, L1Nonce
  <1>10. HalfIsEnough'
    BY <1>1, <1>4, <1>5 DEF TopUpInv, PageShape, JobShape, HalfIsEnough, Running, Grows, Shape
  <1> QED
    BY <1>1, <1>4, <1>6, <1>7, <1>8, <1>9, <1>10, KeptBySeen DEF TopUpInv

LEMMA ReadPurchaseIdStep ==
    ASSUME TopUpInv, NEW t \in Page, ReadPurchaseId(t)
    PROVE  TopUpInv'
  <1>1. Running(t, "l2", "bought") /\ ToldDone(t) /\ UNCHANGED <<shown, mined, seen>>
        /\ UNCHANGED RightsVars
    BY DEF ReadPurchaseId, chainVars, vars, portalVars, registryVars, credits, RightsVars
  <1>2. PICK s \in Company, n \in Nat : job[t].sponsor = s /\ job[t].amount = n
    BY <1>1, Asked DEF TopUpInv, Running
  <1>3. Shape' /\ Grows
    BY <1>1, Still DEF TopUpInv
  <1>4. owed[t][s] + job[t].amount <= Held(s)'
    BY <1>1, <1>2 DEF TopUpInv, BoughtIsHeld, RightsVars, Held
  <1> QED
    BY <1>1, <1>2, <1>3, <1>4, KeptByTelling DEF Running

(* The purchase on L1: its message is the only one of its number.           *)
LEMMA WritePurchaseStep ==
    ASSUME RightsAssumption, TopUpInv, NEW t \in Page, WritePurchase(t)
    PROVE  TopUpInv'
  <1>1. /\ Running(t, "l1", "approved") /\ UNCHANGED <<shown, owed, seen>>
        /\ mined' = mined \cup {[id |-> nextPurchaseId', block |-> block]}
        /\ job' = [job EXCEPT ![t] = [@ EXCEPT !.at = "mined", !.id = nextPurchaseId']]
    BY DEF WritePurchase
  <1>2. PICK s \in Company, n \in Nat : job[t].sponsor = s /\ job[t].amount = n
    BY <1>1, Asked DEF TopUpInv, Running
  <1>3. PICK k \in Package : PurchaseRights(L1Buyer, s, n, k)
    BY <1>2 DEF WritePurchase
  <1>4. /\ Shape' /\ Grows
        /\ \A m \in inbox' : m.nonce = L1Nonce(nextPurchaseId') => m.sponsor = s /\ m.amount = n
    BY <1>3, Purchases DEF TopUpInv
  <1>5. nextPurchaseId' \in Nat
    BY <1>4 DEF Shape
  <1>6. /\ job'[t] \in JobShape /\ job'[t].what = "l1" /\ job'[t].at = "mined"
        /\ job'[t].id = nextPurchaseId' /\ job'[t].sponsor = s /\ job'[t].amount = n
        /\ \A u \in Page : u # t => job'[u] = job[u]
        /\ DOMAIN job' = Page
    <2> DEFINE id == nextPurchaseId'
               j == [job[t] EXCEPT !.at = "mined", !.id = id]
    <2>1. job' = [job EXCEPT ![t] = j] /\ id \in Nat
      BY <1>1, <1>5
    <2> HIDE DEF id
    <2>2. job[t] \in JobShape /\ job[t].what = "l1"
      BY <1>1 DEF TopUpInv, PageShape, Running
    <2>3. /\ j \in JobShape /\ j.what = "l1" /\ j.at = "mined" /\ j.id = id
          /\ j.sponsor = s /\ j.amount = n
      BY <1>2, <2>1, <2>2 DEF JobShape, Point
    <2> HIDE DEF j
    <2> QED
      BY <2>1, <2>3 DEF TopUpInv, PageShape, id
  <1>7. PageShape' /\ TopUpsAreShown'
    <2>1. job' \in [Page -> JobShape \cup {None}]
      BY <1>1, <1>6 DEF TopUpInv, PageShape
    <2> QED
      BY <1>1, <1>5, <2>1 DEF TopUpInv, PageShape, TopUpsAreShown
  <1>8. OwedIsHeld' /\ BoughtIsHeld'
    BY <1>1, <1>4, <1>6
    DEF TopUpInv, PageShape, JobShape, OwedIsHeld, BoughtIsHeld, Running, Grows, Shape, Held
  <1>9. HalfIsEnough'
    BY <1>1, <1>4, <1>6 DEF TopUpInv, PageShape, JobShape, HalfIsEnough, Running, Grows, Shape
  <1>10. BoughtIsAsked'
    <2> SUFFICES ASSUME NEW u \in Page, NEW at \in {"mined", "claiming"}, Running(u, "l1", at)'
                 PROVE  /\ job'[u].id <= nextPurchaseId'
                        /\ \A m \in inbox' : m.nonce = L1Nonce(job'[u].id) =>
                              m.sponsor = job'[u].sponsor /\ m.amount = job'[u].amount
      BY DEF BoughtIsAsked
    <2>1. CASE u = t
      BY <1>4, <1>5, <1>6, <2>1
    <2>2. CASE u # t
      <3>1. job'[u] = job[u] /\ Running(u, "l1", at)
        BY <1>6, <2>2 DEF Running
      <3>2. job[u].id \in Nat /\ job[u].id <= nextPurchaseId
        BY <3>1 DEF TopUpInv, PageShape, JobShape, Running, BoughtIsAsked
      <3>3. \A m \in inbox' : m.nonce = L1Nonce(job[u].id) => m \in inbox
        BY <1>4, <3>2, OldMessage DEF TopUpInv
      <3> QED
        BY <1>4, <3>1, <3>2, <3>3 DEF TopUpInv, BoughtIsAsked, Grows, Shape
    <2> QED
      BY <2>1, <2>2
  <1> QED
    BY <1>1, <1>4, <1>7, <1>8, <1>9, <1>10, KeptBySeen DEF TopUpInv

LEMMA ReadLogStep ==
    ASSUME TopUpInv, NEW t \in Page, ReadLog(t)
    PROVE  TopUpInv'
  <1>1. Running(t, "l1", "mined") /\ UNCHANGED <<shown, owed, mined, seen>> /\ UNCHANGED RightsVars
    BY DEF ReadLog, chainVars, vars, portalVars, registryVars, credits, RightsVars
  <1>2. PICK e \in mined :
           job' = [job EXCEPT ![t] = [@ EXCEPT !.at = "claiming", !.logged = e.id]]
    BY DEF ReadLog, FirstOf
  <1> DEFINE j == [job[t] EXCEPT !.at = "claiming", !.logged = e.id]
  <1>3. /\ j \in JobShape /\ j.what = "l1" /\ j.at = "claiming" /\ j.id = job[t].id
        /\ j.sponsor = job[t].sponsor /\ j.amount = job[t].amount
    BY <1>1 DEF TopUpInv, PageShape, JobShape, Running, Point
  <1>4. job' = [job EXCEPT ![t] = j]
    BY <1>2
  <1>5. Shape' /\ Grows
    BY <1>1, Still DEF TopUpInv
  <1> HIDE DEF j
  <1> QED
    BY <1>1, <1>3, <1>4, <1>5, KeptByClaiming

(* One more attempt, whatever the last one did to the registry.             *)
LEMMA TriesAgain ==
    ASSUME TopUpInv, Shape', Grows, NEW t \in Page, Running(t, "l1", "claiming"),
           job' = [job EXCEPT ![t].tries = @ + 1], UNCHANGED <<shown, owed, mined, seen>>
    PROVE  TopUpInv'
  <1> DEFINE j == [job[t] EXCEPT !.tries = @ + 1]
  <1>1. /\ j \in JobShape /\ j.what = "l1" /\ j.at = "claiming" /\ j.id = job[t].id
        /\ j.sponsor = job[t].sponsor /\ j.amount = job[t].amount
    BY DEF TopUpInv, PageShape, JobShape, Running
  <1>2. job' = [job EXCEPT ![t] = j]
    OBVIOUS
  <1> HIDE DEF j
  <1> QED
    BY <1>1, <1>2, KeptByClaiming

(* The message that is claimed carries what the page asked for.             *)
LEMMA ClaimStep ==
    ASSUME TopUpInv, NEW t \in Page, Claim(t)
    PROVE  TopUpInv'
  <1>1. Running(t, "l1", "claiming") /\ UNCHANGED <<shown, mined, seen>>
    BY DEF Claim, chainVars
  <1>2. PICK s \in Company, n \in Nat : job[t].sponsor = s /\ job[t].amount = n
    BY <1>1, Asked DEF TopUpInv, Running
  <1>3. PICK m \in inbox : m.nonce = L1Nonce(job[t].id) /\ ClaimL1Credit(m)
    BY DEF Claim
  <1>4. m.sponsor = s /\ m.amount = n
    BY <1>1, <1>2, <1>3 DEF TopUpInv, BoughtIsAsked
  <1>5. Shape' /\ Grows /\ Held(s)' = Held(s) + n
    <2>1. CreditRights(s, n, m.package, m.nonce)
          /\ UNCHANGED <<consumed_verifies, nextPurchaseId, inbox>>
      BY <1>3, <1>4 DEF ClaimL1Credit, portalVars
    <2> QED
      BY <2>1, Credits DEF TopUpInv
  <1>6. CASE ToldDone(t)
    <2>1. owed[t][s] + n <= Held(s)'
      BY <1>5 DEF TopUpInv, PageShape, OwedIsHeld, Shape, Held
    <2> QED
      BY <1>1, <1>2, <1>5, <1>6, <2>1, KeptByTelling DEF Running
  <1>7. CASE job' = [job EXCEPT ![t].tries = @ + 1] /\ UNCHANGED owed
    BY <1>1, <1>5, <1>7, TriesAgain
  <1>8. CASE Ends(t) /\ UNCHANGED owed
    BY <1>1, <1>5, <1>8, KeptByJob DEF Ends
  <1> QED
    BY <1>6, <1>7, <1>8 DEF Claim

LEMMA ClaimAgainStep ==
    ASSUME TopUpInv, NEW t \in Page, ClaimAgain(t)
    PROVE  TopUpInv'
  <1>1. /\ Running(t, "l1", "claiming") /\ job' = [job EXCEPT ![t].tries = @ + 1]
        /\ UNCHANGED <<shown, owed, mined, seen>> /\ UNCHANGED RightsVars
    BY DEF ClaimAgain, chainVars, vars, portalVars, registryVars, credits, RightsVars
  <1> QED
    BY <1>1, Still, TriesAgain DEF TopUpInv

-----------------------------------------------------------------------------
(* The remaining rights are read first: rights used after that are counted  *)
(* again with the used ones, never missed.                                  *)
LEMMA ReadFirstStep ==
    ASSUME TopUpInv, NEW t \in Page, ReadFirst(t)
    PROVE  TopUpInv'
  <1>1. /\ Running(t, "read", "ready") /\ UNCHANGED <<shown, owed, mined, seen>>
        /\ UNCHANGED RightsVars
    BY DEF ReadFirst, chainVars, vars, portalVars, registryVars, credits, RightsVars
  <1>2. PICK s \in Company, n \in Nat : job[t].sponsor = s /\ job[t].amount = n
    BY <1>1, Asked DEF TopUpInv, Running
  <1>3. Shape' /\ Grows
    BY <1>1, Still DEF TopUpInv
  <1>4. seen[t] \in View
    BY DEF TopUpInv, PageShape
  <1> DEFINE first == seen[t].counters.remaining[s]
             known == seen[t].owed[s]
             j == [job[t] EXCEPT !.at = "half", !.first = first, !.owed = known]
  <1>5. job' = [job EXCEPT ![t] = j]
    BY <1>2 DEF ReadFirst, Field, SnapshotOrder
  <1>6. /\ first \in Nat /\ known \in Nat
        /\ known <= first + seen[t].counters.consumed[s]
    BY <1>4 DEF View, TopUpInv, SeenIsPast
  <1> HIDE DEF first, known
  <1>7. /\ j \in JobShape /\ j.what = "read" /\ j.at = "half" /\ j.sponsor = s
        /\ j.first = first /\ j.owed = known
    BY <1>1, <1>2, <1>6 DEF TopUpInv, PageShape, JobShape, Running, Point
  <1> HIDE DEF j
  <1>8. PageShape' /\ TopUpsAreShown'
    BY <1>1, <1>5, <1>7 DEF TopUpInv, PageShape, TopUpsAreShown
  <1>9. OwedIsHeld' /\ BoughtIsHeld'
    BY <1>1, <1>3, <1>5, <1>7
    DEF TopUpInv, PageShape, JobShape, OwedIsHeld, BoughtIsHeld, Running, Grows, Shape, Held
  <1>10. BoughtIsAsked'
    BY <1>3, <1>5, <1>7
    DEF TopUpInv, PageShape, JobShape, BoughtIsAsked, Running, Grows, Shape, L1Nonce
  <1>11. HalfIsEnough'
    <2> SUFFICES ASSUME NEW u \in Page, Running(u, "read", "half")'
                 PROVE  job'[u].owed <=
                           job'[u].first + seen'[u].counters.consumed[job'[u].sponsor]
      BY DEF HalfIsEnough
    <2>1. CASE u = t
      BY <1>1, <1>5, <1>6, <1>7, <2>1 DEF TopUpInv, PageShape
    <2>2. CASE u # t
      BY <1>1, <1>5, <2>2 DEF TopUpInv, PageShape, HalfIsEnough, Running
    <2> QED
      BY <2>1, <2>2
  <1> QED
    BY <1>1, <1>3, <1>8, <1>9, <1>10, <1>11, KeptBySeen DEF TopUpInv

LEMMA ReadSecondStep ==
    ASSUME TopUpInv, NEW t \in Page, ReadSecond(t)
    PROVE  TopUpInv'
  <1>1. /\ Running(t, "read", "half") /\ UNCHANGED <<owed, mined, seen>>
        /\ UNCHANGED RightsVars
    BY DEF ReadSecond, chainVars, vars, portalVars, registryVars, credits, RightsVars
  <1>2. PICK s \in Company, n \in Nat : job[t].sponsor = s /\ job[t].amount = n
    BY <1>1, Asked DEF TopUpInv, Running
  <1>3. Shape' /\ Grows
    BY <1>1, Still DEF TopUpInv
  <1> DEFINE total == job[t].first + seen[t].counters.consumed[s]
             balance == [total |-> total, owed |-> job[t].owed]
  <1>4. job' = [job EXCEPT ![t] = None] /\ shown' = [shown EXCEPT ![t] = balance]
    BY <1>2 DEF ReadSecond, Ends, Field, SnapshotOrder
  <1>5. total \in Nat /\ job[t].owed \in Nat /\ job[t].owed <= total
    BY <1>1, <1>2 DEF TopUpInv, PageShape, JobShape, View, HalfIsEnough, Running
  <1> HIDE DEF total
  <1>6. PageShape' /\ TopUpsAreShown'
    BY <1>1, <1>4, <1>5 DEF TopUpInv, PageShape, TopUpsAreShown
  <1>7. OwedIsHeld' /\ BoughtIsHeld'
    BY <1>1, <1>3, <1>4
    DEF TopUpInv, PageShape, JobShape, OwedIsHeld, BoughtIsHeld, Running, Grows, Shape, Held
  <1>8. BoughtIsAsked'
    BY <1>3, <1>4
    DEF TopUpInv, PageShape, JobShape, BoughtIsAsked, Running, Grows, Shape, L1Nonce
  <1>9. HalfIsEnough'
    BY <1>1, <1>4 DEF TopUpInv, PageShape, HalfIsEnough, Running
  <1> QED
    BY <1>1, <1>3, <1>6, <1>7, <1>8, <1>9, KeptBySeen DEF TopUpInv

(* The node moves on: what the page is owed by now is in the registry, and  *)
(* a half read balance can only grow.                                       *)
LEMMA CatchUpStep ==
    ASSUME TopUpInv, NEW t \in Page, CatchUp(t)
    PROVE  TopUpInv'
  <1> DEFINE now == [counters |-> Counters, owed |-> owed[t]]
  <1>1. seen' = [seen EXCEPT ![t] = now] /\ UNCHANGED <<job, shown, owed, mined>>
    BY DEF CatchUp
  <1>2. UNCHANGED RightsVars
    BY DEF CatchUp, vars, portalVars, registryVars, credits, RightsVars
  <1>3. Shape' /\ Grows
    BY <1>2, Still DEF TopUpInv
  <1>4. /\ now \in View /\ now.owed = owed[t]
        /\ now.counters.remaining = remaining_verifies
        /\ now.counters.consumed = consumed_verifies
    BY DEF TopUpInv, PageShape, Shape, View, Counters
  <1> HIDE DEF now
  <1>5. PageShape' /\ TopUpsAreShown'
    BY <1>1, <1>4 DEF TopUpInv, PageShape, TopUpsAreShown
  <1>6. OwedIsHeld' /\ BoughtIsHeld'
    BY <1>1, <1>2 DEF TopUpInv, OwedIsHeld, BoughtIsHeld, Running, RightsVars, Held
  <1>7. BoughtIsAsked'
    BY <1>1, <1>2 DEF TopUpInv, BoughtIsAsked, Running, RightsVars, L1Nonce
  <1>8. SeenIsPast'
    <2> SUFFICES ASSUME NEW u \in Page, NEW s \in Company
                 PROVE  /\ seen'[u].owed[s] <=
                              seen'[u].counters.remaining[s] + seen'[u].counters.consumed[s]
                        /\ seen'[u].counters.consumed[s] <= consumed_verifies'[s]
      BY DEF SeenIsPast
    <2>1. CASE u = t
      BY <1>1, <1>2, <1>4, <2>1 DEF TopUpInv, PageShape, OwedIsHeld, Held, Shape, RightsVars
    <2>2. CASE u # t
      BY <1>1, <1>2, <2>2 DEF TopUpInv, PageShape, SeenIsPast, RightsVars
    <2> QED
      BY <2>1, <2>2
  <1>9. HalfIsEnough'
    <2> SUFFICES ASSUME NEW u \in Page, Running(u, "read", "half")
                 PROVE  job[u].owed <= job[u].first + seen'[u].counters.consumed[job[u].sponsor]
      BY <1>1 DEF HalfIsEnough, Running
    <2>1. /\ job[u].owed \in Nat /\ job[u].first \in Nat /\ job[u].sponsor \in Company
          /\ job[u].owed <= job[u].first + seen[u].counters.consumed[job[u].sponsor]
      BY DEF TopUpInv, PageShape, JobShape, HalfIsEnough, Running
    <2>2. CASE u = t
      <3>1. /\ seen'[u].counters.consumed = consumed_verifies
            /\ seen[u].counters.consumed[job[u].sponsor] <= consumed_verifies[job[u].sponsor]
        BY <1>1, <1>4, <2>1, <2>2 DEF TopUpInv, PageShape, SeenIsPast
      <3>2. /\ seen[u].counters.consumed[job[u].sponsor] \in Nat
            /\ consumed_verifies[job[u].sponsor] \in Nat
        BY <2>1 DEF TopUpInv, PageShape, View, Shape
      <3> QED
        BY <2>1, <3>1, <3>2
    <2>3. CASE u # t
      BY <1>1, <2>1, <2>3 DEF TopUpInv, PageShape
    <2> QED
      BY <2>2, <2>3
  <1> QED
    BY <1>3, <1>5, <1>6, <1>7, <1>8, <1>9 DEF TopUpInv

-----------------------------------------------------------------------------
LEMMA TopUpInductive == ClientSpec => []TopUpInv
  <1> USE RightsAssumption, TopUpAssumption
  <1>1. Init /\ ClientInit => TopUpInv
    <2> SUFFICES ASSUME Init, ClientInit
                 PROVE  TopUpInv
      OBVIOUS
    <2>1. \A t \in Page : job[t] = None /\ shown[t] = None
      BY DEF ClientInit
    <2> QED
      BY <2>1 DEF Init, ClientInit, TopUpInv, Shape, PageShape, OwedIsHeld, BoughtIsHeld,
         BoughtIsAsked, SeenIsPast, HalfIsEnough, TopUpsAreShown, Running, Held, View, Counters
  <1>2. TopUpInv /\ [ClientNext \/ (Next /\ UNCHANGED clientVars)]_<<vars, clientVars>>
           => TopUpInv'
    <2> SUFFICES ASSUME TopUpInv,
                        [ClientNext \/ (Next /\ UNCHANGED clientVars)]_<<vars, clientVars>>
                 PROVE  TopUpInv'
      OBVIOUS
    <2>1. CASE Next /\ UNCHANGED clientVars
      <3>1. Shape' /\ Grows
        BY <2>1, AnyCall DEF TopUpInv
      <3> QED
        BY <2>1, <3>1, KeptByGrowth DEF clientVars
    <2>2. CASE UNCHANGED <<RightsVars, job, shown, owed, mined, seen>>
      <3>1. Shape' /\ Grows
        BY <2>2, Still DEF TopUpInv
      <3> QED
        BY <2>2, <3>1, KeptByGrowth
    <2>3. CASE MineBlock \/ (\E s \in Company : RemoveGateway(s)) \/ UNCHANGED <<vars, clientVars>>
      BY <2>2, <2>3 DEF MineBlock, RemoveGateway, vars, portalVars, registryVars, credits,
         clientVars, RightsVars
    <2>4. ASSUME NEW t \in Page, Step(t)
          PROVE  TopUpInv'
      <3>1. CASE \E s \in Company :
               \/ \E what \in {"l1", "l2"}, n \in Amount : Begin(t, what, s, n)
               \/ \E what \in {"read", "add", "verify"} : Begin(t, what, s, 0)
        <4>1. \E what \in What, s \in Company, n \in Nat : Begin(t, what, s, n)
          BY <3>1 DEF What, RightsAssumption
        <4> QED
          BY <4>1, PlainSteps
      <3> QED
        BY <2>4, <3>1, PlainSteps, SendPurchaseStep, ReadPurchaseIdStep, WritePurchaseStep,
           ReadLogStep, ClaimStep, ClaimAgainStep, ReadFirstStep, ReadSecondStep,
           CatchUpStep DEF Step
    <2> QED
      BY <2>1, <2>3, <2>4 DEF ClientNext
  <1> QED
    BY <1>1, <1>2, PTL DEF ClientSpec

(* Whatever is bought, claimed, used and read meanwhile, by this page, by   *)
(* another or by any other caller of the contracts, and however far its node *)
(* lags, the rights an operator reads are no fewer than the top-ups reported *)
(* done when the node reached the block of the first field.                 *)
THEOREM TopUps == ClientSpec => []TopUpsAreShown
  <1>1. TopUpInv => TopUpsAreShown
    BY DEF TopUpInv
  <1> QED
    BY <1>1, TopUpInductive, PTL

-----------------------------------------------------------------------------
(* Adding up by counting units.                                             *)
LEMMA UnitsAre ==
    ASSUME NEW S, NEW f \in [S -> Nat]
    PROVE  \A u : u \in Units(f) <=>
              \E x \in S, k \in Nat \ {0} : u = <<x, k>> /\ k <= f[x]
  BY DEF Units

(* One entry more, or a greater one: the total grows by the difference.     *)
LEMMA TotalGrows ==
    ASSUME NEW S, NEW T, NEW f \in [S -> Nat], NEW g \in [T -> Nat],
           NEW x \in T, S \subseteq T, T \subseteq S \cup {x}, NEW n \in Nat,
           g[x] = (IF x \in S THEN f[x] ELSE 0) + n,
           \A y \in S \ {x} : g[y] = f[y],
           IsFiniteSet(Units(f)) \/ IsFiniteSet(Units(g))
    PROVE  /\ IsFiniteSet(Units(f)) /\ IsFiniteSet(Units(g))
           /\ Total(f) \in Nat /\ Total(g) = Total(f) + n
  <1> DEFINE old == IF x \in S THEN f[x] ELSE 0
             new == {x} \X (old + 1 .. old + n)
  <1>1. old \in Nat /\ g[x] = old + n
    OBVIOUS
  <1>2. \A u : u \in Units(f) <=> \E y \in S, k \in Nat \ {0} : u = <<y, k>> /\ k <= f[y]
    BY UnitsAre
  <1>3. \A u : u \in Units(g) <=> \E y \in T, k \in Nat \ {0} : u = <<y, k>> /\ k <= g[y]
    BY UnitsAre
  <1>4. \A u : u \in new <=>
           \E k \in Nat \ {0} : u = <<x, k>> /\ old < k /\ k <= old + n
    BY <1>1
  <1>5. IsFiniteSet(new) /\ Cardinality(new) = n
    <2> DEFINE a == old + 1
               b == old + n
               range == a .. b
    <2>1. IsFiniteSet({x}) /\ Cardinality({x}) = 1
      BY FS_Singleton
    <2>2. a \in Int /\ b \in Int /\ (IF a > b THEN 0 ELSE b - a + 1) = n
      BY <1>1
    <2>3. new = {x} \X range
      OBVIOUS
    <2> HIDE DEF a, b, new
    <2>4. IsFiniteSet(range) /\ Cardinality(range) = n
      BY <2>2, FS_Interval
    <2> HIDE DEF range
    <2>5. IsFiniteSet(new) /\ Cardinality(new) = 1 * n
      BY <2>1, <2>3, <2>4, FS_Product
    <2> QED
      BY <2>5
  <1>6. Units(g) = Units(f) \cup new
    <2>1. ASSUME NEW u \in Units(g) PROVE u \in Units(f) \cup new
      <3>1. PICK y \in T, k \in Nat \ {0} : u = <<y, k>> /\ k <= g[y]
        BY <1>3, <2>1
      <3>2. CASE y = x /\ old < k
        <4>1. u = <<x, k>> /\ old < k /\ k <= old + n
          BY <1>1, <3>1, <3>2
        <4> HIDE DEF new
        <4> QED
          BY <1>4, <4>1
      <3>3. CASE ~(y = x /\ old < k)
        <4>1. y \in S /\ k <= f[y]
          BY <1>1, <3>1, <3>3
        <4> QED
          BY <1>2, <3>1, <4>1
      <3> QED
        BY <3>2, <3>3
    <2>2. ASSUME NEW u \in Units(f) PROVE u \in Units(g)
      <3>1. PICK y \in S, k \in Nat \ {0} : u = <<y, k>> /\ k <= f[y]
        BY <1>2, <2>2
      <3>2. y \in T /\ k <= g[y]
        BY <1>1, <3>1
      <3> QED
        BY <1>3, <3>1, <3>2
    <2>3. ASSUME NEW u \in new PROVE u \in Units(g)
      <3> HIDE DEF new
      <3>1. PICK k \in Nat \ {0} : u = <<x, k>> /\ k <= g[x]
        BY <1>1, <1>4, <2>3
      <3> QED
        BY <1>3, <3>1
    <2> QED
      BY <2>1, <2>2, <2>3
  <1>7. Units(f) \cap new = {}
    <2> SUFFICES ASSUME NEW u \in Units(f), u \in new PROVE FALSE
      OBVIOUS
    <2>1. PICK y \in S, k \in Nat \ {0} : u = <<y, k>> /\ k <= f[y]
      BY <1>2
    <2> HIDE DEF new
    <2>2. PICK h \in Nat \ {0} : u = <<x, h>> /\ old < h
      BY <1>4
    <2> QED
      BY <2>1, <2>2
  <1> HIDE DEF new
  <1>8. IsFiniteSet(Units(f))
    BY <1>6, FS_Subset
  <1>9. /\ IsFiniteSet(Units(g))
        /\ Cardinality(Units(g)) = Cardinality(Units(f)) + n - Cardinality({})
    <2> DEFINE F == Units(f)
    <2>1. IsFiniteSet(F \cup new)
          /\ Cardinality(F \cup new) = Cardinality(F) + Cardinality(new) - Cardinality(F \cap new)
      BY <1>5, <1>8, FS_Union
    <2> QED
      BY <1>5, <1>6, <1>7, <2>1
  <1>10. Cardinality({}) = 0 /\ Cardinality(Units(f)) \in Nat
    BY <1>8, FS_EmptySet, FS_CardinalityType
  <1> QED
    BY <1>8, <1>9, <1>10 DEF Total

LEMMA TotalOfNothing ==
    ASSUME NEW S, NEW f \in [S -> Nat], \A x \in S : f[x] = 0
    PROVE  IsFiniteSet(Units(f)) /\ Total(f) = 0
  <1>1. Units(f) = {}
    BY UnitsAre
  <1> QED
    BY <1>1, FS_EmptySet DEF Total

Amounts(M) == [m \in M |-> m.amount]
Counted(M) == (\A m \in M : m.amount \in Nat) /\ IsFiniteSet(Units(Amounts(M)))

LEMMA RightsGrow ==
    ASSUME NEW M, Counted(M), NEW m, m \notin M, m.amount \in Nat
    PROVE  /\ Counted(M \cup {m}) /\ Rights(M) \in Nat
           /\ Rights(M \cup {m}) = Rights(M) + m.amount
  <1> DEFINE f == Amounts(M)
             g == Amounts(M \cup {m})
  <1>1. /\ f \in [M -> Nat] /\ g \in [M \cup {m} -> Nat] /\ g[m] = 0 + m.amount
        /\ \A y \in M \ {m} : g[y] = f[y]
    BY DEF Amounts, Counted
  <1>2. IsFiniteSet(Units(f)) /\ Rights(M) = Total(f) /\ Rights(M \cup {m}) = Total(g)
    BY DEF Counted, Rights, Amounts
  <1> HIDE DEF f, g
  <1>3. IsFiniteSet(Units(g)) /\ Total(f) \in Nat /\ Total(g) = Total(f) + m.amount
    BY <1>1, <1>2, TotalGrows
  <1> QED
    BY <1>2, <1>3 DEF Counted, g

LEMMA CountedPart ==
    ASSUME NEW M, Counted(M), NEW L, L \subseteq M
    PROVE  Counted(L) /\ Rights(L) \in Nat
  <1>1. Amounts(L) \in [L -> Nat] /\ Amounts(M) \in [M -> Nat]
    BY DEF Amounts, Counted
  <1>2. Units(Amounts(L)) \subseteq Units(Amounts(M))
    BY <1>1, UnitsAre DEF Amounts
  <1>3. IsFiniteSet(Units(Amounts(L)))
    BY <1>2, FS_Subset DEF Counted
  <1> QED
    BY <1>3, FS_CardinalityType DEF Counted, Rights, Total, Amounts

-----------------------------------------------------------------------------
(* What a step of the system does to rights and money.                      *)
Budgets == <<remaining_verifies, consumed_verifies>>

Quiet ==
    /\ UNCHANGED <<paymentAsset, payment_token, inbox, consumed_messages, Budgets>>
    /\ treasury' \in Treasury \cup {treasury}
    /\ NoOtherAdapter' => NoOtherAdapter

Withdraws(n) ==
    /\ n <= paymentAsset[Portal]
    /\ paymentAsset' = [paymentAsset EXCEPT ![Portal] = @ - n, ![treasury] = @ + n]
    /\ UNCHANGED <<treasury, payment_token, inbox, consumed_messages, Budgets,
                   l2_purchase_adapter>>

BuysL1(p, m) ==
    /\ m \notin inbox /\ inbox' = inbox \cup {m}
    /\ m.amount * PricePerVerifyL1 <= paymentAsset[p]
    /\ paymentAsset' = [paymentAsset EXCEPT ![p] = @ - m.amount * PricePerVerifyL1,
                                            ![Portal] = @ + m.amount * PricePerVerifyL1]
    /\ UNCHANGED <<treasury, payment_token, consumed_messages, Budgets, l2_purchase_adapter>>

Adds(s, n) ==
    /\ remaining_verifies' = [remaining_verifies EXCEPT ![s] = @ + n]
    /\ UNCHANGED consumed_verifies

Claims(m) ==
    /\ m \in inbox \ consumed_messages /\ m.recipient = Registry
    /\ consumed_messages' = consumed_messages \cup {m}
    /\ Adds(m.sponsor, m.amount)
    /\ UNCHANGED <<treasury, paymentAsset, payment_token, inbox, l2_purchase_adapter>>

Uses(s, n) ==
    /\ n <= remaining_verifies[s]
    /\ remaining_verifies' = [remaining_verifies EXCEPT ![s] = @ - n]
    /\ consumed_verifies' = [consumed_verifies EXCEPT ![s] = @ + n]
    /\ UNCHANGED <<treasury, paymentAsset, payment_token, inbox, consumed_messages,
                   l2_purchase_adapter>>

BuysL2(p, s, n) ==
    /\ n * PricePerVerifyL2 <= payment_token[p]
    /\ payment_token' = [payment_token EXCEPT ![p] = @ - n * PricePerVerifyL2,
                                              ![L2Treasury] = @ + n * PricePerVerifyL2]
    /\ Adds(s, n)
    /\ UNCHANGED <<treasury, paymentAsset, inbox, consumed_messages, l2_purchase_adapter>>

Grants(s, n) ==
    /\ ~NoOtherAdapter
    /\ Adds(s, n)
    /\ UNCHANGED <<treasury, paymentAsset, payment_token, inbox, consumed_messages,
                   l2_purchase_adapter>>

Effect ==
    \/ Quiet
    \/ \E n \in Nat : Withdraws(n)
    \/ \E p \in Payer, m \in [recipient : L2Contract \cup {Zero, l2RightsRegistry},
                              sponsor : Company, amount : Nat, package : Package,
                              nonce : {L1Nonce(i) : i \in Nat}] : BuysL1(p, m)
    \/ \E m \in inbox : Claims(m)
    \/ \E s \in Company, n \in Nat : Uses(s, n) \/ Grants(s, n)
    \/ \E p \in Payer, s \in Company, n \in Nat : BuysL2(p, s, n)

LEMMA PurchaseL1Effect ==
    ASSUME RightsAssumption, TopUpInv, NEW p \in Payer, NEW s \in Company, NEW n \in Nat,
           NEW k \in Package, PurchaseRights(p, s, n, k)
    PROVE  Effect
  <1> DEFINE m == [recipient |-> l2RightsRegistry, sponsor |-> s, amount |-> n,
                   package |-> k, nonce |-> L1Nonce(nextPurchaseId + 1)]
  <1>1. m \in [recipient : L2Contract \cup {Zero, l2RightsRegistry}, sponsor : Company,
               amount : Nat, package : Package, nonce : {L1Nonce(i) : i \in Nat}]
    BY DEF TopUpInv, Shape
  <1>2. m \notin inbox
    BY DEF TopUpInv, Shape, L1Nonce
  <1>3. BuysL1(p, m)
    BY <1>2 DEF PurchaseRights, BuysL1, portalConfig, registryVars, credits, purchaseVars, Budgets
  <1> QED
    BY <1>1, <1>3 DEF Effect

LEMMA PurchaseL2Effect ==
    ASSUME NEW p \in Payer, NEW s \in Company, NEW n \in Nat, NEW k,
           PurchaseRightsPublic(p, s, n, k)
    PROVE  Effect
  <1>1. BuysL2(p, s, n)
    BY DEF PurchaseRightsPublic, CreditFromL2Payment, CreditRights, BuysL2, Adds, portalVars,
       portalConfig
  <1> QED
    BY <1>1 DEF Effect

LEMMA ClaimEffect ==
    ASSUME NEW m \in inbox, ClaimL1Credit(m)
    PROVE  Effect
  <1>1. Claims(m)
    BY DEF ClaimL1Credit, CreditRights, Claims, Adds, portalVars, portalConfig, purchaseVars
  <1> QED
    BY <1>1 DEF Effect

LEMMA ConsumeEffect ==
    ASSUME NEW s \in Company, NEW n \in Nat, ConsumeRight(s, n), Shape
    PROVE  Effect
  <1>1. Uses(s, n)
    BY DEF ConsumeRight, Uses, Shape, portalVars, portalConfig, purchaseVars
  <1> QED
    BY <1>1 DEF Effect

LEMMA QuietSteps ==
    ASSUME UNCHANGED <<paymentAsset, payment_token, inbox, consumed_messages, Budgets,
                       treasury, l2_purchase_adapter>>
    PROVE  Effect
  BY DEF Effect, Quiet, NoOtherAdapter

LEMMA CallEffect ==
    ASSUME RightsAssumption, TopUpInv, Next
    PROVE  Effect
  <1> USE DEF portalVars, portalConfig, registryVars, credits, purchaseVars, Budgets
  <1>1. ASSUME NEW l2 \in L2Contract, Initialize(l2) PROVE Effect
    BY <1>1, QuietSteps DEF Initialize
  <1>2. ASSUME NEW t \in Treasury, SetTreasury(t) PROVE Effect
    BY <1>2 DEF SetTreasury, Effect, Quiet, NoOtherAdapter
  <1>3. ASSUME NEW n \in Nat, Withdraw(n) PROVE Effect
    BY <1>3 DEF Withdraw, Effect, Withdraws
  <1>4. ASSUME NEW a \in Adapter, InitializeL2PurchaseAdapter(a) PROVE Effect
    BY <1>4 DEF InitializeL2PurchaseAdapter, Effect, Quiet, NoOtherAdapter
  <1>5. ASSUME NEW p \in Payer, NEW n, AuthorizePayment(p, n) PROVE Effect
    BY <1>5, QuietSteps DEF AuthorizePayment
  <1>6. ASSUME NEW a \in Adapter, NEW s \in Company, NEW n \in Nat, NEW k \in Package,
               CreditByOtherAdapter(a, s, n, k)
        PROVE  Effect
    <2>1. Grants(s, n)
      BY <1>6 DEF CreditByOtherAdapter, CreditFromL2Payment, CreditRights, Grants, Adds,
         NoOtherAdapter
    <2> QED
      BY <2>1 DEF Effect
  <1>7. Amount \subseteq Nat /\ \A n \in Amount : n * PricePerVerifyL1 \in Nat
    BY DEF RightsAssumption
  <1>8. CASE PortalNext
    BY <1>1, <1>2, <1>3, <1>7, <1>8, PurchaseL1Effect DEF PortalNext
  <1>9. CASE RegistryNext
    BY <1>4, <1>7, <1>9, ClaimEffect, ConsumeEffect DEF RegistryNext, TopUpInv
  <1>10. CASE PurchaseNext
    BY <1>5, <1>6, <1>7, <1>10, PurchaseL2Effect DEF PurchaseNext
  <1> QED
    BY <1>8, <1>9, <1>10 DEF Next

(* A page does nothing to rights and money but through the contracts.       *)
LEMMA PageEffect ==
    ASSUME RightsAssumption, TopUpAssumption, TopUpInv, NEW t \in Page, Step(t)
    PROVE  Effect
  <1>1. CASE UNCHANGED vars
    BY <1>1, QuietSteps DEF vars, portalVars, portalConfig, registryVars, credits, purchaseVars,
       Budgets
  <1>2. CASE SendAuthwit(t)
    <2>1. ASSUME NEW n, AuthorizePayment(WalletOf[t], n) PROVE Effect
      BY <2>1, QuietSteps DEF AuthorizePayment, portalVars, portalConfig, registryVars, credits,
         purchaseVars, Budgets
    <2> QED
      BY <1>1, <1>2, <2>1 DEF SendAuthwit
  <1>3. CASE SendPurchase(t)
    <2>1. PICK s \in Company, n \in Nat : job[t].sponsor = s /\ job[t].amount = n
      BY <1>3, Asked DEF SendPurchase, Running, TopUpInv
    <2>2. PICK k \in Package : PurchaseRightsPublic(WalletOf[t], s, n, k)
      BY <1>3, <2>1 DEF SendPurchase
    <2> QED
      BY <2>2, PurchaseL2Effect DEF TopUpAssumption
  <1>4. CASE WritePurchase(t)
    <2>1. PICK s \in Company, n \in Nat : job[t].sponsor = s /\ job[t].amount = n
      BY <1>4, Asked DEF WritePurchase, Running, TopUpInv
    <2>2. PICK k \in Package : PurchaseRights(L1Buyer, s, n, k)
      BY <1>4, <2>1 DEF WritePurchase
    <2> QED
      BY <2>2, PurchaseL1Effect DEF TopUpAssumption
  <1>5. CASE Claim(t)
    BY <1>5, ClaimEffect DEF Claim
  <1>6. CASE VerifyWithCompanySponsor(t)
    <2>1. PICK s \in Company, n \in Nat : job[t].sponsor = s /\ job[t].amount = n
      BY <1>6, Asked DEF VerifyWithCompanySponsor, Running, TopUpInv
    <2>2. ConsumeRight(s, 1)
      BY <1>6, <2>1 DEF VerifyWithCompanySponsor
    <2> QED
      BY <2>2, ConsumeEffect DEF TopUpInv
  <1>7. CASE \E s \in Company :
           \/ \E what \in {"l1", "l2"}, n \in Amount : Begin(t, what, s, n)
           \/ \E what \in {"read", "add", "verify"} : Begin(t, what, s, 0)
    BY <1>1, <1>7 DEF Begin
  <1>8. CASE \/ RegisterKnownContracts(t) \/ Fail(t) \/ Reload(t) \/ ReadPurchaseId(t)
             \/ Approve(t) \/ ReadLog(t) \/ ClaimAgain(t) \/ ReadFirst(t) \/ ReadSecond(t)
             \/ SendAddGateway(t) \/ ReadSponsorAuthorization(t) \/ CatchUp(t)
    BY <1>1, <1>8 DEF RegisterKnownContracts, Fail, Reload, ReadPurchaseId, Approve, ReadLog,
       ClaimAgain, ReadFirst, ReadSecond, SendAddGateway, ReadSponsorAuthorization, CatchUp
  <1> QED
    BY <1>2, <1>3, <1>4, <1>5, <1>6, <1>7, <1>8 DEF Step

ClientStep == [ClientNext \/ (Next /\ UNCHANGED clientVars)]_<<vars, clientVars>>

LEMMA AnyEffect ==
    ASSUME RightsAssumption, TopUpAssumption, TopUpInv, ClientStep
    PROVE  Effect
  <1>1. CASE UNCHANGED vars
    BY <1>1, QuietSteps DEF vars, portalVars, portalConfig, registryVars, credits, purchaseVars,
       Budgets
  <1>2. CASE MineBlock \/ \E s \in Company : RemoveGateway(s)
    BY <1>1, <1>2 DEF MineBlock, RemoveGateway
  <1> QED
    BY <1>1, <1>2, CallEffect, PageEffect DEF ClientStep, ClientNext

-----------------------------------------------------------------------------
(* The books of both rails.                                                 *)
HeldOf == [s \in Company |-> Held(s)]
Vaults == [t \in Treasury |-> paymentAsset[t]]

Accounts ==
    /\ remaining_verifies \in [Company -> Nat] /\ consumed_verifies \in [Company -> Nat]
    /\ paymentAsset \in [Payer \cup Treasury \cup {Portal} -> Nat]
    /\ payment_token \in [Payer \cup {L2Treasury} -> Nat]
    /\ treasury \in Treasury
    /\ Counted(inbox) /\ consumed_messages \subseteq inbox
    /\ \A m \in inbox : m.sponsor \in Company
    /\ IsFiniteSet(Units(HeldOf)) /\ IsFiniteSet(Units(Vaults))

PaidInv == Accounts /\ EveryRightWasPaidFor

LEMMA Numbers ==
    ASSUME Accounts
    PROVE  /\ HeldRights \in Nat /\ Withdrawn \in Nat
           /\ Rights(inbox) \in Nat /\ Rights(consumed_messages) \in Nat
  <1>1. HeldRights \in Nat /\ Withdrawn \in Nat
    BY FS_CardinalityType DEF Accounts, HeldRights, HeldOf, Withdrawn, Vaults, Total
  <1> QED
    BY <1>1, CountedPart DEF Accounts

LEMMA HeldWhenAdded ==
    ASSUME Accounts, NEW s \in Company, NEW n \in Nat, Adds(s, n)
    PROVE  /\ remaining_verifies' \in [Company -> Nat] /\ consumed_verifies' \in [Company -> Nat]
           /\ IsFiniteSet(Units(HeldOf')) /\ HeldRights' = HeldRights + n
  <1> DEFINE f == HeldOf
             g == HeldOf'
  <1>1. /\ remaining_verifies' \in [Company -> Nat] /\ consumed_verifies' \in [Company -> Nat]
        /\ \A x \in Company : remaining_verifies'[x] + consumed_verifies'[x] =
              remaining_verifies[x] + consumed_verifies[x] + (IF x = s THEN n ELSE 0)
    BY DEF Accounts, Adds
  <1>2. f \in [Company -> Nat] /\ g \in [Company -> Nat]
    BY <1>1 DEF HeldOf, Held, Accounts
  <1>3. g[s] = f[s] + n /\ \A x \in Company \ {s} : g[x] = f[x]
    BY <1>1 DEF HeldOf, Held, Accounts
  <1>4. IsFiniteSet(Units(f)) /\ HeldRights = Total(f) /\ HeldRights' = Total(g)
    BY DEF Accounts, HeldRights, HeldOf
  <1> HIDE DEF f, g
  <1>5. IsFiniteSet(Units(g)) /\ Total(g) = Total(f) + n
    BY <1>2, <1>3, <1>4, TotalGrows
  <1> QED
    BY <1>1, <1>4, <1>5 DEF g

LEMMA QuietKeepsBooks ==
    ASSUME PaidInv, Quiet
    PROVE  PaidInv'
  <1>1. treasury' \in Treasury
    BY DEF PaidInv, Accounts, Quiet
  <1> QED
    BY <1>1 DEF PaidInv, Accounts, Quiet, Budgets, HeldOf, Held, Vaults, EveryRightWasPaidFor,
       HeldRights, Withdrawn

LEMMA WithdrawKeepsBooks ==
    ASSUME RightsAssumption, PaidInv, NEW n \in Nat, Withdraws(n)
    PROVE  PaidInv'
  <1> DEFINE f == Vaults
             g == Vaults'
  <1>1. treasury \in Treasury /\ Portal \notin Treasury
    BY DEF PaidInv, Accounts, RightsAssumption, Portal
  <1>2. /\ paymentAsset' \in [Payer \cup Treasury \cup {Portal} -> Nat]
        /\ paymentAsset'[Portal] = paymentAsset[Portal] - n
        /\ paymentAsset'[treasury] = paymentAsset[treasury] + n
        /\ \A x \in Treasury \ {treasury} : paymentAsset'[x] = paymentAsset[x]
    BY <1>1 DEF PaidInv, Accounts, Withdraws
  <1>3. f \in [Treasury -> Nat] /\ g \in [Treasury -> Nat]
        /\ g[treasury] = f[treasury] + n /\ \A x \in Treasury \ {treasury} : g[x] = f[x]
    BY <1>1, <1>2 DEF PaidInv, Accounts, Vaults
  <1>4. IsFiniteSet(Units(f)) /\ Withdrawn = Total(f) /\ Withdrawn' = Total(g)
    BY DEF PaidInv, Accounts, Withdrawn, Vaults
  <1> HIDE DEF f, g
  <1>5. IsFiniteSet(Units(g)) /\ Total(f) \in Nat /\ Total(g) = Total(f) + n
    BY <1>1, <1>3, <1>4, TotalGrows
  <1>6. /\ UNCHANGED <<HeldOf, HeldRights, inbox, consumed_messages, payment_token, treasury,
                       NoOtherAdapter, remaining_verifies, consumed_verifies>>
    BY DEF Withdraws, Budgets, HeldOf, Held, HeldRights, NoOtherAdapter
  <1>7. Accounts'
    BY <1>2, <1>5, <1>6 DEF PaidInv, Accounts, g
  <1>8. paymentAsset[Portal] \in Nat
    BY DEF PaidInv, Accounts
  <1>9. paymentAsset'[Portal] + Withdrawn' = paymentAsset[Portal] + Withdrawn
    BY <1>2, <1>4, <1>5, <1>8
  <1> QED
    BY <1>6, <1>7, <1>9 DEF PaidInv, EveryRightWasPaidFor

LEMMA BuyL1KeepsBooks ==
    ASSUME RightsAssumption, PaidInv, NEW p \in Payer, NEW m,
           m.amount \in Nat, m.sponsor \in Company, BuysL1(p, m)
    PROVE  PaidInv'
  <1> DEFINE cost == m.amount * PricePerVerifyL1
  <1>1. /\ cost \in Nat /\ cost <= paymentAsset[p]
        /\ p # Portal /\ p \notin Treasury /\ Portal \notin Treasury
        /\ paymentAsset' = [paymentAsset EXCEPT ![p] = @ - cost, ![Portal] = @ + cost]
    BY DEF RightsAssumption, BuysL1, Portal
  <1> HIDE DEF cost
  <1>2. /\ paymentAsset' \in [Payer \cup Treasury \cup {Portal} -> Nat]
        /\ paymentAsset'[Portal] = paymentAsset[Portal] + cost
        /\ \A x \in Treasury : paymentAsset'[x] = paymentAsset[x]
    BY <1>1 DEF PaidInv, Accounts
  <1>3. UNCHANGED <<Vaults, Withdrawn>>
    BY <1>2 DEF Vaults, Withdrawn
  <1>4. /\ UNCHANGED <<HeldOf, HeldRights, consumed_messages, payment_token, treasury,
                       NoOtherAdapter, remaining_verifies, consumed_verifies>>
        /\ inbox' = inbox \cup {m} /\ m \notin inbox
    BY DEF BuysL1, Budgets, HeldOf, Held, HeldRights, NoOtherAdapter
  <1>5. Counted(inbox') /\ Rights(inbox') = Rights(inbox) + m.amount /\ Rights(inbox) \in Nat
    BY <1>4, RightsGrow DEF PaidInv, Accounts
  <1>6. Accounts'
    BY <1>2, <1>3, <1>4, <1>5 DEF PaidInv, Accounts
  <1>7. PricePerVerifyL1 * (Rights(inbox) + m.amount) = PricePerVerifyL1 * Rights(inbox) + cost
    BY <1>5 DEF RightsAssumption, cost
  <1>8. paymentAsset[Portal] \in Nat /\ Withdrawn \in Nat
    BY Numbers DEF PaidInv, Accounts
  <1>9. paymentAsset'[Portal] + Withdrawn' = PricePerVerifyL1 * Rights(inbox')
    <2>1. paymentAsset[Portal] + Withdrawn = PricePerVerifyL1 * Rights(inbox)
      BY DEF PaidInv, EveryRightWasPaidFor
    <2> QED
      BY <1>1, <1>2, <1>3, <1>5, <1>7, <1>8, <2>1
  <1> QED
    BY <1>4, <1>6, <1>9 DEF PaidInv, EveryRightWasPaidFor

LEMMA ClaimKeepsBooks ==
    ASSUME RightsAssumption, PaidInv, NEW m \in inbox, Claims(m)
    PROVE  PaidInv'
  <1>1. m.amount \in Nat /\ m.sponsor \in Company /\ m \notin consumed_messages
        /\ m \in inbox /\ consumed_messages' = consumed_messages \cup {m}
        /\ Adds(m.sponsor, m.amount)
    BY DEF PaidInv, Accounts, Counted, Claims
  <1>2. /\ remaining_verifies' \in [Company -> Nat] /\ consumed_verifies' \in [Company -> Nat]
        /\ IsFiniteSet(Units(HeldOf')) /\ HeldRights' = HeldRights + m.amount
    BY <1>1, HeldWhenAdded DEF PaidInv
  <1>3. UNCHANGED <<treasury, paymentAsset, payment_token, inbox, Vaults, Withdrawn, NoOtherAdapter>>
    BY DEF Claims, Vaults, Withdrawn, NoOtherAdapter
  <1>4. Counted(consumed_messages)
    BY CountedPart DEF PaidInv, Accounts
  <1>5. Rights(consumed_messages') = Rights(consumed_messages) + m.amount
    BY <1>1, <1>4, RightsGrow
  <1>6. Accounts'
    BY <1>1, <1>2, <1>3 DEF PaidInv, Accounts
  <1>7. HeldRights' - Rights(consumed_messages') = HeldRights - Rights(consumed_messages)
    BY <1>1, <1>2, <1>5, Numbers DEF PaidInv
  <1> QED
    BY <1>3, <1>6, <1>7 DEF PaidInv, EveryRightWasPaidFor

LEMMA UseKeepsBooks ==
    ASSUME PaidInv, NEW s \in Company, NEW n \in Nat, Uses(s, n)
    PROVE  PaidInv'
  <1>1. /\ remaining_verifies' \in [Company -> Nat] /\ consumed_verifies' \in [Company -> Nat]
        /\ \A x \in Company : remaining_verifies'[x] + consumed_verifies'[x]
                               = remaining_verifies[x] + consumed_verifies[x]
    BY DEF PaidInv, Accounts, Uses
  <1>2. UNCHANGED <<HeldOf, HeldRights>>
    BY <1>1 DEF HeldOf, HeldRights, Held
  <1> QED
    BY <1>1, <1>2 DEF PaidInv, Accounts, Uses, Vaults, Withdrawn, EveryRightWasPaidFor,
       NoOtherAdapter

LEMMA BuyL2KeepsBooks ==
    ASSUME RightsAssumption, PaidInv, NEW p \in Payer, NEW s \in Company, NEW n \in Nat,
           BuysL2(p, s, n)
    PROVE  PaidInv'
  <1> DEFINE cost == n * PricePerVerifyL2
  <1>1. /\ cost \in Nat /\ cost <= payment_token[p] /\ p # L2Treasury
        /\ payment_token' = [payment_token EXCEPT ![p] = @ - cost, ![L2Treasury] = @ + cost]
        /\ Adds(s, n)
    BY DEF RightsAssumption, BuysL2, L2Treasury
  <1> HIDE DEF cost
  <1>2. /\ payment_token' \in [Payer \cup {L2Treasury} -> Nat]
        /\ payment_token'[L2Treasury] = payment_token[L2Treasury] + cost
    BY <1>1 DEF PaidInv, Accounts
  <1>3. /\ remaining_verifies' \in [Company -> Nat] /\ consumed_verifies' \in [Company -> Nat]
        /\ IsFiniteSet(Units(HeldOf')) /\ HeldRights' = HeldRights + n
    BY <1>1, HeldWhenAdded DEF PaidInv
  <1>4. UNCHANGED <<treasury, paymentAsset, inbox, consumed_messages, Vaults, Withdrawn,
                    NoOtherAdapter>>
    BY DEF BuysL2, Vaults, Withdrawn, NoOtherAdapter
  <1>5. Accounts'
    BY <1>2, <1>3, <1>4 DEF PaidInv, Accounts
  <1>6. HeldRights \in Nat /\ Rights(consumed_messages) \in Nat
    BY Numbers DEF PaidInv
  <1>7. PricePerVerifyL2 * (HeldRights + n - Rights(consumed_messages))
           = PricePerVerifyL2 * (HeldRights - Rights(consumed_messages)) + cost
    BY <1>6 DEF RightsAssumption, cost
  <1>8. HeldRights' - Rights(consumed_messages') = HeldRights + n - Rights(consumed_messages)
    BY <1>3, <1>4, <1>6
  <1>9. NoOtherAdapter => payment_token'[L2Treasury] =
           PricePerVerifyL2 * (HeldRights' - Rights(consumed_messages'))
    <2>1. NoOtherAdapter => payment_token[L2Treasury] =
             PricePerVerifyL2 * (HeldRights - Rights(consumed_messages))
      BY DEF PaidInv, EveryRightWasPaidFor
    <2> QED
      BY <1>2, <1>7, <1>8, <2>1
  <1> QED
    BY <1>4, <1>5, <1>9 DEF PaidInv, EveryRightWasPaidFor

LEMMA GrantKeepsBooks ==
    ASSUME PaidInv, NEW s \in Company, NEW n \in Nat, Grants(s, n)
    PROVE  PaidInv'
  <1>1. /\ remaining_verifies' \in [Company -> Nat] /\ consumed_verifies' \in [Company -> Nat]
        /\ IsFiniteSet(Units(HeldOf'))
    BY HeldWhenAdded DEF PaidInv, Grants
  <1>2. UNCHANGED <<treasury, paymentAsset, payment_token, inbox, consumed_messages, Vaults,
                    Withdrawn, NoOtherAdapter>>
    BY DEF Grants, Vaults, Withdrawn, NoOtherAdapter
  <1> QED
    BY <1>1, <1>2 DEF PaidInv, Accounts, EveryRightWasPaidFor, Grants

LEMMA PaidInductive == ClientSpec => []PaidInv
  <1> USE RightsAssumption, TopUpAssumption
  <1>1. Init /\ ClientInit => PaidInv
    <2> SUFFICES ASSUME Init PROVE PaidInv
      OBVIOUS
    <2>1. /\ inbox = {} /\ consumed_messages = {} /\ treasury \in Treasury
          /\ remaining_verifies = [s \in Company |-> 0]
          /\ consumed_verifies = [s \in Company |-> 0]
          /\ paymentAsset = [x \in Payer \cup Treasury \cup {Portal} |->
                                IF x \in Payer THEN Funds ELSE 0]
          /\ payment_token = [x \in Payer \cup {L2Treasury} |->
                                 IF x \in Payer THEN Funds ELSE 0]
      BY DEF Init
    <2>2. /\ paymentAsset \in [Payer \cup Treasury \cup {Portal} -> Nat]
          /\ payment_token \in [Payer \cup {L2Treasury} -> Nat]
          /\ paymentAsset[Portal] = 0 /\ payment_token[L2Treasury] = 0
          /\ \A t \in Treasury : paymentAsset[t] = 0
      BY <2>1 DEF RightsAssumption, Portal, L2Treasury
    <2>3. IsFiniteSet(Units(HeldOf)) /\ HeldRights = 0
      <3>1. HeldOf \in [Company -> Nat] /\ \A s \in Company : HeldOf[s] = 0
        BY <2>1 DEF HeldOf, Held
      <3>2. HeldRights = Total(HeldOf)
        BY DEF HeldRights, HeldOf
      <3> QED
        BY <3>1, <3>2, TotalOfNothing
    <2>4. IsFiniteSet(Units(Vaults)) /\ Withdrawn = 0
      <3>1. Vaults \in [Treasury -> Nat] /\ \A t \in Treasury : Vaults[t] = 0
        BY <2>2 DEF Vaults
      <3>2. Withdrawn = Total(Vaults)
        BY DEF Withdrawn, Vaults
      <3> QED
        BY <3>1, <3>2, TotalOfNothing
    <2>5. Counted({}) /\ Rights({}) = 0
      <3>1. Amounts({}) \in [{} -> Nat] /\ \A m \in {} : Amounts({})[m] = 0
        BY DEF Amounts
      <3>2. IsFiniteSet(Units(Amounts({}))) /\ Total(Amounts({})) = 0
        BY <3>1, TotalOfNothing
      <3> QED
        BY <3>2 DEF Counted, Rights, Amounts
    <2> QED
      BY <2>1, <2>2, <2>3, <2>4, <2>5 DEF PaidInv, Accounts, EveryRightWasPaidFor
  <1>2. TopUpInv /\ PaidInv /\ ClientStep => PaidInv'
    <2> SUFFICES ASSUME PaidInv, Effect PROVE PaidInv'
      BY AnyEffect
    <2> QED
      BY QuietKeepsBooks, WithdrawKeepsBooks, BuyL1KeepsBooks, ClaimKeepsBooks, UseKeepsBooks,
         BuyL2KeepsBooks, GrantKeepsBooks DEF Effect
  <1> QED
    BY <1>1, <1>2, TopUpInductive, PTL DEF ClientSpec, ClientStep

(* Every right was paid for on the rail it came by, whatever is bought,     *)
(* claimed, used and withdrawn in whatever order, by pages or by anyone     *)
(* else, and also after the admin installed an adapter of his own for the   *)
(* L1 rail (purchaseRights and withdraw of the portal, claim_l1_credit and  *)
(* credit_from_l2_payment of the registry, purchase_rights_public).         *)
THEOREM RightsArePaidFor == ClientSpec => []EveryRightWasPaidFor
  <1>1. PaidInv => EveryRightWasPaidFor
    BY DEF PaidInv
  <1> QED
    BY <1>1, PaidInductive, PTL

-----------------------------------------------------------------------------
(* The budgets follow the ledger, step by step.                             *)
Bought == [s \in Company |-> Rights(Unclaimed(s))]
Takings == <<payment_token[L2Treasury], ~NoOtherAdapter>>
LedgerStep == [Ledger!Next]_<<Bought, remaining_verifies, consumed_verifies, Takings>>

LEMMA BoughtIsNumber ==
    ASSUME Accounts
    PROVE  /\ Bought \in [Company -> Nat]
           /\ \A s \in Company : Counted(Unclaimed(s))
  <1>1. \A s \in Company : Unclaimed(s) \subseteq inbox
    BY DEF Unclaimed
  <1>2. \A s \in Company : Counted(Unclaimed(s)) /\ Rights(Unclaimed(s)) \in Nat
    BY <1>1, CountedPart DEF Accounts
  <1> QED
    BY <1>2 DEF Bought

LEMMA LedgerBuys ==
    ASSUME Accounts, NEW s \in Company, NEW n \in Nat,
           Bought' = [Bought EXCEPT ![s] = @ + n], UNCHANGED <<Budgets, Takings>>
    PROVE  LedgerStep
  <1>1. Bought \in [Company -> Nat]
    BY BoughtIsNumber
  <1>2. CASE n = 0
    BY <1>1, <1>2 DEF LedgerStep, Budgets
  <1>3. CASE n > 0
    <2>1. Bought'[s] - Bought[s] = n
      BY <1>1
    <2>2. Ledger!Buy(s, Bought'[s] - Bought[s])
      BY <2>1 DEF Ledger!Buy, Budgets, Bought, Takings
    <2>3. Ledger!Next
      BY <1>3, <2>1, <2>2 DEF Ledger!Next, Ledger!Move, Bought
    <2> QED
      BY <2>3 DEF LedgerStep
  <1> QED
    BY <1>2, <1>3

LEMMA LedgerAdds ==
    ASSUME RightsAssumption, Accounts, NEW s \in Company, NEW n \in Nat, Adds(s, n),
           UNCHANGED NoOtherAdapter,
           \/ /\ UNCHANGED Bought
              /\ payment_token'[L2Treasury] = payment_token[L2Treasury] + n * PricePerVerifyL2
           \/ ~NoOtherAdapter /\ UNCHANGED <<Bought, payment_token>>
           \/ /\ n <= Bought[s] /\ Bought' = [Bought EXCEPT ![s] = @ - n]
              /\ UNCHANGED payment_token
    PROVE  LedgerStep
  <1>1. Bought \in [Company -> Nat] /\ remaining_verifies \in [Company -> Nat]
    BY BoughtIsNumber DEF Accounts
  <1>2. remaining_verifies' = [remaining_verifies EXCEPT ![s] = @ + n]
        /\ UNCHANGED consumed_verifies
    BY DEF Adds
  <1>3. CASE n = 0
    <2>1. UNCHANGED <<Bought, remaining_verifies>>
      BY <1>1, <1>2, <1>3
    <2>2. payment_token[L2Treasury] \in Nat /\ n * PricePerVerifyL2 = 0
      BY <1>3 DEF Accounts, RightsAssumption
    <2>3. UNCHANGED Takings
      BY <1>3, <2>2 DEF Takings
    <2> QED
      BY <1>2, <2>1, <2>3 DEF LedgerStep
  <1>4. CASE n > 0
    <2> DEFINE d == remaining_verifies'[s] - remaining_verifies[s]
    <2>1. d = n
      BY <1>1, <1>2
    <2>2. Ledger!BuyAndCredit(s, d) \/ Ledger!Grant(s, d) \/ Ledger!Credit(s, d)
      BY <1>2, <2>1 DEF Ledger!BuyAndCredit, Ledger!Grant, Ledger!Credit, Bought
    <2>3. Ledger!Next
      BY <1>4, <2>1, <2>2 DEF Ledger!Next, Ledger!Move
    <2> QED
      BY <2>3 DEF LedgerStep
  <1> QED
    BY <1>3, <1>4

LEMMA LedgerUses ==
    ASSUME Accounts, NEW s \in Company, NEW n \in Nat, Uses(s, n)
    PROVE  LedgerStep
  <1>1. UNCHANGED <<Bought, payment_token, NoOtherAdapter>>
    BY DEF Uses, Bought, Unclaimed, NoOtherAdapter
  <1>2. /\ n <= remaining_verifies[s]
        /\ remaining_verifies' = [remaining_verifies EXCEPT ![s] = @ - n]
        /\ consumed_verifies' = [consumed_verifies EXCEPT ![s] = @ + n]
        /\ remaining_verifies \in [Company -> Nat] /\ consumed_verifies \in [Company -> Nat]
    BY DEF Uses, Accounts
  <1>3. CASE n = 0
    <2>1. UNCHANGED <<remaining_verifies, consumed_verifies>>
      BY <1>2, <1>3
    <2> QED
      BY <1>1, <2>1 DEF LedgerStep, Takings
  <1>4. CASE n > 0
    <2> DEFINE d == remaining_verifies'[s] - remaining_verifies[s]
    <2>1. -d = n /\ d < 0
      BY <1>2, <1>4
    <2>2. Ledger!Use(s, -d)
      BY <1>1, <1>2, <2>1 DEF Ledger!Use, Bought
    <2>3. Ledger!Next
      BY <2>1, <2>2 DEF Ledger!Next, Ledger!Move
    <2> QED
      BY <2>3 DEF LedgerStep
  <1> QED
    BY <1>3, <1>4

LEMMA BuyL1OnLedger ==
    ASSUME Accounts, NEW p \in Payer, NEW m, m.sponsor \in Company, m.amount \in Nat,
           BuysL1(p, m)
    PROVE  LedgerStep
  <1>1. /\ inbox' = inbox \cup {m} /\ m \notin inbox /\ m \notin consumed_messages
        /\ UNCHANGED <<consumed_messages, Budgets, Takings>>
    BY DEF BuysL1, Accounts, Takings, NoOtherAdapter
  <1> DEFINE s == m.sponsor
             U(x) == {e \in inbox' : /\ e.sponsor = x /\ e.recipient = Registry
                                     /\ e \notin consumed_messages'}
  <1>2. Bought' = [x \in Company |-> Rights(U(x))]
    BY DEF Bought, Unclaimed
  <1>3. CASE m.recipient # Registry
    <2>1. \A x \in Company : U(x) = Unclaimed(x)
      BY <1>1, <1>3 DEF Unclaimed
    <2> HIDE DEF U
    <2>2. UNCHANGED Bought
      BY <1>2, <2>1 DEF Bought
    <2> QED
      BY <1>1, <2>2 DEF LedgerStep, Budgets
  <1>4. CASE m.recipient = Registry
    <2>1. U(s) = Unclaimed(s) \cup {m} /\ m \notin Unclaimed(s)
      BY <1>1, <1>4 DEF Unclaimed
    <2>2. \A x \in Company \ {s} : U(x) = Unclaimed(x)
      BY <1>1 DEF Unclaimed
    <2> HIDE DEF U
    <2>3. Rights(U(s)) = Rights(Unclaimed(s)) + m.amount
      BY <2>1, RightsGrow, BoughtIsNumber
    <2>4. Bought' = [Bought EXCEPT ![s] = @ + m.amount]
      BY <1>2, <2>2, <2>3 DEF Bought
    <2> QED
      BY <1>1, <2>4, LedgerBuys
  <1> QED
    BY <1>3, <1>4

LEMMA ClaimOnLedger ==
    ASSUME RightsAssumption, Accounts, NEW m \in inbox, Claims(m)
    PROVE  LedgerStep
  <1> DEFINE s == m.sponsor
             U(x) == {e \in inbox' : /\ e.sponsor = x /\ e.recipient = Registry
                                     /\ e \notin consumed_messages'}
  <1>1. /\ s \in Company /\ m.amount \in Nat /\ m.recipient = Registry
        /\ m \notin consumed_messages /\ inbox' = inbox
        /\ consumed_messages' = consumed_messages \cup {m} /\ Adds(s, m.amount)
        /\ UNCHANGED <<payment_token, NoOtherAdapter>>
    BY DEF Claims, Accounts, Counted, NoOtherAdapter
  <1>2. Bought' = [x \in Company |-> Rights(U(x))]
    BY DEF Bought, Unclaimed
  <1>3. Unclaimed(s) = U(s) \cup {m} /\ m \notin U(s) /\ U(s) \subseteq Unclaimed(s)
    BY <1>1 DEF Unclaimed
  <1>4. \A x \in Company \ {s} : U(x) = Unclaimed(x)
    BY <1>1 DEF Unclaimed
  <1> HIDE DEF U
  <1>5. Counted(U(s)) /\ Rights(U(s)) \in Nat
    BY <1>1, <1>3, CountedPart, BoughtIsNumber
  <1>6. Rights(Unclaimed(s)) = Rights(U(s)) + m.amount
    BY <1>1, <1>3, <1>5, RightsGrow
  <1>7. m.amount <= Bought[s] /\ Bought' = [Bought EXCEPT ![s] = @ - m.amount]
    BY <1>1, <1>2, <1>4, <1>5, <1>6 DEF Bought
  <1> QED
    BY <1>1, <1>7, LedgerAdds

LEMMA EffectOnLedger ==
    ASSUME RightsAssumption, Accounts, Effect
    PROVE  LedgerStep
  <1>1. ASSUME UNCHANGED <<inbox, consumed_messages>>
        PROVE  UNCHANGED Bought
    BY <1>1 DEF Bought, Unclaimed
  <1>2. CASE Quiet
    <2>1. UNCHANGED <<Bought, remaining_verifies, consumed_verifies, payment_token>>
      BY <1>1, <1>2 DEF Quiet, Budgets
    <2>2. CASE UNCHANGED NoOtherAdapter
      BY <2>1, <2>2 DEF LedgerStep, Takings
    <2>3. CASE NoOtherAdapter /\ ~NoOtherAdapter'
      <3>1. Ledger!LetIn
        BY <2>1, <2>3 DEF Ledger!LetIn, Bought
      <3> QED
        BY <3>1 DEF LedgerStep, Ledger!Next
    <2> QED
      BY <1>2, <2>2, <2>3 DEF Quiet, NoOtherAdapter
  <1>3. ASSUME NEW n \in Nat, Withdraws(n)
        PROVE  LedgerStep
    BY <1>1, <1>3 DEF Withdraws, Budgets, LedgerStep, Takings, NoOtherAdapter
  <1>4. ASSUME NEW s \in Company, NEW n \in Nat, Grants(s, n)
        PROVE  LedgerStep
    <2>1. /\ Adds(s, n) /\ ~NoOtherAdapter
          /\ UNCHANGED <<Bought, payment_token, NoOtherAdapter>>
      BY <1>1, <1>4 DEF Grants, NoOtherAdapter
    <2> QED
      BY <2>1, LedgerAdds
  <1>5. ASSUME NEW p \in Payer, NEW s \in Company, NEW n \in Nat, BuysL2(p, s, n)
        PROVE  LedgerStep
    <2> DEFINE cost == n * PricePerVerifyL2
    <2>1. /\ Adds(s, n) /\ UNCHANGED <<Bought, NoOtherAdapter>>
          /\ payment_token' = [payment_token EXCEPT ![p] = @ - cost, ![L2Treasury] = @ + cost]
      BY <1>1, <1>5 DEF BuysL2, NoOtherAdapter
    <2>2. p # L2Treasury
      BY DEF RightsAssumption, L2Treasury
    <2> HIDE DEF cost
    <2>3. payment_token'[L2Treasury] = payment_token[L2Treasury] + cost
      BY <2>1, <2>2 DEF Accounts
    <2> QED
      BY <2>1, <2>3, LedgerAdds DEF cost
  <1> QED
    BY <1>2, <1>3, <1>4, <1>5, LedgerUses, BuyL1OnLedger, ClaimOnLedger DEF Effect

(* Budgets follow the ledger of MagnaRightsLedger: what is claimed was      *)
(* bought before by a message that is claimed once, what is credited        *)
(* without one is paid for in the same step, and only what is available is  *)
(* used, in every interleaving of the pages and of other callers.           *)
THEOREM BudgetsFollowLedger == ClientSpec => ImplementsLedger
  <1> USE RightsAssumption, TopUpAssumption
  <1>1. Init => Ledger!Init
    <2> SUFFICES ASSUME Init PROVE Ledger!Init
      OBVIOUS
    <2>1. \A s \in Company : Unclaimed(s) = {}
      BY DEF Init, Unclaimed
    <2>2. Rights({}) = 0
      <3>1. Amounts({}) \in [{} -> Nat] /\ \A m \in {} : Amounts({})[m] = 0
        BY DEF Amounts
      <3> QED
        BY <3>1, TotalOfNothing DEF Rights, Amounts
    <2>3. [s \in Company |-> Rights(Unclaimed(s))] = [s \in Company |-> 0]
      BY <2>1, <2>2
    <2> QED
      BY <2>3 DEF Init, Ledger!Init, NoOtherAdapter, L2Treasury, RightsAssumption
  <1>2. TopUpInv /\ PaidInv /\ ClientStep => [Ledger!Next]_Ledger!ledger
    <2>1. TopUpInv /\ PaidInv /\ ClientStep => LedgerStep
      BY AnyEffect, EffectOnLedger DEF PaidInv
    <2>2. LedgerStep => [Ledger!Next]_Ledger!ledger
      BY DEF LedgerStep, Ledger!ledger, Bought, Takings
    <2> QED
      BY <2>1, <2>2
  <1> QED
    BY <1>1, <1>2, TopUpInductive, PaidInductive, PTL
    DEF ClientSpec, ClientStep, ImplementsLedger, Ledger!Spec
=============================================================================
