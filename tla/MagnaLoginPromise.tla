--------------------------- MODULE MagnaLoginPromise ---------------------------
(***************************************************************************)
(* What a login promises the dApp: one outcome for each call, accepted     *)
(* only when the blocks hold an authorization of every requirement of this *)
(* request, all by one wallet, and none of them granted twice.             *)
(***************************************************************************)
EXTENDS Naturals

CONSTANTS Request, Wallet, Index        \* Index[r]: the requirements of r

VARIABLES outcome, granted

Init ==
    /\ outcome = [r \in Request |-> "idle"]
    /\ granted = {}

Ask(r) ==
    /\ outcome[r] = "idle"
    /\ outcome' = [outcome EXCEPT ![r] = "pending"]
    /\ UNCHANGED granted

Grant(r, i, w) ==
    /\ outcome[r] # "idle"
    /\ \A g \in granted : <<g.request, g.index>> # <<r, i>>
    /\ granted' = granted \cup {[request |-> r, index |-> i, wallet |-> w]}
    /\ UNCHANGED outcome

Accept(r) ==
    /\ outcome[r] = "pending"
    /\ \E w \in Wallet : \A i \in Index[r] :
          [request |-> r, index |-> i, wallet |-> w] \in granted
    /\ outcome' = [outcome EXCEPT ![r] = "accepted"]
    /\ UNCHANGED granted

Reject(r) ==
    /\ outcome[r] \in {"idle", "pending"}
    /\ outcome' = [outcome EXCEPT ![r] = "rejected"]
    /\ UNCHANGED granted

Next == \E r \in Request :
    \/ Ask(r) \/ Accept(r) \/ Reject(r)
    \/ \E i \in Index[r], w \in Wallet : Grant(r, i, w)

Spec == Init /\ [][Next]_<<outcome, granted>>
=============================================================================
