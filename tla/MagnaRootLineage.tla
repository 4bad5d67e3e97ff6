-------------------------- MODULE MagnaRootLineage --------------------------
(* What the passport root promises, without notes, nullifiers or anchors:   *)
(* a root is issued once, is at any time in one wallet, can be withdrawn by *)
(* that wallet, and moves only to a destination the portal approved, each   *)
(* approval serving once.                                                   *)
EXTENDS Integers

CONSTANTS Root, Wallet, Nobody

VARIABLES
    version,    \* number of versions the root has had
    holder,     \* wallet of the current version
    withdrawn,  \* whether that wallet revoked the current version
    approved    \* approvals not used yet, per root and destination

lineage == <<version, holder, withdrawn, approved>>

Init ==
    /\ version = [r \in Root |-> 0]
    /\ holder = [r \in Root |-> Nobody]
    /\ withdrawn = [r \in Root |-> FALSE]
    /\ approved = [p \in Root \X Wallet |-> 0]

NewVersion(r, d) ==
    /\ version' = [version EXCEPT ![r] = @ + 1]
    /\ holder' = [holder EXCEPT ![r] = d]
    /\ withdrawn' = [withdrawn EXCEPT ![r] = FALSE]

Issue(r, o) ==
    /\ version[r] = 0
    /\ NewVersion(r, o)
    /\ UNCHANGED approved

Approve(r, d) ==
    /\ approved' = [approved EXCEPT ![<<r, d>>] = @ + 1]
    /\ UNCHANGED <<version, holder, withdrawn>>

Withdraw(r) ==
    /\ version[r] > 0 /\ ~withdrawn[r]
    /\ withdrawn' = [withdrawn EXCEPT ![r] = TRUE]
    /\ UNCHANGED <<version, holder, approved>>

Recover(r, d) ==
    /\ version[r] > 0
    /\ approved[<<r, d>>] > 0
    /\ approved' = [approved EXCEPT ![<<r, d>>] = @ - 1]
    /\ NewVersion(r, d)

Next == \E r \in Root : \/ Withdraw(r)
                        \/ \E d \in Wallet : \/ Issue(r, d)
                                             \/ Approve(r, d)
                                             \/ Recover(r, d)

Spec == Init /\ [][Next]_lineage
=============================================================================
