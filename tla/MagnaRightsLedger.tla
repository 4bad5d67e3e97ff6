-------------------------- MODULE MagnaRightsLedger --------------------------
(* What verify rights are, without portals, messages or tokens: a company   *)
(* budget is bought, becomes available once, and is used once; nothing is   *)
(* available that was not paid for, unless the registry's admin let another *)
(* seller in, and nothing bought is lost.                                   *)
EXTENDS Integers

CONSTANTS Company, Price

VARIABLES
    bought,     \* rights paid for on L1, not credited yet
    available,  \* rights the company's sponsor contract may spend
    used,       \* rights spent on verifications
    paid,       \* what rights sold on the spot have earned
    foreign     \* somebody else may credit rights, at no known price

ledger == <<bought, available, used, paid, foreign>>

Init == /\ bought = [s \in Company |-> 0]
        /\ available = [s \in Company |-> 0]
        /\ used = [s \in Company |-> 0]
        /\ paid = 0 /\ foreign = FALSE

Buy(s, n) ==
    /\ bought' = [bought EXCEPT ![s] = @ + n]
    /\ UNCHANGED <<available, used, paid, foreign>>

Credit(s, n) ==
    /\ n <= bought[s]
    /\ bought' = [bought EXCEPT ![s] = @ - n]
    /\ available' = [available EXCEPT ![s] = @ + n]
    /\ UNCHANGED <<used, paid, foreign>>

BuyAndCredit(s, n) ==
    /\ paid' = paid + n * Price
    /\ available' = [available EXCEPT ![s] = @ + n]
    /\ UNCHANGED <<bought, used, foreign>>

Grant(s, n) ==
    /\ foreign
    /\ available' = [available EXCEPT ![s] = @ + n]
    /\ UNCHANGED <<bought, used, paid, foreign>>

Use(s, n) ==
    /\ n <= available[s]
    /\ available' = [available EXCEPT ![s] = @ - n]
    /\ used' = [used EXCEPT ![s] = @ + n]
    /\ UNCHANGED <<bought, paid, foreign>>

LetIn == ~foreign /\ foreign' = TRUE /\ UNCHANGED <<bought, available, used, paid>>

(* A step names the amount it moves: the difference it makes. *)
Move(s) ==
    LET inflow  == bought'[s] - bought[s]
        credit  == available'[s] - available[s]
    IN  \/ inflow > 0 /\ Buy(s, inflow)
        \/ credit > 0 /\ (Credit(s, credit) \/ BuyAndCredit(s, credit) \/ Grant(s, credit))
        \/ credit < 0 /\ Use(s, -credit)

Next == LetIn \/ \E s \in Company : Move(s)

Spec == Init /\ [][Next]_ledger
=============================================================================
