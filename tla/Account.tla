-------------------------------- MODULE Account -------------------------------
(***************************************************************************)
(* What the Coach Wallet promises a coach and the platform: an account     *)
(* with money available, at most one payout outstanding, and the money     *)
(* paid out so far.  A payout is taken from what is available at that      *)
(* moment, in one step, and then is either paid or returned, whole.        *)
(* Refunds and adjustments may push the available amount below zero.       *)
(***************************************************************************)
EXTENDS Integers

CONSTANT Holder

VARIABLES available, outstanding, paidOut

account == <<available, outstanding, paidOut>>

Init ==
    /\ available = [h \in Holder |-> 0]
    /\ outstanding = [h \in Holder |-> 0]
    /\ paidOut = [h \in Holder |-> 0]

\* Holds end and adjustments are booked, for any number of holders at once.
Credit ==
    /\ \A h \in Holder : available'[h] >= available[h]
    /\ UNCHANGED <<outstanding, paidOut>>

Debit(h) ==
    /\ available'[h] < available[h]
    /\ available' = [available EXCEPT ![h] = available'[h]]
    /\ UNCHANGED <<outstanding, paidOut>>

Withdraw(h) ==
    /\ outstanding[h] = 0
    /\ outstanding'[h] \in 1..available[h]
    /\ outstanding' = [outstanding EXCEPT ![h] = outstanding'[h]]
    /\ available' = [available EXCEPT ![h] = @ - outstanding'[h]]
    /\ UNCHANGED paidOut

PayOut(h) ==
    /\ outstanding[h] > 0
    /\ paidOut' = [paidOut EXCEPT ![h] = @ + outstanding[h]]
    /\ outstanding' = [outstanding EXCEPT ![h] = 0]
    /\ UNCHANGED available

Return(h) ==
    /\ outstanding[h] > 0
    /\ available' = [available EXCEPT ![h] = @ + outstanding[h]]
    /\ outstanding' = [outstanding EXCEPT ![h] = 0]
    /\ UNCHANGED paidOut

Next ==
    \/ Credit
    \/ \E h \in Holder : Debit(h) \/ Withdraw(h) \/ PayOut(h) \/ Return(h)

Spec == Init /\ [][Next]_account
===============================================================================
