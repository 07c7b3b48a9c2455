------------------------------- MODULE MCWallet -------------------------------
(***************************************************************************)
(* Instances of Wallet for TLC: one coach, because the lock and every sum   *)
(* are per coach and only the release pass spans coaches.                  *)
(***************************************************************************)
EXTENDS Wallet

CONSTANTS c1, s1, s2

OneCoach == {c1}
TwoSales == {s1, s2}

TwoSalesOf == [s \in TwoSales |-> c1]
\* Ten units at 60% and no fee make 6; with a fee of one, 5 and a remainder.
TwoAmounts == [s \in TwoSales |-> IF s = s1 THEN 10 ELSE 7]

Signed == {-3, 3}

\* The instance has two parts.  Fees, rates and part-refunds vary while one withdrawal
\* and no adjustment is made; adjustments and a second withdrawal go with whole refunds
\* at one rate and no fee.
MoneyVaries ==
    /\ adjusted'[c1] = 0
    /\ withdrawal'[<<c1, 2>>].status = "NONE"
BalanceVaries ==
    /\ shareBps'[c1] = 6000
    /\ \A s \in Sale :
        /\ earning'[s].fee = 0 /\ earning'[s].bps \in {0, 6000}
        /\ earning'[s].refunded \in {0, SaleAmount[s]}
TwoPartSpec == Init /\ [][Next /\ (MoneyVaries \/ BalanceVaries)]_vars
===============================================================================
