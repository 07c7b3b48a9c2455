------------------------------ MODULE CoachShare ------------------------------
(***************************************************************************)
(* The money arithmetic of src/src/lib/coach-wallet.ts: amounts are        *)
(* integers in minor units, every share is rounded down, and whatever the  *)
(* rounding leaves over stays with the platform.                           *)
(***************************************************************************)
EXTENDS Integers

BpsBase == 10000

\* The highest share a coach may have, in basis points.
MaxCoachShareBps == 8000

CoachPart(sale, fee, bps) == ((sale - fee) * bps) \div BpsBase

PlatformPart(sale, fee, bps) == (sale - fee) - CoachPart(sale, fee, bps)

\* The part of a share that a refund of `refunded` out of `sale` takes back;
\* a refund of the whole sale takes back the whole part.
ProportionalShare(part, refunded, sale) ==
    IF refunded >= sale THEN part ELSE (part * refunded) \div sale
===============================================================================
