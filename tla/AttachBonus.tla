------------------------------ MODULE AttachBonus ------------------------------
(***************************************************************************)
(* The monthly attach-rate bonus of one sales executive, awarded by the    *)
(* scheduler from the attach offers that were logged.  An offer always     *)
(* reaches a slab here.                                                    *)
(*                                                                         *)
(* A definition directly before another one that it resembles is a mutant. *)
(***************************************************************************)
EXTENDS Integers, Sequences

CONSTANTS
    LastMonth,   \* bound: months 1..LastMonth are modelled
    MaxOffers    \* bound: offers logged in a month

ASSUME BonusAssumption == LastMonth \in Nat \ {0} /\ MaxOffers \in Nat

VARIABLES
    month,    \* calendar month
    cronDue,  \* the run of the 1st of the month has not happened yet
    offers,   \* month -> attach offers logged
    awards    \* month -> the bonus entries of it, each by the offers it counted

bonusVars == <<month, cronDue, offers, awards>>

Months == 1..LastMonth

BonusInit ==
    /\ month = 1 /\ cronDue = FALSE
    /\ offers = [m \in Months |-> 0]
    /\ awards = [m \in Months |-> <<>>]

LogOffer ==
    /\ offers[month] < MaxOffers
    /\ offers' = [offers EXCEPT ![month] = @ + 1]
    /\ UNCHANGED <<month, cronDue, awards>>

NewMonth ==
    /\ month < LastMonth /\ ~cronDue
    /\ month' = month + 1
    /\ cronDue' = TRUE
    /\ UNCHANGED <<offers, awards>>

\* The scheduler names no month: the current one is taken.
PayoutMonth == month

\* Who has no entry of the month yet, and at least one offer in it.
AwardedForNothing(m) == awards[m] = <<>>
AwardedAnew(m) == offers[m] > 0
Awarded(m) == awards[m] = <<>> /\ offers[m] > 0

CalculateBonus ==
    awards' = IF Awarded(PayoutMonth)
              THEN [awards EXCEPT ![PayoutMonth] = Append(@, offers[PayoutMonth])]
              ELSE awards

\* calculate_attach_rate_bonus at 02:00 on the 1st
RunOnSchedule ==
    /\ cronDue
    /\ cronDue' = FALSE
    /\ CalculateBonus
    /\ UNCHANGED <<month, offers>>

\* The same job started by an administrator.
RunByHand ==
    /\ CalculateBonus
    /\ UNCHANGED <<month, cronDue, offers>>

BonusNext == LogOffer \/ NewMonth \/ RunOnSchedule \/ RunByHand

BonusSpec == BonusInit /\ [][BonusNext]_bonusVars

-----------------------------------------------------------------------------
(* Properties                                                             *)

\* The awards of a month each record the offers they were paid on.
BonusTypeOK ==
    /\ month \in Months /\ cronDue \in BOOLEAN
    /\ offers \in [Months -> 0..MaxOffers]
    /\ DOMAIN awards = Months /\ \A m \in Months : awards[m] \in Seq(1..MaxOffers)

\* A month is awarded once, however often the job runs in it, and never for
\* more offers than it had (the NOT EXISTS of calculate_attach_rate_bonus).
OneBonusAMonth == \A m \in Months : awards[m] # <<>> =>
    Len(awards[m]) = 1 /\ awards[m][1] <= offers[m]

\* hooks.py:171: "Calculate attach rate bonuses on the 1st of each month for
\* the previous month".  Once the run of the 1st is over, a month that is
\* past and had offers has a bonus.
PreviousMonthIsPaid ==
    \A m \in Months : m < month /\ ~(m = month - 1 /\ cronDue) /\ offers[m] > 0 =>
      awards[m] # <<>>

=============================================================================
