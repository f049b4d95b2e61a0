-------------------------------- MODULE Holdings --------------------------------
(***************************************************************************)
(* What an account holds: its inspections, and its investments with their  *)
(* transactions.  The two share the accounts and nothing else; a step of   *)
(* the server is a step of one of them.                                    *)
(***************************************************************************)
EXTENDS Inspections, Sequences

CONSTANTS
    References,    \* values of trx_id
    Durations,     \* durations of investments, in days
    MaxRows        \* bound: transactions ever

ASSUME DurationsAssumption == Durations \subseteq Int

VARIABLES
    transactions, investments, pay    \* see Investments

Money == INSTANCE Investments WITH Users <- Users \cup Staff

moneyVars == <<transactions, investments, pay>>

HoldingsInit == Init /\ Money!Init

HoldingsNext ==
    \/ Next /\ UNCHANGED moneyVars
    \/ Money!Next /\ UNCHANGED vars

HoldingsSpec == HoldingsInit /\ [][HoldingsNext]_<<vars, moneyVars>>

-----------------------------------------------------------------------------
\* See Investments
MoneyTypeOK == Money!TypeOK

\* See Investments
RatesFollowBands == Money!RatesFollowBands

\* See Investments
PaidOnce == Money!PaidOnce
=============================================================================
