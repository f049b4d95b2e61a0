------------------------------ MODULE Investments ------------------------------
(***************************************************************************)
(* Transactions and the investments they pay for.                          *)
(*                                                                         *)
(* A client reports a payment by its reference, trx_id: as a deposit, as a *)
(* withdrawal or as the payment of an investment.  A withdrawal selects    *)
(* the reference first and answers 409 when it is known; the others leave  *)
(* it to the UNIQUE constraint, which answers a repeated call, or the      *)
(* slower of two, with an error and stores nothing.                        *)
(*                                                                         *)
(* No handler changes the status of an investment: its endpoint calls      *)
(* update_investment_status with an argument too many, and the one that    *)
(* reads one investment swaps its arguments.                               *)
(***************************************************************************)
EXTENDS Integers, Sequences

CONSTANTS
    Users,         \* accounts
    References,    \* values of trx_id
    Durations,     \* durations of investments, in days
    Requests,      \* requests in flight at once
    MaxRows        \* bound: transactions ever

Transaction == [trx_id : References, user_id : Users]   \* of either trx_type

VARIABLES
    transactions,    \* the rows of transactions, in the order of their keys
    investments,     \* the rows of investments, those deleted too
    pay              \* Requests -> the request in flight

vars == <<transactions, investments, pay>>

Investment == [user_id : Users, trx : 1..Len(transactions), duration : Durations,
               deleted : BOOLEAN]

Request == [pc : {"idle"}]
           \cup [pc : {"withdraw"}, user : Users, trx_id : References]
           \cup [pc : {"delete"}, user : Users, investment : 1..Len(investments)]

TypeOK ==
    /\ transactions \in Seq(Transaction)
    /\ investments \in Seq(Investment)
    /\ pay \in [Requests -> Request]

-----------------------------------------------------------------------------
\* Mutant: a quarter begins after its first day
RateLate(days) ==
    CASE 91 > days /\ days >= 30   -> 2
      [] 182 > days /\ days > 91   -> 10
      [] 365 > days /\ days >= 182 -> 15
      [] days >= 365               -> 30
      [] OTHER                     -> 0

\* compute_rate: per cent for the days of an investment
Rate(days) ==
    CASE 91 > days /\ days >= 30   -> 2
      [] 182 > days /\ days >= 91  -> 10
      [] 365 > days /\ days >= 182 -> 15
      [] days >= 365               -> 30
      [] OTHER                     -> 0

\* Mutant: transactions without uq_transactions_trx_id
Always(t) == TRUE

\* uq_transactions_trx_id lets t in
Unused(t) == \A k \in DOMAIN transactions : transactions[k].trx_id # t

Insert(t, u) ==
    /\ Len(transactions) < MaxRows
    /\ Unused(t)
    /\ transactions' = Append(transactions,
                              [trx_id |-> t, user_id |-> u])

Reply(r) == pay' = [pay EXCEPT ![r] = [pc |-> "idle"]]

Init ==
    /\ transactions = <<>>
    /\ investments = <<>>
    /\ pay = [r \in Requests |-> [pc |-> "idle"]]

-----------------------------------------------------------------------------
\* The deposit endpoint
Deposit(u, t) ==
    /\ Insert(t, u)
    /\ UNCHANGED <<investments, pay>>

\* The withdraw endpoint: select the reference, 409 when it is there, ...
BeginWithdraw(r, u, t) ==
    /\ pay[r].pc = "idle"
    /\ \A k \in DOMAIN transactions : transactions[k].trx_id # t
    /\ pay' = [pay EXCEPT ![r] = [pc |-> "withdraw", user |-> u, trx_id |-> t]]
    /\ UNCHANGED <<transactions, investments>>

\* ... create_transaction
CommitWithdraw(r) ==
    /\ pay[r].pc = "withdraw"
    /\ Insert(pay[r].trx_id, pay[r].user)
    /\ Reply(r)
    /\ UNCHANGED investments

\* Mutant: the key of the transaction is taken before the flush has given it one
InvestUnflushed(u, t, days) ==
    /\ Insert(t, u)
    /\ investments' = Append(investments,
                             [user_id |-> u, trx |-> 0, duration |-> days,
                              deleted |-> FALSE])
    /\ UNCHANGED pay

\* create_investment: the transaction and the investment in one commit
Invest(u, t, days) ==
    /\ Insert(t, u)
    /\ investments' = Append(investments,
                             [user_id |-> u, trx |-> Len(transactions) + 1,
                              duration |-> days, deleted |-> FALSE])
    /\ UNCHANGED pay

\* require_owner: load the investment (404), its owner (403), ...
BeginDelete(r, u, i) ==
    /\ pay[r].pc = "idle"
    /\ ~investments[i].deleted
    /\ investments[i].user_id = u
    /\ pay' = [pay EXCEPT ![r] = [pc |-> "delete", user |-> u, investment |-> i]]
    /\ UNCHANGED <<transactions, investments>>

Deleted(i) ==
    investments' = [investments EXCEPT ![i] =
        [user_id |-> investments[i].user_id, trx |-> investments[i].trx,
         duration |-> investments[i].duration, deleted |-> TRUE]]

\* Mutant: the transaction is deleted with its investment (cascade "all")
CommitDeleteBoth(r) ==
    /\ pay[r].pc = "delete"
    /\ Deleted(pay[r].investment)
    /\ transactions' = [k \in 1..Len(transactions) - 1 |->
          IF k < investments[pay[r].investment].trx
          THEN transactions[k] ELSE transactions[k + 1]]
    /\ Reply(r)

\* ... delete_investment; of a row that is gone the DELETE only warns
CommitDelete(r) ==
    /\ pay[r].pc = "delete"
    /\ Deleted(pay[r].investment)
    /\ Reply(r)
    /\ UNCHANGED transactions

\* 403, 404, 409 or 500: nothing is stored
Fail(r) ==
    /\ pay[r].pc # "idle"
    /\ Reply(r)
    /\ UNCHANGED <<transactions, investments>>

Next ==
    \/ \E u \in Users, t \in References :
          \/ Deposit(u, t)
          \/ \E days \in Durations : Invest(u, t, days)
    \/ \E r \in Requests :
          \/ \E u \in Users, t \in References : BeginWithdraw(r, u, t)
          \/ CommitWithdraw(r)
          \/ \E u \in Users, i \in DOMAIN investments : BeginDelete(r, u, i)
          \/ CommitDelete(r)
          \/ Fail(r)

Spec == Init /\ [][Next]_vars

-----------------------------------------------------------------------------
(***************************************************************************)
(* Properties.                                                             *)
(***************************************************************************)
Bands == {<<30, 2>>, <<91, 10>>, <<182, 15>>, <<365, 30>>}

\* An investment earns the highest rate of the bands its days reach, and none below
\* the first: at the ends of the bands too a longer duration never earns less
\* (compute_rate, rate_map and duration_map).
RatesFollowBands ==
    \A i \in DOMAIN investments :
       LET days == investments[i].duration
           reached == {b \in Bands : b[1] <= days}
       IN /\ reached = {} => Rate(days) = 0
          /\ \A b \in reached :
                (\A c \in reached : c[1] <= b[1]) => Rate(days) = b[2]

\* A payment counts once: repeated and concurrent calls with one reference leave one
\* transaction, and no transaction pays for two investments or
\* for somebody else's (create_transaction, create_investment).  The transaction of an
\* investment that was deleted is still there and pays for no other, so that its
\* reference cannot be presented again (delete_investment).  The accounts stay.
PaidOnce ==
    /\ \A j, k \in DOMAIN transactions :
          transactions[j].trx_id = transactions[k].trx_id => j = k
    /\ \A h, i \in DOMAIN investments :
          /\ investments[i].trx \in DOMAIN transactions
          /\ investments[h].trx = investments[i].trx => h = i
          /\ transactions[investments[i].trx].user_id = investments[i].user_id
=============================================================================
