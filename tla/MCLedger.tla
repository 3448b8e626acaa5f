------------------------------ MODULE MCLedger ------------------------------
(* Small instances of Ledger.                                               *)
EXTENDS Ledger

CONSTANTS o1, r1, r2, r3, r4

Credit(r, n, life) == [kind |-> "TopUp", owner |-> o1, amount |-> n, ref |-> r, ttl |-> life]
Spend(r, n)  == [kind |-> "Consume", owner |-> o1, amount |-> n, ref |-> r, ttl |-> Null]
Reserve(r, n, life) == [kind |-> "Hold", owner |-> o1, amount |-> n, ref |-> r, ttl |-> life]

\* One batch that dies, one that does not, a spend and a reservation.
Mixed == {Credit(r1, 2, 1), Credit(r2, 2, Null), Spend(r3, 2), Reserve(r4, 1, 1)}

\* Two batches and a job that may die with its reservation.
Batches == {Credit(r1, 1, 1), Credit(r2, 1, Null), Reserve(r4, 1, 1)}
=============================================================================
