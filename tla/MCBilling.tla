----------------------------- MODULE MCBilling ------------------------------
EXTENDS Billing, TLC

\* Nothing tells one plan from another but the rows that name it, and every call can
\* do what the other can.
Symmetry == Permutations(Plans) \cup Permutations(Calls)

\* Ticks, payments and a fault race each other over three invoices.  A customer's
\* request races them over two: a state in which it has met a fault or the third
\* invoice is followed with one call at a time, and one in which it has met both is
\* checked and not followed.
Followed ==
    LET third == invs[MaxInvoices].status # "None" IN
    \/ requests > 0
    \/ faults > 0 /\ ~third
    \/ (faults > 0 \/ ~third) /\ \E c \in Calls : calls[c] = Idle
=============================================================================
