--------------------------- MODULE Billing_proofs ---------------------------
(***************************************************************************)
(* What billing promises, for any number of subscriptions, invoices, calls, *)
(* faults and ticks, over any length of time.                               *)
(*                                                                          *)
(* BillingInv says what a subscription's status tells of its periods        *)
(* (StatusOK), that an open invoice starts where no paid one does (OpenOK,  *)
(* OpenApart), that no two paid ones share a period (PaidApart), and of     *)
(* every call what it still knows of the rows it read before other calls    *)
(* went on (CallsOK).  A call may know nothing any more once a payment has  *)
(* overtaken it, which is where the Serially in two of the properties comes *)
(* from.  The actions keep it in one of four ways: as a step that only the  *)
(* call notices, one that keeps every period (Kept), a new invoice          *)
(* (Inserted), or on_paid's transaction (Settled).                          *)
(*                                                                          *)
(* AloneInv follows a tick that runs by itself through its five loops: the  *)
(* earlier ones have nothing left to do (Past), and what this one still has *)
(* to do is among the rows to come or in hand (Ahead).                      *)
(***************************************************************************)
EXTENDS Billing, WellFoundedInduction, TLAPS

Plan      == Plans \cup {NoPlan}
ByRow     == {1, 3, 4, 5}

SubRow == [id : Subs, status : {"None", "Pending", "Active", "Grace", "Suspended", "Cancelled"},
           plan : Plan, next : Plan, start : Nat, end : Nat, cancel : BOOLEAN]

InvoiceRow == [sub : Subs \cup {NoPlan}, plan : Plan, number : Nat, start : Nat, end : Nat, due : Nat,
               status : {"None", "Open", "Paid", "Void", "Expired"}, charge : BOOLEAN]

Statements == {"idle", "exists", "number", "raise", "create", "store", "list", "void", "expire",
               "insert", "next", "unlink", "open", "topup", "settle", "forget", "close",
               "select", "end", "grace", "pending"}

Operations == {"none", "tick", "subscribe", "change", "cancel", "cancel_now", "renew", "reissue",
               "paid", "lost"}

Call == [op : Operations, at : Statements, phase : 0 .. 5, rows : SUBSET (SubRow \cup Invoices),
         i : 0 .. MaxInvoices, number : Nat, start : Nat, plan : Plan,
         sub : Subs \cup {NoPlan}, row : SubRow \cup {NoPlan}, now : Nat]

\* What a call holds is of the form its statement needs.
WellFormed(k) ==
    /\ k.phase \in ByRow => k.rows \subseteq SubRow
    /\ k.phase \notin ByRow => k.rows \subseteq Invoices
    /\ k.op = "tick" <=> k.phase # 0
    /\ k.op = "paid" <=> k.at \in {"topup", "settle"}
    /\ k.at \in {"list", "void", "next"} => k.phase = 0
    /\ k.at = "insert" => k.start = 0
    /\ k.at = "grace" => k.op = "tick"
    /\ k.at \in {"exists", "number", "raise", "list", "void", "next", "open", "end", "grace",
                 "pending", "close", "expire", "topup", "settle"} => k.sub \in Subs
    /\ k.at \in {"create", "store", "unlink", "expire", "forget", "topup", "settle"} => k.i \in Invoices

WellFormedCalls == \A c \in Calls : WellFormed(calls[c])

Rows ==
    /\ \A s \in Subs : subs[s].id = s
    /\ \A i \in Invoices : invs[i].status # "None" => invs[i].sub \in Subs /\ invs[i].number > 0
    /\ \E b \in Nat : \A i \in Invoices : invs[i].number <= b

DataTypes ==
    /\ clock \in Nat \ {0} /\ requests \in Nat /\ faults \in Nat
    /\ subs \in [Subs -> SubRow] /\ invs \in [Invoices -> InvoiceRow]
    /\ topped \subseteq Invoices /\ payable \subseteq Invoices
    /\ overtaken \subseteq Subs /\ doubled \subseteq Subs
    /\ mail \subseteq {"paid", "lost"} \X Invoices

Types == DataTypes /\ calls \in [Calls -> Call]

-----------------------------------------------------------------------------
Off == overtaken \cup doubled

NonePaid(s) == \A i \in Of(s) : invs[i].status # "Paid"

\* A payment for s begins a period now: nothing was paid yet, or what was is over.
Anew(s) == NonePaid(s) \/ (subs[s].status \in {"Suspended", "Cancelled"} /\ subs[s].end <= clock)

\* The number n is above those of the paid invoices of s.
AbovePaid(s, n) == \A j \in Of(s) : invs[j].status = "Paid" => invs[j].number < n

Current(r) == r.id \notin overtaken => subs[r.id].end = r.end
Dated(phase, r) == (phase = 1 => r.end > 0) /\ (phase = 3 => r.end <= clock)

RowsOK(k) ==
    /\ k.op = "tick" => k.now <= clock
    /\ k.phase \in ByRow => \A r \in k.rows : Current(r) /\ Dated(k.phase, r)

RowOK(k) == k.at \in {"exists", "end"} =>
    /\ k.row \in SubRow /\ k.row.id = k.sub /\ Current(k.row)
    /\ k.at = "exists" => k.row.end > 0
    /\ k.at = "end" => k.row.end <= clock

RaiseOK(k) == k.at \in {"number", "raise"} =>
    /\ k.sub \notin Off => \/ k.start > 0 /\ k.start = subs[k.sub].end
                           \/ k.start = 0 /\ Anew(k.sub)
    /\ k.at = "raise" => /\ k.number > 0
                         /\ k.sub \notin Off => AbovePaid(k.sub, k.number)

ChangeOK(k) == (k.op = "change" /\ k.at \in {"next", "list", "void"}) =>
    /\ (k.row.status = "Pending" /\ k.sub \notin Off) => NonePaid(k.sub)
    /\ k.row.status # "Pending" => subs[k.sub].end > 0
    /\ k.start = 0

RenewOK(k) == (k.op = "renew" /\ k.at = "open") =>
    /\ k.sub \notin Off => Anew(k.sub)
    /\ k.start = 0

PaidOK(k) == k.op = "paid" =>
    /\ invs[k.i].status # "None" /\ invs[k.i].sub = k.sub /\ k.start > 0
    /\ (k.sub \notin Off /\ invs[k.i].status = "Open") => subs[k.sub].end <= k.start

CallOK(k) == RowsOK(k) /\ RowOK(k) /\ RaiseOK(k) /\ ChangeOK(k) /\ RenewOK(k) /\ PaidOK(k)
CallsOK   == \A c \in Calls : CallOK(calls[c])

\* What a subscription's status says of its periods.
StatusOK ==
    \A s \in Subs :
        /\ subs[s].status = "None" => subs[s].end = 0
        /\ subs[s].status \in {"None", "Pending"} => NonePaid(s)
        /\ subs[s].status \in {"Active", "Grace", "Suspended"} => subs[s].end > 0
        /\ (subs[s].status \in {"Grace", "Suspended"} /\ s \notin overtaken) => subs[s].end <= clock

OpenOK ==
    \A i \in Invoices : (invs[i].status = "Open" /\ invs[i].sub \notin Off) =>
        /\ \/ invs[i].start > 0 /\ invs[i].start = subs[invs[i].sub].end
           \/ invs[i].start = 0 /\ Anew(invs[i].sub)
        /\ AbovePaid(invs[i].sub, invs[i].number)

OpenApart ==
    \A i, j \in Invoices :
        (i # j /\ invs[i].status = "Open" /\ invs[j].status = "Open" /\ invs[i].sub = invs[j].sub)
            => invs[i].start # invs[j].start

PaidApart ==
    \A i \in Invoices : invs[i].status = "Paid" =>
        /\ invs[i].start > 0
        /\ invs[i].sub \notin Off =>
             /\ invs[i].start < subs[invs[i].sub].end
             /\ \A j \in Of(invs[i].sub) : (i # j /\ invs[j].status = "Paid") => invs[j].start # invs[i].start

BillingInv ==
    /\ Types /\ Rows /\ WellFormedCalls /\ PeriodIsPaid
    /\ CallsOK /\ StatusOK /\ OpenOK /\ OpenApart /\ PaidApart

\* The payment of i will be completed by its event, or has been.
Settling(i) == invs[i].status = "Paid" \/ (invs[i].status = "Open" /\ <<"paid", i>> \in mail)

CreditsOK ==
    /\ \A i \in Invoices : invs[i].status = "None" => i \notin topped
    /\ \A c \in Calls : calls[c].op = "paid" =>
         /\ calls[c].i \notin astray => Settling(calls[c].i)
         /\ calls[c].at = "settle" => calls[c].i \in topped

-----------------------------------------------------------------------------
\* A set of numbers has a least one.
LEMMA LeastNumber ==
    ASSUME NEW S, S \subseteq Nat, S # {}
    PROVE  \E m \in S : \A n \in S : m <= n
<1>1. IsWellFoundedOn(OpToRel(<, Nat), Nat)
  BY NatLessThanWellFounded
<1>2. PICK m \in S : \A n \in S : ~(<<n, m>> \in OpToRel(<, Nat))
  BY <1>1, WFMin
<1>3. ASSUME NEW n \in S PROVE m <= n
  <2>1. ~(<<n, m>> \in OpToRel(<, Nat))
    BY <1>2
  <2>2. ~(n < m)
    BY <2>1 DEF OpToRel
  <2> QED
    BY <2>2
<1> QED
  BY <1>3

LEMMA LeastOf ==
    ASSUME NEW S, S \subseteq Nat, S # {}
    PROVE  Min(S) \in S
<1> QED
  BY LeastNumber DEF Min

\* A set of numbers with a bound has a greatest one.
LEMMA GreatestNumber ==
    ASSUME NEW S, S \subseteq Nat, S # {}, NEW b \in Nat, \A n \in S : n <= b
    PROVE  \E m \in S : \A n \in S : n <= m
<1> DEFINE B == {u \in Nat : \A n \in S : n <= u}
<1>1. PICK m \in B : \A u \in B : m <= u
  BY LeastNumber
<1>2. ASSUME m \notin S PROVE FALSE
  <2>1. \A n \in S : n < m
    BY <1>2
  <2>2. m > 0
    <3>1. PICK n \in S : n < m
      BY <2>1
    <3> QED
      BY <3>1
  <2>3. m - 1 \in B
    BY <2>1, <2>2
  <2> QED
    BY <1>1, <2>3
<1> QED
  BY <1>1, <1>2

LEMMA GreatestOf ==
    ASSUME NEW S, S \subseteq Nat, S # {}, NEW b \in Nat, \A n \in S : n <= b
    PROVE  Max(S) \in S /\ \A n \in S : n <= Max(S)
<1> QED
  BY GreatestNumber DEF Max

-----------------------------------------------------------------------------
(* A call's next statement.                                                 *)

Sound(k) == k \in Call /\ WellFormed(k) /\ CallOK(k)

LEMMA IdleCall == Idle \in Call
<1> QED
  BY BillingConstants DEF Idle, Call, Operations, Statements, Plan

LEMMA IdleIsSound == Sound(Idle)
<1>1. Idle \in Call
  BY BillingConstants DEF Idle, Call, Operations, Statements, Plan
<1>2. WellFormed(Idle)
  BY DEF Idle, WellFormed, ByRow
<1>3. CallOK(Idle)
  BY DEF Idle, CallOK, RowsOK, RowOK, RaiseOK, ChangeOK, RenewOK, PaidOK, ByRow
<1> QED
  BY <1>1, <1>2, <1>3 DEF Sound

\* The rows are of the kind a loop works on, and as they were selected.
Worklist(phase, rows) ==
    /\ phase \in ByRow => rows \subseteq SubRow /\ \A r \in rows : Current(r) /\ Dated(phase, r)
    /\ phase \notin ByRow => rows \subseteq Invoices

LEMMA TakenRow ==
    ASSUME Types, NEW phase \in ByRow, NEW rows, Worklist(phase, rows), rows # {}, NEW now \in Nat, now <= clock
    PROVE  Sound(TakeRow(phase, rows, now))
<1>1. PICK r \in SubRow : r \in rows /\ r = CHOOSE x \in rows : TRUE
  BY DEF Worklist
<1>2. phase \in 1 .. 5 /\ phase # 2 /\ r.id \in Subs
  BY <1>1 DEF ByRow, SubRow
<1>3. /\ phase = 1 => Loops[phase] = "exists"
      /\ phase = 3 => Loops[phase] = "end"
      /\ phase = 4 => Loops[phase] = "grace"
      /\ phase = 5 => Loops[phase] = "pending"
  BY DEF Loops
<1>4. Loops[phase] \in {"exists", "end", "grace", "pending"}
  BY <1>3 DEF ByRow
<1>j. PICK j : j = [Idle EXCEPT !.op = "tick", !.at = Loops[phase], !.phase = phase, !.rows = rows \ {r},
                            !.now = now]
  OBVIOUS
<1>5. /\ j \in Call /\ j.op = "tick" /\ j.at = Loops[phase] /\ j.phase = phase /\ j.rows = rows \ {r}
      /\ j.now = now
  <2>1. rows \ {r} \in SUBSET (SubRow \cup Invoices)
    BY DEF Worklist
  <2>2. "tick" \in Operations /\ Loops[phase] \in Statements /\ phase \in 0 .. 5
    BY <1>2, <1>4 DEF Operations, Statements
  <2> QED
    BY <1>j, <2>1, <2>2, IdleCall DEF Call
<1>k. PICK k : k = [j EXCEPT !.row = r, !.sub = r.id]
  OBVIOUS
<1>6. /\ k \in Call /\ k.op = "tick" /\ k.at = Loops[phase] /\ k.phase = phase /\ k.rows = rows \ {r}
      /\ k.row = r /\ k.sub = r.id /\ k.now = now
  BY <1>1, <1>2, <1>5, <1>k DEF Call
<1>7. TakeRow(phase, rows, now) = k
  BY <1>1, <1>2, <1>j, <1>k DEF TakeRow
<1>8. WellFormed(k)
  BY <1>2, <1>4, <1>6 DEF WellFormed, Worklist
<1>9. RowsOK(k)
  BY <1>6 DEF RowsOK, Worklist
<1>10. RowOK(k)
  <2>1. Current(r) /\ Dated(phase, r)
    BY <1>1 DEF Worklist
  <2>2. k.at = "exists" => r.end > 0
    BY <1>6, <1>3, <2>1 DEF Dated, ByRow
  <2>3. k.at = "end" => r.end <= clock
    BY <1>6, <1>3, <2>1 DEF Dated, ByRow
  <2> QED
    BY <1>1, <1>6, <2>1, <2>2, <2>3 DEF RowOK
<1>11. RaiseOK(k) /\ ChangeOK(k) /\ RenewOK(k) /\ PaidOK(k)
  BY <1>6, <1>4 DEF RaiseOK, ChangeOK, RenewOK, PaidOK
<1> QED
  BY <1>6, <1>7, <1>8, <1>9, <1>10, <1>11 DEF Sound, CallOK

LEMMA TakenInvoice ==
    ASSUME Types, NEW rows, Worklist(2, rows), rows # {}, NEW now \in Nat, now <= clock
    PROVE  Sound(TakeRow(2, rows, now))
<1>1. PICK r \in Invoices : r \in rows /\ r = CHOOSE x \in rows : TRUE
  BY DEF Worklist, ByRow
<1>2. invs[r].sub \in Subs \cup {NoPlan} /\ r \in 0 .. MaxInvoices
  BY <1>1, BillingConstants DEF Types, DataTypes, InvoiceRow, Invoices
<1>j. PICK j : j = [Idle EXCEPT !.op = "tick", !.at = Loops[2], !.phase = 2, !.rows = rows \ {r}, !.now = now]
  OBVIOUS
<1>3. j \in Call /\ j.op = "tick" /\ j.at = "create" /\ j.phase = 2 /\ j.rows = rows \ {r} /\ j.now = now
  <2>1. rows \ {r} \in SUBSET (SubRow \cup Invoices)
    BY DEF Worklist, ByRow
  <2>2. Loops[2] = "create"
    BY DEF Loops
  <2>3. "tick" \in Operations /\ "create" \in Statements /\ 2 \in 0 .. 5
    BY DEF Operations, Statements
  <2> QED
    BY <1>j, <2>1, <2>2, <2>3, IdleCall DEF Call
<1>k. PICK k : k = [j EXCEPT !.i = r, !.sub = invs[r].sub]
  OBVIOUS
<1>4. /\ k \in Call /\ k.op = "tick" /\ k.at = "create" /\ k.phase = 2 /\ k.rows = rows \ {r} /\ k.i = r
      /\ k.now = now
  BY <1>2, <1>3, <1>k DEF Call
<1>5. TakeRow(2, rows, now) = k
  BY <1>1, <1>j, <1>k DEF TakeRow
<1>6. WellFormed(k)
  BY <1>1, <1>4 DEF WellFormed, Worklist, ByRow
<1>7. CallOK(k)
  BY <1>4 DEF CallOK, RowsOK, RowOK, RaiseOK, ChangeOK, RenewOK, PaidOK, ByRow
<1> QED
  BY <1>4, <1>5, <1>6, <1>7 DEF Sound

LEMMA OnwardIsSound ==
    ASSUME Types, NEW k \in Call, WellFormed(k), NEW rows,
           k.op = "tick" => Worklist(k.phase, rows) /\ k.now <= clock
    PROVE  Sound(Onward(k, rows))
<1>n. k.now \in Nat
  BY DEF Call
<1>1. CASE k.op # "tick"
  BY <1>1, IdleIsSound DEF Onward
<1>2. CASE k.op = "tick" /\ rows # {}
  <2>1. k.phase \in 1 .. 5
    BY <1>2 DEF WellFormed, Call
  <2>2. k.phase = 2 \/ k.phase \in ByRow
    BY <2>1 DEF ByRow
  <2>3. Onward(k, rows) = TakeRow(k.phase, rows, k.now)
    BY <1>2 DEF Onward
  <2> QED
    BY <1>n, <1>2, <2>2, <2>3, TakenRow, TakenInvoice
<1>3. CASE k.op = "tick" /\ rows = {} /\ ~(k.phase < 5)
  BY <1>3, IdleIsSound DEF Onward
<1>4. CASE k.op = "tick" /\ rows = {} /\ k.phase < 5
  <2>1. k.phase \in 1 .. 4
    BY <1>4 DEF WellFormed, Call
  <2>2. PICK n \in 2 .. 5 : n = k.phase + 1
    BY <2>1
  <2>j. PICK j : j = [Idle EXCEPT !.op = "tick", !.at = "select", !.phase = n, !.now = k.now]
    OBVIOUS
  <2>i. Idle.rows = {}
    BY DEF Idle
  <2>3. j \in Call /\ j.op = "tick" /\ j.at = "select" /\ j.phase = n /\ j.rows = {} /\ j.now = k.now
    <3>1. "tick" \in Operations /\ "select" \in Statements /\ n \in 0 .. 5
      BY <2>2 DEF Operations, Statements
    <3> QED
      BY <1>n, <2>j, <2>i, <3>1, IdleCall DEF Call
  <2>4. Onward(k, rows) = j
    BY <1>4, <2>2, <2>j DEF Onward
  <2>6. WellFormed(j)
    BY <2>2, <2>3 DEF WellFormed, ByRow
  <2>7. CallOK(j)
    BY <1>4, <2>3 DEF CallOK, RowsOK, RowOK, RaiseOK, ChangeOK, RenewOK, PaidOK
  <2> QED
    BY <2>3, <2>4, <2>6, <2>7 DEF Sound
<1> QED
  BY <1>1, <1>2, <1>3, <1>4

-----------------------------------------------------------------------------
(* Every step but the insert of an invoice and a payment that settles keeps *)
(* the periods: it may close open invoices and move statuses along.         *)

InvoicesKept ==
    /\ invs' \in [Invoices -> InvoiceRow]
    /\ \A i \in Invoices :
         /\ invs'[i].sub = invs[i].sub /\ invs'[i].number = invs[i].number
         /\ invs'[i].start = invs[i].start /\ invs'[i].end = invs[i].end
         /\ \/ invs'[i].status = invs[i].status
            \/ invs[i].status = "Open" /\ invs'[i].status \in {"Void", "Expired"}

MayBecome(s, status) ==
    \/ status = subs[s].status
    \/ status = "Cancelled"
    \/ subs[s].status = "None" /\ status = "Pending"
    \/ subs[s].status = "Active" /\ status = "Grace" /\ (s \notin overtaken => subs[s].end <= clock)
    \/ subs[s].status = "Grace" /\ status = "Suspended"

SubsKept ==
    /\ subs' \in [Subs -> SubRow]
    /\ \A s \in Subs :
         /\ subs'[s].id = s /\ subs'[s].end = subs[s].end
         /\ subs[s].end > 0 => subs'[s].start = subs[s].start
         /\ MayBecome(s, subs'[s].status)

Kept == /\ InvoicesKept /\ SubsKept /\ DataTypes' /\ clock <= clock'
        /\ overtaken' = overtaken /\ doubled' = doubled

LEMMA InvoicesStand ==
    ASSUME Types, Kept
    PROVE  /\ \A s : Of(s)' = Of(s)
           /\ \A i \in Invoices : invs'[i].status = "Paid" <=> invs[i].status = "Paid"
           /\ \A i \in Invoices : invs'[i].status = "Open" => invs[i].status = "Open"
           /\ \A i \in Invoices : invs'[i].status = "None" <=> invs[i].status = "None"
           /\ \A s : NonePaid(s)' <=> NonePaid(s)
<1>1. \A s : Of(s)' = Of(s)
  BY DEF Kept, InvoicesKept, Of
<1>2. /\ \A i \in Invoices : invs'[i].status = "Paid" <=> invs[i].status = "Paid"
      /\ \A i \in Invoices : invs'[i].status = "Open" => invs[i].status = "Open"
      /\ \A i \in Invoices : invs'[i].status = "None" <=> invs[i].status = "None"
  BY DEF Kept, InvoicesKept
<1>3. \A s : Of(s) \subseteq Invoices
  BY DEF Of
<1>4. \A s : NonePaid(s)' <=> NonePaid(s)
  BY <1>1, <1>2, <1>3 DEF NonePaid
<1> QED
  BY <1>1, <1>2, <1>4

LEMMA AnewStands ==
    ASSUME Types, Kept, NEW s \in Subs, Anew(s)
    PROVE  Anew(s)'
<1>1. CASE NonePaid(s)
  BY <1>1, InvoicesStand DEF Anew
<1>2. CASE subs[s].status \in {"Suspended", "Cancelled"} /\ subs[s].end <= clock
  <2>1. subs'[s].status \in {"Suspended", "Cancelled"} /\ subs'[s].end = subs[s].end
    BY <1>2 DEF Kept, SubsKept, MayBecome
  <2>2. clock \in Nat /\ clock' \in Nat /\ clock <= clock' /\ subs[s].end \in Nat
    BY DEF Types, DataTypes, Kept, SubRow
  <2>3. subs[s].end <= clock'
    BY <1>2, <2>2
  <2> QED
    BY <2>1, <2>3 DEF Anew
<1> QED
  BY <1>1, <1>2 DEF Anew

LEMMA AbovePaidStands ==
    ASSUME Types, Kept, NEW s, NEW n, AbovePaid(s, n)
    PROVE  AbovePaid(s, n)'
<1>1. \A j \in Of(s)' : /\ j \in Of(s) /\ invs'[j].number = invs[j].number
                        /\ invs'[j].status = "Paid" => invs[j].status = "Paid"
  BY InvoicesStand DEF Kept, InvoicesKept, Of
<1> QED
  BY <1>1 DEF AbovePaid

LEMMA SoundStands ==
    ASSUME Types, Kept, NEW k, Sound(k)
    PROVE  Sound(k)'
<1>1. k \in Call /\ WellFormed(k) /\ CallOK(k)
  BY DEF Sound
<1>2. /\ \A s \in Subs : subs'[s].end = subs[s].end
      /\ clock \in Nat /\ clock' \in Nat /\ clock <= clock'
      /\ overtaken' = overtaken /\ doubled' = doubled /\ Off' = Off
  BY DEF Kept, SubsKept, DataTypes, Types, Off
<1>3. \A r \in SubRow : r.id \in Subs /\ r.end \in Nat
  BY DEF SubRow
<1>4. \A r \in SubRow : Current(r) => Current(r)'
  BY <1>2, <1>3 DEF Current
<1>5. \A r \in SubRow, n \in ByRow : Dated(n, r) => Dated(n, r)'
  BY <1>2, <1>3 DEF Dated
<1>n. k.op = "tick" => k.now <= clock'
  <2>1. k.now \in Nat /\ (k.op = "tick" => k.now <= clock)
    BY <1>1 DEF Call, CallOK, RowsOK
  <2> QED
    BY <1>2, <2>1
<1>6. RowsOK(k)'
  <2> SUFFICES ASSUME k.phase \in ByRow, NEW r \in k.rows
               PROVE  Current(r)' /\ Dated(k.phase, r)'
    BY <1>n DEF RowsOK
  <2>1. r \in SubRow
    BY <1>1 DEF WellFormed
  <2>2. Current(r) /\ Dated(k.phase, r)
    BY <1>1 DEF CallOK, RowsOK
  <2> QED
    BY <1>4, <1>5, <2>1, <2>2
<1>7. RowOK(k)'
  <2> SUFFICES ASSUME k.at \in {"exists", "end"}
               PROVE  /\ k.row \in SubRow /\ k.row.id = k.sub /\ Current(k.row)'
                      /\ k.at = "exists" => k.row.end > 0
                      /\ k.at = "end" => k.row.end <= clock'
    BY DEF RowOK
  <2>1. /\ k.row \in SubRow /\ k.row.id = k.sub /\ Current(k.row)
        /\ k.at = "exists" => k.row.end > 0
        /\ k.at = "end" => k.row.end <= clock
    BY <1>1 DEF CallOK, RowOK
  <2>2. k.row.end \in Nat
    BY <1>3, <2>1
  <2>3. k.at = "end" => k.row.end <= clock'
    BY <1>2, <2>1, <2>2
  <2> QED
    BY <1>4, <2>1, <2>3
<1>8. RaiseOK(k)'
  <2> SUFFICES ASSUME k.at \in {"number", "raise"}
               PROVE  RaiseOK(k)'
    BY DEF RaiseOK
  <2>1. RaiseOK(k) /\ k.sub \in Subs
    BY <1>1 DEF CallOK, WellFormed
  <2>2. PICK s \in Subs : s = k.sub
    BY <2>1
  <2>3. Anew(s) => Anew(s)'
    BY AnewStands
  <2>4. s \notin Off' => \/ k.start > 0 /\ k.start = subs'[s].end
                         \/ k.start = 0 /\ Anew(s)'
    BY <1>2, <2>1, <2>2, <2>3 DEF RaiseOK
  <2>5. AbovePaid(s, k.number) => AbovePaid(s, k.number)'
    BY AbovePaidStands
  <2>6. k.at = "raise" => k.number > 0 /\ (s \notin Off' => AbovePaid(s, k.number)')
    BY <1>2, <2>1, <2>2, <2>5 DEF RaiseOK
  <2> QED
    BY <2>2, <2>4, <2>6 DEF RaiseOK
<1>9. ChangeOK(k)'
  <2> SUFFICES ASSUME k.op = "change", k.at \in {"next", "list", "void"}
               PROVE  ChangeOK(k)'
    BY DEF ChangeOK
  <2>1. ChangeOK(k) /\ k.sub \in Subs
    BY <1>1 DEF CallOK, WellFormed
  <2> QED
    BY <1>2, <2>1, InvoicesStand DEF ChangeOK
<1>10. RenewOK(k)'
  <2> SUFFICES ASSUME k.op = "renew", k.at = "open"
               PROVE  RenewOK(k)'
    BY DEF RenewOK
  <2>1. RenewOK(k) /\ k.sub \in Subs
    BY <1>1 DEF CallOK, WellFormed
  <2> QED
    BY <1>2, <2>1, AnewStands DEF RenewOK
<1>11. PaidOK(k)'
  <2> SUFFICES ASSUME k.op = "paid"
               PROVE  PaidOK(k)'
    BY DEF PaidOK
  <2>1. PaidOK(k) /\ k.sub \in Subs /\ k.i \in Invoices
    BY <1>1 DEF CallOK, WellFormed
  <2>2. /\ invs'[k.i].status = "None" <=> invs[k.i].status = "None"
        /\ invs'[k.i].status = "Open" => invs[k.i].status = "Open"
        /\ invs'[k.i].sub = invs[k.i].sub
    BY <2>1, InvoicesStand DEF Kept, InvoicesKept
  <2> QED
    BY <1>2, <2>1, <2>2 DEF PaidOK
<1> QED
  BY <1>1, <1>6, <1>7, <1>8, <1>9, <1>10, <1>11 DEF Sound, CallOK

\* A step that keeps the periods, after which every call is sound, keeps the invariant.
Onwards == \A d \in Calls : calls'[d] = calls[d] \/ Sound(calls'[d])

LEMMA KeptStep ==
    ASSUME BillingInv, Kept, calls' \in [Calls -> Call], Onwards
    PROVE  BillingInv'
<1>t. /\ Types /\ DataTypes /\ Rows /\ WellFormedCalls /\ PeriodIsPaid
      /\ CallsOK /\ StatusOK /\ OpenOK /\ OpenApart /\ PaidApart
  BY DEF BillingInv, Types
<1>i. /\ \A s : Of(s)' = Of(s)
      /\ \A i \in Invoices : invs'[i].status = "Paid" <=> invs[i].status = "Paid"
      /\ \A i \in Invoices : invs'[i].status = "Open" => invs[i].status = "Open"
      /\ \A i \in Invoices : invs'[i].status = "None" <=> invs[i].status = "None"
      /\ \A s : NonePaid(s)' <=> NonePaid(s)
  BY <1>t, InvoicesStand
<1>v. \A i \in Invoices : /\ invs'[i].sub = invs[i].sub /\ invs'[i].number = invs[i].number
                          /\ invs'[i].start = invs[i].start /\ invs'[i].end = invs[i].end
  BY DEF Kept, InvoicesKept
<1>s. \A s \in Subs : /\ subs'[s].end = subs[s].end /\ MayBecome(s, subs'[s].status)
                      /\ subs[s].end > 0 => subs'[s].start = subs[s].start
  BY DEF Kept, SubsKept
<1>o. Off' = Off /\ overtaken' = overtaken
  BY DEF Kept, Off
<1>f. \A s : \A i \in Of(s) : i \in Invoices /\ invs[i].sub = s
  BY DEF Of
<1>1. Types'
  BY DEF Kept, Types
<1>2. Rows'
  <2>1. \A s \in Subs : subs'[s].id = s
    BY DEF Kept, SubsKept
  <2>2. \A i \in Invoices : invs'[i].status # "None" => invs'[i].sub \in Subs /\ invs'[i].number > 0
    BY <1>t, <1>i, <1>v DEF Rows
  <2>3. \E b \in Nat : \A i \in Invoices : invs'[i].number <= b
    BY <1>t, <1>v DEF Rows
  <2> QED
    BY <2>1, <2>2, <2>3 DEF Rows
<1>3. (\A d \in Calls : Sound(calls[d]))'
  <2> SUFFICES ASSUME NEW d \in Calls
               PROVE  Sound(calls[d])'
    OBVIOUS
  <2>1. calls[d] \in Call
    BY <1>t DEF Types
  <2>2. Sound(calls[d])
    BY <1>t, <2>1 DEF WellFormedCalls, CallsOK, Sound
  <2>3. PICK k : k = calls'[d]
    OBVIOUS
  <2>4. Sound(k)
    BY <2>2, <2>3 DEF Onwards
  <2>5. Sound(k)'
    BY <1>t, <2>4, SoundStands
  <2> QED
    BY <2>3, <2>5 DEF Sound, WellFormed, CallOK, RowsOK, RowOK, RaiseOK, ChangeOK, RenewOK, PaidOK
<1>4. WellFormedCalls' /\ CallsOK'
  BY <1>3 DEF WellFormedCalls, CallsOK, Sound
<1>5. PeriodIsPaid'
  <2> SUFFICES ASSUME NEW s \in Subs, subs'[s].end > 0
               PROVE  \E i \in Of(s)' : /\ invs'[i].status = "Paid" /\ invs'[i].start = subs'[s].start
                                        /\ invs'[i].end = subs'[s].end
    BY DEF PeriodIsPaid
  <2>1. PICK i \in Of(s) : /\ invs[i].status = "Paid" /\ invs[i].start = subs[s].start
                           /\ invs[i].end = subs[s].end
    BY <1>t, <1>s DEF PeriodIsPaid
  <2> QED
    BY <1>i, <1>v, <1>s, <1>f, <2>1
<1>6. StatusOK'
  <2> SUFFICES ASSUME NEW s \in Subs
               PROVE  /\ subs'[s].status = "None" => subs'[s].end = 0
                      /\ subs'[s].status \in {"None", "Pending"} => NonePaid(s)'
                      /\ subs'[s].status \in {"Active", "Grace", "Suspended"} => subs'[s].end > 0
                      /\ (subs'[s].status \in {"Grace", "Suspended"} /\ s \notin overtaken')
                            => subs'[s].end <= clock'
    BY DEF StatusOK
  <2>1. /\ subs[s].status = "None" => subs[s].end = 0
        /\ subs[s].status \in {"None", "Pending"} => NonePaid(s)
        /\ subs[s].status \in {"Active", "Grace", "Suspended"} => subs[s].end > 0
        /\ (subs[s].status \in {"Grace", "Suspended"} /\ s \notin overtaken) => subs[s].end <= clock
    BY <1>t DEF StatusOK
  <2>2. MayBecome(s, subs'[s].status) /\ subs'[s].end = subs[s].end
    BY <1>s
  <2>3. /\ subs'[s].status = "None" => subs'[s].end = 0
        /\ subs'[s].status \in {"None", "Pending"} => NonePaid(s)'
        /\ subs'[s].status \in {"Active", "Grace", "Suspended"} => subs'[s].end > 0
    BY <1>i, <2>1, <2>2 DEF MayBecome
  <2>4. (subs'[s].status \in {"Grace", "Suspended"} /\ s \notin overtaken) => subs[s].end <= clock
    BY <2>1, <2>2 DEF MayBecome
  <2>5. subs[s].end \in Nat /\ clock \in Nat /\ clock' \in Nat /\ clock <= clock'
    BY <1>t DEF Kept, DataTypes, SubRow
  <2>6. subs[s].end <= clock => subs[s].end <= clock'
    BY <2>5
  <2> QED
    BY <1>o, <2>2, <2>3, <2>4, <2>6
<1>7. OpenOK'
  <2> SUFFICES ASSUME NEW i \in Invoices, invs'[i].status = "Open", NEW s, s = invs'[i].sub, s \notin Off',
                      NEW n, n = invs'[i].number
               PROVE  /\ \/ invs'[i].start > 0 /\ invs'[i].start = subs'[s].end
                         \/ invs'[i].start = 0 /\ Anew(s)'
                      /\ AbovePaid(s, n)'
    BY DEF OpenOK
  <2>1. s \in Subs /\ s = invs[i].sub /\ n = invs[i].number /\ invs[i].status = "Open" /\ s \notin Off
    BY <1>t, <1>i, <1>v, <1>o DEF Rows
  <2>2. /\ \/ invs[i].start > 0 /\ invs[i].start = subs[s].end
           \/ invs[i].start = 0 /\ Anew(s)
        /\ AbovePaid(s, n)
    BY <1>t, <2>1 DEF OpenOK
  <2>3. (Anew(s) => Anew(s)') /\ AbovePaid(s, n)'
    BY <1>t, <2>1, <2>2, AnewStands, AbovePaidStands
  <2> QED
    BY <1>v, <1>s, <2>1, <2>2, <2>3
<1>8. OpenApart'
  BY <1>t, <1>i, <1>v DEF OpenApart
<1>9. PaidApart'
  <2> SUFFICES ASSUME NEW i \in Invoices, invs'[i].status = "Paid"
               PROVE  /\ invs'[i].start > 0
                      /\ invs'[i].sub \notin Off' =>
                            /\ invs'[i].start < subs'[invs'[i].sub].end
                            /\ \A j \in Of(invs[i].sub) : (i # j /\ invs'[j].status = "Paid") => invs'[j].start # invs'[i].start
    BY <1>v, <1>i DEF PaidApart, Of
  <2>1. invs[i].sub \in Subs
    BY <1>t, <1>i DEF Rows
  <2> QED
    BY <1>t, <1>i, <1>v, <1>s, <1>o, <1>f, <2>1 DEF PaidApart
<1> QED
  BY <1>1, <1>2, <1>4, <1>5, <1>6, <1>7, <1>8, <1>9 DEF BillingInv

-----------------------------------------------------------------------------
(* The actions one by one: the call that takes the step stays sound.        *)

LEMMA CallsSound ==
    ASSUME BillingInv
    PROVE  \A c \in Calls : Sound(calls[c])
<1>1. \A c \in Calls : calls[c] \in Call
  BY DEF BillingInv, Types
<1> QED
  BY <1>1 DEF BillingInv, WellFormedCalls, CallsOK, Sound

LEMMA CallStep ==
    ASSUME BillingInv, NEW c \in Calls, NEW k, calls' = [calls EXCEPT ![c] = k], Sound(k)
    PROVE  calls' \in [Calls -> Call] /\ Onwards
<1>1. calls \in [Calls -> Call] /\ k \in Call
  BY DEF BillingInv, Types, Sound
<1>2. calls' \in [Calls -> Call]
  BY <1>1
<1>3. \A d \in Calls : calls'[d] = calls[d] \/ calls'[d] = k
  BY <1>1
<1> QED
  BY <1>2, <1>3 DEF Onwards

LEMMA DataKept ==
    ASSUME BillingInv, UNCHANGED <<clock, subs, invs, overtaken, doubled>>, DataTypes'
    PROVE  Kept
<1>1. Types /\ DataTypes /\ Rows
  BY DEF BillingInv, Types
<1>2. InvoicesKept
  BY <1>1 DEF InvoicesKept, DataTypes
<1>3. SubsKept
  BY <1>1 DEF SubsKept, DataTypes, Rows, MayBecome
<1>4. clock <= clock'
  BY <1>1 DEF DataTypes
<1> QED
  BY <1>2, <1>3, <1>4 DEF Kept

\* A step that only the call itself notices.
LEMMA CallOnly ==
    ASSUME BillingInv, NEW c \in Calls, NEW k, Go(c, k), Sound(k),
           UNCHANGED <<clock, subs, invs, overtaken, doubled>>, DataTypes'
    PROVE  BillingInv'
<1>1. calls' = [calls EXCEPT ![c] = k]
  BY DEF Go
<1>2. calls' \in [Calls -> Call] /\ Onwards
  BY <1>1, CallStep
<1> QED
  BY <1>2, DataKept, KeptStep

\* A statement that relies on nothing but the form of the call and its rows.
LEMMA PlainCall ==
    ASSUME NEW k \in Call, WellFormed(k), RowsOK(k),
           k.at \notin {"exists", "end", "number", "raise"},
           k.op = "change" => k.at \notin {"next", "list", "void"},
           k.op = "renew" => k.at # "open",
           k.op # "paid"
    PROVE  Sound(k)
<1> QED
  BY DEF Sound, CallOK, RowOK, RaiseOK, ChangeOK, RenewOK, PaidOK

LEMMA WorklistOf ==
    ASSUME NEW k, Sound(k)
    PROVE  Worklist(k.phase, k.rows)
<1> QED
  BY DEF Sound, WellFormed, CallOK, RowsOK, Worklist

LEMMA OnwardSound ==
    ASSUME BillingInv, NEW k, Sound(k)
    PROVE  Sound(Onward(k, k.rows))
<1>1. Types /\ k \in Call /\ WellFormed(k) /\ (k.op = "tick" => k.now <= clock)
  BY DEF BillingInv, Sound, CallOK, RowsOK
<1>2. Worklist(k.phase, k.rows)
  BY WorklistOf
<1> QED
  BY <1>1, <1>2, OnwardIsSound

LEMMA StepExists ==
    ASSUME BillingInv, NEW c \in Calls, Exists(c)
    PROVE  BillingInv'
<1>1. PICK k : k = calls[c]
  OBVIOUS
<1>2. Sound(k) /\ k \in Call /\ WellFormed(k) /\ CallOK(k) /\ k.at = "exists"
  BY <1>1, CallsSound DEF Exists, Sound
<1>3. UNCHANGED <<clock, subs, invs, overtaken, doubled>> /\ DataTypes'
  BY DEF Exists, BillingInv, Types, DataTypes, budget
<1>4. PICK j : j = [k EXCEPT !.at = "number", !.plan = PlanOf(k.row), !.start = k.row.end]
  OBVIOUS
<1>5. Go(c, Onward(k, k.rows)) \/ Go(c, j)
  BY <1>1, <1>4 DEF Exists
<1>6. Sound(j)
  <2>1. k.row \in SubRow /\ k.row.id = k.sub /\ Current(k.row) /\ k.row.end > 0 /\ k.sub \in Subs
    BY <1>2 DEF CallOK, RowOK, WellFormed
  <2>2. k.row.end \in Nat /\ PlanOf(k.row) \in Plan /\ "number" \in Statements
    BY <2>1 DEF SubRow, PlanOf, Statements
  <2>3. /\ j \in Call /\ j.at = "number" /\ j.start = k.row.end
        /\ j.op = k.op /\ j.phase = k.phase /\ j.rows = k.rows /\ j.now = k.now /\ j.sub = k.sub /\ j.i = k.i
    BY <1>2, <1>4, <2>2 DEF Call
  <2>4. WellFormed(j)
    BY <1>2, <2>1, <2>3 DEF WellFormed
  <2>5. RowsOK(j)
    BY <1>2, <2>3 DEF CallOK, RowsOK
  <2>6. RaiseOK(j)
    <3>1. j.sub \notin Off => j.start > 0 /\ j.start = subs[j.sub].end
      BY <2>1, <2>3 DEF Current, Off
    <3> QED
      BY <2>3, <3>1 DEF RaiseOK
  <2>7. RowOK(j) /\ ChangeOK(j) /\ RenewOK(j)
    BY <2>3 DEF RowOK, ChangeOK, RenewOK
  <2>8. PaidOK(j)
    BY <1>2, <2>3 DEF PaidOK, WellFormed
  <2> QED
    BY <2>3, <2>4, <2>5, <2>6, <2>7, <2>8 DEF Sound, CallOK
<1>7. Sound(Onward(k, k.rows))
  BY <1>2, OnwardSound
<1> QED
  BY <1>3, <1>5, <1>6, <1>7, CallOnly

LEMMA StepNextNumber ==
    ASSUME BillingInv, NEW c \in Calls, NextNumber(c)
    PROVE  BillingInv'
<1>1. PICK k : k = calls[c]
  OBVIOUS
<1>2. Sound(k) /\ k \in Call /\ WellFormed(k) /\ CallOK(k) /\ k.at = "number"
  BY <1>1, CallsSound DEF NextNumber, Sound
<1>3. UNCHANGED <<clock, subs, invs, overtaken, doubled>> /\ DataTypes'
  BY DEF NextNumber, BillingInv, Types, DataTypes, budget
<1>4. PICK S : S = {0} \cup {invs[i].number : i \in Of(k.sub)}
  OBVIOUS
<1>5. Max(S) \in Nat /\ \A i \in Of(k.sub) : invs[i].number \in Nat /\ invs[i].number <= Max(S)
  <2>1. \A i \in Of(k.sub) : i \in Invoices /\ invs[i].number \in Nat
    BY DEF Of, BillingInv, Types, DataTypes, InvoiceRow
  <2>2. PICK b \in Nat : \A i \in Invoices : invs[i].number <= b
    BY DEF BillingInv, Rows
  <2>3. S \subseteq Nat /\ S # {} /\ \A n \in S : n <= b
    BY <1>4, <2>1, <2>2
  <2>4. Max(S) \in S /\ \A n \in S : n <= Max(S)
    BY <2>3, GreatestOf
  <2> QED
    BY <1>4, <2>1, <2>3, <2>4
<1>6. PICK n \in Nat : n = 1 + Max(S) /\ n > 0 /\ \A i \in Of(k.sub) : invs[i].number < n
  BY <1>5
<1>7. PICK j : j = [k EXCEPT !.at = "raise", !.number = n]
  OBVIOUS
<1>8. Go(c, j)
  BY <1>1, <1>4, <1>6, <1>7 DEF NextNumber
<1>9. Sound(j)
  <2>1. "raise" \in Statements
    BY DEF Statements
  <2>2. /\ j \in Call /\ j.at = "raise" /\ j.number = n /\ j.start = k.start
        /\ j.op = k.op /\ j.phase = k.phase /\ j.rows = k.rows /\ j.now = k.now /\ j.sub = k.sub /\ j.i = k.i
    BY <1>2, <1>6, <1>7, <2>1 DEF Call
  <2>3. WellFormed(j)
    BY <1>2, <2>2 DEF WellFormed
  <2>4. RowsOK(j)
    BY <1>2, <2>2 DEF CallOK, RowsOK
  <2>5. RaiseOK(j)
    <3>1. AbovePaid(j.sub, j.number)
      BY <1>6, <2>2 DEF AbovePaid
    <3> QED
      BY <1>2, <1>6, <2>2, <3>1 DEF RaiseOK, CallOK
  <2>6. RowOK(j) /\ ChangeOK(j) /\ RenewOK(j)
    BY <2>2 DEF RowOK, ChangeOK, RenewOK
  <2>7. PaidOK(j)
    BY <1>2, <2>2 DEF PaidOK, WellFormed
  <2> QED
    BY <2>2, <2>3, <2>4, <2>5, <2>6, <2>7 DEF Sound, CallOK
<1> QED
  BY <1>3, <1>8, <1>9, CallOnly

LEMMA StepCreateCharge ==
    ASSUME BillingInv, NEW c \in Calls, CreateCharge(c)
    PROVE  BillingInv'
<1>1. PICK k : k = calls[c]
  OBVIOUS
<1>2. Sound(k) /\ k \in Call /\ WellFormed(k) /\ CallOK(k) /\ k.at = "create" /\ k.i \in Invoices
  BY <1>1, CallsSound DEF CreateCharge, Sound, WellFormed
<1>3. UNCHANGED <<clock, subs, invs, overtaken, doubled>> /\ DataTypes'
  BY <1>1, <1>2 DEF CreateCharge, BillingInv, Types, DataTypes, budget
<1>4. PICK j : j = [k EXCEPT !.at = "store"]
  OBVIOUS
<1>5. Go(c, j)
  BY <1>1, <1>4 DEF CreateCharge
<1>6. Sound(j)
  <2>1. "store" \in Statements
    BY DEF Statements
  <2>2. /\ j \in Call /\ j.at = "store" /\ j.op = k.op /\ j.phase = k.phase /\ j.rows = k.rows /\ j.now = k.now
        /\ j.sub = k.sub /\ j.i = k.i
    BY <1>2, <1>4, <2>1 DEF Call
  <2>3. WellFormed(j) /\ j.op # "paid"
    BY <1>2, <2>2 DEF WellFormed
  <2>4. RowsOK(j)
    BY <1>2, <2>2 DEF CallOK, RowsOK
  <2> QED
    BY <2>2, <2>3, <2>4, PlainCall
<1> QED
  BY <1>3, <1>5, <1>6, CallOnly

LEMMA StepCreateFails ==
    ASSUME BillingInv, NEW c \in Calls, CreateFails(c)
    PROVE  BillingInv'
<1>1. Sound(calls[c])
  BY CallsSound
<1>2. UNCHANGED <<clock, subs, invs, overtaken, doubled>> /\ DataTypes'
  BY DEF CreateFails, BillingInv, Types, DataTypes
<1>3. PICK k : k = Onward(calls[c], calls[c].rows)
  OBVIOUS
<1>4. Sound(k)
  BY <1>1, <1>3, OnwardSound
<1>5. calls' = [calls EXCEPT ![c] = k]
  BY <1>3 DEF CreateFails
<1>6. calls' \in [Calls -> Call] /\ Onwards
  BY <1>4, <1>5, CallStep
<1> QED
  BY <1>2, <1>6, DataKept, KeptStep

LEMMA StepStoreFails ==
    ASSUME BillingInv, NEW c \in Calls, StoreFails(c)
    PROVE  BillingInv'
<1>1. Sound(calls[c])
  BY CallsSound
<1>2. UNCHANGED <<clock, subs, invs, overtaken, doubled>> /\ DataTypes'
  BY DEF StoreFails, CancelCharge, BillingInv, Types, DataTypes
<1>3. PICK k : k = Onward(calls[c], calls[c].rows)
  OBVIOUS
<1>4. Sound(k)
  BY <1>1, <1>3, OnwardSound
<1>5. calls' = [calls EXCEPT ![c] = k]
  BY <1>3 DEF StoreFails
<1>6. calls' \in [Calls -> Call] /\ Onwards
  BY <1>4, <1>5, CallStep
<1> QED
  BY <1>2, <1>6, DataKept, KeptStep

LEMMA StepFault ==
    ASSUME BillingInv, NEW c \in Calls, Fault(c)
    PROVE  BillingInv'
<1>1. UNCHANGED <<clock, subs, invs, overtaken, doubled>> /\ DataTypes'
  BY DEF Fault, BillingInv, Types, DataTypes
<1>2. Go(c, Idle)
  BY DEF Fault
<1> QED
  BY <1>1, <1>2, IdleIsSound, CallOnly

LEMMA StepStrand ==
    ASSUME BillingInv, NEW c \in Calls, Strand(c)
    PROVE  BillingInv'
<1>1. UNCHANGED <<clock, subs, invs, overtaken, doubled>> /\ DataTypes'
  BY DEF Strand, BillingInv, Types, DataTypes
<1>2. Go(c, Idle)
  BY DEF Strand
<1> QED
  BY <1>1, <1>2, IdleIsSound, CallOnly

LEMMA StepListOpen ==
    ASSUME BillingInv, NEW c \in Calls, ListOpen(c)
    PROVE  BillingInv'
<1>1. PICK k : k = calls[c]
  OBVIOUS
<1>2. /\ Sound(k) /\ k \in Call /\ WellFormed(k) /\ CallOK(k) /\ k.at = "list" /\ k.phase = 0 /\ k.sub \in Subs
      /\ k.op # "paid"
  BY <1>1, CallsSound DEF ListOpen, Sound, WellFormed
<1>3. UNCHANGED <<clock, subs, invs, overtaken, doubled>> /\ DataTypes'
  BY <1>1, <1>2 DEF ListOpen, BillingInv, Types, DataTypes, budget
<1>4. PICK j : j = [k EXCEPT !.at = "void", !.rows = OpenOf(k.sub)]
  OBVIOUS
<1>5. Go(c, j)
  BY <1>1, <1>4 DEF ListOpen
<1>6. Sound(j)
  <2>1. "void" \in Statements /\ OpenOf(k.sub) \in SUBSET (SubRow \cup Invoices) /\ OpenOf(k.sub) \subseteq Invoices
    BY DEF Statements, OpenOf, Of
  <2>2. /\ j \in Call /\ j.at = "void" /\ j.op = k.op /\ j.phase = 0 /\ j.rows = OpenOf(k.sub)
        /\ j.now = k.now /\ j.sub = k.sub /\ j.i = k.i /\ j.row = k.row /\ j.start = k.start
    BY <1>2, <1>4, <2>1 DEF Call
  <2>3. WellFormed(j)
    BY <1>2, <2>1, <2>2 DEF WellFormed, ByRow
  <2>4. RowsOK(j) /\ RowOK(j) /\ RaiseOK(j) /\ RenewOK(j) /\ PaidOK(j)
    BY <1>2, <2>2 DEF CallOK, RowsOK, RowOK, RaiseOK, RenewOK, PaidOK, ByRow
  <2>5. ChangeOK(j)
    BY <1>2, <2>2 DEF CallOK, ChangeOK
  <2> QED
    BY <2>2, <2>3, <2>4, <2>5 DEF Sound, CallOK
<1> QED
  BY <1>3, <1>5, <1>6, CallOnly

LEMMA StepSubscribe ==
    ASSUME BillingInv, NEW c \in Calls, NEW p \in Plans, Subscribe(c, p)
    PROVE  BillingInv'
<1>1. UNCHANGED <<clock, subs, invs, overtaken, doubled>> /\ DataTypes'
  BY DEF Subscribe, BillingInv, Types, DataTypes, budget
<1>2. PICK j : j = [Idle EXCEPT !.op = "subscribe", !.at = "insert", !.plan = p, !.now = clock]
  OBVIOUS
<1>3. Go(c, j)
  BY <1>2 DEF Subscribe
<1>4. Sound(j)
  <2>1. "subscribe" \in Operations /\ "insert" \in Statements /\ p \in Plan
    BY DEF Statements, Operations, Plan
  <2>2. Idle.rows = {} /\ Idle.phase = 0 /\ Idle.start = 0 /\ clock \in Nat
    BY DEF Idle, BillingInv, Types, DataTypes
  <2>3. /\ j \in Call /\ j.at = "insert" /\ j.op = "subscribe" /\ j.phase = 0 /\ j.rows = {}
        /\ j.start = 0
    BY <1>2, <2>1, <2>2, IdleCall DEF Call
  <2>4. WellFormed(j) /\ RowsOK(j)
    BY <2>3 DEF WellFormed, RowsOK, ByRow
  <2> QED
    BY <2>3, <2>4, PlainCall
<1> QED
  BY <1>1, <1>3, <1>4, CallOnly

Opening(op, at, s, p) ==
    [Idle EXCEPT !.op = op, !.at = at, !.sub = s, !.row = subs[s], !.plan = p, !.now = clock]

\* What a request's call holds when it has read the subscription.
LEMMA Requested ==
    ASSUME BillingInv, NEW s \in Subs, NEW op \in {"change", "cancel", "cancel_now", "renew"},
           NEW at \in {"list", "next", "open"}, NEW p \in Plan,
           NEW j, j = Opening(op, at, s, p)
    PROVE  /\ j \in Call /\ WellFormed(j) /\ RowsOK(j) /\ RowOK(j) /\ RaiseOK(j) /\ PaidOK(j)
           /\ j.op = op /\ j.at = at /\ j.sub = s /\ j.row = subs[s] /\ j.start = 0
<1>1. op \in Operations /\ at \in Statements /\ subs[s] \in SubRow /\ s \in Subs \cup {NoPlan} /\ clock \in Nat
  BY DEF Statements, Operations, BillingInv, Types, DataTypes
<1>2. Idle.rows = {} /\ Idle.phase = 0 /\ Idle.start = 0
  BY DEF Idle
<1>3. /\ j \in Call /\ j.op = op /\ j.at = at /\ j.sub = s /\ j.row = subs[s] /\ j.start = 0
      /\ j.phase = 0 /\ j.rows = {}
  BY <1>1, <1>2, IdleCall DEF Call, Opening
<1>4. WellFormed(j)
  BY <1>3 DEF WellFormed, ByRow
<1>5. RowsOK(j) /\ RowOK(j) /\ RaiseOK(j) /\ PaidOK(j)
  BY <1>3 DEF RowsOK, RowOK, RaiseOK, PaidOK, ByRow
<1> QED
  BY <1>3, <1>4, <1>5

LEMMA StepChangePlan ==
    ASSUME BillingInv, NEW c \in Calls, NEW s \in Subs, NEW p \in Plans, ChangePlan(c, s, p)
    PROVE  BillingInv'
<1>1. UNCHANGED <<clock, subs, invs, overtaken, doubled>> /\ DataTypes'
  BY DEF ChangePlan, Request, BillingInv, Types, DataTypes
<1>2. PICK at \in {"list", "next", "open"} :
        /\ at = IF subs[s].status = "Pending" THEN "list" ELSE "next"
        /\ at # "open"
  OBVIOUS
<1>3. PICK j : j = Opening("change", at, s, p)
  OBVIOUS
<1>4. Go(c, j)
  BY <1>2, <1>3 DEF ChangePlan, Request, Opening
<1>5. /\ j \in Call /\ WellFormed(j) /\ RowsOK(j) /\ RowOK(j) /\ RaiseOK(j) /\ PaidOK(j)
      /\ j.op = "change" /\ j.at = at /\ j.sub = s /\ j.row = subs[s] /\ j.start = 0
  <2>1. p \in Plan
    BY DEF Plan
  <2> QED
    BY <1>3, <2>1, Requested
<1>6. ChangeOK(j) /\ RenewOK(j)
  <2>1. subs[s].status \in {"Pending", "Active", "Grace", "Suspended"}
    BY DEF ChangePlan, Live, BillingInv, Types, DataTypes, SubRow
  <2>2. /\ subs[s].status = "Pending" => NonePaid(s)
        /\ subs[s].status # "Pending" => subs[s].end > 0
    BY <2>1 DEF BillingInv, StatusOK
  <2> QED
    BY <1>5, <2>2 DEF ChangeOK, RenewOK
<1>7. Sound(j)
  BY <1>5, <1>6 DEF Sound, CallOK
<1> QED
  BY <1>1, <1>4, <1>7, CallOnly

LEMMA StepCancel ==
    ASSUME BillingInv, NEW c \in Calls, NEW s \in Subs, Cancel(c, s) \/ CancelNow(c, s)
    PROVE  BillingInv'
<1>1. PICK op \in {"cancel", "cancel_now"} : Request(c, op, s, "list", NoPlan)
  BY DEF Cancel, CancelNow
<1>2. UNCHANGED <<clock, subs, invs, overtaken, doubled>> /\ DataTypes'
  BY <1>1 DEF Request, BillingInv, Types, DataTypes
<1>3. PICK j : j = Opening(op, "list", s, NoPlan)
  OBVIOUS
<1>4. Go(c, j)
  BY <1>1, <1>3 DEF Request, Opening
<1>5. /\ j \in Call /\ WellFormed(j) /\ RowsOK(j) /\ RowOK(j) /\ RaiseOK(j) /\ PaidOK(j)
      /\ j.op = op /\ j.at = "list"
  <2>1. NoPlan \in Plan
    BY DEF Plan
  <2> QED
    BY <1>3, <2>1, Requested
<1>6. Sound(j)
  BY <1>5 DEF Sound, CallOK, ChangeOK, RenewOK
<1> QED
  BY <1>2, <1>4, <1>6, CallOnly

LEMMA StepRenew ==
    ASSUME BillingInv, NEW c \in Calls, NEW s \in Subs, Renew(c, s)
    PROVE  BillingInv'
<1>1. Request(c, "renew", s, "open", PlanOf(subs[s])) /\ subs[s].status = "Suspended"
  BY DEF Renew
<1>2. UNCHANGED <<clock, subs, invs, overtaken, doubled>> /\ DataTypes'
  BY <1>1 DEF Request, BillingInv, Types, DataTypes
<1>3. PICK p \in Plan : p = PlanOf(subs[s])
  <2>1. subs[s] \in SubRow
    BY DEF BillingInv, Types, DataTypes
  <2> QED
    BY <2>1 DEF PlanOf, SubRow
<1>4. PICK j : j = Opening("renew", "open", s, p)
  OBVIOUS
<1>5. Go(c, j)
  BY <1>1, <1>3, <1>4 DEF Request, Opening
<1>6. /\ j \in Call /\ WellFormed(j) /\ RowsOK(j) /\ RowOK(j) /\ RaiseOK(j) /\ PaidOK(j)
      /\ j.op = "renew" /\ j.at = "open" /\ j.sub = s /\ j.start = 0
  BY <1>4, Requested
<1>7. RenewOK(j) /\ ChangeOK(j)
  <2>1. s \notin Off => subs[s].end <= clock
    BY <1>1 DEF BillingInv, StatusOK, Off
  <2> QED
    BY <1>1, <1>6, <2>1 DEF RenewOK, ChangeOK, Anew
<1>8. Sound(j)
  BY <1>6, <1>7 DEF Sound, CallOK
<1> QED
  BY <1>2, <1>5, <1>8, CallOnly

LEMMA StepReissue ==
    ASSUME BillingInv, NEW c \in Calls, NEW i \in Invoices, Reissue(c, i)
    PROVE  BillingInv'
<1>1. UNCHANGED <<clock, subs, invs, overtaken, doubled>> /\ DataTypes'
  BY DEF Reissue, BillingInv, Types, DataTypes
<1>2. PICK j : j = [Idle EXCEPT !.op = "reissue", !.at = "unlink", !.sub = invs[i].sub, !.i = i]
  OBVIOUS
<1>3. Go(c, j)
  BY <1>2 DEF Reissue
<1>4. Sound(j)
  <2>1. "reissue" \in Operations /\ "unlink" \in Statements
    BY DEF Statements, Operations
  <2>2. invs[i].sub \in Subs \cup {NoPlan}
    BY DEF BillingInv, Types, DataTypes, InvoiceRow
  <2>3. Idle.rows = {} /\ Idle.phase = 0
    BY DEF Idle
  <2>4. i \in 0 .. MaxInvoices
    BY DEF Invoices
  <2>5. j \in Call /\ j.at = "unlink" /\ j.op = "reissue" /\ j.phase = 0 /\ j.rows = {} /\ j.i = i
    BY <1>2, <2>1, <2>2, <2>3, <2>4, IdleCall DEF Call
  <2>6. WellFormed(j) /\ RowsOK(j)
    BY <2>5 DEF WellFormed, RowsOK, ByRow
  <2> QED
    BY <2>5, <2>6, PlainCall
<1> QED
  BY <1>1, <1>3, <1>4, CallOnly

LEMMA StepRenewOpen ==
    ASSUME BillingInv, NEW c \in Calls, RenewOpen(c)
    PROVE  BillingInv'
<1>1. PICK k : k = calls[c]
  OBVIOUS
<1>2. /\ Sound(k) /\ k \in Call /\ WellFormed(k) /\ CallOK(k) /\ k.at = "open" /\ k.op = "renew"
      /\ k.sub \in Subs
  BY <1>1, CallsSound DEF RenewOpen, Sound, WellFormed
<1>3. UNCHANGED <<clock, subs, invs, overtaken, doubled>> /\ DataTypes'
  BY DEF RenewOpen, BillingInv, Types, DataTypes, budget
<1>4. PICK j : j = [k EXCEPT !.at = "number", !.now = clock]
  OBVIOUS
<1>5. Go(c, Idle) \/ Go(c, j)
  BY <1>1, <1>4 DEF RenewOpen
<1>6. Sound(j)
  <2>1. "number" \in Statements /\ clock \in Nat
    BY DEF Statements, BillingInv, Types, DataTypes
  <2>2. /\ j \in Call /\ j.at = "number" /\ j.op = "renew" /\ j.phase = k.phase /\ j.rows = k.rows
        /\ j.sub = k.sub /\ j.i = k.i /\ j.start = k.start
    BY <1>2, <1>4, <2>1 DEF Call
  <2>3. WellFormed(j)
    BY <1>2, <2>2 DEF WellFormed
  <2>4. RowsOK(j)
    BY <1>2, <2>2 DEF CallOK, RowsOK
  <2>5. RaiseOK(j)
    BY <1>2, <2>2 DEF CallOK, RenewOK, RaiseOK
  <2> QED
    BY <2>2, <2>3, <2>4, <2>5 DEF Sound, CallOK, RowOK, ChangeOK, RenewOK, PaidOK
<1> QED
  BY <1>3, <1>5, <1>6, IdleIsSound, CallOnly

LEMMA StepReraise ==
    ASSUME BillingInv, NEW c \in Calls, Reraise(c)
    PROVE  BillingInv'
<1>1. PICK k : k = calls[c]
  OBVIOUS
<1>2. /\ Sound(k) /\ k \in Call /\ WellFormed(k) /\ CallOK(k) /\ k.at = "void" /\ k.op = "change"
      /\ k.sub \in Subs /\ k.row.status # "Pending" /\ k.phase = 0
  BY <1>1, CallsSound DEF Reraise, Sound, WellFormed
<1>3. UNCHANGED <<clock, subs, invs, overtaken, doubled>> /\ DataTypes'
  BY DEF Reraise, BillingInv, Types, DataTypes, budget
<1>4. PICK next : next = IF k.plan = k.row.plan THEN NoPlan ELSE k.plan
  OBVIOUS
<1>5. PICK r : r = [subs[k.sub] EXCEPT !.next = next]
  OBVIOUS
<1>6. PICK j : j = [k EXCEPT !.at = "exists", !.row = r]
  OBVIOUS
<1>7. Go(c, Idle) \/ Go(c, j)
  BY <1>1, <1>4, <1>5, <1>6 DEF Reraise
<1>8. Sound(j)
  <2>1. "exists" \in Statements /\ next \in Plan
    BY <1>2, <1>4 DEF Statements, Call, Plan
  <2>2. subs[k.sub] \in SubRow /\ subs[k.sub].id = k.sub /\ subs[k.sub].end > 0
    BY <1>2 DEF BillingInv, Types, DataTypes, Rows, CallOK, ChangeOK
  <2>3. r \in SubRow /\ r.id = k.sub /\ r.end = subs[k.sub].end
    BY <1>5, <2>1, <2>2 DEF SubRow
  <2>4. /\ j \in Call /\ j.at = "exists" /\ j.op = "change" /\ j.phase = 0 /\ j.rows = k.rows /\ j.now = k.now
        /\ j.sub = k.sub /\ j.i = k.i /\ j.row = r
    BY <1>2, <1>6, <2>1, <2>3 DEF Call
  <2>5. WellFormed(j)
    BY <1>2, <2>4 DEF WellFormed
  <2>6. RowOK(j)
    <3>1. Current(r)
      BY <2>3 DEF Current
    <3> QED
      BY <2>2, <2>3, <2>4, <3>1 DEF RowOK
  <2>7. RowsOK(j)
    BY <2>4 DEF RowsOK, ByRow
  <2> QED
    BY <2>4, <2>5, <2>6, <2>7 DEF Sound, CallOK, RaiseOK, ChangeOK, RenewOK, PaidOK
<1> QED
  BY <1>3, <1>7, <1>8, IdleIsSound, CallOnly

LEMMA StepTickStart ==
    ASSUME BillingInv, NEW c \in Calls, TickStart(c)
    PROVE  BillingInv'
<1>1. UNCHANGED <<clock, subs, invs, overtaken, doubled>> /\ DataTypes'
  BY DEF TickStart, BillingInv, Types, DataTypes, budget
<1>2. PICK j : j = [Idle EXCEPT !.op = "tick", !.at = "select", !.phase = 1, !.now = clock]
  OBVIOUS
<1>3. Go(c, j)
  BY <1>2 DEF TickStart
<1>4. Sound(j)
  <2>1. "tick" \in Operations /\ "select" \in Statements /\ 1 \in 0 .. 5
    BY DEF Statements, Operations
  <2>2. Idle.rows = {} /\ clock \in Nat
    BY DEF Idle, BillingInv, Types, DataTypes
  <2>3. j \in Call /\ j.at = "select" /\ j.op = "tick" /\ j.phase = 1 /\ j.rows = {} /\ j.now = clock
    BY <1>2, <2>1, <2>2, IdleCall DEF Call
  <2>4. WellFormed(j) /\ RowsOK(j)
    BY <2>2, <2>3 DEF WellFormed, RowsOK, ByRow
  <2> QED
    BY <2>3, <2>4, PlainCall
<1> QED
  BY <1>1, <1>3, <1>4, CallOnly

\* What a loop selects is as the tables have it.
LEMMA SelectedIsCurrent ==
    ASSUME BillingInv, NEW phase \in 1 .. 5, NEW now \in Nat, now <= clock
    PROVE  Worklist(phase, Selected(phase, now))
<1>t. clock \in Nat /\ \A s \in Subs : subs[s].end \in Nat
  BY DEF BillingInv, Types, DataTypes, SubRow
<1>1. \A s \in Subs : /\ subs[s] \in SubRow /\ subs[s].id = s /\ Current(subs[s])
                      /\ subs[s].status = "Active" => subs[s].end > 0
  <2>1. \A s \in Subs : subs[s] \in SubRow /\ subs[s].id = s /\ (subs[s].status = "Active" => subs[s].end > 0)
    BY DEF BillingInv, Types, DataTypes, Rows, StatusOK
  <2> QED
    BY <2>1 DEF Current
<1>2. CASE phase = 1
  BY <1>1, <1>2 DEF Worklist, Selected, ByRow, Dated
<1>3. CASE phase = 2
  BY <1>3 DEF Worklist, Selected, ByRow
<1>4. CASE phase = 3
  <2>1. \A s \in Subs : subs[s].end <= now => subs[s].end <= clock
    BY <1>t
  <2> QED
    BY <1>1, <1>4, <2>1 DEF Worklist, Selected, ByRow, Dated
<1>5. CASE phase = 4
  BY <1>1, <1>5 DEF Worklist, Selected, ByRow, Dated
<1>6. CASE phase = 5
  BY <1>1, <1>6 DEF Worklist, Selected, ByRow, Dated
<1> QED
  BY <1>2, <1>3, <1>4, <1>5, <1>6

LEMMA StepSelect ==
    ASSUME BillingInv, NEW c \in Calls, Select(c)
    PROVE  BillingInv'
<1>1. PICK k : k = calls[c]
  OBVIOUS
<1>2. Sound(k) /\ k \in Call /\ WellFormed(k) /\ Types /\ k.now \in Nat /\ (k.op = "tick" => k.now <= clock)
  BY <1>1, CallsSound DEF Sound, BillingInv, CallOK, RowsOK, Call
<1>3. UNCHANGED <<clock, subs, invs, overtaken, doubled>> /\ DataTypes'
  BY DEF Select, BillingInv, Types, DataTypes, budget
<1>4. Go(c, Onward(k, Selected(k.phase, k.now)))
  BY <1>1 DEF Select
<1>5. k.op = "tick" => Worklist(k.phase, Selected(k.phase, k.now))
  <2>1. k.op = "tick" => k.phase \in 1 .. 5
    BY <1>2 DEF WellFormed, Call
  <2> QED
    BY <1>2, <2>1, SelectedIsCurrent
<1>6. Sound(Onward(k, Selected(k.phase, k.now)))
  BY <1>2, <1>5, OnwardIsSound
<1> QED
  BY <1>3, <1>4, <1>6, CallOnly

LEMMA OpenInvoiceIsOpen ==
    ASSUME BillingInv, NEW s, OpenOf(s) # {}
    PROVE  OpenInvoice(s) \in OpenOf(s)
<1> DEFINE S == {invs[i].number : i \in OpenOf(s)}
<1>1. \A i \in OpenOf(s) : i \in Invoices /\ invs[i].number \in Nat
  BY DEF OpenOf, Of, BillingInv, Types, DataTypes, InvoiceRow
<1>2. PICK b \in Nat : \A i \in Invoices : invs[i].number <= b
  BY DEF BillingInv, Rows
<1>3. S \subseteq Nat /\ S # {} /\ \A n \in S : n <= b
  BY <1>1, <1>2
<1>4. PICK m \in S : \A n \in S : n <= m
  <2> HIDE DEF S
  <2> QED
    BY <1>3, GreatestNumber
<1>5. PICK i \in OpenOf(s) : m = invs[i].number
  OBVIOUS
<1>6. \A j \in OpenOf(s) : invs[j].number <= invs[i].number
  BY <1>4, <1>5
<1> QED
  BY <1>6 DEF OpenInvoice

LEMMA StepGraceOpen ==
    ASSUME BillingInv, NEW c \in Calls, GraceOpen(c)
    PROVE  BillingInv'
<1>1. PICK k : k = calls[c]
  OBVIOUS
<1>2. /\ Sound(k) /\ k \in Call /\ WellFormed(k) /\ CallOK(k) /\ k.at = "open" /\ k.op = "tick"
      /\ k.sub \in Subs
  BY <1>1, CallsSound DEF GraceOpen, Sound, WellFormed
<1>3. UNCHANGED <<clock, subs, invs, overtaken, doubled>> /\ DataTypes'
  BY DEF GraceOpen, BillingInv, Types, DataTypes, budget
<1>4. PICK j : j = [k EXCEPT !.at = "expire", !.i = OpenInvoice(k.sub)]
  OBVIOUS
<1>5. CASE OpenOf(k.sub) = {}
  <2>1. Go(c, Onward(k, k.rows))
    BY <1>1, <1>5 DEF GraceOpen
  <2> QED
    BY <1>2, <1>3, <2>1, OnwardSound, CallOnly
<1>6. CASE OpenOf(k.sub) # {}
  <2>1. Go(c, j)
    BY <1>1, <1>4, <1>6 DEF GraceOpen
  <2>2. OpenInvoice(k.sub) \in Invoices /\ OpenInvoice(k.sub) \in 0 .. MaxInvoices /\ "expire" \in Statements
    BY <1>6, OpenInvoiceIsOpen DEF OpenOf, Of, Invoices, Statements
  <2>3. /\ j \in Call /\ j.at = "expire" /\ j.op = "tick" /\ j.phase = k.phase /\ j.rows = k.rows /\ j.now = k.now
        /\ j.sub = k.sub /\ j.i \in Invoices
    BY <1>2, <1>4, <2>2 DEF Call
  <2>4. WellFormed(j)
    BY <1>2, <2>3 DEF WellFormed
  <2>5. RowsOK(j)
    BY <1>2, <2>3 DEF CallOK, RowsOK
  <2>6. Sound(j)
    BY <2>3, <2>4, <2>5, PlainCall
  <2> QED
    BY <1>3, <2>1, <2>6, CallOnly
<1> QED
  BY <1>5, <1>6

LEMMA StepPending ==
    ASSUME BillingInv, NEW c \in Calls, Pending(c)
    PROVE  BillingInv'
<1>1. PICK k : k = calls[c]
  OBVIOUS
<1>2. /\ Sound(k) /\ k \in Call /\ WellFormed(k) /\ CallOK(k) /\ k.at = "pending" /\ k.op # "paid"
      /\ k.sub \in Subs
  BY <1>1, CallsSound DEF Pending, Sound, WellFormed
<1>3. UNCHANGED <<clock, subs, invs, overtaken, doubled>> /\ DataTypes'
  BY DEF Pending, BillingInv, Types, DataTypes, budget
<1>4. "close" \in Statements
  BY DEF Statements
<1>5. ASSUME NEW j, j \in Call, Go(c, j), j.at = "close", j.op = k.op, j.phase = k.phase, j.rows = k.rows, j.now = k.now,
             j.sub = k.sub
      PROVE  BillingInv'
  <2>1. WellFormed(j)
    BY <1>2, <1>5 DEF WellFormed
  <2>2. RowsOK(j)
    BY <1>2, <1>5 DEF CallOK, RowsOK
  <2>3. Sound(j)
    BY <1>2, <1>5, <2>1, <2>2, PlainCall
  <2> QED
    BY <1>3, <1>5, <2>3, CallOnly
<1>6. CASE Go(c, Onward(k, k.rows))
  BY <1>2, <1>3, <1>6, OnwardSound, CallOnly
<1>7. CASE Go(c, [k EXCEPT !.at = "close"])
  <2>1. PICK j : j = [k EXCEPT !.at = "close"]
    OBVIOUS
  <2>2. j \in Call /\ j.at = "close" /\ j.op = k.op /\ j.phase = k.phase /\ j.rows = k.rows /\ j.now = k.now /\ j.sub = k.sub
    BY <1>2, <1>4, <2>1 DEF Call
  <2> QED
    BY <1>5, <1>7, <2>1, <2>2
<1>8. CASE OpenOf(k.sub) # {} /\ Go(c, [k EXCEPT !.at = "close", !.i = OpenInvoice(k.sub)])
  <2>1. PICK j : j = [k EXCEPT !.at = "close", !.i = OpenInvoice(k.sub)]
    OBVIOUS
  <2>2. OpenInvoice(k.sub) \in 0 .. MaxInvoices
    BY <1>8, OpenInvoiceIsOpen DEF OpenOf, Of, Invoices
  <2>3. j \in Call /\ j.at = "close" /\ j.op = k.op /\ j.phase = k.phase /\ j.rows = k.rows /\ j.now = k.now /\ j.sub = k.sub
    BY <1>2, <1>4, <2>1, <2>2 DEF Call
  <2> QED
    BY <1>5, <1>8, <2>1, <2>3
<1> QED
  BY <1>1, <1>6, <1>7, <1>8 DEF Pending

LEMMA NothingPaidNoPeriod ==
    ASSUME BillingInv, NEW s \in Subs, NonePaid(s)
    PROVE  subs[s].end = 0
<1>1. subs[s].end \in Nat
  BY DEF BillingInv, Types, DataTypes, SubRow
<1>2. ~(subs[s].end > 0)
  BY DEF BillingInv, PeriodIsPaid, NonePaid
<1> QED
  BY <1>1, <1>2

\* A payment begins its period where what was paid so far ends, or later.
LEMMA PaymentFollows ==
    ASSUME BillingInv, NEW i \in Invoices, invs[i].status = "Open", NEW s, s = invs[i].sub,
           NEW start, start = IF invs[i].number = 1 \/ invs[i].start = 0 \/ subs[s].status \in {"Pending", "Suspended"}
                              THEN clock ELSE invs[i].start
    PROVE  start \in Nat /\ start > 0 /\ (s \notin Off => subs[s].end <= start)
<1>1. s \in Subs /\ invs[i].start \in Nat /\ clock \in Nat /\ clock > 0 /\ subs[s].end \in Nat
  BY DEF BillingInv, Types, DataTypes, Rows, InvoiceRow, SubRow
<1>2. start \in Nat /\ start > 0
  BY <1>1
<1>3. ASSUME s \notin Off
      PROVE  subs[s].end <= start
  <2>1. /\ \/ invs[i].start > 0 /\ invs[i].start = subs[s].end
           \/ invs[i].start = 0 /\ Anew(s)
        /\ AbovePaid(s, invs[i].number)
    BY <1>3 DEF BillingInv, OpenOK
  <2>2. NonePaid(s) => subs[s].end = 0
    BY <1>1, NothingPaidNoPeriod
  <2>3. CASE invs[i].number = 1
    <3>1. \A j \in Of(s) : invs[j].status = "Paid" => invs[j].number > 0 /\ invs[j].number \in Nat
      BY DEF Of, BillingInv, Rows, Types, DataTypes, InvoiceRow
    <3>2. \A j \in Of(s) : invs[j].status = "Paid" => invs[j].number < 1
      BY <2>1, <2>3 DEF AbovePaid
    <3>3. NonePaid(s)
      BY <3>1, <3>2 DEF NonePaid
    <3> QED
      BY <1>1, <1>2, <2>2, <3>3
  <2>4. CASE invs[i].start = 0
    <3>1. NonePaid(s) \/ subs[s].end <= clock
      BY <2>1, <2>4 DEF Anew
    <3>2. start = clock
      BY <2>4
    <3> QED
      BY <1>1, <2>2, <3>1, <3>2
  <2>5. CASE subs[s].status = "Pending"
    <3>1. NonePaid(s)
      BY <1>1, <2>5 DEF BillingInv, StatusOK
    <3> QED
      BY <1>1, <1>2, <2>2, <3>1
  <2>6. CASE subs[s].status = "Suspended"
    <3>1. subs[s].end <= clock
      BY <1>1, <1>3, <2>6 DEF BillingInv, StatusOK, Off
    <3> QED
      BY <2>6, <3>1
  <2>7. CASE ~(invs[i].number = 1 \/ invs[i].start = 0 \/ subs[s].status \in {"Pending", "Suspended"})
    BY <1>1, <2>1, <2>7
  <2> QED
    BY <2>3, <2>4, <2>5, <2>6, <2>7
<1> QED
  BY <1>2, <1>3

LEMMA PaidCallIsSound ==
    ASSUME BillingInv, NEW i \in Invoices, invs[i].status = "Open"
    PROVE  Sound(PaidCall(i))
<1>1. PICK s \in Subs : s = invs[i].sub
  BY DEF BillingInv, Rows
<1>2. PICK start : start = IF invs[i].number = 1 \/ invs[i].start = 0 \/ subs[s].status \in {"Pending", "Suspended"}
                           THEN clock ELSE invs[i].start
  OBVIOUS
<1>3. start \in Nat /\ start > 0 /\ (s \notin Off => subs[s].end <= start)
  BY <1>1, <1>2, PaymentFollows
<1>4. PICK j : j = [Idle EXCEPT !.op = "paid", !.at = "topup", !.i = i, !.sub = s, !.start = start]
  OBVIOUS
<1>5. PaidCall(i) = j
  BY <1>1, <1>2, <1>4 DEF PaidCall
<1>6. "paid" \in Operations /\ "topup" \in Statements /\ i \in 0 .. MaxInvoices /\ s \in Subs \cup {NoPlan}
  BY DEF Operations, Statements, Invoices
<1>7. Idle.rows = {} /\ Idle.phase = 0
  BY DEF Idle
<1>8. /\ j \in Call /\ j.op = "paid" /\ j.at = "topup" /\ j.i = i /\ j.sub = s /\ j.start = start
      /\ j.phase = 0 /\ j.rows = {}
  BY <1>3, <1>4, <1>6, <1>7, IdleCall DEF Call
<1>9. WellFormed(j)
  BY <1>8 DEF WellFormed, ByRow
<1>10. PaidOK(j)
  BY <1>1, <1>3, <1>8 DEF PaidOK
<1>11. RowsOK(j) /\ RowOK(j) /\ RaiseOK(j) /\ ChangeOK(j) /\ RenewOK(j)
  BY <1>8 DEF RowsOK, RowOK, RaiseOK, ChangeOK, RenewOK, ByRow
<1> QED
  BY <1>5, <1>8, <1>9, <1>10, <1>11 DEF Sound, CallOK

LEMMA LostCallIsSound ==
    ASSUME BillingInv, NEW i \in Invoices, invs[i].status = "Open"
    PROVE  Sound(LostCall(i))
<1>1. PICK s \in Subs : s = invs[i].sub
  BY DEF BillingInv, Rows
<1>2. PICK at \in {"expire", "forget"} : at = IF subs[s].status = "Pending" THEN "expire" ELSE "forget"
  OBVIOUS
<1>3. PICK j : j = [Idle EXCEPT !.op = "lost", !.i = i, !.sub = s, !.at = at]
  OBVIOUS
<1>4. LostCall(i) = j
  BY <1>1, <1>2, <1>3 DEF LostCall
<1>5. "lost" \in Operations /\ at \in Statements /\ i \in 0 .. MaxInvoices /\ s \in Subs \cup {NoPlan}
  BY DEF Operations, Statements, Invoices
<1>6. Idle.rows = {} /\ Idle.phase = 0
  BY DEF Idle
<1>7. j \in Call /\ j.op = "lost" /\ j.at = at /\ j.i = i /\ j.sub = s /\ j.phase = 0 /\ j.rows = {}
  BY <1>3, <1>5, <1>6, IdleCall DEF Call
<1>8. WellFormed(j) /\ RowsOK(j)
  BY <1>7 DEF WellFormed, RowsOK, ByRow
<1> QED
  BY <1>4, <1>7, <1>8, PlainCall

LEMMA StepOnEvent ==
    ASSUME BillingInv, NEW c \in Calls, NEW m \in mail, OnEvent(c, m)
    PROVE  BillingInv'
<1>1. PICK i \in Invoices : i = m[2]
  BY DEF BillingInv, Types, DataTypes
<1>2. UNCHANGED <<clock, subs, invs, overtaken, doubled>> /\ DataTypes'
  BY <1>1 DEF OnEvent, BillingInv, Types, DataTypes, budget
<1>3. CASE invs[i].status = "Open"
  <2>1. Go(c, PaidCall(i)) \/ Go(c, LostCall(i))
    BY <1>1, <1>3 DEF OnEvent
  <2>2. Sound(PaidCall(i)) /\ Sound(LostCall(i))
    BY <1>3, PaidCallIsSound, LostCallIsSound
  <2> QED
    BY <1>2, <2>1, <2>2, CallOnly
<1>4. CASE invs[i].status # "Open"
  <2>1. calls' = calls
    BY <1>1, <1>4 DEF OnEvent
  <2>2. calls' \in [Calls -> Call] /\ Onwards
    BY <2>1 DEF BillingInv, Types, Onwards
  <2> QED
    BY <1>2, <2>2, DataKept, KeptStep
<1> QED
  BY <1>3, <1>4

LEMMA StepTopUp ==
    ASSUME BillingInv, NEW c \in Calls, TopUp(c)
    PROVE  BillingInv'
<1>1. PICK k : k = calls[c]
  OBVIOUS
<1>2. /\ Sound(k) /\ k \in Call /\ WellFormed(k) /\ CallOK(k) /\ k.at = "topup" /\ k.op = "paid"
      /\ k.sub \in Subs /\ k.i \in Invoices
  BY <1>1, CallsSound DEF TopUp, Sound, WellFormed
<1>3. UNCHANGED <<clock, subs, invs, overtaken, doubled>> /\ DataTypes'
  BY <1>1, <1>2 DEF TopUp, BillingInv, Types, DataTypes, budget
<1>4. PICK j : j = [k EXCEPT !.at = "settle"]
  OBVIOUS
<1>5. Go(c, j)
  BY <1>1, <1>4 DEF TopUp
<1>6. Sound(j)
  <2>1. "settle" \in Statements
    BY DEF Statements
  <2>2. /\ j \in Call /\ j.at = "settle" /\ j.op = "paid" /\ j.phase = k.phase /\ j.rows = k.rows /\ j.now = k.now
        /\ j.sub = k.sub /\ j.i = k.i /\ j.start = k.start
    BY <1>2, <1>4, <2>1 DEF Call
  <2>3. WellFormed(j)
    BY <1>2, <2>2 DEF WellFormed
  <2>4. RowsOK(j) /\ PaidOK(j)
    BY <1>2, <2>2 DEF CallOK, RowsOK, PaidOK
  <2> QED
    BY <2>2, <2>3, <2>4 DEF Sound, CallOK, RowOK, RaiseOK, ChangeOK, RenewOK
<1> QED
  BY <1>3, <1>5, <1>6, CallOnly

\* The gateway's own steps, and time.
LEMMA StepGateway ==
    ASSUME BillingInv, NEW i \in Invoices, Pay(i) \/ LoseCharge(i)
    PROVE  BillingInv'
<1>1. UNCHANGED <<clock, subs, invs, overtaken, doubled>> /\ DataTypes'
  BY DEF Pay, LoseCharge, BillingInv, Types, DataTypes, budget
<1>2. calls' = calls
  BY DEF Pay, LoseCharge
<1>3. calls' \in [Calls -> Call] /\ Onwards
  BY <1>2 DEF BillingInv, Types, Onwards
<1> QED
  BY <1>1, <1>3, DataKept, KeptStep

LEMMA StepAdvance ==
    ASSUME BillingInv, Advance
    PROVE  BillingInv'
<1>1. Types /\ DataTypes /\ Rows
  BY DEF BillingInv, Types
<1>2. UNCHANGED <<subs, invs, overtaken, doubled, calls>> /\ DataTypes' /\ clock <= clock'
  BY <1>1 DEF Advance, DataTypes, budget
<1>3. InvoicesKept
  BY <1>1, <1>2 DEF InvoicesKept, DataTypes
<1>4. SubsKept
  BY <1>1, <1>2 DEF SubsKept, DataTypes, Rows, MayBecome
<1>5. Kept
  BY <1>2, <1>3, <1>4 DEF Kept
<1>6. calls' \in [Calls -> Call] /\ Onwards
  BY <1>1, <1>2 DEF Types, Onwards
<1> QED
  BY <1>5, <1>6, KeptStep

-----------------------------------------------------------------------------
(* The actions that write a row and keep its period.                        *)

LEMMA InvoiceTouched ==
    ASSUME BillingInv, NEW i \in Invoices, NEW row \in InvoiceRow, invs' = [invs EXCEPT ![i] = row],
           row.sub = invs[i].sub, row.number = invs[i].number,
           row.start = invs[i].start, row.end = invs[i].end,
           row.status = invs[i].status \/ (invs[i].status = "Open" /\ row.status \in {"Void", "Expired"})
    PROVE  InvoicesKept
<1>1. invs \in [Invoices -> InvoiceRow]
  BY DEF BillingInv, Types, DataTypes
<1>2. invs' \in [Invoices -> InvoiceRow] /\ \A j \in Invoices : invs'[j] = IF j = i THEN row ELSE invs[j]
  BY <1>1
<1> QED
  BY <1>2 DEF InvoicesKept

LEMMA SubTouched ==
    ASSUME BillingInv, NEW s \in Subs, NEW row \in SubRow, subs' = [subs EXCEPT ![s] = row],
           row.id = s, row.end = subs[s].end, subs[s].end > 0 => row.start = subs[s].start,
           MayBecome(s, row.status)
    PROVE  SubsKept
<1>1. subs \in [Subs -> SubRow] /\ \A t \in Subs : subs[t].id = t
  BY DEF BillingInv, Types, DataTypes, Rows
<1>2. subs' \in [Subs -> SubRow] /\ \A t \in Subs : subs'[t] = IF t = s THEN row ELSE subs[t]
  BY <1>1
<1>3. \A t \in Subs : MayBecome(t, subs[t].status)
  BY DEF MayBecome
<1> QED
  BY <1>1, <1>2, <1>3 DEF SubsKept

LEMMA SubsUntouched == ASSUME BillingInv, subs' = subs PROVE SubsKept
<1>1. subs \in [Subs -> SubRow] /\ \A t \in Subs : subs[t].id = t
  BY DEF BillingInv, Types, DataTypes, Rows
<1> QED
  BY <1>1 DEF SubsKept, MayBecome

LEMMA InvoicesUntouched == ASSUME BillingInv, invs' = invs PROVE InvoicesKept
<1> QED
  BY DEF BillingInv, Types, DataTypes, InvoicesKept

\* A step that writes rows and keeps every period.
LEMMA RowsWritten ==
    ASSUME BillingInv, NEW c \in Calls, NEW k, Go(c, k), Sound(k), InvoicesKept, SubsKept,
           UNCHANGED <<clock, overtaken, doubled>>,
           topped' \subseteq Invoices, payable' \subseteq Invoices, requests' \in Nat, faults' \in Nat,
           mail' \subseteq mail
    PROVE  BillingInv'
<1>1. DataTypes
  BY DEF BillingInv, Types
<1>2. DataTypes' /\ clock <= clock'
  BY <1>1 DEF DataTypes, InvoicesKept, SubsKept
<1>3. Kept
  BY <1>2 DEF Kept
<1>4. calls' = [calls EXCEPT ![c] = k]
  BY DEF Go
<1> QED
  BY <1>3, <1>4, CallStep, KeptStep

LEMMA PlainTypes ==
    ASSUME BillingInv
    PROVE  /\ topped \subseteq Invoices /\ payable \subseteq Invoices /\ requests \in Nat /\ faults \in Nat
           /\ \A i \in Invoices : invs[i] \in InvoiceRow
           /\ \A s \in Subs : subs[s] \in SubRow /\ subs[s].id = s
<1> QED
  BY DEF BillingInv, Types, DataTypes, Rows

LEMMA StepStoreCharge ==
    ASSUME BillingInv, NEW c \in Calls, StoreCharge(c)
    PROVE  BillingInv'
<1>1. PICK k : k = calls[c]
  OBVIOUS
<1>2. Sound(k) /\ k.at = "store" /\ k.i \in Invoices
  BY <1>1, CallsSound DEF StoreCharge, Sound, WellFormed
<1>3. Go(c, Onward(k, k.rows)) /\ Sound(Onward(k, k.rows))
  BY <1>1, <1>2, OnwardSound DEF StoreCharge
<1>4. /\ UNCHANGED <<clock, subs, overtaken, doubled, topped, mail, requests, faults>>
      /\ payable' \subseteq Invoices
  BY PlainTypes DEF StoreCharge, CancelCharge, budget
<1>5. InvoicesKept
  <2>1. CASE invs' = invs
    BY <2>1, InvoicesUntouched
  <2>2. CASE invs' = [invs EXCEPT ![k.i] = [invs[k.i] EXCEPT !.charge = TRUE]]
    <3>1. PICK row : row = [invs[k.i] EXCEPT !.charge = TRUE]
      OBVIOUS
    <3>2. /\ row \in InvoiceRow /\ row.sub = invs[k.i].sub /\ row.number = invs[k.i].number
          /\ row.start = invs[k.i].start /\ row.end = invs[k.i].end /\ row.status = invs[k.i].status
      BY <1>2, <3>1, PlainTypes DEF InvoiceRow
    <3> QED
      BY <1>2, <2>2, <3>1, <3>2, InvoiceTouched
  <2> QED
    BY <1>1, <2>1, <2>2 DEF StoreCharge
<1> QED
  BY <1>3, <1>4, <1>5, SubsUntouched, PlainTypes, RowsWritten

LEMMA TurnedRow ==
    ASSUME BillingInv, NEW i \in Invoices, NEW status \in {"Void", "Expired"}, invs[i].status = "Open",
           invs' = [invs EXCEPT ![i] = Turned(i, status)]
    PROVE  InvoicesKept
<1>1. PICK row : row = Turned(i, status)
  OBVIOUS
<1>2. /\ row \in InvoiceRow /\ row.sub = invs[i].sub /\ row.number = invs[i].number
      /\ row.start = invs[i].start /\ row.end = invs[i].end /\ row.status = status
  BY <1>1, PlainTypes DEF InvoiceRow, Turned
<1> QED
  BY <1>1, <1>2, InvoiceTouched

LEMMA StepVoid ==
    ASSUME BillingInv, NEW c \in Calls, Void(c)
    PROVE  BillingInv'
<1>1. PICK k : k = calls[c]
  OBVIOUS
<1>2. /\ Sound(k) /\ k \in Call /\ WellFormed(k) /\ CallOK(k) /\ k.at = "void" /\ k.sub \in Subs
      /\ k.phase = 0 /\ k.op # "paid" /\ k.rows \subseteq Invoices
  BY <1>1, CallsSound DEF Void, Sound, WellFormed, ByRow
<1>3. PICK i \in k.rows :
         IF invs[i].status = "Open"
         THEN /\ invs' = [invs EXCEPT ![i] = Turned(i, "Void")]
              /\ CancelCharge(i) /\ Closed(i)
              /\ Go(c, [k EXCEPT !.rows = k.rows \ {i}, !.i = i])
         ELSE /\ Go(c, [k EXCEPT !.rows = k.rows \ {i}])
              /\ UNCHANGED <<invs, payable, astray>>
  BY <1>1 DEF Void
<1>4. /\ UNCHANGED <<clock, subs, overtaken, doubled, topped, mail, requests, faults>>
      /\ payable' \subseteq Invoices
  BY <1>3, PlainTypes DEF Void, CancelCharge, budget
<1>5. ASSUME NEW j, j \in Call, j.op = k.op, j.at = "void", j.phase = 0, j.rows = k.rows \ {i},
             j.now = k.now, j.sub = k.sub, j.row = k.row, j.start = k.start
      PROVE  Sound(j)
  <2>1. WellFormed(j)
    BY <1>2, <1>5 DEF WellFormed, ByRow
  <2>2. ChangeOK(j)
    BY <1>2, <1>5 DEF CallOK, ChangeOK
  <2> QED
    BY <1>2, <1>5, <2>1, <2>2 DEF Sound, CallOK, RowsOK, RowOK, RaiseOK, RenewOK, PaidOK, ByRow
<1>6. k.rows \ {i} \in SUBSET (SubRow \cup Invoices) /\ i \in 0 .. MaxInvoices /\ i \in Invoices
  BY <1>2 DEF Invoices
<1>7. CASE invs[i].status = "Open"
  <2>1. PICK j : j = [k EXCEPT !.rows = k.rows \ {i}, !.i = i]
    OBVIOUS
  <2>2. /\ j \in Call /\ j.op = k.op /\ j.at = "void" /\ j.phase = 0 /\ j.rows = k.rows \ {i}
        /\ j.now = k.now
        /\ j.sub = k.sub /\ j.row = k.row /\ j.start = k.start
    BY <1>2, <1>6, <2>1 DEF Call
  <2>3. Go(c, j) /\ Sound(j)
    BY <1>3, <1>5, <1>7, <2>1, <2>2
  <2>4. InvoicesKept
    BY <1>3, <1>6, <1>7, TurnedRow
  <2> QED
    BY <1>4, <2>3, <2>4, SubsUntouched, PlainTypes, RowsWritten
<1>8. CASE invs[i].status # "Open"
  <2>1. PICK j : j = [k EXCEPT !.rows = k.rows \ {i}]
    OBVIOUS
  <2>2. /\ j \in Call /\ j.op = k.op /\ j.at = "void" /\ j.phase = 0 /\ j.rows = k.rows \ {i}
        /\ j.now = k.now
        /\ j.sub = k.sub /\ j.row = k.row /\ j.start = k.start
    BY <1>2, <1>6, <2>1 DEF Call
  <2>3. Go(c, j) /\ Sound(j)
    BY <1>3, <1>5, <1>8, <2>1, <2>2
  <2>4. InvoicesKept
    BY <1>3, <1>8, InvoicesUntouched
  <2> QED
    BY <1>4, <2>3, <2>4, SubsUntouched, PlainTypes, RowsWritten
<1> QED
  BY <1>7, <1>8

LEMMA StepExpire ==
    ASSUME BillingInv, NEW c \in Calls, Expire(c)
    PROVE  BillingInv'
<1>1. PICK k : k = calls[c]
  OBVIOUS
<1>2. /\ Sound(k) /\ k \in Call /\ WellFormed(k) /\ CallOK(k) /\ k.at = "expire" /\ k.sub \in Subs
      /\ k.i \in Invoices /\ k.op # "paid"
  BY <1>1, CallsSound DEF Expire, Sound, WellFormed
<1>3. /\ UNCHANGED <<clock, subs, overtaken, doubled, topped, mail, requests, faults>>
      /\ payable' \subseteq Invoices
  BY PlainTypes DEF Expire, CancelCharge, budget
<1>4. InvoicesKept
  <2>1. CASE invs[k.i].status = "Open"
    <3>1. invs' = [invs EXCEPT ![k.i] = Turned(k.i, "Expired")]
      BY <1>1, <2>1 DEF Expire
    <3> QED
      BY <1>2, <2>1, <3>1, TurnedRow
  <2>2. CASE invs[k.i].status # "Open"
    <3>1. invs' = invs
      BY <1>1, <2>2 DEF Expire
    <3> QED
      BY <3>1, InvoicesUntouched
  <2> QED
    BY <2>1, <2>2
<1>5. CASE k.op = "lost"
  <2>1. PICK j : j = [k EXCEPT !.at = "close"]
    OBVIOUS
  <2>2. Go(c, j)
    BY <1>1, <1>5, <2>1 DEF Expire
  <2>3. "close" \in Statements
    BY DEF Statements
  <2>4. j \in Call /\ j.op = "lost" /\ j.at = "close" /\ j.phase = k.phase /\ j.rows = k.rows /\ j.now = k.now /\ j.sub = k.sub
    BY <1>2, <1>5, <2>1, <2>3 DEF Call
  <2>5. WellFormed(j)
    BY <1>2, <1>5, <2>4 DEF WellFormed
  <2>6. RowsOK(j)
    BY <1>2, <2>4 DEF CallOK, RowsOK
  <2>7. Sound(j)
    BY <2>4, <2>5, <2>6, PlainCall
  <2> QED
    BY <1>3, <1>4, <2>2, <2>7, SubsUntouched, PlainTypes, RowsWritten
<1>6. CASE k.op # "lost"
  <2>1. Go(c, Onward(k, k.rows)) /\ Sound(Onward(k, k.rows))
    BY <1>1, <1>2, <1>6, OnwardSound DEF Expire
  <2> QED
    BY <1>3, <1>4, <2>1, SubsUntouched, PlainTypes, RowsWritten
<1> QED
  BY <1>5, <1>6

LEMMA Uncharged ==
    ASSUME BillingInv, NEW i \in Invoices, invs' = [invs EXCEPT ![i] = [invs[i] EXCEPT !.charge = FALSE]]
    PROVE  InvoicesKept
<1>1. PICK row : row = [invs[i] EXCEPT !.charge = FALSE]
  OBVIOUS
<1>2. /\ row \in InvoiceRow /\ row.sub = invs[i].sub /\ row.number = invs[i].number
      /\ row.start = invs[i].start /\ row.end = invs[i].end /\ row.status = invs[i].status
  BY <1>1, PlainTypes DEF InvoiceRow
<1> QED
  BY <1>1, <1>2, InvoiceTouched

LEMMA StepUnlink ==
    ASSUME BillingInv, NEW c \in Calls, Unlink(c)
    PROVE  BillingInv'
<1>1. PICK k : k = calls[c]
  OBVIOUS
<1>2. /\ Sound(k) /\ k \in Call /\ WellFormed(k) /\ CallOK(k) /\ k.at = "unlink" /\ k.i \in Invoices /\ k.op # "paid"
  BY <1>1, CallsSound DEF Unlink, Sound, WellFormed
<1>3. /\ UNCHANGED <<clock, subs, overtaken, doubled, topped, mail, requests, faults>>
      /\ payable' \subseteq Invoices
  BY PlainTypes DEF Unlink, CancelCharge, budget
<1>4. InvoicesKept
  <2>1. invs' = [invs EXCEPT ![k.i] = [invs[k.i] EXCEPT !.charge = FALSE]]
    BY <1>1 DEF Unlink
  <2> QED
    BY <1>2, <2>1, Uncharged
<1>5. PICK j : j = [k EXCEPT !.at = "create"]
  OBVIOUS
<1>6. Go(c, j)
  BY <1>1, <1>5 DEF Unlink
<1>7. "create" \in Statements
  BY DEF Statements
<1>8. j \in Call /\ j.op = k.op /\ j.at = "create" /\ j.phase = k.phase /\ j.rows = k.rows /\ j.now = k.now /\ j.i = k.i
  BY <1>2, <1>5, <1>7 DEF Call
<1>9. WellFormed(j)
  BY <1>2, <1>8 DEF WellFormed
<1>10. RowsOK(j)
  BY <1>2, <1>8 DEF CallOK, RowsOK
<1>11. Sound(j)
  BY <1>2, <1>8, <1>9, <1>10, PlainCall
<1> QED
  BY <1>3, <1>4, <1>6, <1>11, SubsUntouched, PlainTypes, RowsWritten

LEMMA StepLostForgets ==
    ASSUME BillingInv, NEW c \in Calls, LostForgets(c)
    PROVE  BillingInv'
<1>1. PICK k : k = calls[c]
  OBVIOUS
<1>2. Sound(k) /\ k.at = "forget" /\ k.i \in Invoices
  BY <1>1, CallsSound DEF LostForgets, Sound, WellFormed
<1>3. /\ UNCHANGED <<clock, subs, overtaken, doubled, topped, payable, requests, faults>>
      /\ mail' \subseteq mail /\ Go(c, Idle)
  BY DEF LostForgets, budget
<1>4. InvoicesKept
  <2>1. invs' = invs \/ invs' = [invs EXCEPT ![k.i] = [invs[k.i] EXCEPT !.charge = FALSE]]
    BY <1>1 DEF LostForgets
  <2> QED
    BY <1>2, <2>1, Uncharged, InvoicesUntouched
<1> QED
  BY <1>3, <1>4, SubsUntouched, PlainTypes, IdleIsSound, RowsWritten

LEMMA StepInsertSubscription ==
    ASSUME BillingInv, NEW c \in Calls, InsertSubscription(c)
    PROVE  BillingInv'
<1>1. PICK k : k = calls[c]
  OBVIOUS
<1>2. /\ Sound(k) /\ k \in Call /\ WellFormed(k) /\ CallOK(k) /\ k.at = "insert" /\ k.op # "paid"
  BY <1>1, CallsSound DEF InsertSubscription, Sound, WellFormed
<1>3. PICK s \in Subs :
         /\ subs[s].status = "None"
         /\ subs' = [subs EXCEPT ![s] = [NoSub(s) EXCEPT !.status = "Pending", !.plan = k.plan]]
         /\ Go(c, [k EXCEPT !.at = "raise", !.sub = s, !.number = 1])
  BY <1>1 DEF InsertSubscription
<1>4. subs[s].end = 0 /\ NonePaid(s)
  BY <1>3 DEF BillingInv, StatusOK
<1>5. SubsKept
  <2>1. PICK row : row = [NoSub(s) EXCEPT !.status = "Pending", !.plan = k.plan]
    OBVIOUS
  <2>2. k.plan \in Plan
    BY <1>2 DEF Call
  <2>3. row \in SubRow /\ row.id = s /\ row.end = 0 /\ row.status = "Pending"
    BY <2>1, <2>2 DEF NoSub, SubRow, Plan
  <2>4. MayBecome(s, row.status)
    BY <1>3, <2>3 DEF MayBecome
  <2>5. subs[s].end > 0 => row.start = subs[s].start
    BY <1>4
  <2> QED
    BY <1>3, <1>4, <2>1, <2>3, <2>4, <2>5, SubTouched
<1>6. PICK j : j = [k EXCEPT !.at = "raise", !.sub = s, !.number = 1]
  OBVIOUS
<1>7. Sound(j)
  <2>1. "raise" \in Statements /\ s \in Subs \cup {NoPlan}
    BY DEF Statements
  <2>2. /\ j \in Call /\ j.at = "raise" /\ j.sub = s /\ j.number = 1 /\ j.start = k.start
        /\ j.op = k.op /\ j.phase = k.phase /\ j.rows = k.rows /\ j.now = k.now
    BY <1>2, <1>6, <2>1 DEF Call
  <2>3. WellFormed(j)
    BY <1>2, <2>2 DEF WellFormed
  <2>4. RowsOK(j)
    BY <1>2, <2>2 DEF CallOK, RowsOK
  <2>5. RaiseOK(j)
    <3>1. AbovePaid(s, 1) /\ Anew(s)
      BY <1>4 DEF AbovePaid, Anew, NonePaid
    <3>2. k.start = 0
      BY <1>2 DEF WellFormed
    <3> QED
      BY <2>2, <3>1, <3>2 DEF RaiseOK
  <2> QED
    BY <1>2, <2>2, <2>3, <2>4, <2>5 DEF Sound, CallOK, RowOK, ChangeOK, RenewOK, PaidOK
<1>8. UNCHANGED <<clock, invs, overtaken, doubled, topped, payable, mail, requests, faults>>
  BY DEF InsertSubscription, budget
<1> QED
  BY <1>3, <1>5, <1>6, <1>7, <1>8, InvoicesUntouched, PlainTypes, RowsWritten

LEMMA StepSetNextPlan ==
    ASSUME BillingInv, NEW c \in Calls, SetNextPlan(c)
    PROVE  BillingInv'
<1>1. PICK k : k = calls[c]
  OBVIOUS
<1>2. /\ Sound(k) /\ k \in Call /\ WellFormed(k) /\ CallOK(k) /\ k.at = "next" /\ k.op # "paid"
      /\ k.sub \in Subs /\ k.phase = 0
  BY <1>1, CallsSound DEF SetNextPlan, Sound, WellFormed
<1>3. PICK next : next = IF k.plan = k.row.plan THEN NoPlan ELSE k.plan
  OBVIOUS
<1>4. PICK row : row = [subs[k.sub] EXCEPT !.next = next]
  OBVIOUS
<1>5. SubsKept
  <2>1. next \in Plan
    BY <1>2, <1>3 DEF Call, Plan
  <2>2. /\ row \in SubRow /\ row.id = k.sub /\ row.end = subs[k.sub].end /\ row.start = subs[k.sub].start
        /\ row.status = subs[k.sub].status
    BY <1>2, <1>4, <2>1, PlainTypes DEF SubRow
  <2>3. MayBecome(k.sub, row.status)
    BY <2>2 DEF MayBecome
  <2>4. subs' = [subs EXCEPT ![k.sub] = row]
    BY <1>1, <1>3, <1>4 DEF SetNextPlan
  <2> QED
    BY <1>2, <2>2, <2>3, <2>4, SubTouched
<1>6. PICK j : j = [k EXCEPT !.at = "list"]
  OBVIOUS
<1>7. Sound(j)
  <2>1. "list" \in Statements
    BY DEF Statements
  <2>2. /\ j \in Call /\ j.at = "list" /\ j.sub = k.sub /\ j.start = k.start /\ j.row = k.row
        /\ j.op = k.op /\ j.phase = 0 /\ j.rows = k.rows /\ j.now = k.now
    BY <1>2, <1>6, <2>1 DEF Call
  <2>3. WellFormed(j)
    BY <1>2, <2>2 DEF WellFormed
  <2>4. RowsOK(j)
    BY <1>2, <2>2 DEF CallOK, RowsOK, ByRow
  <2>5. ChangeOK(j)
    BY <1>2, <2>2 DEF CallOK, ChangeOK
  <2> QED
    BY <1>2, <2>2, <2>3, <2>4, <2>5 DEF Sound, CallOK, RowOK, RaiseOK, RenewOK, PaidOK
<1>8. Go(c, j)
  BY <1>1, <1>6 DEF SetNextPlan
<1>9. UNCHANGED <<clock, invs, overtaken, doubled, topped, payable, mail, requests, faults>>
  BY DEF SetNextPlan, budget
<1> QED
  BY <1>5, <1>7, <1>8, <1>9, InvoicesUntouched, PlainTypes, RowsWritten

LEMMA StepSetPlan ==
    ASSUME BillingInv, NEW c \in Calls, SetPlan(c)
    PROVE  BillingInv'
<1>1. PICK k : k = calls[c]
  OBVIOUS
<1>2. /\ Sound(k) /\ k \in Call /\ WellFormed(k) /\ CallOK(k) /\ k.at = "void" /\ k.op = "change"
      /\ k.sub \in Subs /\ k.phase = 0 /\ k.row.status = "Pending"
  BY <1>1, CallsSound DEF SetPlan, Sound, WellFormed
<1>3. PICK row : row = [subs[k.sub] EXCEPT !.plan = k.plan]
  OBVIOUS
<1>4. SubsKept
  <2>1. k.plan \in Plan
    BY <1>2 DEF Call
  <2>2. /\ row \in SubRow /\ row.id = k.sub /\ row.end = subs[k.sub].end /\ row.start = subs[k.sub].start
        /\ row.status = subs[k.sub].status
    BY <1>2, <1>3, <2>1, PlainTypes DEF SubRow
  <2>3. MayBecome(k.sub, row.status)
    BY <2>2 DEF MayBecome
  <2>4. subs' = [subs EXCEPT ![k.sub] = row]
    BY <1>1, <1>3 DEF SetPlan
  <2> QED
    BY <1>2, <2>2, <2>3, <2>4, SubTouched
<1>5. PICK j : j = [k EXCEPT !.at = "number"]
  OBVIOUS
<1>6. Sound(j)
  <2>1. "number" \in Statements
    BY DEF Statements
  <2>2. /\ j \in Call /\ j.at = "number" /\ j.sub = k.sub /\ j.start = k.start
        /\ j.op = "change" /\ j.phase = 0 /\ j.rows = k.rows /\ j.now = k.now
    BY <1>2, <1>5, <2>1 DEF Call
  <2>3. WellFormed(j)
    BY <1>2, <2>2 DEF WellFormed
  <2>4. RowsOK(j)
    BY <2>2 DEF RowsOK, ByRow
  <2>5. RaiseOK(j)
    <3>1. k.start = 0 /\ (k.sub \notin Off => NonePaid(k.sub))
      BY <1>2 DEF CallOK, ChangeOK
    <3>2. k.sub \notin Off => Anew(k.sub)
      BY <3>1 DEF Anew
    <3> QED
      BY <2>2, <3>1, <3>2 DEF RaiseOK
  <2> QED
    BY <2>2, <2>3, <2>4, <2>5 DEF Sound, CallOK, RowOK, ChangeOK, RenewOK, PaidOK
<1>7. Go(c, j)
  BY <1>1, <1>5 DEF SetPlan
<1>8. UNCHANGED <<clock, invs, overtaken, doubled, topped, payable, mail, requests, faults>>
  BY DEF SetPlan, budget
<1> QED
  BY <1>4, <1>6, <1>7, <1>8, InvoicesUntouched, PlainTypes, RowsWritten

\* A row whose status moves along and is otherwise what it was.
LEMMA StatusMoved ==
    ASSUME BillingInv, NEW s \in Subs, NEW status, NEW row, row = [subs[s] EXCEPT !.status = status],
           subs' = [subs EXCEPT ![s] = row], MayBecome(s, status),
           status \in {"Pending", "Cancelled", "Grace", "Suspended"}
    PROVE  SubsKept
<1>1. /\ row \in SubRow /\ row.id = s /\ row.end = subs[s].end /\ row.start = subs[s].start /\ row.status = status
  BY PlainTypes DEF SubRow
<1> QED
  BY <1>1, SubTouched

LEMMA StatusMovedIf ==
    ASSUME BillingInv, NEW s \in Subs, NEW from, NEW to, subs' = Moved(s, from, to),
           subs[s].status = from => MayBecome(s, to),
           to \in {"Pending", "Cancelled", "Grace", "Suspended"}
    PROVE  SubsKept
<1>1. CASE subs[s].status # from
  BY <1>1, SubsUntouched DEF Moved
<1>2. CASE subs[s].status = from
  <2>1. subs' = [subs EXCEPT ![s] = [subs[s] EXCEPT !.status = to]]
    BY <1>2 DEF Moved
  <2> QED
    BY <1>2, <2>1, StatusMoved
<1> QED
  BY <1>1, <1>2

LEMMA StepFinishCancel ==
    ASSUME BillingInv, NEW c \in Calls, FinishCancel(c)
    PROVE  BillingInv'
<1>1. PICK k : k = calls[c]
  OBVIOUS
<1>2. Sound(k) /\ k.at = "void" /\ k.sub \in Subs
  BY <1>1, CallsSound DEF FinishCancel, Sound, WellFormed
<1>3. /\ UNCHANGED <<clock, invs, overtaken, doubled, topped, payable, mail, requests, faults>>
      /\ Go(c, Idle)
  BY DEF FinishCancel, budget
<1>4. PICK status \in {subs[k.sub].status, "Cancelled"} :
         subs' = [subs EXCEPT ![k.sub] = [subs[k.sub] EXCEPT !.cancel = TRUE, !.status = status]]
  BY <1>1 DEF FinishCancel
<1>5. SubsKept
  <2>1. PICK row : row = [subs[k.sub] EXCEPT !.cancel = TRUE, !.status = status]
    OBVIOUS
  <2>2. subs[k.sub] \in SubRow /\ status \in {"None", "Pending", "Active", "Grace", "Suspended", "Cancelled"}
    BY <1>2, <1>4, PlainTypes DEF SubRow
  <2>3. /\ row \in SubRow /\ row.id = subs[k.sub].id /\ row.end = subs[k.sub].end
        /\ row.start = subs[k.sub].start /\ row.status = status
    BY <2>1, <2>2 DEF SubRow
  <2>4. MayBecome(k.sub, status)
    BY <1>4 DEF MayBecome
  <2>5. subs[k.sub].id = k.sub
    BY <1>2, PlainTypes
  <2> QED
    BY <1>2, <1>4, <2>1, <2>3, <2>4, <2>5, SubTouched
<1> QED
  BY <1>3, <1>5, InvoicesUntouched, PlainTypes, IdleIsSound, RowsWritten

LEMMA StepLostCloses ==
    ASSUME BillingInv, NEW c \in Calls, LostCloses(c)
    PROVE  BillingInv'
<1>1. PICK k : k = calls[c]
  OBVIOUS
<1>2. Sound(k) /\ k.at = "close" /\ k.sub \in Subs
  BY <1>1, CallsSound DEF LostCloses, Sound, WellFormed
<1>3. /\ UNCHANGED <<clock, invs, overtaken, doubled, topped, payable, requests, faults>>
      /\ mail' \subseteq mail /\ Go(c, Idle)
  BY DEF LostCloses, budget
<1>4. SubsKept
  <2>1. MayBecome(k.sub, "Cancelled")
    BY DEF MayBecome
  <2>2. subs' = Moved(k.sub, "Pending", "Cancelled")
    BY <1>1 DEF LostCloses, Moved
  <2> QED
    BY <1>2, <2>1, <2>2, StatusMovedIf
<1> QED
  BY <1>3, <1>4, InvoicesUntouched, PlainTypes, IdleIsSound, RowsWritten

LEMMA StepEndPeriod ==
    ASSUME BillingInv, NEW c \in Calls, EndPeriod(c)
    PROVE  BillingInv'
<1>1. PICK k : k = calls[c]
  OBVIOUS
<1>2. Sound(k) /\ k.at = "end" /\ k.sub \in Subs /\ RowOK(k)
  BY <1>1, CallsSound DEF EndPeriod, Sound, WellFormed, CallOK
<1>3. /\ UNCHANGED <<clock, invs, overtaken, doubled, topped, payable, mail, requests, faults>>
      /\ Go(c, Onward(k, k.rows))
  BY <1>1 DEF EndPeriod, budget
<1>4. PICK to \in {"Cancelled", "Grace"} : subs' = Moved(k.sub, "Active", to)
  BY <1>1 DEF EndPeriod
<1>5. SubsKept
  <2>1. k.sub \notin overtaken => subs[k.sub].end <= clock
    BY <1>2 DEF RowOK, Current
  <2>2. subs[k.sub].status = "Active" => MayBecome(k.sub, to)
    BY <2>1 DEF MayBecome
  <2> QED
    BY <1>2, <1>4, <2>2, StatusMovedIf
<1>6. Sound(Onward(k, k.rows))
  BY <1>2, OnwardSound
<1> QED
  BY <1>3, <1>5, <1>6, InvoicesUntouched, PlainTypes, RowsWritten

LEMMA StepEndGrace ==
    ASSUME BillingInv, NEW c \in Calls, EndGrace(c)
    PROVE  BillingInv'
<1>1. PICK k : k = calls[c]
  OBVIOUS
<1>2. /\ Sound(k) /\ k \in Call /\ WellFormed(k) /\ CallOK(k) /\ k.at = "grace" /\ k.sub \in Subs
      /\ k.op # "paid"
  BY <1>1, CallsSound DEF EndGrace, Sound, WellFormed
<1>3. UNCHANGED <<clock, invs, overtaken, doubled, topped, payable, mail, requests, faults>>
  BY <1>1 DEF EndGrace, budget
<1>4. PICK to \in {"Cancelled", "Suspended"} : subs' = Moved(k.sub, "Grace", to)
  BY <1>1 DEF EndGrace
<1>5. SubsKept
  <2>1. subs[k.sub].status = "Grace" => MayBecome(k.sub, to)
    BY DEF MayBecome
  <2> QED
    BY <1>2, <1>4, <2>1, StatusMovedIf
<1>6. PICK j : j = [k EXCEPT !.at = "open"]
  OBVIOUS
<1>7. Go(c, j) \/ Go(c, Onward(k, k.rows))
  BY <1>1, <1>6 DEF EndGrace
<1>8. Sound(j)
  <2>1. "open" \in Statements
    BY DEF Statements
  <2>2. j \in Call /\ j.at = "open" /\ j.op = k.op /\ j.phase = k.phase /\ j.rows = k.rows /\ j.now = k.now /\ j.sub = k.sub
    BY <1>2, <1>6, <2>1 DEF Call
  <2>3. WellFormed(j)
    BY <1>2, <2>2 DEF WellFormed
  <2>4. RowsOK(j)
    BY <1>2, <2>2 DEF CallOK, RowsOK
  <2>5. j.op # "renew"
    BY <1>2, <2>2 DEF WellFormed
  <2> QED
    BY <1>2, <2>2, <2>3, <2>4, <2>5, PlainCall
<1>9. Sound(Onward(k, k.rows))
  BY <1>2, OnwardSound
<1> QED
  BY <1>3, <1>5, <1>7, <1>8, <1>9, InvoicesUntouched, PlainTypes, RowsWritten

LEMMA StepClosePending ==
    ASSUME BillingInv, NEW c \in Calls, ClosePending(c)
    PROVE  BillingInv'
<1>1. PICK k : k = calls[c]
  OBVIOUS
<1>2. /\ Sound(k) /\ k \in Call /\ WellFormed(k) /\ CallOK(k) /\ k.at = "close" /\ k.sub \in Subs
      /\ k.op = "tick"
  BY <1>1, CallsSound DEF ClosePending, Sound, WellFormed
<1>3. UNCHANGED <<clock, invs, overtaken, doubled, topped, payable, mail, requests, faults>>
  BY <1>1 DEF ClosePending, budget
<1>4. SubsKept
  <2>1. MayBecome(k.sub, "Cancelled")
    BY DEF MayBecome
  <2>2. subs' = Moved(k.sub, "Pending", "Cancelled")
    BY <1>1 DEF ClosePending
  <2> QED
    BY <1>2, <2>1, <2>2, StatusMovedIf
<1>5. PICK j : j = [k EXCEPT !.at = "expire"]
  OBVIOUS
<1>6. (k.i # 0 /\ Go(c, j)) \/ Go(c, Onward(k, k.rows))
  BY <1>1, <1>5 DEF ClosePending
<1>7. ASSUME k.i # 0 PROVE Sound(j)
  <2>1. "expire" \in Statements
    BY DEF Statements
  <2>2. k.i \in Invoices
    BY <1>2, <1>7, BillingConstants DEF Call, Invoices
  <2>3. /\ j \in Call /\ j.at = "expire" /\ j.op = "tick" /\ j.phase = k.phase /\ j.rows = k.rows /\ j.now = k.now
        /\ j.sub = k.sub /\ j.i = k.i
    BY <1>2, <1>5, <2>1 DEF Call
  <2>4. WellFormed(j)
    BY <1>2, <2>2, <2>3 DEF WellFormed
  <2>5. RowsOK(j)
    BY <1>2, <2>3 DEF CallOK, RowsOK
  <2> QED
    BY <2>3, <2>4, <2>5, PlainCall
<1>8. Sound(Onward(k, k.rows))
  BY <1>2, OnwardSound
<1> QED
  BY <1>3, <1>4, <1>6, <1>7, <1>8, InvoicesUntouched, PlainTypes, RowsWritten

-----------------------------------------------------------------------------
(* The insert of an invoice.                                                *)

\* The row goes where none was, and it is not a paid one.
Inserted(i, row) ==
    /\ invs[i].status = "None" /\ row.status = "Open" /\ row.sub \in Subs /\ row.number > 0
    /\ invs' = [invs EXCEPT ![i] = row]
    /\ UNCHANGED <<clock, subs, overtaken, doubled>>

LEMMA InsertedRows ==
    ASSUME BillingInv, NEW i \in Invoices, NEW row \in InvoiceRow, Inserted(i, row)
    PROVE  /\ invs' \in [Invoices -> InvoiceRow]
           /\ \A j \in Invoices : invs'[j] = IF j = i THEN row ELSE invs[j]
           /\ \A s : \A j \in Of(s)' : j \in Invoices /\ (j # i => j \in Of(s))
           /\ \A s : \A j \in Of(s) : j \in Invoices /\ (invs[j].status # "None" => j \in Of(s)' /\ j # i)
           /\ \A s : NonePaid(s)' <=> NonePaid(s)
           /\ \A s : Anew(s)' <=> Anew(s)
           /\ \A s, n : AbovePaid(s, n)' <=> AbovePaid(s, n)
<1>1. invs \in [Invoices -> InvoiceRow]
  BY DEF BillingInv, Types, DataTypes
<1>2. /\ invs' \in [Invoices -> InvoiceRow]
      /\ \A j \in Invoices : invs'[j] = IF j = i THEN row ELSE invs[j]
  BY <1>1 DEF Inserted
<1>3. /\ \A s : \A j \in Of(s)' : j \in Invoices /\ (j # i => j \in Of(s))
      /\ \A s : \A j \in Of(s) : j \in Invoices /\ (invs[j].status # "None" => j \in Of(s)' /\ j # i)
  BY <1>2 DEF Inserted, Of
<1>4. row.status = "Open"
  BY DEF Inserted
<1>5. \A s : /\ \A j \in Of(s)' : invs'[j].status = "Paid" => j \in Of(s) /\ invs[j] = invs'[j]
             /\ \A j \in Of(s) : invs[j].status = "Paid" => j \in Of(s)' /\ invs'[j] = invs[j]
  BY <1>2, <1>3, <1>4
<1>6. \A s : NonePaid(s)' <=> NonePaid(s)
  BY <1>5 DEF NonePaid
<1>7. \A s : Anew(s)' <=> Anew(s)
  BY <1>6 DEF Anew, Inserted
<1>8. \A s, n : AbovePaid(s, n)' <=> AbovePaid(s, n)
  BY <1>5 DEF AbovePaid
<1> QED
  BY <1>2, <1>3, <1>6, <1>7, <1>8

LEMMA SoundInserted ==
    ASSUME BillingInv, NEW i \in Invoices, NEW row \in InvoiceRow, Inserted(i, row), NEW k, Sound(k)
    PROVE  Sound(k)'
<1>1. k \in Call /\ WellFormed(k) /\ CallOK(k)
  BY DEF Sound
<1>2. UNCHANGED <<clock, subs, overtaken, doubled>> /\ Off' = Off
  BY DEF Inserted, Off
<1>3. \A r : Current(r)' <=> Current(r)
  BY <1>2 DEF Current
<1>4. \A n, r : Dated(n, r)' <=> Dated(n, r)
  BY <1>2 DEF Dated
<1>5. RowsOK(k)'
  BY <1>1, <1>2, <1>3, <1>4 DEF CallOK, RowsOK
<1>6. RowOK(k)'
  BY <1>1, <1>2, <1>3 DEF CallOK, RowOK
<1>7. RaiseOK(k)'
  BY <1>1, <1>2, InsertedRows DEF CallOK, RaiseOK
<1>8. ChangeOK(k)' /\ RenewOK(k)'
  BY <1>1, <1>2, InsertedRows DEF CallOK, ChangeOK, RenewOK
<1>9. PaidOK(k)'
  <2> SUFFICES ASSUME k.op = "paid"
               PROVE  PaidOK(k)'
    BY DEF PaidOK
  <2>1. PaidOK(k) /\ k.i \in Invoices
    BY <1>1 DEF CallOK, WellFormed
  <2>2. invs'[k.i] = invs[k.i]
    BY <2>1, InsertedRows DEF PaidOK, Inserted
  <2> QED
    BY <1>2, <2>1, <2>2 DEF PaidOK
<1> QED
  BY <1>1, <1>5, <1>6, <1>7, <1>8, <1>9 DEF Sound, CallOK

\* What the index and the call's own reading say of the new row.
Admitted(row) ==
    /\ \A j \in Of(row.sub) : invs[j].status = "Open" => invs[j].start # row.start
    /\ row.sub \notin Off =>
         /\ (row.start > 0 /\ row.start = subs[row.sub].end) \/ (row.start = 0 /\ Anew(row.sub))
         /\ AbovePaid(row.sub, row.number)

LEMMA InsertedStep ==
    ASSUME BillingInv, NEW i \in Invoices, NEW row \in InvoiceRow, Inserted(i, row), Admitted(row),
           DataTypes', calls' \in [Calls -> Call], Onwards
    PROVE  BillingInv'
<1>t. /\ Types /\ DataTypes /\ Rows /\ WellFormedCalls /\ PeriodIsPaid
      /\ CallsOK /\ StatusOK /\ OpenOK /\ OpenApart /\ PaidApart
  BY DEF BillingInv, Types
<1>i. /\ invs' \in [Invoices -> InvoiceRow]
      /\ \A j \in Invoices : invs'[j] = IF j = i THEN row ELSE invs[j]
      /\ \A s : \A j \in Of(s)' : j \in Invoices /\ (j # i => j \in Of(s))
      /\ \A s : \A j \in Of(s) : j \in Invoices /\ (invs[j].status # "None" => j \in Of(s)' /\ j # i)
      /\ \A s : NonePaid(s)' <=> NonePaid(s)
      /\ \A s : Anew(s)' <=> Anew(s)
      /\ \A s, n : AbovePaid(s, n)' <=> AbovePaid(s, n)
  BY InsertedRows
<1>u. UNCHANGED <<clock, subs, overtaken, doubled>> /\ Off' = Off
  BY DEF Inserted, Off
<1>r. row.status = "Open" /\ row.sub \in Subs /\ row.number > 0 /\ row.number \in Nat
  BY DEF Inserted, InvoiceRow
<1>1. Types'
  BY DEF Types
<1>2. Rows'
  <2>1. \A s \in Subs : subs'[s].id = s
    BY <1>t, <1>u DEF Rows
  <2>2. \A j \in Invoices : invs'[j].status # "None" => invs'[j].sub \in Subs /\ invs'[j].number > 0
    BY <1>t, <1>i, <1>r DEF Rows
  <2>3. PICK b \in Nat : \A j \in Invoices : invs[j].number <= b
    BY <1>t DEF Rows
  <2>4. \A j \in Invoices : invs[j].number \in Nat
    BY <1>t DEF DataTypes, InvoiceRow
  <2>5. b + row.number \in Nat /\ \A j \in Invoices : invs'[j].number <= b + row.number
    BY <1>i, <1>r, <2>3, <2>4
  <2> QED
    BY <2>1, <2>2, <2>5 DEF Rows
<1>3. (\A d \in Calls : Sound(calls[d]))'
  <2> SUFFICES ASSUME NEW d \in Calls
               PROVE  Sound(calls[d])'
    OBVIOUS
  <2>1. PICK k : k = calls'[d]
    OBVIOUS
  <2>2. Sound(k)
    BY <2>1, CallsSound DEF Onwards
  <2>3. Sound(k)'
    BY <2>2, SoundInserted
  <2> QED
    BY <2>1, <2>3 DEF Sound, WellFormed, CallOK, RowsOK, RowOK, RaiseOK, ChangeOK, RenewOK, PaidOK
<1>4. WellFormedCalls' /\ CallsOK'
  BY <1>3 DEF WellFormedCalls, CallsOK, Sound
<1>5. PeriodIsPaid'
  <2> SUFFICES ASSUME NEW s \in Subs, subs'[s].end > 0
               PROVE  \E j \in Of(s)' : /\ invs'[j].status = "Paid" /\ invs'[j].start = subs'[s].start
                                        /\ invs'[j].end = subs'[s].end
    BY DEF PeriodIsPaid
  <2>1. PICK j \in Of(s) : /\ invs[j].status = "Paid" /\ invs[j].start = subs[s].start
                           /\ invs[j].end = subs[s].end
    BY <1>t, <1>u DEF PeriodIsPaid
  <2> QED
    BY <1>i, <1>u, <2>1
<1>6. StatusOK'
  BY <1>t, <1>i, <1>u DEF StatusOK
<1>7. OpenOK'
  <2> SUFFICES ASSUME NEW j \in Invoices, invs'[j].status = "Open", NEW s, s = invs'[j].sub, s \notin Off',
                      NEW n, n = invs'[j].number
               PROVE  /\ \/ invs'[j].start > 0 /\ invs'[j].start = subs'[s].end
                         \/ invs'[j].start = 0 /\ Anew(s)'
                      /\ AbovePaid(s, n)'
    BY DEF OpenOK
  <2>1. CASE j = i
    <3>1. s = row.sub /\ n = row.number /\ invs'[j].start = row.start /\ row.sub \notin Off
      BY <1>i, <1>u, <2>1
    <3>2. /\ (row.start > 0 /\ row.start = subs[s].end) \/ (row.start = 0 /\ Anew(s))
          /\ AbovePaid(s, n)
      BY <3>1 DEF Admitted
    <3> QED
      BY <1>i, <1>u, <3>1, <3>2
  <2>2. CASE j # i
    <3>1. invs'[j] = invs[j] /\ s = invs[j].sub /\ n = invs[j].number /\ s \notin Off /\ invs[j].status = "Open"
      BY <1>i, <1>u, <2>2
    <3>2. /\ \/ invs[j].start > 0 /\ invs[j].start = subs[s].end
             \/ invs[j].start = 0 /\ Anew(s)
          /\ AbovePaid(s, n)
      BY <1>t, <3>1 DEF OpenOK
    <3> QED
      BY <1>i, <1>u, <3>1, <3>2
  <2> QED
    BY <2>1, <2>2
<1>8. OpenApart'
  <2>1. \A j \in Invoices : (j # i /\ invs[j].status = "Open" /\ invs[j].sub = row.sub) => invs[j].start # row.start
    BY DEF Admitted, Of
  <2> QED
    BY <1>t, <1>i, <2>1 DEF OpenApart
<1>9. PaidApart'
  <2> SUFFICES ASSUME NEW j \in Invoices, invs'[j].status = "Paid", NEW s, s = invs'[j].sub
               PROVE  /\ invs'[j].start > 0
                      /\ s \notin Off' =>
                            /\ invs'[j].start < subs'[s].end
                            /\ \A l \in Of(s)' : (j # l /\ invs'[l].status = "Paid") => invs'[l].start # invs'[j].start
    BY DEF PaidApart, Of
  <2>1. j # i /\ invs'[j] = invs[j]
    BY <1>i, <1>r
  <2>2. \A l \in Of(s)' : invs'[l].status = "Paid" => l \in Of(s) /\ invs'[l] = invs[l]
    BY <1>i, <1>r
  <2> QED
    BY <1>t, <1>u, <2>1, <2>2 DEF PaidApart
<1> QED
  BY <1>1, <1>2, <1>4, <1>5, <1>6, <1>7, <1>8, <1>9 DEF BillingInv

LEMMA StepRaise ==
    ASSUME BillingInv, NEW c \in Calls, Raise(c)
    PROVE  BillingInv'
<1>1. PICK k : k = calls[c]
  OBVIOUS
<1>2. /\ Sound(k) /\ k \in Call /\ WellFormed(k) /\ CallOK(k) /\ k.at = "raise" /\ k.sub \in Subs
      /\ k.op # "paid"
  BY <1>1, CallsSound DEF Raise, Sound, WellFormed
<1>3. UNCHANGED <<clock, subs, topped, payable, mail, overtaken, doubled, requests, faults>>
  BY DEF Raise, budget
<1>4. PICK fresh : fresh = {i \in Invoices : invs[i].status = "None"}
  OBVIOUS
<1>5. CASE Admits(k) /\ fresh # {}
  <2>1. PICK i \in Invoices : i = Min(fresh) /\ invs[i].status = "None"
    <3>1. fresh \subseteq Nat /\ fresh # {}
      BY <1>4, <1>5 DEF Invoices
    <3>2. Min(fresh) \in fresh
      BY <3>1, LeastOf
    <3> QED
      BY <1>4, <3>2
  <2>2. PICK end \in Nat : end = IF k.start = 0 THEN 0 ELSE k.start + Cycle
    BY <1>2, BillingConstants DEF Call
  <2>3. PICK due \in Nat : due = IF k.start = 0 THEN k.now + Ttl ELSE k.start
    BY <1>2, BillingConstants DEF Call
  <2>4. PICK row : row = [sub |-> k.sub, plan |-> k.plan, number |-> k.number, start |-> k.start,
                          end |-> end, due |-> due, status |-> "Open", charge |-> FALSE]
    OBVIOUS
  <2>5. /\ row \in InvoiceRow /\ row.sub = k.sub /\ row.number = k.number /\ row.start = k.start
        /\ row.status = "Open"
    BY <1>2, <2>4 DEF Call, InvoiceRow
  <2>6. PICK j : j = [Idle EXCEPT !.op = k.op, !.at = "create", !.phase = k.phase, !.rows = k.rows,
                                  !.i = i, !.sub = k.sub, !.now = k.now]
    OBVIOUS
  <2>7. invs' = [invs EXCEPT ![i] = row]
    BY <1>1, <1>4, <1>5, <2>1, <2>2, <2>3, <2>4 DEF Raise
  <2>8. Go(c, j)
    BY <1>1, <1>4, <1>5, <2>1, <2>6 DEF Raise
  <2>9. RaiseOK(k) /\ RowsOK(k)
    BY <1>2 DEF CallOK
  <2>10. Inserted(i, row)
    BY <1>2, <1>3, <2>1, <2>5, <2>7, <2>9 DEF Inserted, RaiseOK
  <2>11. Admitted(row)
    <3>1. \A l \in Of(k.sub) : invs[l].status = "Open" => invs[l].start # k.start
      BY <1>5 DEF Admits
    <3>2. k.sub \notin Off =>
            /\ (k.start > 0 /\ k.start = subs[k.sub].end) \/ (k.start = 0 /\ Anew(k.sub))
            /\ AbovePaid(k.sub, k.number)
      BY <1>2, <2>9 DEF RaiseOK
    <3> QED
      BY <2>5, <3>1, <3>2 DEF Admitted
  <2>12. Sound(j)
    <3>1. "create" \in Statements /\ i \in 0 .. MaxInvoices
      BY <2>1 DEF Statements, Invoices
    <3>2. /\ k.op \in Operations /\ k.phase \in 0 .. 5 /\ k.rows \in SUBSET (SubRow \cup Invoices)
          /\ k.sub \in Subs \cup {NoPlan} /\ k.now \in Nat
      BY <1>2 DEF Call
    <3>3. /\ j \in Call /\ j.op = k.op /\ j.at = "create" /\ j.phase = k.phase /\ j.rows = k.rows /\ j.now = k.now
          /\ j.i = i /\ j.sub = k.sub
      BY <2>6, <3>1, <3>2, IdleCall DEF Call
    <3>4. WellFormed(j)
      BY <1>2, <3>3 DEF WellFormed
    <3>5. RowsOK(j)
      BY <2>9, <3>3 DEF RowsOK
    <3> QED
      BY <1>2, <3>3, <3>4, <3>5, PlainCall
  <2>13. DataTypes'
    <3>1. invs' \in [Invoices -> InvoiceRow]
      BY <2>5, <2>10, InsertedRows
    <3> QED
      BY <1>3, <3>1 DEF BillingInv, Types, DataTypes
  <2>14. calls' \in [Calls -> Call] /\ Onwards
    BY <2>8, <2>12, CallStep DEF Go
  <2> QED
    BY <2>5, <2>10, <2>11, <2>13, <2>14, InsertedStep
<1>6. CASE ~(Admits(k) /\ fresh # {})
  <2>1. Go(c, Onward(k, k.rows)) /\ invs' = invs
    BY <1>1, <1>4, <1>6 DEF Raise
  <2>2. DataTypes'
    BY <1>3, <2>1 DEF BillingInv, Types, DataTypes
  <2>3. Sound(Onward(k, k.rows))
    BY <1>2, OnwardSound
  <2> QED
    BY <1>3, <2>1, <2>2, <2>3, CallOnly
<1> QED
  BY <1>5, <1>6

-----------------------------------------------------------------------------
(* A payment that settles.                                                  *)

\* Call c settles invoice i of s with a period that starts at t.
Settled(c, i, s, t) ==
    /\ invs[i].status = "Open" /\ invs[i].sub = s /\ t > 0 /\ (s \notin Off => subs[s].end <= t)
    /\ invs' \in [Invoices -> InvoiceRow]
    /\ \A j \in Invoices : j # i => invs'[j] = invs[j]
    /\ invs'[i].status = "Paid" /\ invs'[i].start = t /\ invs'[i].end = t + Cycle
    /\ invs'[i].sub = s /\ invs'[i].number = invs[i].number
    /\ subs' \in [Subs -> SubRow]
    /\ \A u \in Subs : u # s => subs'[u] = subs[u]
    /\ subs'[s].id = s /\ subs'[s].status = "Active" /\ subs'[s].start = t /\ subs'[s].end = t + Cycle
    /\ overtaken' \subseteq Subs /\ doubled' \subseteq Subs
    /\ \A u : u \in overtaken => u \in overtaken'
    /\ \A u : u \in doubled => u \in doubled'
    /\ \A u : u # s => (u \in overtaken' <=> u \in overtaken) /\ (u \in doubled' <=> u \in doubled)
    /\ \A d \in Calls : (d # c /\ Holds(calls[d], s)) => s \in overtaken'
    /\ \A j \in OpenOf(s) : j # i => s \in doubled'
    /\ UNCHANGED <<clock, topped, payable, requests, faults>> /\ mail' \subseteq mail
    /\ calls' = [calls EXCEPT ![c] = Idle]

LEMMA SettleWins ==
    ASSUME BillingInv, NEW c \in Calls, Settle(c), invs[calls[c].i].status = "Open"
    PROVE  \E i \in Invoices, s \in Subs, t \in Nat : Settled(c, i, s, t)
<1>1. PICK k : k = calls[c]
  OBVIOUS
<1>2. /\ k \in Call /\ WellFormed(k) /\ CallOK(k) /\ k.at = "settle" /\ k.op = "paid"
      /\ k.sub \in Subs /\ k.i \in Invoices
  BY <1>1, CallsSound DEF Settle, Sound, WellFormed
<1>3. PICK i \in Invoices, s \in Subs, t \in Nat : i = k.i /\ s = k.sub /\ t = k.start
  BY <1>2 DEF Call
<1>4. invs[i].status = "Open" /\ invs[i].sub = s /\ t > 0 /\ (s \notin Off => subs[s].end <= t)
  BY <1>1, <1>2, <1>3 DEF CallOK, PaidOK
<1>5. PICK row : row = [Turned(i, "Paid") EXCEPT !.start = t, !.end = t + Cycle]
  OBVIOUS
<1>6. t + Cycle \in Nat
  BY <1>3, BillingConstants
<1>7. /\ row \in InvoiceRow /\ row.status = "Paid" /\ row.start = t /\ row.end = t + Cycle
      /\ row.sub = s /\ row.number = invs[i].number
  <2>1. PICK paid : paid = Turned(i, "Paid")
    OBVIOUS
  <2>2. paid \in InvoiceRow /\ paid.status = "Paid" /\ paid.sub = invs[i].sub /\ paid.number = invs[i].number
    BY <2>1, PlainTypes DEF Turned, InvoiceRow
  <2> QED
    BY <1>4, <1>5, <1>6, <2>1, <2>2 DEF InvoiceRow
<1>8. PICK sub : sub = [subs[s] EXCEPT !.status = "Active", !.plan = invs[i].plan,
                                       !.next = NoPlan, !.start = t, !.end = t + Cycle]
  OBVIOUS
<1>9. sub \in SubRow /\ sub.id = s /\ sub.status = "Active" /\ sub.start = t /\ sub.end = t + Cycle
  <2>1. invs[i].plan \in Plan /\ NoPlan \in Plan /\ subs[s] \in SubRow /\ subs[s].id = s
    BY PlainTypes DEF InvoiceRow, Plan
  <2> QED
    BY <1>6, <1>8, <2>1 DEF SubRow
<1>10. invs' = [invs EXCEPT ![i] = row] /\ subs' = [subs EXCEPT ![s] = sub]
  BY <1>1, <1>3, <1>4, <1>5, <1>8 DEF Settle
<1>11. /\ overtaken' = IF \E d \in Calls \ {c} : Holds(calls[d], s) THEN overtaken \cup {s} ELSE overtaken
       /\ doubled' = IF OpenOf(s) # {i} THEN doubled \cup {s} ELSE doubled
  BY <1>1, <1>3, <1>4 DEF Settle
<1>12. /\ UNCHANGED <<clock, topped, payable, requests, faults>> /\ mail' \subseteq mail
       /\ calls' = [calls EXCEPT ![c] = Idle]
  BY DEF Settle, Go, budget
<1>13. invs \in [Invoices -> InvoiceRow] /\ subs \in [Subs -> SubRow] /\ overtaken \subseteq Subs /\ doubled \subseteq Subs
  BY DEF BillingInv, Types, DataTypes
<1>14. /\ invs' \in [Invoices -> InvoiceRow] /\ \A j \in Invoices : invs'[j] = IF j = i THEN row ELSE invs[j]
  BY <1>7, <1>10, <1>13
<1>15. /\ subs' \in [Subs -> SubRow] /\ \A u \in Subs : subs'[u] = IF u = s THEN sub ELSE subs[u]
  BY <1>9, <1>10, <1>13
<1>16. /\ overtaken' \subseteq Subs /\ doubled' \subseteq Subs
       /\ \A u : u \in overtaken => u \in overtaken'
       /\ \A u : u \in doubled => u \in doubled'
       /\ \A u : u # s => (u \in overtaken' <=> u \in overtaken) /\ (u \in doubled' <=> u \in doubled)
       /\ \A d \in Calls : (d # c /\ Holds(calls[d], s)) => s \in overtaken'
       /\ \A j \in OpenOf(s) : j # i => s \in doubled'
  BY <1>11, <1>13
<1>17. Settled(c, i, s, t)
  BY <1>4, <1>7, <1>9, <1>12, <1>14, <1>15, <1>16 DEF Settled
<1> QED
  BY <1>17

\* Of the other subscriptions nothing changes.
LEMMA SettledElsewhere ==
    ASSUME BillingInv, NEW c \in Calls, NEW i \in Invoices, NEW s \in Subs, NEW t \in Nat, Settled(c, i, s, t)
    PROVE  /\ \A u : Of(u)' = Of(u)
           /\ \A u : u \in Off => u \in Off'
           /\ \A u : u # s => (u \in Off' <=> u \in Off)
           /\ \A u \in Subs : u # s => (NonePaid(u)' <=> NonePaid(u))
           /\ \A u \in Subs : u # s => (Anew(u)' <=> Anew(u))
           /\ \A n : \A u \in Subs : u # s => (AbovePaid(u, n)' <=> AbovePaid(u, n))
           /\ \A j \in Invoices : (invs'[j].status = "Open" /\ invs'[j].sub = s) => s \in doubled'
<1>1. \A j \in Invoices : invs'[j].sub = invs[j].sub
  BY DEF Settled
<1>2. \A u : Of(u)' = Of(u)
  BY <1>1 DEF Of
<1>3. \A u : u # s => \A j \in Of(u) : j \in Invoices /\ j # i /\ invs'[j] = invs[j]
  BY DEF Settled, Of
<1>4. /\ \A u : u \in Off => u \in Off'
      /\ \A u : u # s => (u \in Off' <=> u \in Off)
  BY DEF Settled, Off
<1>5. \A u \in Subs : u # s => (NonePaid(u)' <=> NonePaid(u))
  BY <1>2, <1>3 DEF NonePaid
<1>6. \A u \in Subs : u # s => (Anew(u)' <=> Anew(u))
  BY <1>5 DEF Anew, Settled
<1>7. \A n : \A u \in Subs : u # s => (AbovePaid(u, n)' <=> AbovePaid(u, n))
  BY <1>2, <1>3 DEF AbovePaid
<1>8. \A j \in Invoices : (invs'[j].status = "Open" /\ invs'[j].sub = s) => s \in doubled'
  BY DEF Settled, OpenOf, Of
<1> QED
  BY <1>2, <1>4, <1>5, <1>6, <1>7, <1>8

\* Another call in the middle of work on s is in the history, as is another open
\* invoice of s; every other call stands on what it read.
LEMMA SoundSettled ==
    ASSUME BillingInv, NEW c \in Calls, NEW i \in Invoices, NEW s \in Subs, NEW t \in Nat, Settled(c, i, s, t),
           NEW k, Sound(k), Holds(k, s) => s \in overtaken'
    PROVE  Sound(k)'
<1>1. k \in Call /\ WellFormed(k) /\ CallOK(k)
  BY DEF Sound
<1>2. /\ clock' = clock /\ \A u \in Subs : u # s => subs'[u] = subs[u]
      /\ \A u : u \in overtaken => u \in overtaken'
      /\ \A u : u # s => (u \in overtaken' <=> u \in overtaken)
      /\ \A u : u \in overtaken' => u \in Off'
      /\ \A u : u \in doubled' => u \in Off'
  BY DEF Settled, Off
<1>3. \A r \in SubRow : r.id \in Subs
  BY DEF SubRow
<1>4. \A r \in SubRow : (Current(r) /\ (r.id = s => s \in overtaken')) => Current(r)'
  BY <1>2, <1>3 DEF Current
<1>5. (k.op # "paid" /\ k.sub = s) => s \in overtaken'
  BY DEF Holds
<1>n. k.op = "tick" => k.now <= clock'
  <2>1. k.now \in Nat /\ (k.op = "tick" => k.now <= clock)
    BY <1>1 DEF Call, CallOK, RowsOK
  <2> QED
    BY <1>2, <2>1
<1>6. RowsOK(k)'
  <2> SUFFICES ASSUME k.phase \in ByRow, NEW r \in k.rows
               PROVE  Current(r)' /\ Dated(k.phase, r)'
    BY <1>n DEF RowsOK
  <2>1. r \in SubRow /\ k.op # "paid"
    BY <1>1 DEF WellFormed, ByRow
  <2>2. Current(r) /\ Dated(k.phase, r)
    BY <1>1 DEF CallOK, RowsOK
  <2>3. r.id = s => s \in overtaken'
    BY <2>1 DEF Holds, ByRow
  <2>4. Dated(k.phase, r)'
    BY <1>2, <2>2 DEF Dated
  <2> QED
    BY <1>4, <2>1, <2>2, <2>3, <2>4
<1>7. RowOK(k)'
  <2> SUFFICES ASSUME k.at \in {"exists", "end"}
               PROVE  RowOK(k)'
    BY DEF RowOK
  <2>1. k.op # "paid" /\ RowOK(k)
    BY <1>1 DEF WellFormed, CallOK
  <2>2. PICK r \in SubRow : r = k.row /\ r.id = k.sub /\ Current(r)
    BY <2>1 DEF RowOK
  <2>3. Current(r)'
    BY <1>4, <1>5, <2>1, <2>2
  <2> QED
    BY <1>2, <2>1, <2>2, <2>3 DEF RowOK
<1>8. RaiseOK(k)'
  <2> SUFFICES ASSUME k.at \in {"number", "raise"}
               PROVE  RaiseOK(k)'
    BY DEF RaiseOK
  <2>1. k.op # "paid" /\ RaiseOK(k)
    BY <1>1 DEF WellFormed, CallOK
  <2>2. PICK u \in Subs : u = k.sub
    BY <1>1 DEF WellFormed
  <2>3. CASE u = s
    BY <1>2, <1>5, <2>1, <2>2, <2>3 DEF RaiseOK
  <2>4. CASE u # s
    <3>1. /\ u \in Off' <=> u \in Off
          /\ Anew(u)' <=> Anew(u)
          /\ \A n : AbovePaid(u, n)' <=> AbovePaid(u, n)
      BY <2>4, SettledElsewhere
    <3> QED
      BY <1>2, <2>1, <2>2, <2>4, <3>1 DEF RaiseOK
  <2> QED
    BY <2>3, <2>4
<1>9. ChangeOK(k)' /\ RenewOK(k)'
  <2> SUFFICES ASSUME k.op = "change" \/ k.op = "renew", k.at \in {"next", "list", "void", "open"}
               PROVE  ChangeOK(k)' /\ RenewOK(k)'
    BY DEF ChangeOK, RenewOK
  <2>1. ChangeOK(k) /\ RenewOK(k)
    BY <1>1 DEF CallOK
  <2>2. PICK u \in Subs : u = k.sub
    BY <1>1 DEF WellFormed
  <2>3. CASE u = s
    <3>1. subs'[s].end > 0
      <4>1. subs'[s].end = t + Cycle /\ t > 0
        BY DEF Settled
      <4> QED
        BY <4>1, BillingConstants
    <3>2. k.sub \in Off'
      BY <1>2, <1>5, <2>2, <2>3
    <3> QED
      BY <2>1, <2>2, <2>3, <3>1, <3>2 DEF ChangeOK, RenewOK
  <2>4. CASE u # s
    <3>1. /\ u \in Off' <=> u \in Off
          /\ Anew(u)' <=> Anew(u)
          /\ NonePaid(u)' <=> NonePaid(u)
      BY <2>4, SettledElsewhere
    <3> QED
      BY <1>2, <2>1, <2>2, <2>4, <3>1 DEF ChangeOK, RenewOK
  <2> QED
    BY <2>3, <2>4
<1>10. PaidOK(k)'
  <2> SUFFICES ASSUME k.op = "paid"
               PROVE  PaidOK(k)'
    BY DEF PaidOK
  <2>1. PaidOK(k) /\ k.i \in Invoices /\ k.sub \in Subs
    BY <1>1 DEF CallOK, WellFormed
  <2>2. invs'[k.i].status # "None" /\ invs'[k.i].sub = k.sub
    BY <2>1 DEF PaidOK, Settled
  <2>3. ASSUME k.sub \notin Off', invs'[k.i].status = "Open"
        PROVE  subs'[k.sub].end <= k.start
    <3>1. k.sub # s
      BY <1>2, <2>1, <2>2, <2>3, SettledElsewhere
    <3>2. invs[k.i].status = "Open" /\ k.sub \notin Off /\ subs'[k.sub] = subs[k.sub]
      BY <1>2, <2>1, <2>3, <3>1, SettledElsewhere DEF Settled
    <3> QED
      BY <2>1, <3>2 DEF PaidOK
  <2> QED
    BY <2>1, <2>2, <2>3 DEF PaidOK
<1> QED
  BY <1>1, <1>6, <1>7, <1>8, <1>9, <1>10 DEF Sound, CallOK

LEMMA SettledStep ==
    ASSUME BillingInv, NEW c \in Calls, NEW i \in Invoices, NEW s \in Subs, NEW t \in Nat, Settled(c, i, s, t)
    PROVE  BillingInv'
<1>t. /\ Types /\ DataTypes /\ Rows /\ WellFormedCalls /\ PeriodIsPaid
      /\ CallsOK /\ StatusOK /\ OpenOK /\ OpenApart /\ PaidApart
  BY DEF BillingInv, Types
<1>e. /\ \A u : Of(u)' = Of(u)
      /\ \A u : u \in Off => u \in Off'
      /\ \A u : u # s => (u \in Off' <=> u \in Off)
      /\ \A u \in Subs : u # s => (NonePaid(u)' <=> NonePaid(u))
      /\ \A u \in Subs : u # s => (Anew(u)' <=> Anew(u))
      /\ \A n : \A u \in Subs : u # s => (AbovePaid(u, n)' <=> AbovePaid(u, n))
      /\ \A j \in Invoices : (invs'[j].status = "Open" /\ invs'[j].sub = s) => s \in doubled'
  BY SettledElsewhere
<1>i. /\ \A j \in Invoices : j # i => invs'[j] = invs[j]
      /\ invs'[i].status = "Paid" /\ invs'[i].start = t /\ invs'[i].end = t + Cycle
      /\ invs'[i].sub = s /\ invs'[i].number = invs[i].number /\ invs[i].sub = s /\ invs[i].status = "Open"
  BY DEF Settled
<1>s. /\ \A u \in Subs : u # s => subs'[u] = subs[u]
      /\ subs'[s].id = s /\ subs'[s].status = "Active" /\ subs'[s].start = t /\ subs'[s].end = t + Cycle
  BY DEF Settled
<1>n. /\ t \in Nat /\ t > 0 /\ t + Cycle \in Nat /\ t < t + Cycle /\ t + Cycle > 0
      /\ \A u : u \in doubled' => u \in Off'
      /\ \A u \in Subs : subs[u].end \in Nat
      /\ \A j \in Invoices : invs[j].start \in Nat
  BY <1>t, BillingConstants DEF Settled, Off, DataTypes, SubRow, InvoiceRow
<1>o. /\ clock' = clock
      /\ \A u : u # s => (u \in overtaken' <=> u \in overtaken)
  BY DEF Settled
<1>1. Types'
  <2>1. calls' \in [Calls -> Call]
    BY <1>t, IdleCall DEF Settled, Types
  <2>2. DataTypes'
    BY <1>t DEF Settled, DataTypes
  <2> QED
    BY <2>1, <2>2 DEF Types
<1>2. Rows'
  <2>1. \A u \in Subs : subs'[u].id = u
    BY <1>t, <1>s DEF Rows
  <2>2. \A j \in Invoices : invs'[j].status # "None" => invs'[j].sub \in Subs /\ invs'[j].number > 0
    BY <1>t, <1>i DEF Rows
  <2>3. \E b \in Nat : \A j \in Invoices : invs'[j].number <= b
    BY <1>t, <1>i DEF Rows
  <2> QED
    BY <2>1, <2>2, <2>3 DEF Rows
<1>3. (\A d \in Calls : Sound(calls[d]))'
  <2> SUFFICES ASSUME NEW d \in Calls
               PROVE  Sound(calls[d])'
    OBVIOUS
  <2>1. PICK k : k = calls'[d]
    OBVIOUS
  <2>2. CASE d = c
    <3>1. k = Idle
      BY <1>t, <2>1, <2>2 DEF Settled, Types
    <3>2. Idle \in Call /\ WellFormed(Idle)
      BY IdleIsSound DEF Sound
    <3>3. CallOK(Idle)'
      BY DEF Idle, CallOK, RowsOK, RowOK, RaiseOK, ChangeOK, RenewOK, PaidOK, ByRow
    <3>4. k \in Call /\ WellFormed(k) /\ CallOK(k)'
      BY <3>1, <3>2, <3>3
    <3> QED
      BY <2>1, <3>4 DEF Sound, WellFormed, CallOK, RowsOK, RowOK, RaiseOK, ChangeOK, RenewOK, PaidOK
  <2>3. CASE d # c
    <3>1. k = calls[d] /\ Sound(k)
      BY <1>t, <2>1, <2>3, CallsSound DEF Settled, Types
    <3>2. Holds(k, s) => s \in overtaken'
      BY <2>3, <3>1 DEF Settled
    <3>3. Sound(k)'
      BY <3>1, <3>2, SoundSettled
    <3> QED
      BY <2>1, <3>3 DEF Sound, WellFormed, CallOK, RowsOK, RowOK, RaiseOK, ChangeOK, RenewOK, PaidOK
  <2> QED
    BY <2>2, <2>3
<1>4. WellFormedCalls' /\ CallsOK'
  BY <1>3 DEF WellFormedCalls, CallsOK, Sound
<1>5. PeriodIsPaid'
  <2> SUFFICES ASSUME NEW u \in Subs, subs'[u].end > 0
               PROVE  \E j \in Of(u)' : /\ invs'[j].status = "Paid" /\ invs'[j].start = subs'[u].start
                                        /\ invs'[j].end = subs'[u].end
    BY DEF PeriodIsPaid
  <2>1. CASE u = s
    <3>1. i \in Of(s)'
      BY <1>i DEF Of
    <3> QED
      BY <1>i, <1>s, <2>1, <3>1
  <2>2. CASE u # s
    <3>1. PICK j \in Of(u) : /\ invs[j].status = "Paid" /\ invs[j].start = subs[u].start
                             /\ invs[j].end = subs[u].end
      BY <1>t, <1>s, <2>2 DEF PeriodIsPaid
    <3>2. j \in Invoices /\ j # i
      BY <1>i, <2>2, <3>1 DEF Of
    <3> QED
      BY <1>e, <1>i, <1>s, <2>2, <3>1, <3>2
  <2> QED
    BY <2>1, <2>2
<1>6. StatusOK'
  <2> SUFFICES ASSUME NEW u \in Subs
               PROVE  /\ subs'[u].status = "None" => subs'[u].end = 0
                      /\ subs'[u].status \in {"None", "Pending"} => NonePaid(u)'
                      /\ subs'[u].status \in {"Active", "Grace", "Suspended"} => subs'[u].end > 0
                      /\ (subs'[u].status \in {"Grace", "Suspended"} /\ u \notin overtaken')
                            => subs'[u].end <= clock'
    BY DEF StatusOK
  <2>1. CASE u = s
    BY <1>s, <1>n, <2>1
  <2>2. CASE u # s
    BY <1>t, <1>e, <1>s, <1>o, <2>2 DEF StatusOK
  <2> QED
    BY <2>1, <2>2
<1>7. OpenOK'
  <2> SUFFICES ASSUME NEW j \in Invoices, invs'[j].status = "Open", NEW u, u = invs'[j].sub, u \notin Off',
                      NEW n, n = invs'[j].number
               PROVE  /\ \/ invs'[j].start > 0 /\ invs'[j].start = subs'[u].end
                         \/ invs'[j].start = 0 /\ Anew(u)'
                      /\ AbovePaid(u, n)'
    BY DEF OpenOK
  <2>1. j # i /\ u # s /\ invs'[j] = invs[j]
    BY <1>e, <1>i, <1>n
  <2>2. u \in Subs /\ u = invs[j].sub /\ n = invs[j].number /\ invs[j].status = "Open" /\ u \notin Off
    BY <1>t, <1>e, <2>1 DEF Rows
  <2>3. /\ \/ invs[j].start > 0 /\ invs[j].start = subs[u].end
           \/ invs[j].start = 0 /\ Anew(u)
        /\ AbovePaid(u, n)
    BY <1>t, <2>2 DEF OpenOK
  <2> QED
    BY <1>e, <1>s, <2>1, <2>2, <2>3
<1>8. OpenApart'
  <2>1. \A j \in Invoices : invs'[j].status = "Open" => invs'[j] = invs[j]
    BY <1>i
  <2> QED
    BY <1>t, <2>1 DEF OpenApart
<1>9. PaidApart'
  <2> SUFFICES ASSUME NEW j \in Invoices, invs'[j].status = "Paid", NEW u, u = invs'[j].sub
               PROVE  /\ invs'[j].start > 0
                      /\ u \notin Off' =>
                            /\ invs'[j].start < subs'[u].end
                            /\ \A l \in Of(u)' : (j # l /\ invs'[l].status = "Paid") => invs'[l].start # invs'[j].start
    BY DEF PaidApart, Of
  <2>1. invs'[j].start > 0
    BY <1>t, <1>i, <1>n DEF PaidApart
  <2>2. u \in Subs
    BY <1>t, <1>i DEF Rows
  <2>3. CASE u # s
    <3>1. j # i /\ invs'[j] = invs[j] /\ subs'[u] = subs[u] /\ (u \notin Off' => u \notin Off)
      BY <1>e, <1>i, <1>s, <2>2, <2>3
    <3>2. \A l \in Of(u)' : l \in Of(u) /\ invs'[l] = invs[l]
      BY <1>e, <1>i, <2>3 DEF Of
    <3> QED
      BY <1>t, <2>1, <3>1, <3>2 DEF PaidApart
  <2>4. CASE u = s /\ u \notin Off'
    <3>1. s \notin Off /\ subs[s].end <= t
      BY <1>e, <2>4 DEF Settled
    <3>2. \A l \in Of(s) : (l # i /\ invs'[l].status = "Paid") =>
             l \in Invoices /\ invs[l].status = "Paid" /\ invs[l].sub = s /\ invs'[l].start = invs[l].start
      BY <1>i DEF Of
    <3>3. \A l \in Of(s) : (l # i /\ invs'[l].status = "Paid") => invs[l].start < subs[s].end
      BY <1>t, <3>1, <3>2 DEF PaidApart
    <3>4. \A l \in Of(s) : (l # i /\ invs'[l].status = "Paid") => invs'[l].start < t /\ invs'[l].start \in Nat
      BY <1>n, <3>1, <3>2, <3>3
    <3>5. j \in Of(s)
      BY <1>i, <2>4 DEF Of
    <3>6. invs'[j].start < subs'[s].end
      BY <1>i, <1>s, <1>n, <3>4, <3>5
    <3>7. ASSUME NEW l \in Of(s), j # l, invs'[l].status = "Paid"
          PROVE  invs'[l].start # invs'[j].start
      <4>1. CASE l = i
        BY <1>i, <1>n, <3>4, <3>5, <3>7, <4>1
      <4>2. CASE j = i
        BY <1>i, <1>n, <3>4, <3>7, <4>2
      <4>3. CASE j # i /\ l # i
        <5>1. invs[l].start # invs[j].start
          BY <1>t, <3>1, <3>2, <3>5, <3>7, <4>3 DEF PaidApart
        <5> QED
          BY <3>2, <3>5, <3>7, <4>3, <5>1
      <4> QED
        BY <4>1, <4>2, <4>3
    <3> QED
      BY <1>e, <2>1, <2>4, <3>6, <3>7
  <2> QED
    BY <2>1, <2>3, <2>4
<1> QED
  BY <1>1, <1>2, <1>4, <1>5, <1>6, <1>7, <1>8, <1>9 DEF BillingInv

LEMMA StepSettle ==
    ASSUME BillingInv, NEW c \in Calls, Settle(c)
    PROVE  BillingInv'
<1>1. CASE invs[calls[c].i].status = "Open"
  BY <1>1, SettleWins, SettledStep
<1>2. CASE invs[calls[c].i].status # "Open"
  <2>1. /\ UNCHANGED <<clock, invs, subs, overtaken, doubled, topped, payable, requests, faults>>
        /\ mail' \subseteq mail /\ Go(c, Idle)
    BY <1>2 DEF Settle, budget
  <2> QED
    BY <2>1, InvoicesUntouched, SubsUntouched, PlainTypes, IdleIsSound, RowsWritten
<1> QED
  BY <1>1, <1>2

-----------------------------------------------------------------------------
(* The invariant.                                                           *)

LEMMA BillingInit == Init => BillingInv
<1> SUFFICES ASSUME Init
             PROVE  BillingInv
  OBVIOUS
<1>1. /\ \A s \in Subs : subs[s] = NoSub(s)
      /\ \A i \in Invoices : invs[i] = NoInvoice
      /\ \A c \in Calls : calls[c] = Idle
  BY DEF Init
<1>2. /\ \A s \in Subs : NoSub(s) \in SubRow /\ NoSub(s).id = s /\ NoSub(s).status = "None" /\ NoSub(s).end = 0
      /\ NoInvoice \in InvoiceRow /\ NoInvoice.status = "None" /\ NoInvoice.number = 0
  BY DEF NoSub, NoInvoice, SubRow, InvoiceRow, Plan
<1>3. subs \in [Subs -> SubRow] /\ invs \in [Invoices -> InvoiceRow] /\ calls \in [Calls -> Call]
  BY <1>2, IdleCall DEF Init
<1>4. Types
  BY <1>3, BillingConstants DEF Init, Types, DataTypes
<1>5. Rows
  <2>1. \A i \in Invoices : invs[i].number <= 0
    BY <1>1, <1>2
  <2> QED
    BY <1>1, <1>2, <2>1 DEF Rows
<1>6. WellFormedCalls /\ CallsOK
  BY <1>1, IdleIsSound DEF WellFormedCalls, CallsOK, Sound
<1>7. \A s : NonePaid(s)
  BY <1>1, <1>2 DEF NonePaid, Of
<1>8. PeriodIsPaid /\ StatusOK
  BY <1>1, <1>2, <1>7 DEF PeriodIsPaid, StatusOK
<1>9. OpenOK /\ OpenApart /\ PaidApart
  BY <1>1, <1>2 DEF OpenOK, OpenApart, PaidApart
<1> QED
  BY <1>4, <1>5, <1>6, <1>8, <1>9 DEF BillingInv

LEMMA BillingStutters == ASSUME BillingInv, UNCHANGED vars PROVE BillingInv'
<1>1. UNCHANGED <<clock, subs, invs, overtaken, doubled, calls, topped, payable, mail, requests, faults>>
  BY DEF vars, budget
<1>2. DataTypes'
  BY <1>1 DEF BillingInv, Types, DataTypes
<1>3. calls' \in [Calls -> Call] /\ Onwards
  BY <1>1 DEF BillingInv, Types, Onwards
<1> QED
  BY <1>1, <1>2, <1>3, DataKept, KeptStep

LEMMA BillingCallSteps ==
    ASSUME BillingInv, NEW c \in Calls, Step(c) \/ CreateFails(c) \/ StoreFails(c) \/ Fault(c) \/ Strand(c)
    PROVE  BillingInv'
<1>1. CASE Exists(c) \/ NextNumber(c) \/ Raise(c) \/ CreateCharge(c) \/ StoreCharge(c)
  BY <1>1, StepExists, StepNextNumber, StepRaise, StepCreateCharge, StepStoreCharge
<1>2. CASE ListOpen(c) \/ Void(c) \/ Expire(c)
  BY <1>2, StepListOpen, StepVoid, StepExpire
<1>3. CASE InsertSubscription(c) \/ Unlink(c) \/ RenewOpen(c)
  BY <1>3, StepInsertSubscription, StepUnlink, StepRenewOpen
<1>4. CASE SetNextPlan(c) \/ SetPlan(c) \/ Reraise(c) \/ FinishCancel(c)
  BY <1>4, StepSetNextPlan, StepSetPlan, StepReraise, StepFinishCancel
<1>5. CASE TopUp(c) \/ Settle(c) \/ LostCloses(c) \/ LostForgets(c)
  BY <1>5, StepTopUp, StepSettle, StepLostCloses, StepLostForgets
<1>6. CASE Select(c) \/ EndPeriod(c) \/ EndGrace(c) \/ GraceOpen(c) \/ Pending(c) \/ ClosePending(c)
  BY <1>6, StepSelect, StepEndPeriod, StepEndGrace, StepGraceOpen, StepPending, StepClosePending
<1>7. CASE CreateFails(c) \/ StoreFails(c) \/ Fault(c) \/ Strand(c)
  BY <1>7, StepCreateFails, StepStoreFails, StepFault, StepStrand
<1> QED
  BY <1>1, <1>2, <1>3, <1>4, <1>5, <1>6, <1>7 DEF Step

LEMMA BillingStep == BillingInv /\ [Next]_vars => BillingInv'
<1> SUFFICES ASSUME BillingInv, [Next]_vars
             PROVE  BillingInv'
  OBVIOUS
<1>1. ASSUME NEW c \in Calls, Step(c) \/ CreateFails(c) \/ StoreFails(c) \/ Fault(c) \/ Strand(c)
      PROVE  BillingInv'
  BY <1>1, BillingCallSteps
<1>2. ASSUME NEW c \in Schedulers, TickStart(c)
      PROVE  BillingInv'
  BY <1>2, BillingConstants, StepTickStart
<1>3. ASSUME NEW c \in Servers, Customer(c)
      PROVE  BillingInv'
  <2>1. c \in Calls
    BY BillingConstants
  <2> QED
    BY <1>3, <2>1, StepSubscribe, StepChangePlan, StepCancel, StepRenew, StepReissue DEF Customer
<1>4. ASSUME NEW c \in Servers, NEW m \in mail, OnEvent(c, m)
      PROVE  BillingInv'
  BY <1>4, BillingConstants, StepOnEvent
<1>5. ASSUME NEW i \in Invoices, Pay(i) \/ LoseCharge(i)
      PROVE  BillingInv'
  BY <1>5, StepGateway
<1>6. CASE Advance
  BY <1>6, StepAdvance
<1>7. CASE UNCHANGED vars
  BY <1>7, BillingStutters
<1> QED
  BY <1>1, <1>2, <1>3, <1>4, <1>5, <1>6, <1>7 DEF Next

LEMMA BillingInvariant == Spec => []BillingInv
<1> QED
  BY BillingInit, BillingStep, PTL DEF Spec

\* No subscription is served for a period without a paid invoice of its own behind it:
\* on_paid's transaction is the only writer of a period, in every interleaving of
\* requests, webhooks, ticks, faults and lost charges.
THEOREM PeriodsArePaid == Spec => []PeriodIsPaid
<1>1. BillingInv => PeriodIsPaid
  BY DEF BillingInv
<1> QED
  BY <1>1, BillingInvariant, PTL

\* move_status puts a subscription into grace only after its period has ended, unless
\* a payment settled while the tick held the row it had selected.
THEOREM GraceMeansEnded == Spec => []GraceMeansEndedSerially
<1>1. BillingInv => GraceMeansEndedSerially
  BY DEF BillingInv, StatusOK, GraceMeansEndedSerially
<1> QED
  BY <1>1, BillingInvariant, PTL

\* Two invoices of a subscription, open or paid, never bill the same period, as long as
\* no payment settled in the middle of another call on it or beside another open invoice.
THEOREM PeriodsAreBilledOnce == Spec => []PeriodBilledOnceSerially
<1>1. BillingInv => PeriodBilledOnceSerially
  <2> SUFFICES ASSUME BillingInv, NEW s \in Subs, s \notin Off, NEW i \in Of(s), NEW j \in Of(s), i # j,
                      invs[i].status \in {"Open", "Paid"}, invs[j].status \in {"Open", "Paid"}
               PROVE  invs[i].start # invs[j].start
    BY DEF PeriodBilledOnceSerially, Off
  <2>1. i \in Invoices /\ j \in Invoices /\ invs[i].sub = s /\ invs[j].sub = s
    BY DEF Of
  <2>2. OpenOK /\ OpenApart /\ PaidApart
    BY DEF BillingInv
  <2>3. subs[s].end \in Nat /\ invs[i].start \in Nat /\ invs[j].start \in Nat
    BY <2>1 DEF BillingInv, Types, DataTypes, SubRow, InvoiceRow
  <2>4. /\ invs[i].status = "Open" => invs[i].start = subs[s].end \/ invs[i].start = 0
        /\ invs[j].status = "Open" => invs[j].start = subs[s].end \/ invs[j].start = 0
    BY <2>1, <2>2 DEF OpenOK
  <2>5. /\ invs[i].status = "Paid" => invs[i].start < subs[s].end /\ invs[i].start > 0
        /\ invs[j].status = "Paid" => invs[j].start < subs[s].end /\ invs[j].start > 0
    BY <2>1, <2>2 DEF PaidApart
  <2>6. CASE invs[i].status = "Open" /\ invs[j].status = "Open"
    BY <2>1, <2>2, <2>6 DEF OpenApart
  <2>7. CASE invs[i].status = "Paid" /\ invs[j].status = "Paid"
    BY <2>1, <2>2, <2>7 DEF PaidApart
  <2>8. CASE invs[i].status = "Open" /\ invs[j].status = "Paid"
    BY <2>3, <2>4, <2>5, <2>8
  <2>9. CASE invs[i].status = "Paid" /\ invs[j].status = "Open"
    BY <2>3, <2>4, <2>5, <2>9
  <2> QED
    BY <2>6, <2>7, <2>8, <2>9
<1> QED
  BY <1>1, BillingInvariant, PTL

\* The counters stay within the bounds, and what goes astray is an invoice.
Bounded == /\ clock <= MaxClock /\ requests <= MaxRequests /\ faults <= MaxFaults
           /\ astray \subseteq Invoices

Counted ==
    /\ clock' = clock \/ (clock < MaxClock /\ clock' = clock + 1)
    /\ requests' = requests \/ (requests > 0 /\ requests' = requests - 1)
    /\ faults' = faults \/ (faults > 0 /\ faults' = faults - 1)
    /\ astray' \subseteq astray \cup Invoices

LEMMA CallsCounted ==
    ASSUME BillingInv, NEW c \in Calls, Step(c)
    PROVE  Counted
<1>1. CASE Exists(c) \/ NextNumber(c) \/ Raise(c) \/ CreateCharge(c) \/ StoreCharge(c)
  BY <1>1 DEF Counted, Exists, NextNumber, Raise, CreateCharge, StoreCharge, budget
<1>2. CASE ListOpen(c) \/ Void(c) \/ Expire(c)
  <2>1. WellFormed(calls[c])
    BY CallsSound DEF Sound
  <2>2. /\ calls[c].at = "void" => calls[c].rows \subseteq Invoices
        /\ calls[c].at = "expire" => calls[c].i \in Invoices
    BY <2>1 DEF WellFormed, ByRow
  <2>3. ASSUME NEW i \in Invoices, Closed(i) PROVE astray' \subseteq astray \cup Invoices
    BY <2>3 DEF Closed
  <2>4. astray' \subseteq astray \cup Invoices
    <3>1. CASE ListOpen(c)
      BY <3>1 DEF ListOpen
    <3>2. CASE Void(c)
      BY <2>2, <2>3, <3>2 DEF Void
    <3>3. CASE Expire(c)
      BY <2>2, <2>3, <3>3 DEF Expire
    <3> QED
      BY <1>2, <3>1, <3>2, <3>3
  <2> QED
    BY <1>2, <2>4 DEF Counted, ListOpen, Void, Expire, budget
<1>3. CASE InsertSubscription(c) \/ Unlink(c) \/ RenewOpen(c)
  BY <1>3 DEF Counted, InsertSubscription, Unlink, RenewOpen, budget
<1>4. CASE SetNextPlan(c) \/ SetPlan(c) \/ Reraise(c) \/ FinishCancel(c)
  BY <1>4 DEF Counted, SetNextPlan, SetPlan, Reraise, FinishCancel, budget
<1>5. CASE TopUp(c) \/ Settle(c) \/ LostCloses(c) \/ LostForgets(c)
  BY <1>5 DEF Counted, TopUp, Settle, LostCloses, LostForgets, budget
<1>6. CASE Select(c) \/ EndPeriod(c) \/ EndGrace(c) \/ GraceOpen(c) \/ Pending(c) \/ ClosePending(c)
  BY <1>6 DEF Counted, Select, EndPeriod, EndGrace, GraceOpen, Pending, ClosePending, budget
<1> QED
  BY <1>1, <1>2, <1>3, <1>4, <1>5, <1>6 DEF Step

LEMMA StepsCounted == BillingInv /\ [Next]_vars => Counted
<1> SUFFICES ASSUME BillingInv, [Next]_vars
             PROVE  Counted
  OBVIOUS
<1>1. ASSUME NEW c \in Calls, Step(c) \/ CreateFails(c) \/ StoreFails(c) \/ Fault(c)
      PROVE  Counted
  BY <1>1, CallsCounted DEF CreateFails, StoreFails, Fault, Counted
<1>s. ASSUME NEW c \in Calls, Strand(c)
      PROVE  Counted
  <2>1. calls[c] \in Call /\ WellFormed(calls[c])
    BY CallsSound DEF Sound
  <2>2. calls[c].op = "paid" => calls[c].i \in Invoices
    BY <2>1 DEF WellFormed
  <2> QED
    BY <1>s, <2>2 DEF Strand, Counted
<1>2. ASSUME NEW c \in Schedulers, TickStart(c)
      PROVE  Counted
  BY <1>2 DEF TickStart, Counted, budget
<1>3. ASSUME NEW c \in Servers, Customer(c)
      PROVE  Counted
  <2>1. CASE \E p \in Plans : Subscribe(c, p)
    BY <2>1 DEF Subscribe, Counted, budget
  <2>2. CASE \E s \in Subs, p \in Plans : ChangePlan(c, s, p)
    BY <2>2 DEF ChangePlan, Request, Counted
  <2>3. CASE \E s \in Subs : Cancel(c, s) \/ CancelNow(c, s) \/ Renew(c, s)
    BY <2>3 DEF Cancel, CancelNow, Renew, Request, Counted
  <2>4. CASE \E i \in Invoices : Reissue(c, i)
    BY <2>4 DEF Reissue, Counted
  <2> QED
    BY <1>3, <2>1, <2>2, <2>3, <2>4 DEF Customer
<1>4. ASSUME NEW c \in Servers, NEW m \in mail, OnEvent(c, m)
      PROVE  Counted
  BY <1>4 DEF OnEvent, Counted, budget
<1>5. ASSUME NEW i \in Invoices, Pay(i) \/ LoseCharge(i)
      PROVE  Counted
  BY <1>5 DEF Pay, LoseCharge, Counted, budget
<1>6. CASE Advance
  BY <1>6 DEF Advance, Counted, budget
<1>7. CASE UNCHANGED vars
  BY <1>7 DEF vars, budget, Counted
<1> QED
  BY <1>1, <1>s, <1>2, <1>3, <1>4, <1>5, <1>6, <1>7 DEF Next

LEMMA BoundedStep == BillingInv /\ Bounded /\ [Next]_vars => Bounded'
<1> SUFFICES ASSUME BillingInv, Bounded, [Next]_vars
             PROVE  Bounded'
  OBVIOUS
<1>1. /\ clock \in Nat /\ requests \in Nat /\ faults \in Nat
      /\ MaxClock \in Nat /\ MaxRequests \in Nat /\ MaxFaults \in Nat
      /\ clock <= MaxClock /\ requests <= MaxRequests /\ faults <= MaxFaults
  BY BillingConstants DEF BillingInv, Types, DataTypes, Bounded
<1>2. Counted
  BY StepsCounted
<1> QED
  BY <1>1, <1>2 DEF Bounded, Counted

\* Rows, ledger, gateway and counters hold what their columns can hold, whatever the calls do.
THEOREM BillingTypes == Spec => []TypeOK
<1>1. Init => Bounded
  BY BillingConstants DEF Init, Bounded
<1>2. BillingInv /\ Bounded => TypeOK
  <2> SUFFICES ASSUME BillingInv, Bounded
               PROVE  TypeOK
    OBVIOUS
  <2>1. /\ DataTypes /\ \A s \in Subs : subs[s] \in SubRow /\ subs[s].id = s
        /\ \A i \in Invoices : invs[i] \in InvoiceRow
    BY PlainTypes DEF BillingInv, Types
  <2>2. clock \in 1..MaxClock /\ requests \in 0..MaxRequests /\ faults \in 0..MaxFaults
    BY <2>1, BillingConstants DEF DataTypes, Bounded
  <2>3. /\ topped \subseteq Invoices /\ payable \subseteq Invoices /\ overtaken \cup doubled \subseteq Subs
        /\ mail \subseteq {"paid", "lost"} \X Invoices /\ astray \subseteq Invoices
    BY <2>1 DEF DataTypes, Bounded
  <2>4. \A s \in Subs :
         /\ subs[s].id = s /\ subs[s].cancel \in BOOLEAN
         /\ subs[s].status \in {"None", "Pending", "Active", "Grace", "Suspended", "Cancelled"}
         /\ subs[s].plan \in Plans \cup {NoPlan} /\ subs[s].next \in Plans \cup {NoPlan}
         /\ subs[s].start \in Nat /\ subs[s].end \in Nat
    BY <2>1 DEF SubRow, Plan
  <2>5. \A i \in Invoices :
         /\ invs[i].status \in {"None", "Open", "Paid", "Void", "Expired"}
         /\ invs[i].sub \in Subs \cup {NoPlan} /\ invs[i].plan \in Plans \cup {NoPlan}
         /\ invs[i].number \in Nat /\ invs[i].start \in Nat /\ invs[i].due \in Nat
         /\ invs[i].charge \in BOOLEAN
    BY <2>1 DEF InvoiceRow, Plan
  <2> QED
    BY <2>2, <2>3, <2>4, <2>5 DEF TypeOK
<1> QED
  BY <1>1, <1>2, BoundedStep, BillingInvariant, PTL DEF Spec

-----------------------------------------------------------------------------
(* Credits and payments.                                                    *)

CreditsInv == CreditsMatchPayment /\ CreditsOK

\* The credits of i are in, or a call is about to pay for it.
Afoot(i) == i \in topped \/ \E d \in Calls : calls[d].op = "paid" /\ calls[d].i = i

\* A step that pays for nothing: no credits, no invoice paid, no new call on a payment,
\* and a payment that is afoot stays so unless it goes astray.
NoneCredited ==
    /\ topped' = topped /\ astray \subseteq astray'
    /\ \A i \in Invoices :
         /\ invs'[i].status = "Paid" <=> invs[i].status = "Paid"
         /\ invs'[i].status = "None" => invs[i].status = "None"
         /\ (Afoot(i) /\ i \notin astray' /\ Settling(i)) => Settling(i)'

NoneBegun == \A d \in Calls : calls'[d].op = "paid" => calls'[d] = calls[d]

LEMMA PaymentCalls ==
    ASSUME BillingInv, NEW d \in Calls, calls[d].op = "paid"
    PROVE  calls[d].i \in Invoices /\ invs[calls[d].i].status # "None"
<1>1. Sound(calls[d])
  BY CallsSound
<1> QED
  BY <1>1 DEF Sound, WellFormed, CallOK, PaidOK

LEMMA CreditsStand ==
    ASSUME BillingInv, CreditsInv, NoneCredited, NoneBegun
    PROVE  CreditsInv'
<1>1. CreditsMatchPayment'
  <2> SUFFICES ASSUME NEW i \in Invoices
               PROVE  /\ invs'[i].status = "Paid" => i \in topped'
                      /\ (i \in topped' /\ i \notin astray') => Settling(i)'
    BY DEF CreditsMatchPayment, Settling
  <2>1. invs'[i].status = "Paid" => i \in topped'
    BY DEF CreditsInv, CreditsMatchPayment, NoneCredited
  <2>2. (i \in topped /\ i \notin astray) => Settling(i)
    BY DEF CreditsInv, CreditsMatchPayment, Settling
  <2>3. (i \in topped' /\ i \notin astray') => Settling(i)'
    BY <2>2 DEF NoneCredited, Afoot
  <2> QED
    BY <2>1, <2>3
<1>2. \A i \in Invoices : invs'[i].status = "None" => i \notin topped'
  BY DEF CreditsInv, CreditsOK, NoneCredited
<1>3. ASSUME NEW d \in Calls, calls'[d].op = "paid", NEW i, i = calls'[d].i
      PROVE  /\ i \notin astray' => Settling(i)'
             /\ calls'[d].at = "settle" => i \in topped'
  <2>1. calls'[d] = calls[d]
    BY <1>3 DEF NoneBegun
  <2>2. i \in Invoices /\ i = calls[d].i /\ calls[d].op = "paid"
    BY <1>3, <2>1, PaymentCalls
  <2>3. /\ i \notin astray => Settling(i)
        /\ calls[d].at = "settle" => i \in topped
    BY <2>2 DEF CreditsInv, CreditsOK
  <2>4. Afoot(i)
    BY <2>2 DEF Afoot
  <2>5. i \notin astray' => Settling(i)'
    BY <2>2, <2>3, <2>4 DEF NoneCredited
  <2>6. calls[d].at = "settle" => i \in topped'
    BY <2>3 DEF NoneCredited
  <2> QED
    BY <2>1, <2>5, <2>6
<1>4. \A d \in Calls : calls'[d].op = "paid" =>
         /\ calls'[d].i \notin astray' =>
              invs'[calls'[d].i].status = "Paid" \/ (invs'[calls'[d].i].status = "Open" /\ <<"paid", calls'[d].i>> \in mail')
         /\ calls'[d].at = "settle" => calls'[d].i \in topped'
  BY <1>3 DEF Settling
<1> QED
  BY <1>1, <1>2, <1>4 DEF CreditsInv, CreditsOK, Settling

LEMMA NoPaymentBegun ==
    ASSUME BillingInv, NEW c \in Calls, NEW k, calls' = [calls EXCEPT ![c] = k], k.op # "paid"
    PROVE  NoneBegun
<1>1. calls \in [Calls -> Call]
  BY DEF BillingInv, Types
<1>2. \A d \in Calls : calls'[d] = IF d = c THEN k ELSE calls[d]
  BY <1>1
<1> QED
  BY <1>2 DEF NoneBegun

LEMMA OtherCalls ==
    ASSUME BillingInv, NEW c \in Calls, NEW k, Go(c, k), k.op # "paid"
    PROVE  NoneBegun
  BY NoPaymentBegun DEF Go

LEMMA OnwardIsNoPayment ==
    ASSUME NEW k, NEW rows
    PROVE  Onward(k, rows).op # "paid"
<1>1. Idle.op = "none"
  BY DEF Idle
<1>2. \A n, m : [Idle EXCEPT !.op = "tick", !.at = "select", !.phase = n, !.now = m].op = "tick"
  BY DEF Idle
<1>3. \A n, m : TakeRow(n, rows, m).op = "tick"
  BY DEF TakeRow, Idle
<1> QED
  BY <1>1, <1>2, <1>3 DEF Onward

\* One invoice is written, and not as paid.
LEMMA OneRowWritten ==
    ASSUME BillingInv, NEW i \in Invoices, NEW row, invs' = [invs EXCEPT ![i] = row], topped' = topped,
           astray \subseteq astray',
           \/ row.status = invs[i].status
           \/ row.status \in {"Void", "Expired"} /\ invs[i].status = "Open" /\ (Afoot(i) => i \in astray')
           \/ row.status = "Open" /\ invs[i].status = "None",
           \A j \in Invoices : <<"paid", j>> \in mail => <<"paid", j>> \in mail'
    PROVE  NoneCredited
<1>1. invs \in [Invoices -> InvoiceRow]
  BY DEF BillingInv, Types, DataTypes
<1>2. \A j \in Invoices : invs'[j] = IF j = i THEN row ELSE invs[j]
  BY <1>1
<1>3. \A j \in Invoices : (Afoot(j) /\ j \notin astray' /\ Settling(j)) => Settling(j)'
  BY <1>2 DEF Settling
<1> QED
  BY <1>2, <1>3 DEF NoneCredited

LEMMA NoInvoiceWritten ==
    ASSUME invs' = invs, topped' = topped, astray \subseteq astray',
           \A j \in Invoices : (<<"paid", j>> \in mail /\ invs[j].status = "Open")
                                 => <<"paid", j>> \in mail' \/ j \in astray'
    PROVE  NoneCredited
<1>1. \A j \in Invoices : (Afoot(j) /\ j \notin astray' /\ Settling(j)) => Settling(j)'
  BY DEF Settling
<1> QED
  BY <1>1 DEF NoneCredited

\* A call's own step on something else than a payment.
LEMMA OtherStepsCredit ==
    ASSUME BillingInv, NEW c \in Calls, Step(c), ~TopUp(c), ~Settle(c)
    PROVE  NoneCredited /\ NoneBegun
<1>1. PICK k : k = calls[c]
  OBVIOUS
<1>2. k \in Call /\ WellFormed(k)
  BY <1>1, CallsSound DEF Sound
<1>o. Onward(k, k.rows).op # "paid" /\ Onward(k, Selected(k.phase, k.now)).op # "paid" /\ Idle.op # "paid"
  BY OnwardIsNoPayment DEF Idle
<1>p. \A i, j : <<"paid", i>> # <<"lost", j>>
  OBVIOUS
<1>3. CASE Exists(c) \/ NextNumber(c) \/ CreateCharge(c) \/ ListOpen(c) \/ RenewOpen(c)
  <2>1. NoneCredited
    BY <1>3, NoInvoiceWritten DEF Exists, NextNumber, CreateCharge, ListOpen, RenewOpen
  <2>2. k.at \in {"exists", "number", "create", "list", "open"}
    BY <1>1, <1>3 DEF Exists, NextNumber, CreateCharge, ListOpen, RenewOpen
  <2>3. k.op # "paid"
    BY <1>2, <2>2 DEF WellFormed
  <2>4. PICK j1 : j1 = [k EXCEPT !.at = "number", !.plan = PlanOf(k.row), !.start = k.row.end]
    OBVIOUS
  <2>5. PICK j2 : j2 = [k EXCEPT !.at = "raise", !.number = 1 + Max({0} \cup {invs[i].number : i \in Of(k.sub)})]
    OBVIOUS
  <2>6. PICK j3 : j3 = [k EXCEPT !.at = "void", !.rows = OpenOf(k.sub)]
    OBVIOUS
  <2>7. PICK j4 : j4 = [k EXCEPT !.at = "store"]
    OBVIOUS
  <2>8. PICK j5 : j5 = [k EXCEPT !.at = "number", !.now = clock]
    OBVIOUS
  <2>9. j1.op = k.op /\ j2.op = k.op /\ j3.op = k.op /\ j4.op = k.op /\ j5.op = k.op
    BY <1>2, <2>4, <2>5, <2>6, <2>7, <2>8 DEF Call
  <2>10. \/ Go(c, Onward(k, k.rows)) \/ Go(c, Idle) \/ Go(c, j1)
         \/ Go(c, j2) \/ Go(c, j3) \/ Go(c, j4) \/ Go(c, j5)
    <3>1. CASE Exists(c)
      BY <1>1, <2>4, <3>1 DEF Exists
    <3>2. CASE NextNumber(c)
      BY <1>1, <2>5, <3>2 DEF NextNumber
    <3>3. CASE ListOpen(c)
      BY <1>1, <2>6, <3>3 DEF ListOpen
    <3>4. CASE CreateCharge(c) \/ RenewOpen(c)
      BY <1>1, <2>7, <2>8, <3>4 DEF CreateCharge, RenewOpen
    <3> QED
      BY <1>3, <3>1, <3>2, <3>3, <3>4
  <2> QED
    BY <1>o, <2>1, <2>3, <2>9, <2>10, OtherCalls
<1>4. CASE Raise(c)
  <2>1. PICK fresh : fresh = {i \in Invoices : invs[i].status = "None"}
    OBVIOUS
  <2>2. k.at = "raise" /\ k.op # "paid" /\ topped' = topped /\ mail' = mail /\ astray' = astray
    BY <1>1, <1>2, <1>4 DEF Raise, WellFormed
  <2>3. CASE Admits(k) /\ fresh # {}
    <3>1. PICK i \in Invoices : i = Min(fresh) /\ invs[i].status = "None"
      <4>1. fresh \subseteq Nat /\ fresh # {}
        BY <2>1, <2>3 DEF Invoices
      <4>2. Min(fresh) \in fresh
        BY <4>1, LeastOf
      <4> QED
        BY <2>1, <4>2
    <3>2. PICK row : row.status = "Open" /\ invs' = [invs EXCEPT ![i] = row]
      BY <1>1, <1>4, <2>1, <2>3, <3>1 DEF Raise
    <3>3. NoneCredited
      BY <2>2, <3>1, <3>2, OneRowWritten
    <3>4. PICK j : j = [Idle EXCEPT !.op = k.op, !.at = "create", !.phase = k.phase, !.rows = k.rows,
                                    !.i = i, !.sub = k.sub, !.now = k.now]
      OBVIOUS
    <3>5. j.op = k.op
      BY <3>4 DEF Idle
    <3>6. Go(c, j)
      BY <1>1, <1>4, <2>1, <2>3, <3>1, <3>4 DEF Raise
    <3> QED
      BY <2>2, <3>3, <3>5, <3>6, OtherCalls
  <2>4. CASE ~(Admits(k) /\ fresh # {})
    <3>1. Go(c, Onward(k, k.rows)) /\ invs' = invs
      BY <1>1, <1>4, <2>1, <2>4 DEF Raise
    <3> QED
      BY <1>o, <2>2, <3>1, NoInvoiceWritten, OtherCalls
  <2> QED
    BY <2>3, <2>4
<1>5. CASE StoreCharge(c) \/ Unlink(c) \/ LostForgets(c)
  <2>1. k.at \in {"store", "unlink", "forget"} /\ topped' = topped /\ astray' = astray
    BY <1>1, <1>5 DEF StoreCharge, Unlink, LostForgets
  <2>2. k.i \in Invoices /\ k.op # "paid"
    BY <1>2, <2>1 DEF WellFormed
  <2>3. mail' = mail \/ mail' = mail \ {<<"lost", k.i>>}
    BY <1>1, <1>5 DEF StoreCharge, Unlink, LostForgets
  <2>4. \A j \in Invoices : <<"paid", j>> \in mail => <<"paid", j>> \in mail'
    BY <1>p, <2>3
  <2>5. \/ invs' = invs
        \/ invs' = [invs EXCEPT ![k.i] = [invs[k.i] EXCEPT !.charge = TRUE]]
        \/ invs' = [invs EXCEPT ![k.i] = [invs[k.i] EXCEPT !.charge = FALSE]]
    BY <1>1, <1>5 DEF StoreCharge, Unlink, LostForgets
  <2>6. /\ [invs[k.i] EXCEPT !.charge = TRUE].status = invs[k.i].status
        /\ [invs[k.i] EXCEPT !.charge = FALSE].status = invs[k.i].status
    BY <2>2, PlainTypes DEF InvoiceRow
  <2>7. NoneCredited
    BY <2>1, <2>2, <2>4, <2>5, <2>6, NoInvoiceWritten, OneRowWritten
  <2>8. [k EXCEPT !.at = "create"].op = k.op
    BY <1>2 DEF Call
  <2>9. Go(c, Onward(k, k.rows)) \/ Go(c, Idle) \/ Go(c, [k EXCEPT !.at = "create"])
    BY <1>1, <1>5 DEF StoreCharge, Unlink, LostForgets
  <2> QED
    BY <1>o, <2>2, <2>7, <2>8, <2>9, OtherCalls
<1>6. CASE Void(c)
  <2>1. k.at = "void" /\ k.op # "paid" /\ k.rows \subseteq Invoices /\ topped' = topped /\ mail' = mail
    BY <1>1, <1>2, <1>6 DEF Void, WellFormed, ByRow
  <2>2. PICK i \in k.rows :
           IF invs[i].status = "Open"
           THEN /\ invs' = [invs EXCEPT ![i] = Turned(i, "Void")]
                /\ CancelCharge(i) /\ Closed(i)
                /\ Go(c, [k EXCEPT !.rows = k.rows \ {i}, !.i = i])
           ELSE /\ Go(c, [k EXCEPT !.rows = k.rows \ {i}])
                /\ UNCHANGED <<invs, payable, astray>>
    BY <1>1, <1>6 DEF Void
  <2>3. i \in Invoices /\ Turned(i, "Void").status = "Void"
    BY <2>1, PlainTypes DEF Turned, InvoiceRow
  <2>c. Closed(i) => astray \subseteq astray' /\ (Afoot(i) => i \in astray')
    BY DEF Closed, Afoot
  <2>4. NoneCredited
    <3>1. CASE invs[i].status = "Open"
      BY <2>1, <2>2, <2>3, <2>c, <3>1, OneRowWritten
    <3>2. CASE invs[i].status # "Open"
      BY <2>1, <2>2, <3>2, NoInvoiceWritten
    <3> QED
      BY <3>1, <3>2
  <2>5. [k EXCEPT !.rows = k.rows \ {i}, !.i = i].op = k.op /\ [k EXCEPT !.rows = k.rows \ {i}].op = k.op
    BY <1>2 DEF Call
  <2> QED
    BY <2>1, <2>2, <2>4, <2>5, OtherCalls
<1>7. CASE Expire(c)
  <2>1. k.at = "expire" /\ k.op # "paid" /\ k.i \in Invoices /\ topped' = topped /\ mail' = mail
    BY <1>1, <1>2, <1>7 DEF Expire, WellFormed
  <2>2. \/ invs' = invs /\ astray' = astray
        \/ invs[k.i].status = "Open" /\ invs' = [invs EXCEPT ![k.i] = Turned(k.i, "Expired")] /\ Closed(k.i)
    BY <1>1, <1>7 DEF Expire
  <2>3. Turned(k.i, "Expired").status = "Expired"
    BY <2>1, PlainTypes DEF Turned, InvoiceRow
  <2>c. Closed(k.i) => astray \subseteq astray' /\ (Afoot(k.i) => k.i \in astray')
    BY DEF Closed, Afoot
  <2>4. NoneCredited
    BY <2>1, <2>2, <2>3, <2>c, NoInvoiceWritten, OneRowWritten
  <2>5. [k EXCEPT !.at = "close"].op = k.op
    BY <1>2 DEF Call
  <2>6. Go(c, Onward(k, k.rows)) \/ Go(c, [k EXCEPT !.at = "close"])
    BY <1>1, <1>7 DEF Expire
  <2> QED
    BY <1>o, <2>1, <2>4, <2>5, <2>6, OtherCalls
<1>8. CASE InsertSubscription(c) \/ SetNextPlan(c) \/ SetPlan(c) \/ Reraise(c) \/ FinishCancel(c)
  <2>1. NoneCredited
    BY <1>8, NoInvoiceWritten DEF InsertSubscription, SetNextPlan, SetPlan, Reraise, FinishCancel
  <2>2. k.at \in {"insert", "next", "void"}
    BY <1>1, <1>8 DEF InsertSubscription, SetNextPlan, SetPlan, Reraise, FinishCancel
  <2>3. k.op # "paid"
    BY <1>2, <2>2 DEF WellFormed
  <2>4. ASSUME NEW s, NEW j, j = [k EXCEPT !.at = "raise", !.sub = s, !.number = 1] PROVE j.op = k.op
    BY <1>2, <2>4 DEF Call
  <2>5. ASSUME NEW r, NEW j, j = [k EXCEPT !.at = "exists", !.row = r] PROVE j.op = k.op
    BY <1>2, <2>5 DEF Call
  <2>6. [k EXCEPT !.at = "list"].op = k.op /\ [k EXCEPT !.at = "number"].op = k.op
    BY <1>2 DEF Call
  <2>7. CASE InsertSubscription(c)
    <3>1. PICK s \in Subs : Go(c, [k EXCEPT !.at = "raise", !.sub = s, !.number = 1])
      BY <1>1, <2>7 DEF InsertSubscription
    <3>2. PICK j : j = [k EXCEPT !.at = "raise", !.sub = s, !.number = 1]
      OBVIOUS
    <3> QED
      BY <2>1, <2>3, <2>4, <3>1, <3>2, OtherCalls
  <2>8. CASE Reraise(c)
    <3>1. PICK next : next = IF k.plan = k.row.plan THEN NoPlan ELSE k.plan
      OBVIOUS
    <3>2. PICK r : r = [subs[k.sub] EXCEPT !.next = next]
      OBVIOUS
    <3>3. PICK j : j = [k EXCEPT !.at = "exists", !.row = r]
      OBVIOUS
    <3>4. Go(c, Idle) \/ Go(c, j)
      BY <1>1, <2>8, <3>1, <3>2, <3>3 DEF Reraise
    <3> QED
      BY <1>o, <2>1, <2>3, <2>5, <3>3, <3>4, OtherCalls
  <2>9. CASE SetNextPlan(c) \/ SetPlan(c) \/ FinishCancel(c)
    <3>1. Go(c, [k EXCEPT !.at = "list"]) \/ Go(c, [k EXCEPT !.at = "number"]) \/ Go(c, Idle)
      BY <1>1, <2>9 DEF SetNextPlan, SetPlan, FinishCancel
    <3> QED
      BY <1>o, <2>1, <2>3, <2>6, <3>1, OtherCalls
  <2> QED
    BY <1>8, <2>7, <2>8, <2>9
<1>9. CASE LostCloses(c) \/ Select(c) \/ EndPeriod(c) \/ EndGrace(c)
  <2>1. k.at \in {"close", "select", "end", "grace"} /\ invs' = invs /\ topped' = topped /\ astray' = astray
    BY <1>1, <1>9 DEF LostCloses, Select, EndPeriod, EndGrace
  <2>2. mail' = mail \/ mail' = mail \ {<<"lost", k.i>>}
    BY <1>1, <1>9 DEF LostCloses, Select, EndPeriod, EndGrace
  <2>3. NoneCredited
    BY <1>p, <2>1, <2>2, NoInvoiceWritten
  <2>4. k.op # "paid"
    BY <1>2, <2>1 DEF WellFormed
  <2>5. [k EXCEPT !.at = "open"].op = k.op
    BY <1>2 DEF Call
  <2>6. Go(c, Onward(k, k.rows)) \/ Go(c, Onward(k, Selected(k.phase, k.now))) \/ Go(c, Idle) \/ Go(c, [k EXCEPT !.at = "open"])
    BY <1>1, <1>9 DEF LostCloses, Select, EndPeriod, EndGrace
  <2> QED
    BY <1>o, <2>3, <2>4, <2>5, <2>6, OtherCalls
<1>10. CASE GraceOpen(c) \/ Pending(c) \/ ClosePending(c)
  <2>1. k.at \in {"close", "open", "pending"} /\ invs' = invs /\ topped' = topped /\ mail' = mail /\ astray' = astray
    BY <1>1, <1>10 DEF GraceOpen, Pending, ClosePending
  <2>2. NoneCredited
    BY <2>1, NoInvoiceWritten
  <2>3. k.op # "paid"
    BY <1>2, <2>1 DEF WellFormed
  <2>4. PICK j1 : j1 = [k EXCEPT !.at = "expire", !.i = OpenInvoice(k.sub)]
    OBVIOUS
  <2>5. PICK j2 : j2 = [k EXCEPT !.at = "close", !.i = OpenInvoice(k.sub)]
    OBVIOUS
  <2>6. j1.op = k.op /\ j2.op = k.op /\ [k EXCEPT !.at = "close"].op = k.op /\ [k EXCEPT !.at = "expire"].op = k.op
    BY <1>2, <2>4, <2>5 DEF Call
  <2>7. \/ Go(c, Onward(k, k.rows)) \/ Go(c, j1) \/ Go(c, j2)
        \/ Go(c, [k EXCEPT !.at = "close"]) \/ Go(c, [k EXCEPT !.at = "expire"])
    <3>1. CASE GraceOpen(c)
      BY <1>1, <2>4, <3>1 DEF GraceOpen
    <3>2. CASE Pending(c)
      BY <1>1, <2>5, <3>2 DEF Pending
    <3>3. CASE ClosePending(c)
      BY <1>1, <3>3 DEF ClosePending
    <3> QED
      BY <1>10, <3>1, <3>2, <3>3
  <2> QED
    BY <1>o, <2>2, <2>3, <2>6, <2>7, OtherCalls
<1> QED
  BY <1>3, <1>4, <1>5, <1>6, <1>7, <1>8, <1>9, <1>10 DEF Step

LEMMA CreditsTopUp ==
    ASSUME BillingInv, CreditsInv, NEW c \in Calls, TopUp(c)
    PROVE  CreditsInv'
<1>1. PICK k : k = calls[c]
  OBVIOUS
<1>2. k \in Call /\ WellFormed(k) /\ k.at = "topup" /\ k.op = "paid"
  BY <1>1, CallsSound DEF TopUp, Sound, WellFormed
<1>3. PICK i \in Invoices : i = k.i /\ invs[i].status # "None"
  BY <1>1, <1>2, PaymentCalls
<1>4. i \notin astray => Settling(i)
  BY <1>1, <1>2, <1>3 DEF CreditsInv, CreditsOK
<1>5. topped' = topped \cup {i} /\ invs' = invs /\ mail' = mail /\ astray' = astray
  BY <1>1, <1>3 DEF TopUp
<1>6. PICK j : j = [k EXCEPT !.at = "settle"]
  OBVIOUS
<1>7. j.i = i
  BY <1>2, <1>3, <1>6 DEF Call
<1>8. \A d \in Calls : calls'[d] = IF d = c THEN j ELSE calls[d]
  BY <1>1, <1>6 DEF TopUp, Go, BillingInv, Types
<1>s. \A n : Settling(n)' <=> Settling(n)
  BY <1>5 DEF Settling
<1>9. CreditsMatchPayment'
  BY <1>4, <1>5 DEF CreditsInv, CreditsMatchPayment, Settling
<1>10. \A n \in Invoices : invs'[n].status = "None" => n \notin topped'
  BY <1>3, <1>5 DEF CreditsInv, CreditsOK
<1>11. ASSUME NEW d \in Calls, calls'[d].op = "paid"
       PROVE  /\ calls'[d].i \notin astray => Settling(calls'[d].i)
              /\ calls'[d].at = "settle" => calls'[d].i \in topped'
  <2>1. CASE d = c
    BY <1>4, <1>5, <1>7, <1>8, <2>1
  <2>2. CASE d # c
    BY <1>5, <1>8, <1>11, <2>2 DEF CreditsInv, CreditsOK
  <2> QED
    BY <2>1, <2>2
<1> QED
  BY <1>5, <1>9, <1>10, <1>11 DEF CreditsInv, CreditsOK, Settling

LEMMA CreditsSettle ==
    ASSUME BillingInv, CreditsInv, NEW c \in Calls, Settle(c)
    PROVE  CreditsInv'
<1>1. PICK k : k = calls[c]
  OBVIOUS
<1>2. k \in Call /\ WellFormed(k) /\ k.at = "settle" /\ k.op = "paid"
  BY <1>1, CallsSound DEF Settle, Sound, WellFormed
<1>3. PICK i \in Invoices : i = k.i
  BY <1>1, <1>2, PaymentCalls
<1>4. i \in topped
  BY <1>1, <1>2, <1>3 DEF CreditsInv, CreditsOK
<1>u. i \notin astray => Settling(i)
  BY <1>1, <1>2, <1>3 DEF CreditsInv, CreditsOK
<1>5. topped' = topped /\ mail' = mail \ {<<"paid", i>>} /\ astray' = astray
  BY <1>1, <1>3 DEF Settle
<1>6. /\ \A j \in Invoices : j # i => invs'[j] = invs[j]
      /\ invs'[i].status # "Open" /\ (invs'[i].status = "None" => invs[i].status = "None")
      /\ invs[i].status \in {"Open", "Paid"} => invs'[i].status = "Paid"
  <2>1. CASE invs[i].status = "Open"
    <3>1. PICK row : row = [Turned(i, "Paid") EXCEPT !.start = k.start, !.end = k.start + Cycle]
      OBVIOUS
    <3>2. invs' = [invs EXCEPT ![i] = row]
      BY <1>1, <1>3, <2>1, <3>1 DEF Settle
    <3>3. PICK paid : paid = Turned(i, "Paid")
      OBVIOUS
    <3>4. paid \in InvoiceRow /\ paid.status = "Paid"
      BY <3>3, PlainTypes DEF Turned, InvoiceRow
    <3>5. row.status = "Paid"
      BY <3>1, <3>3, <3>4 DEF InvoiceRow
    <3>6. invs \in [Invoices -> InvoiceRow]
      BY DEF BillingInv, Types, DataTypes
    <3> QED
      BY <3>2, <3>5, <3>6
  <2>2. CASE invs[i].status # "Open"
    BY <1>1, <1>3, <2>2 DEF Settle
  <2> QED
    BY <2>1, <2>2
<1>7. \A j \in Invoices : (j # i /\ <<"paid", j>> \in mail) => <<"paid", j>> \in mail'
  BY <1>5
<1>8. \A d \in Calls : calls'[d] = calls[d] \/ calls'[d].op # "paid"
  BY DEF Settle, Go, Idle, BillingInv, Types
<1>s. \A j \in Invoices : Settling(j) => Settling(j)'
  <2> SUFFICES ASSUME NEW j \in Invoices, Settling(j) PROVE Settling(j)'
    OBVIOUS
  <2>1. CASE j = i
    BY <1>6, <2>1 DEF Settling
  <2>2. CASE j # i
    BY <1>6, <1>7, <2>2 DEF Settling
  <2> QED
    BY <2>1, <2>2
<1>9. CreditsMatchPayment'
  <2> SUFFICES ASSUME NEW j \in Invoices
               PROVE  /\ invs'[j].status = "Paid" => j \in topped'
                      /\ (j \in topped' /\ j \notin astray') => Settling(j)'
    BY DEF CreditsMatchPayment, Settling
  <2>1. (j \in topped /\ j \notin astray) => Settling(j)
    BY DEF CreditsInv, CreditsMatchPayment, Settling
  <2>2. invs'[j].status = "Paid" => j \in topped'
    BY <1>4, <1>5, <1>6 DEF CreditsInv, CreditsMatchPayment
  <2> QED
    BY <1>5, <1>s, <2>1, <2>2
<1>10. \A j \in Invoices : invs'[j].status = "None" => j \notin topped'
  BY <1>5, <1>6 DEF CreditsInv, CreditsOK
<1>11. ASSUME NEW d \in Calls, calls'[d].op = "paid"
       PROVE  /\ calls'[d].i \notin astray' =>
                   \/ invs'[calls'[d].i].status = "Paid"
                   \/ invs'[calls'[d].i].status = "Open" /\ <<"paid", calls'[d].i>> \in mail'
              /\ calls'[d].at = "settle" => calls'[d].i \in topped'
  <2>1. calls'[d] = calls[d]
    BY <1>8, <1>11
  <2>2. PICK j \in Invoices : j = calls[d].i
    BY <1>11, <2>1, PaymentCalls
  <2>3. /\ j \notin astray => Settling(j)
        /\ calls[d].at = "settle" => j \in topped
    BY <1>11, <2>1, <2>2 DEF CreditsInv, CreditsOK
  <2>4. /\ j \notin astray' => Settling(j)'
        /\ calls[d].at = "settle" => j \in topped'
    BY <1>5, <1>s, <2>3
  <2> QED
    BY <2>1, <2>2, <2>4 DEF Settling
<1> QED
  BY <1>9, <1>10, <1>11 DEF CreditsInv, CreditsOK, Settling

LEMMA CreditsOnEvent ==
    ASSUME BillingInv, CreditsInv, NEW c \in Calls, NEW m \in mail, OnEvent(c, m)
    PROVE  CreditsInv'
<1>1. PICK i \in Invoices : i = m[2] /\ (m[1] = "paid" => m = <<"paid", i>>)
  BY DEF BillingInv, Types, DataTypes
<1>2. invs' = invs /\ topped' = topped /\ astray' = astray
  BY DEF OnEvent
<1>3. CASE invs[i].status # "Open"
  <2>1. calls' = calls /\ mail' = mail \ {m}
    BY <1>1, <1>3 DEF OnEvent
  <2>2. \A j \in Invoices : (<<"paid", j>> \in mail /\ invs[j].status = "Open") => <<"paid", j>> \in mail'
    <3> SUFFICES ASSUME NEW j \in Invoices, <<"paid", j>> \in mail, invs[j].status = "Open"
                 PROVE  m # <<"paid", j>>
      BY <2>1
    <3> QED
      BY <1>1, <1>3
  <2> QED
    BY <1>2, <2>1, <2>2, NoInvoiceWritten, CreditsStand DEF NoneBegun
<1>4. CASE invs[i].status = "Open" /\ m[1] # "paid"
  <2>1. Go(c, LostCall(i)) /\ mail' = mail
    BY <1>1, <1>4 DEF OnEvent
  <2>2. LostCall(i).op # "paid"
    BY DEF LostCall, Idle
  <2> QED
    BY <1>2, <2>1, <2>2, NoInvoiceWritten, OtherCalls, CreditsStand
<1>5. CASE invs[i].status = "Open" /\ m[1] = "paid"
  <2>1. PICK j : j = PaidCall(i)
    OBVIOUS
  <2>2. j.i = i /\ j.at = "topup"
    BY <2>1 DEF PaidCall, Idle
  <2>3. Go(c, j) /\ mail' = mail /\ <<"paid", i>> \in mail
    BY <1>1, <1>5, <2>1 DEF OnEvent
  <2>4. \A d \in Calls : calls'[d] = IF d = c THEN j ELSE calls[d]
    BY <2>3 DEF Go, BillingInv, Types
  <2>5. ASSUME NEW d \in Calls, calls'[d].op = "paid"
        PROVE  /\ calls'[d].i \notin astray' => Settling(calls'[d].i)
               /\ calls'[d].at = "settle" => calls'[d].i \in topped'
    <3>1. CASE d = c
      BY <1>5, <2>2, <2>3, <2>4, <3>1 DEF Settling
    <3>2. CASE d # c
      BY <1>2, <2>3, <2>4, <2>5, <3>2 DEF CreditsInv, CreditsOK
    <3> QED
      BY <3>1, <3>2
  <2>6. CreditsMatchPayment' /\ \A n \in Invoices : invs'[n].status = "None" => n \notin topped'
    BY <1>2, <2>3 DEF CreditsInv, CreditsMatchPayment, CreditsOK
  <2> QED
    BY <1>2, <2>3, <2>5, <2>6 DEF CreditsInv, CreditsOK, Settling
<1> QED
  BY <1>3, <1>4, <1>5

LEMMA CreditsStep == BillingInv /\ CreditsInv /\ [Next]_vars => CreditsInv'
<1> SUFFICES ASSUME BillingInv, CreditsInv, [Next]_vars
             PROVE  CreditsInv'
  OBVIOUS
<1>o. Idle.op # "paid" /\ \A k, rows : Onward(k, rows).op # "paid"
  BY OnwardIsNoPayment DEF Idle
<1>1. ASSUME NEW c \in Calls, Step(c)
      PROVE  CreditsInv'
  <2>1. CASE TopUp(c) \/ Settle(c)
    BY <2>1, CreditsTopUp, CreditsSettle
  <2>2. CASE ~TopUp(c) /\ ~Settle(c)
    BY <1>1, <2>2, OtherStepsCredit, CreditsStand
  <2> QED
    BY <2>1, <2>2
<1>s. ASSUME NEW c \in Calls, Strand(c)
      PROVE  CreditsInv'
  <2>1. PICK k : k = calls[c]
    OBVIOUS
  <2>2. invs' = invs /\ topped' = topped /\ mail' = mail \ {<<k.op, k.i>>} /\ k.op \in {"paid", "lost"}
    BY <1>s, <2>1 DEF Strand
  <2>3. astray' = IF k.op = "paid" THEN astray \cup {k.i} ELSE astray
    BY <1>s, <2>1 DEF Strand
  <2>4. \A j \in Invoices : <<"paid", j>> \in mail => <<"paid", j>> \in mail' \/ j \in astray'
    BY <2>2, <2>3
  <2>5. calls' = [calls EXCEPT ![c] = Idle]
    BY <1>s DEF Strand, Go
  <2> QED
    BY <1>o, <2>2, <2>3, <2>4, <2>5, NoInvoiceWritten, NoPaymentBegun, CreditsStand
<1>2. ASSUME NEW c \in Calls, CreateFails(c) \/ StoreFails(c) \/ Fault(c)
      PROVE  CreditsInv'
  <2>1. PICK k : k = calls[c]
    OBVIOUS
  <2>2. invs' = invs /\ topped' = topped /\ mail' = mail /\ astray' = astray
    BY <1>2 DEF CreateFails, StoreFails, Fault
  <2>3. calls' = [calls EXCEPT ![c] = Idle] \/ calls' = [calls EXCEPT ![c] = Onward(k, k.rows)]
    BY <1>2, <2>1 DEF CreateFails, StoreFails, Fault, Go
  <2> QED
    BY <1>o, <2>2, <2>3, NoInvoiceWritten, NoPaymentBegun, CreditsStand
<1>3. ASSUME NEW c \in Schedulers, TickStart(c)
      PROVE  CreditsInv'
  <2>1. c \in Calls /\ invs' = invs /\ topped' = topped /\ mail' = mail /\ astray' = astray
    BY <1>3, BillingConstants DEF TickStart
  <2>2. PICK j : j = [Idle EXCEPT !.op = "tick", !.at = "select", !.phase = 1, !.now = clock]
    OBVIOUS
  <2>3. Go(c, j) /\ j.op # "paid"
    BY <1>3, <2>2 DEF TickStart, Idle
  <2> QED
    BY <2>1, <2>3, NoInvoiceWritten, OtherCalls, CreditsStand
<1>4. ASSUME NEW c \in Servers, Customer(c)
      PROVE  CreditsInv'
  <2>1. c \in Calls
    BY BillingConstants
  <2>2. ASSUME NEW op, op # "paid", NEW s, NEW at, NEW p, Request(c, op, s, at, p)
        PROVE  CreditsInv'
    <3>1. PICK j : j = Opening(op, at, s, p)
      OBVIOUS
    <3>2. j.op = op
      BY <3>1 DEF Opening, Idle
    <3>3. Go(c, j) /\ invs' = invs /\ topped' = topped /\ mail' = mail /\ astray' = astray
      BY <2>2, <3>1 DEF Request, Opening
    <3> QED
      BY <2>1, <2>2, <3>2, <3>3, NoInvoiceWritten, OtherCalls, CreditsStand
  <2>3. ASSUME NEW p \in Plans, Subscribe(c, p)
        PROVE  CreditsInv'
    <3>1. PICK j : j = [Idle EXCEPT !.op = "subscribe", !.at = "insert", !.plan = p, !.now = clock]
      OBVIOUS
    <3>2. j.op # "paid"
      BY <3>1 DEF Idle
    <3>3. Go(c, j) /\ invs' = invs /\ topped' = topped /\ mail' = mail /\ astray' = astray
      BY <2>3, <3>1 DEF Subscribe
    <3> QED
      BY <2>1, <3>2, <3>3, NoInvoiceWritten, OtherCalls, CreditsStand
  <2>4. ASSUME NEW i \in Invoices, Reissue(c, i)
        PROVE  CreditsInv'
    <3>1. PICK j : j = [Idle EXCEPT !.op = "reissue", !.at = "unlink", !.sub = invs[i].sub, !.i = i]
      OBVIOUS
    <3>2. j.op # "paid"
      BY <3>1 DEF Idle
    <3>3. Go(c, j) /\ invs' = invs /\ topped' = topped /\ mail' = mail /\ astray' = astray
      BY <2>4, <3>1 DEF Reissue
    <3> QED
      BY <2>1, <3>2, <3>3, NoInvoiceWritten, OtherCalls, CreditsStand
  <2>5. ASSUME NEW s \in Subs, NEW p \in Plans, ChangePlan(c, s, p)
        PROVE  CreditsInv'
    BY <2>2, <2>5 DEF ChangePlan
  <2>6. ASSUME NEW s \in Subs, Cancel(c, s) \/ CancelNow(c, s) \/ Renew(c, s)
        PROVE  CreditsInv'
    BY <2>2, <2>6 DEF Cancel, CancelNow, Renew
  <2> QED
    BY <1>4, <2>3, <2>4, <2>5, <2>6 DEF Customer
<1>5. ASSUME NEW c \in Servers, NEW m \in mail, OnEvent(c, m)
      PROVE  CreditsInv'
  BY <1>5, BillingConstants, CreditsOnEvent
<1>6. CASE (\E i \in Invoices : Pay(i) \/ LoseCharge(i)) \/ Advance \/ UNCHANGED vars
  <2>1. invs' = invs /\ topped' = topped /\ calls' = calls /\ mail \subseteq mail' /\ astray' = astray
    BY <1>6 DEF Pay, LoseCharge, Advance, vars
  <2> QED
    BY <2>1, NoInvoiceWritten, CreditsStand DEF NoneBegun
<1> QED
  BY <1>1, <1>s, <1>2, <1>3, <1>4, <1>5, <1>6 DEF Next

\* on_paid's top-up and its transaction, however they are repeated or fail: an invoice
\* marked paid has its credits in the ledger, and credits that are in belong to a paid
\* invoice, or to an open one whose event is outstanding and completes the payment when
\* it comes again; but for the payments that a crash cut off for good, or whose invoice
\* another call closed while they were under way.
THEOREM CreditsAndPaymentsMatch == Spec => []CreditsMatchPayment
<1>1. Init => CreditsInv
  <2>1. Init => /\ topped = {} /\ \A i \in Invoices : invs[i].status = "None"
                /\ \A c \in Calls : calls[c].op = "none"
    BY DEF Init, NoInvoice, Idle
  <2> QED
    BY <2>1 DEF CreditsInv, CreditsMatchPayment, CreditsOK
<1>2. CreditsInv => CreditsMatchPayment
  BY DEF CreditsInv
<1> QED
  BY <1>1, <1>2, CreditsStep, BillingInvariant, PTL DEF Spec

-----------------------------------------------------------------------------
(***************************************************************************)
(* A tick that runs by itself.  Its five loops come one after the other;    *)
(* what an earlier one was for stays done, and what is left of this one is  *)
(* among the rows still to come or is the row in hand.                      *)
(***************************************************************************)
Renewal(now, s) ==
    /\ subs[s].status = "Active" /\ ~subs[s].cancel /\ subs[s].end <= now + Lead
    /\ \A i \in Of(s) : ~(invs[i].start = subs[s].end /\ invs[i].status \in {"Open", "Paid"})
    /\ \E i \in Invoices : invs[i].status = "None"
Chargeless(i) == invs[i].status = "Open" /\ ~invs[i].charge
Ended(now, s)     == subs[s].status = "Active" /\ subs[s].end <= now
GraceOver(now, s) == subs[s].status = "Grace" /\ subs[s].end + Grace <= now
Unpaid(now, s)    == subs[s].status = "Pending" /\ \A i \in OpenOf(s) : invs[i].due <= now

\* Loop p has something to do about x, a subscription or, in the second loop, an invoice.
DueIn(now, p, x) ==
    \/ p = 1 /\ x \in Subs /\ Renewal(now, x)
    \/ p = 2 /\ x \in Invoices /\ Chargeless(x)
    \/ p = 3 /\ x \in Subs /\ Ended(now, x)
    \/ p = 4 /\ x \in Subs /\ GraceOver(now, x)
    \/ p = 5 /\ x \in Subs /\ Unpaid(now, x)

Complete(now, p) == \A x : ~DueIn(now, p, x)

\* x is among the rows to come, or in hand.
Listed(p, rows, x) == IF p = 2 THEN x \in rows ELSE subs[x] \in rows
InHand(k, x) ==
    \/ k.phase = 1 /\ k.at \in {"exists", "number", "raise"} /\ k.sub = x
    \/ k.phase = 2 /\ k.at \in {"create", "store"} /\ k.i = x
    \/ k.phase = 3 /\ k.at = "end" /\ k.sub = x
    \/ k.phase = 4 /\ k.at = "grace" /\ k.sub = x
    \/ k.phase = 5 /\ k.at \in {"pending", "close"} /\ k.sub = x

TickAt(k) ==
    \/ k.phase \in 1 .. 5 /\ k.at = "select" /\ k.rows = {}
    \/ k.phase = 1 /\ k.at \in {"exists", "number", "raise", "create", "store"}
    \/ k.phase = 2 /\ k.at \in {"create", "store"}
    \/ k.phase = 3 /\ k.at = "end"
    \/ k.phase = 4 /\ k.at \in {"grace", "open", "expire"}
    \/ k.phase = 5 /\ k.at \in {"pending", "close", "expire"}

Past(now, k)    == \A p \in 1 .. 5 : p < k.phase => Complete(now, p)
Ahead(now, k)   == k.at # "select" => \A x : DueIn(now, k.phase, x) => Listed(k.phase, k.rows, x) \/ InHand(k, x)
Present(k) == k.phase \in ByRow => \A r \in k.rows : r.id \in Subs /\ subs[r.id] = r /\ r.id # k.sub

\* What the statement in hand knows.
Knows(k) ==
    /\ k.at = "exists" => k.row.end = subs[k.sub].end
    /\ k.at \in {"number", "raise"} =>
         /\ k.start = subs[k.sub].end
         /\ \A i \in Of(k.sub) : ~(invs[i].start = k.start /\ invs[i].status \in {"Open", "Paid"})
    /\ k.at = "raise" => \A i \in Of(k.sub) : invs[i].number # k.number
    /\ k.at \in {"open", "expire"} => subs[k.sub].status \in {"Suspended", "Cancelled"}
    /\ k.at = "pending" => k.i = 0
    /\ (k.at = "expire" \/ (k.at = "close" /\ k.i # 0)) => invs[k.i].sub = k.sub

Ticks(now, k) == k.op = "tick" /\ k.now = now /\ TickAt(k) /\ Past(now, k) /\ Ahead(now, k) /\ Present(k) /\ Knows(k)

ByItself(now, c) == Ticks(now, calls[c]) /\ \A d \in Calls \ {c} : calls[d] = Idle

AloneInv == alone => \E c \in Calls, now \in Nat : ByItself(now, c)

\* j takes the row r, of those to come.
Takes(k, rows, r, j) ==
    /\ j.op = "tick" /\ j.now = k.now /\ j.phase = k.phase /\ j.rows = rows \ {r}
    /\ k.phase = 2 => (j.at = "create" /\ j.i = r)
    /\ k.phase # 2 => (j.row = r /\ j.sub = r.id /\ j.i = 0)
    /\ k.phase = 1 => j.at = "exists"
    /\ k.phase = 3 => j.at = "end"
    /\ k.phase = 4 => j.at = "grace"
    /\ k.phase = 5 => j.at = "pending"

\* j is what comes after k with these rows to come.
Follows(k, rows, j) ==
    \/ \E r \in rows : Takes(k, rows, r, j)
    \/ rows = {} /\ k.phase < 5 /\ j.op = "tick" /\ j.now = k.now /\ j.at = "select" /\ j.phase = k.phase + 1 /\ j.rows = {}
    \/ rows = {} /\ k.phase = 5 /\ j = Idle

LEMMA OnwardFollows ==
    ASSUME NEW k, k.op = "tick", k.phase \in 1 .. 5, NEW rows
    PROVE  Follows(k, rows, Onward(k, rows))
<1>1. CASE rows # {}
  <2>1. PICK r : r \in rows /\ r = CHOOSE x \in rows : TRUE
    BY <1>1
  <2>2. PICK n \in 1 .. 5 : n = k.phase
    OBVIOUS
  <2>3. /\ n = 1 => Loops[n] = "exists"
        /\ n = 2 => Loops[n] = "create"
        /\ n = 3 => Loops[n] = "end"
        /\ n = 4 => Loops[n] = "grace"
        /\ n = 5 => Loops[n] = "pending"
    BY <2>2 DEF Loops
  <2>4. PICK b : b = [Idle EXCEPT !.op = "tick", !.at = Loops[n], !.phase = n, !.rows = rows \ {r},
                                     !.now = k.now]
    OBVIOUS
  <2>5. /\ b.op = "tick" /\ b.now = k.now /\ b.at = Loops[n] /\ b.phase = n /\ b.rows = rows \ {r} /\ b.i = 0
        /\ DOMAIN b = DOMAIN Idle
    BY <2>4 DEF Idle
  <2>6. CASE n = 2
    <3>1. PICK j : j = [b EXCEPT !.i = r, !.sub = invs[r].sub]
      OBVIOUS
    <3>2. j.op = "tick" /\ j.now = k.now /\ j.at = "create" /\ j.phase = n /\ j.rows = rows \ {r} /\ j.i = r
      BY <2>3, <2>4, <2>5, <2>6, <3>1 DEF Idle
    <3>3. Onward(k, rows) = j
      BY <1>1, <2>1, <2>2, <2>4, <2>6, <3>1 DEF Onward, TakeRow
    <3>4. Takes(k, rows, r, j)
      BY <2>2, <2>6, <3>2 DEF Takes
    <3> QED
      BY <2>1, <3>3, <3>4 DEF Follows
  <2>7. CASE n # 2
    <3>1. PICK j : j = [b EXCEPT !.row = r, !.sub = r.id]
      OBVIOUS
    <3>2. /\ j.op = "tick" /\ j.now = k.now /\ j.at = Loops[n] /\ j.phase = n /\ j.rows = rows \ {r} /\ j.row = r
          /\ j.sub = r.id /\ j.i = 0
      BY <2>4, <2>5, <3>1 DEF Idle
    <3>3. Onward(k, rows) = j
      BY <1>1, <2>1, <2>2, <2>4, <2>7, <3>1 DEF Onward, TakeRow
    <3>4. Takes(k, rows, r, j)
      BY <2>2, <2>3, <2>7, <3>2 DEF Takes
    <3> QED
      BY <2>1, <3>3, <3>4 DEF Follows
  <2> QED
    BY <2>6, <2>7
<1>2. CASE rows = {} /\ k.phase < 5
  <2>1. PICK j : j = [Idle EXCEPT !.op = "tick", !.at = "select", !.phase = k.phase + 1, !.now = k.now]
    OBVIOUS
  <2>2. j.op = "tick" /\ j.now = k.now /\ j.at = "select" /\ j.phase = k.phase + 1 /\ j.rows = {}
    BY <2>1 DEF Idle
  <2>3. Onward(k, rows) = j
    BY <1>2, <2>1 DEF Onward
  <2> QED
    BY <1>2, <2>2, <2>3 DEF Follows
<1>3. CASE rows = {} /\ ~(k.phase < 5)
  <2>1. k.phase = 5
    BY <1>3
  <2> QED
    BY <1>3, <2>1 DEF Follows, Onward
<1> QED
  BY <1>1, <1>2, <1>3

\* Every loop is done with.
Caught(now) == \A p \in 1 .. 5 : Complete(now, p)

\* The tick goes on with the rows to come, when they are all that is left of its loop.
LEMMA FollowsTicks ==
    ASSUME NEW now, NEW k, k.now = now, k.phase \in 1 .. 5, NEW rows, NEW j, Follows(k, rows, j), Rows', Past(now, k)',
           \A x : DueIn(now, k.phase, x)' => Listed(k.phase, rows, x)',
           k.phase \in ByRow => \A r \in rows : r.id \in Subs /\ subs'[r.id] = r
    PROVE  Ticks(now, j)' \/ (j = Idle /\ Caught(now)')
<1>1. CASE rows # {}
  <2>t. PICK r \in rows : Takes(k, rows, r, j)
    BY <1>1 DEF Follows
  <2>1. /\ j.op = "tick" /\ j.now = k.now /\ j.phase = k.phase /\ j.rows = rows \ {r}
        /\ k.phase = 2 => (j.at = "create" /\ j.i = r)
        /\ k.phase # 2 => (j.row = r /\ j.sub = r.id /\ j.i = 0)
        /\ k.phase = 1 => j.at = "exists"
        /\ k.phase = 3 => j.at = "end"
        /\ k.phase = 4 => j.at = "grace"
        /\ k.phase = 5 => j.at = "pending"
    BY <2>t DEF Takes
  <2>2. k.phase = 2 \/ k.phase \in ByRow
    BY DEF ByRow
  <2>3. TickAt(j)' /\ j.at # "select"
    BY <2>1 DEF TickAt
  <2>4. Past(now, j)'
    BY <2>1 DEF Past
  <2>5. Ahead(now, j)'
    <3> SUFFICES ASSUME NEW x, DueIn(now, j.phase, x)' PROVE Listed(j.phase, j.rows, x)' \/ InHand(j, x)'
      BY DEF Ahead
    <3>1. Listed(k.phase, rows, x)'
      BY <2>1
    <3>2. CASE k.phase = 2
      BY <2>1, <3>1, <3>2 DEF Listed, InHand
    <3>3. CASE k.phase # 2
      <4>1. x \in Subs /\ subs'[x].id = x
        BY <2>1, <3>3 DEF DueIn, Rows
      <4>2. subs'[x] \in rows
        BY <3>1, <3>3 DEF Listed
      <4>3. CASE subs'[x] = r
        <5>1. j.sub = x
          BY <2>1, <3>3, <4>1, <4>3
        <5> QED
          BY <2>1, <3>3, <5>1 DEF InHand
      <4>4. CASE subs'[x] # r
        BY <2>1, <3>3, <4>2, <4>4 DEF Listed
      <4> QED
        BY <4>3, <4>4
    <3> QED
      BY <3>2, <3>3
  <2>6. Present(j)'
    <3> SUFFICES ASSUME j.phase \in ByRow, NEW q \in j.rows
                 PROVE  q.id \in Subs /\ subs'[q.id] = q /\ q.id # j.sub
      BY DEF Present
    <3>1. k.phase # 2 /\ q \in rows /\ q # r /\ j.sub = r.id
      BY <2>1 DEF ByRow
    <3>2. subs'[q.id] = q /\ subs'[r.id] = r /\ q.id \in Subs
      BY <2>1, <3>1
    <3> QED
      BY <3>1, <3>2
  <2>7. Knows(j)'
    <3>1. CASE k.phase = 1
      BY <2>1, <3>1 DEF Knows, ByRow
    <3>2. CASE k.phase # 1
      BY <2>1, <3>2 DEF Knows
    <3> QED
      BY <3>1, <3>2
  <2> QED
    BY <2>1, <2>3, <2>4, <2>5, <2>6, <2>7 DEF Ticks
<1>2. CASE rows = {}
  <2>1. ASSUME NEW p \in 1 .. 5, p <= k.phase PROVE Complete(now, p)'
    <3>1. CASE p < k.phase
      BY <3>1 DEF Past
    <3>2. CASE p = k.phase
      BY <1>2, <3>2 DEF Complete, Listed
    <3> QED
      BY <2>1, <3>1, <3>2
  <2>2. CASE k.phase < 5 /\ j.op = "tick" /\ j.now = k.now /\ j.at = "select" /\ j.phase = k.phase + 1 /\ j.rows = {}
    <3>1. TickAt(j)'
      BY <2>2 DEF TickAt
    <3>2. Past(now, j)'
      BY <2>1, <2>2 DEF Past
    <3>3. Ahead(now, j)' /\ Present(j)' /\ Knows(j)'
      BY <2>2 DEF Ahead, Present, Knows
    <3> QED
      BY <2>2, <3>1, <3>2, <3>3 DEF Ticks
  <2>3. CASE k.phase = 5 /\ j = Idle
    BY <2>1, <2>3 DEF Caught
  <2> QED
    BY <1>2, <2>2, <2>3 DEF Follows
<1> QED
  BY <1>1, <1>2

\* What a step has to show: a tick by itself goes on as it should, or leaves nothing to do.
CatchesUp(now) == AloneInv' /\ ((\A c \in Calls : calls'[c] = Idle) => Caught(now)')

LEMMA TickBecomes ==
    ASSUME BillingInv, NEW now, NEW c \in Calls, ByItself(now, c), NEW j, calls' = [calls EXCEPT ![c] = j],
           Ticks(now, j)' \/ (j = Idle /\ (alone' = FALSE) /\ Caught(now)')
    PROVE  CatchesUp(now)
<1>1. calls \in [Calls -> Call]
  BY DEF BillingInv, Types
<1>2. calls'[c] = j /\ \A d \in Calls \ {c} : calls'[d] = Idle
  BY <1>1 DEF ByItself
<1>3. CASE Ticks(now, j)'
  <2>1. j.op = "tick"
    BY <1>3 DEF Ticks
  <2>2. j # Idle
    BY <2>1 DEF Idle
  <2>3. ByItself(now, c)'
    <3>1. Ticks(now, calls[c])'
      BY <1>2, <1>3 DEF Ticks, TickAt, Past, Ahead, Present, Knows, InHand
    <3> QED
      BY <1>2, <3>1 DEF ByItself
  <2>4. now \in Nat
    <3>1. calls[c] \in Call /\ calls[c].now = now
      BY <1>1 DEF ByItself, Ticks
    <3> QED
      BY <3>1 DEF Call
  <2> QED
    BY <1>2, <2>2, <2>3, <2>4 DEF CatchesUp, AloneInv
<1>4. CASE j = Idle /\ (alone' = FALSE) /\ Caught(now)'
  BY <1>4 DEF CatchesUp, AloneInv
<1> QED
  BY <1>3, <1>4

\* A tick by itself is in the middle of a call, of the right form.
LEMMA TickTyped ==
    ASSUME BillingInv, NEW now, NEW c \in Calls, ByItself(now, c), NEW k, k = calls[c]
    PROVE  /\ Ticks(now, k) /\ k.op = "tick" /\ k.now = now /\ k.phase \in 1 .. 5 /\ k \in Call /\ WellFormed(k) /\ k # Idle
           /\ k.phase = 2 => k.rows \subseteq Invoices
<1>1. Sound(k)
  BY CallsSound
<1>2. Ticks(now, k)
  BY DEF ByItself
<1>3. k.op = "tick" /\ k.now = now /\ k \in Call /\ WellFormed(k)
  BY <1>1, <1>2 DEF Sound, Ticks
<1>4. k.phase \in 1 .. 5
  BY <1>3 DEF WellFormed, Call
<1>5. k # Idle
  BY <1>3 DEF Idle
<1> QED
  BY <1>2, <1>3, <1>4, <1>5 DEF WellFormed, ByRow

\* Nothing becomes due in the loops up to p, and no row but that of s is written.
NoneNew(now, p, s) ==
    /\ \A q \in 1 .. 5 : q <= p => \A x : DueIn(now, q, x)' => DueIn(now, q, x)
    /\ \A t \in Subs : t # s => subs'[t] = subs[t]

LEMMA PastStays ==
    ASSUME NEW now, NEW k, k.phase \in 1 .. 5, Past(now, k), NEW s, NoneNew(now, k.phase, s), NEW j, j.phase = k.phase
    PROVE  Past(now, j)' /\ Past(now, k)'
<1>1. ASSUME NEW p \in 1 .. 5, p < k.phase PROVE Complete(now, p)'
  BY <1>1 DEF Past, Complete, NoneNew
<1> QED
  BY <1>1 DEF Past

\* Rows to come are of other subscriptions than the one in hand, so they stay as they are.
LEMMA ListedStays ==
    ASSUME NEW now, Rows, NEW k, k.phase \in 1 .. 5, Present(k), NoneNew(now, k.phase, k.sub), NEW x,
           k.phase # 2 => x \in Subs, Listed(k.phase, k.rows, x)
    PROVE  Listed(k.phase, k.rows, x)'
<1>1. CASE k.phase = 2
  BY <1>1 DEF Listed
<1>2. CASE k.phase # 2
  <2>1. subs[x] \in k.rows /\ subs[x].id = x /\ x \in Subs
    BY <1>2 DEF Listed, Rows
  <2>2. k.phase \in ByRow
    BY <1>2 DEF ByRow
  <2>3. x # k.sub
    BY <2>1, <2>2 DEF Present
  <2>4. subs'[x] = subs[x]
    BY <2>1, <2>3 DEF NoneNew
  <2> QED
    BY <1>2, <2>1, <2>4 DEF Listed
<1> QED
  BY <1>1, <1>2

\* The call goes on with the row in hand.
LEMMA TickKeepsOn ==
    ASSUME BillingInv, BillingInv', NEW now, NEW c \in Calls, ByItself(now, c), NEW k, k = calls[c], k.at # "select",
           NEW j, calls' = [calls EXCEPT ![c] = j], j.op = "tick", j.now = k.now, j.phase = k.phase, j.rows = k.rows, j.sub = k.sub,
           j.at # "select", TickAt(j), NoneNew(now, k.phase, k.sub), Knows(j)',
           \A x : (DueIn(now, k.phase, x)' /\ InHand(k, x)) => InHand(j, x)
    PROVE  CatchesUp(now)
<1>1. Ticks(now, k) /\ k.now = now /\ k.phase \in 1 .. 5
  BY TickTyped
<1>2. Past(now, k) /\ Ahead(now, k) /\ Present(k) /\ Rows
  BY <1>1 DEF Ticks, BillingInv
<1>3. Past(now, j)'
  BY <1>1, <1>2, PastStays
<1>4. Ahead(now, j)'
  <2> SUFFICES ASSUME NEW x, DueIn(now, j.phase, x)' PROVE Listed(j.phase, j.rows, x)' \/ InHand(j, x)'
    BY DEF Ahead
  <2>1. DueIn(now, k.phase, x)' /\ DueIn(now, k.phase, x)
    BY <1>1 DEF NoneNew
  <2>2. k.phase # 2 => x \in Subs
    BY <2>1 DEF DueIn
  <2>3. CASE Listed(k.phase, k.rows, x)
    <3>1. Listed(k.phase, k.rows, x)'
      BY <1>1, <1>2, <2>2, <2>3, ListedStays
    <3> QED
      BY <3>1 DEF Listed
  <2>4. CASE InHand(k, x)
    <3>1. InHand(j, x)
      BY <2>1, <2>4
    <3> QED
      BY <3>1 DEF InHand
  <2> QED
    BY <1>2, <2>1, <2>3, <2>4 DEF Ahead
<1>5. Present(j)'
  <2> SUFFICES ASSUME j.phase \in ByRow, NEW r \in j.rows
               PROVE  r.id \in Subs /\ subs'[r.id] = r /\ r.id # j.sub
    BY DEF Present
  <2>1. r.id \in Subs /\ subs[r.id] = r /\ r.id # k.sub
    BY <1>2 DEF Present
  <2> QED
    BY <2>1 DEF NoneNew
<1>6. TickAt(j)'
  BY DEF TickAt
<1>7. Ticks(now, j)'
  BY <1>1, <1>3, <1>4, <1>5, <1>6 DEF Ticks
<1> QED
  BY <1>7, TickBecomes

\* The call is done with the row in hand.
LEMMA TickGoesOn ==
    ASSUME BillingInv, BillingInv', NEW now, NEW c \in Calls, ByItself(now, c), NEW k, k = calls[c], k.at # "select",
           Go(c, Onward(k, k.rows)), NoneNew(now, k.phase, k.sub),
           \A x : InHand(k, x) => ~DueIn(now, k.phase, x)'
    PROVE  CatchesUp(now)
<1>1. Ticks(now, k) /\ k.op = "tick" /\ k.now = now /\ k.phase \in 1 .. 5
  BY TickTyped
<1>2. Past(now, k) /\ Ahead(now, k) /\ Present(k) /\ Rows /\ Rows'
  BY <1>1 DEF Ticks, BillingInv
<1>3. Past(now, k)'
  BY <1>1, <1>2, PastStays
<1>4. PICK j : j = Onward(k, k.rows)
  OBVIOUS
<1>5. Follows(k, k.rows, j)
  BY <1>1, <1>4, OnwardFollows
<1>6. ASSUME NEW x, DueIn(now, k.phase, x)' PROVE Listed(k.phase, k.rows, x)'
  <2>1. DueIn(now, k.phase, x) /\ ~InHand(k, x)
    BY <1>1, <1>6 DEF NoneNew
  <2>2. k.phase # 2 => x \in Subs
    BY <2>1 DEF DueIn
  <2>3. Listed(k.phase, k.rows, x)
    BY <1>2, <2>1 DEF Ahead
  <2> QED
    BY <1>1, <1>2, <2>2, <2>3, ListedStays
<1>7. k.phase \in ByRow => \A r \in k.rows : r.id \in Subs /\ subs'[r.id] = r
  BY <1>2 DEF Present, NoneNew
<1>8. Ticks(now, j)' \/ (j = Idle /\ Caught(now)')
  BY <1>1, <1>2, <1>3, <1>5, <1>6, <1>7, FollowsTicks
<1>9. calls' = [calls EXCEPT ![c] = j] /\ (j = Idle => alone' = FALSE)
  BY <1>4 DEF Go, Idle
<1> QED
  BY <1>8, <1>9, TickBecomes

LEMMA DataStands ==
    ASSUME NEW now, UNCHANGED <<subs, invs>>
    PROVE  /\ \A q, x : DueIn(now, q, x)' <=> DueIn(now, q, x)
           /\ \A p, s : NoneNew(now, p, s)
           /\ \A k : Knows(k) => Knows(k)'
<1>1. \A s : Of(s)' = Of(s) /\ OpenOf(s)' = OpenOf(s)
  BY DEF Of, OpenOf
<1>2. \A x : /\ Renewal(now, x)' <=> Renewal(now, x)
             /\ Chargeless(x)' <=> Chargeless(x)
             /\ Ended(now, x)' <=> Ended(now, x)
             /\ GraceOver(now, x)' <=> GraceOver(now, x)
             /\ Unpaid(now, x)' <=> Unpaid(now, x)
  BY <1>1 DEF Renewal, Chargeless, Ended, GraceOver, Unpaid
<1>3. \A q, x : DueIn(now, q, x)' <=> DueIn(now, q, x)
  BY <1>2, Zenon DEF DueIn
<1>4. \A p, s : NoneNew(now, p, s)
  BY <1>3 DEF NoneNew
<1>5. \A k : Knows(k) => Knows(k)'
  BY <1>1 DEF Knows
<1> QED
  BY <1>3, <1>4, <1>5

LEMMA CatchSelect ==
    ASSUME BillingInv, BillingInv', NEW now, NEW c \in Calls, ByItself(now, c), Select(c)
    PROVE  CatchesUp(now)
<1>1. PICK k : k = calls[c]
  OBVIOUS
<1>2. Ticks(now, k) /\ k.op = "tick" /\ k.now = now /\ k.phase \in 1 .. 5 /\ Past(now, k)
  BY <1>1, TickTyped DEF Ticks
<1>3. UNCHANGED <<subs, invs>>
  BY DEF Select
<1>4. PICK rows : rows = Selected(k.phase, k.now)
  OBVIOUS
<1>5. PICK j : j = Onward(k, rows)
  OBVIOUS
<1>6. Follows(k, rows, j)
  BY <1>2, <1>5, OnwardFollows
<1>7. calls' = [calls EXCEPT ![c] = j] /\ (j = Idle => alone' = FALSE)
  BY <1>1, <1>4, <1>5 DEF Select, Go, Idle
<1>8. Past(now, k)'
  BY <1>2, <1>3, DataStands, PastStays
<1>9. ASSUME NEW x, DueIn(now, k.phase, x)' PROVE Listed(k.phase, rows, x)'
  <2>1. DueIn(now, k.phase, x)
    BY <1>3, <1>9, DataStands
  <2>2. CASE k.phase = 1
    BY <1>2, <1>3, <1>4, <2>1, <2>2 DEF DueIn, Renewal, Selected, Listed
  <2>3. CASE k.phase = 2
    BY <1>2, <1>3, <1>4, <2>1, <2>3 DEF DueIn, Chargeless, Selected, Listed
  <2>4. CASE k.phase = 3
    BY <1>2, <1>3, <1>4, <2>1, <2>4 DEF DueIn, Ended, Selected, Listed
  <2>5. CASE k.phase = 4
    BY <1>2, <1>3, <1>4, <2>1, <2>5 DEF DueIn, GraceOver, Selected, Listed
  <2>6. CASE k.phase = 5
    BY <1>2, <1>3, <1>4, <2>1, <2>6 DEF DueIn, Unpaid, Selected, Listed
  <2> QED
    BY <1>2, <2>2, <2>3, <2>4, <2>5, <2>6
<1>10. k.phase \in ByRow => \A r \in rows : r.id \in Subs /\ subs'[r.id] = r
  <2>1. \A s \in Subs : subs[s].id = s
    BY DEF BillingInv, Rows
  <2>2. k.phase \in ByRow => \A r \in rows : \E s \in Subs : r = subs[s]
    <3>1. CASE k.phase = 1
      BY <1>4, <3>1 DEF Selected
    <3>2. CASE k.phase = 3
      BY <1>4, <3>2 DEF Selected
    <3>3. CASE k.phase = 4
      BY <1>4, <3>3 DEF Selected
    <3>4. CASE k.phase = 5
      BY <1>4, <3>4 DEF Selected
    <3> QED
      BY <3>1, <3>2, <3>3, <3>4 DEF ByRow
  <2> QED
    BY <1>3, <2>1, <2>2
<1>11. Ticks(now, j)' \/ (j = Idle /\ Caught(now)')
  <2>1. Rows'
    BY DEF BillingInv
  <2> QED
    BY <1>2, <1>6, <1>8, <1>9, <1>10, <2>1, FollowsTicks
<1> QED
  BY <1>7, <1>11, TickBecomes

LEMMA CatchExists ==
    ASSUME BillingInv, BillingInv', NEW now, NEW c \in Calls, ByItself(now, c), Exists(c)
    PROVE  CatchesUp(now)
<1>1. PICK k : k = calls[c]
  OBVIOUS
<1>2. Ticks(now, k) /\ k.op = "tick" /\ k.at = "exists" /\ k \in Call /\ WellFormed(k)
  BY <1>1, TickTyped DEF Exists
<1>3. UNCHANGED <<subs, invs>>
  BY DEF Exists
<1>4. k.phase = 1 /\ k.row.end = subs[k.sub].end /\ Knows(k)
  BY <1>2 DEF Ticks, TickAt, Knows
<1>5. NoneNew(now, k.phase, k.sub)
  BY <1>3, DataStands
<1>6. PICK already \in BOOLEAN :
        already = \E i \in Of(k.sub) : invs[i].start = k.row.end /\ invs[i].status \in {"Open", "Paid"}
  OBVIOUS
<1>7. CASE already
  <2>1. Go(c, Onward(k, k.rows))
    BY <1>1, <1>6, <1>7 DEF Exists
  <2>2. ASSUME NEW x, InHand(k, x) PROVE ~DueIn(now, k.phase, x)'
    <3>1. x = k.sub
      BY <1>4, <2>2 DEF InHand
    <3>2. ~Renewal(now, x)
      BY <1>4, <1>6, <1>7, <3>1 DEF Renewal
    <3>3. ~DueIn(now, 1, x)
      BY <3>2 DEF DueIn
    <3> QED
      BY <1>3, <1>4, <3>3, DataStands
  <2> QED
    BY <1>1, <1>2, <1>5, <2>1, <2>2, TickGoesOn
<1>8. CASE ~already
  <2>1. PICK j : j = [k EXCEPT !.at = "number", !.plan = PlanOf(k.row), !.start = k.row.end]
    OBVIOUS
  <2>2. Go(c, j)
    BY <1>1, <1>6, <1>8, <2>1 DEF Exists
  <2>3. /\ j.op = "tick" /\ j.now = k.now /\ j.at = "number" /\ j.phase = 1 /\ j.rows = k.rows /\ j.sub = k.sub
        /\ j.start = k.row.end
    BY <1>2, <1>4, <2>1 DEF Call
  <2>4. TickAt(j)
    BY <2>3 DEF TickAt
  <2>5. Knows(j)
    BY <1>4, <1>6, <1>8, <2>3 DEF Knows
  <2>6. \A x : InHand(k, x) => InHand(j, x)
    BY <1>4, <2>3 DEF InHand
  <2>7. calls' = [calls EXCEPT ![c] = j] /\ Knows(j)'
    BY <1>3, <2>2, <2>5, DataStands DEF Go
  <2> QED
    BY <1>1, <1>2, <1>4, <1>5, <2>3, <2>4, <2>6, <2>7, TickKeepsOn
<1> QED
  BY <1>7, <1>8

LEMMA CatchNextNumber ==
    ASSUME BillingInv, BillingInv', NEW now, NEW c \in Calls, ByItself(now, c), NextNumber(c)
    PROVE  CatchesUp(now)
<1>1. PICK k : k = calls[c]
  OBVIOUS
<1>2. Ticks(now, k) /\ k.op = "tick" /\ k.at = "number" /\ k \in Call /\ WellFormed(k)
  BY <1>1, TickTyped DEF NextNumber
<1>3. UNCHANGED <<subs, invs>>
  BY DEF NextNumber
<1>4. k.phase = 1 /\ Knows(k)
  BY <1>2 DEF Ticks, TickAt
<1>5. PICK S : S = {0} \cup {invs[i].number : i \in Of(k.sub)}
  OBVIOUS
<1>6. \A i \in Of(k.sub) : invs[i].number \in S /\ invs[i].number \in Nat
  BY <1>5 DEF Of, BillingInv, Types, DataTypes, InvoiceRow
<1>7. Max(S) \in Nat /\ \A n \in S : n <= Max(S)
  <2>1. PICK b \in Nat : \A i \in Invoices : invs[i].number <= b
    BY DEF BillingInv, Rows
  <2>2. S \subseteq Nat /\ S # {} /\ \A n \in S : n <= b
    BY <1>5, <1>6, <2>1 DEF Of
  <2> QED
    BY <2>2, GreatestOf
<1>8. PICK j : j = [k EXCEPT !.at = "raise", !.number = 1 + Max(S)]
  OBVIOUS
<1>9. calls' = [calls EXCEPT ![c] = j]
  BY <1>1, <1>5, <1>8 DEF NextNumber, Go
<1>10. /\ j.op = "tick" /\ j.now = k.now /\ j.at = "raise" /\ j.phase = 1 /\ j.rows = k.rows /\ j.sub = k.sub
       /\ j.start = k.start /\ j.number = 1 + Max(S)
  BY <1>2, <1>4, <1>8 DEF Call
<1>11. \A i \in Of(k.sub) : invs[i].number # j.number
  BY <1>6, <1>7, <1>10
<1>12. Knows(j)
  BY <1>2, <1>4, <1>10, <1>11 DEF Knows
<1>13. TickAt(j)
  BY <1>10 DEF TickAt
<1>14. \A x : InHand(k, x) => InHand(j, x)
  BY <1>4, <1>10 DEF InHand
<1>15. Knows(j)' /\ NoneNew(now, k.phase, k.sub)
  BY <1>3, <1>12, DataStands
<1> QED
  BY <1>1, <1>2, <1>4, <1>9, <1>10, <1>13, <1>14, <1>15, TickKeepsOn

LEMMA CatchRaise ==
    ASSUME BillingInv, BillingInv', NEW now, NEW c \in Calls, ByItself(now, c), Raise(c)
    PROVE  CatchesUp(now)
<1>1. PICK k : k = calls[c]
  OBVIOUS
<1>2. Ticks(now, k) /\ k.op = "tick" /\ k.at = "raise" /\ k \in Call /\ WellFormed(k) /\ k # Idle
  BY <1>1, TickTyped DEF Raise
<1>3. k.phase = 1 /\ Knows(k) /\ k.sub \in Subs
  BY <1>2 DEF Ticks, TickAt, WellFormed
<1>4. /\ k.start = subs[k.sub].end
      /\ \A i \in Of(k.sub) : ~(invs[i].start = k.start /\ invs[i].status \in {"Open", "Paid"})
      /\ \A i \in Of(k.sub) : invs[i].number # k.number
  BY <1>2, <1>3 DEF Knows
<1>5. Admits(k)
  BY <1>4 DEF Admits
<1>6. UNCHANGED subs
  BY DEF Raise
<1>7. PICK fresh : fresh = {i \in Invoices : invs[i].status = "None"}
  OBVIOUS
<1>8. CASE fresh = {}
  <2>1. Go(c, Onward(k, k.rows)) /\ invs' = invs
    BY <1>1, <1>7, <1>8 DEF Raise
  <2>2. NoneNew(now, k.phase, k.sub)
    BY <1>6, <2>1, DataStands
  <2>3. ASSUME NEW x PROVE ~DueIn(now, k.phase, x)'
    <3>1. ~Renewal(now, x)
      BY <1>7, <1>8 DEF Renewal
    <3>2. ~DueIn(now, 1, x)
      BY <3>1 DEF DueIn
    <3> QED
      BY <1>3, <1>6, <2>1, <3>2, DataStands
  <2> QED
    BY <1>1, <1>2, <2>1, <2>2, <2>3, TickGoesOn
<1>9. CASE fresh # {}
  <2>1. PICK i : i = Min(fresh)
    OBVIOUS
  <2>2. i \in Invoices /\ invs[i].status = "None"
    <3>1. fresh \subseteq Nat
      BY <1>7, BillingConstants DEF Invoices
    <3>2. i \in fresh
      BY <1>9, <2>1, <3>1, LeastOf
    <3> QED
      BY <1>7, <3>2
  <2>3. PICK row : row = [sub |-> k.sub, plan |-> k.plan, number |-> k.number, start |-> k.start,
                          end |-> IF k.start = 0 THEN 0 ELSE k.start + Cycle,
                          due |-> IF k.start = 0 THEN k.now + Ttl ELSE k.start,
                          status |-> "Open", charge |-> FALSE]
    OBVIOUS
  <2>4. invs' = [invs EXCEPT ![i] = row]
    BY <1>1, <1>5, <1>7, <1>9, <2>1, <2>3 DEF Raise
  <2>5. row.sub = k.sub /\ row.start = k.start /\ row.status = "Open"
    BY <2>3
  <2>6. invs'[i] = row /\ \A n \in Invoices : n # i => invs'[n] = invs[n]
    BY <2>2, <2>4 DEF BillingInv, Types, DataTypes
  <2>7. ASSUME NEW x, Renewal(now, x)' PROVE Renewal(now, x) /\ x # k.sub
    <3>1. /\ subs[x].status = "Active" /\ ~subs[x].cancel /\ subs[x].end <= now + Lead
          /\ \A n \in Of(x)' : ~(invs'[n].start = subs[x].end /\ invs'[n].status \in {"Open", "Paid"})
          /\ \E n \in Invoices : invs'[n].status = "None"
      BY <1>6, <2>7 DEF Renewal
    <3>2. ASSUME NEW n \in Of(x) PROVE ~(invs[n].start = subs[x].end /\ invs[n].status \in {"Open", "Paid"})
      <4>1. CASE n = i
        BY <2>2, <4>1
      <4>2. CASE n # i
        <5>1. n \in Of(x)' /\ invs'[n] = invs[n]
          BY <2>6, <4>2 DEF Of
        <5> QED
          BY <3>1, <5>1
      <4> QED
        BY <4>1, <4>2
    <3>3. \E n \in Invoices : invs[n].status = "None"
      BY <2>2
    <3>4. Renewal(now, x)
      BY <3>1, <3>2, <3>3 DEF Renewal
    <3>5. CASE x = k.sub
      <4>1. i \in Of(x)'
        BY <2>2, <2>5, <2>6, <3>5 DEF Of
      <4>2. invs'[i].start = subs[x].end /\ invs'[i].status \in {"Open", "Paid"}
        BY <1>4, <2>5, <2>6, <3>5
      <4> QED
        BY <3>1, <4>1, <4>2
    <3> QED
      BY <3>4, <3>5
  <2>8. \A x : DueIn(now, 1, x)' => DueIn(now, 1, x) /\ x # k.sub
    BY <2>7 DEF DueIn
  <2>9. NoneNew(now, k.phase, k.sub)
    BY <1>3, <1>6, <2>8 DEF NoneNew
  <2>10. PICK j : j = [Idle EXCEPT !.op = k.op, !.at = "create", !.phase = k.phase, !.rows = k.rows,
                                    !.i = i, !.sub = k.sub, !.now = k.now]
    OBVIOUS
  <2>11. j.op = "tick" /\ j.now = k.now /\ j.at = "create" /\ j.phase = k.phase /\ j.rows = k.rows /\ j.sub = k.sub
    BY <1>2, <2>10 DEF Idle
  <2>12. calls' = [calls EXCEPT ![c] = j]
    BY <1>1, <1>5, <1>7, <1>9, <2>1, <2>10 DEF Raise, Go
  <2>13. TickAt(j) /\ Knows(j)'
    BY <1>3, <2>11 DEF TickAt, Knows
  <2>14. \A x : (DueIn(now, k.phase, x)' /\ InHand(k, x)) => InHand(j, x)
    BY <1>3, <2>8 DEF InHand
  <2> QED
    BY <1>1, <1>2, <2>9, <2>11, <2>12, <2>13, <2>14, TickKeepsOn
<1> QED
  BY <1>8, <1>9

LEMMA CatchCreateCharge ==
    ASSUME BillingInv, BillingInv', NEW now, NEW c \in Calls, ByItself(now, c), CreateCharge(c)
    PROVE  CatchesUp(now)
<1>1. PICK k : k = calls[c]
  OBVIOUS
<1>2. Ticks(now, k) /\ k.op = "tick" /\ k.at = "create" /\ k \in Call
  BY <1>1, TickTyped DEF CreateCharge
<1>3. UNCHANGED <<subs, invs>>
  BY DEF CreateCharge
<1>4. k.phase \in {1, 2}
  BY <1>2 DEF Ticks, TickAt
<1>5. PICK j : j = [k EXCEPT !.at = "store"]
  OBVIOUS
<1>6. /\ j.op = "tick" /\ j.now = k.now /\ j.at = "store" /\ j.phase = k.phase /\ j.rows = k.rows /\ j.sub = k.sub
      /\ j.i = k.i
  BY <1>2, <1>5 DEF Call
<1>7. calls' = [calls EXCEPT ![c] = j]
  BY <1>1, <1>5 DEF CreateCharge, Go
<1>8. TickAt(j) /\ Knows(j)'
  BY <1>4, <1>6 DEF TickAt, Knows
<1>9. \A x : InHand(k, x) => InHand(j, x)
  BY <1>2, <1>6 DEF InHand
<1>10. NoneNew(now, k.phase, k.sub)
  BY <1>3, DataStands
<1> QED
  BY <1>1, <1>2, <1>6, <1>7, <1>8, <1>9, <1>10, TickKeepsOn

LEMMA CatchStoreCharge ==
    ASSUME BillingInv, BillingInv', NEW now, NEW c \in Calls, ByItself(now, c), StoreCharge(c)
    PROVE  CatchesUp(now)
<1>1. PICK k : k = calls[c]
  OBVIOUS
<1>2. Ticks(now, k) /\ k.op = "tick" /\ k.at = "store" /\ k \in Call /\ WellFormed(k)
  BY <1>1, TickTyped DEF StoreCharge
<1>3. UNCHANGED subs /\ Go(c, Onward(k, k.rows))
  BY <1>1 DEF StoreCharge
<1>4. k.phase \in {1, 2} /\ k.i \in Invoices
  BY <1>2 DEF Ticks, TickAt, WellFormed
<1>5. invs \in [Invoices -> InvoiceRow]
  BY DEF BillingInv, Types, DataTypes
<1>6. CASE invs[k.i].status = "Open" /\ ~invs[k.i].charge
  <2>1. PICK row : row = [invs[k.i] EXCEPT !.charge = TRUE]
    OBVIOUS
  <2>2. /\ row.charge = TRUE /\ row.sub = invs[k.i].sub /\ row.start = invs[k.i].start
        /\ row.status = invs[k.i].status
    BY <1>4, <1>5, <2>1 DEF InvoiceRow
  <2>3. invs' = [invs EXCEPT ![k.i] = row]
    BY <1>1, <1>6, <2>1 DEF StoreCharge
  <2>4. invs'[k.i] = row /\ \A n \in Invoices : n # k.i => invs'[n] = invs[n]
    BY <1>4, <1>5, <2>3
  <2>5. \A n \in Invoices : invs'[n].sub = invs[n].sub /\ invs'[n].start = invs[n].start
                            /\ invs'[n].status = invs[n].status
    BY <2>2, <2>4
  <2>6. \A x : Of(x)' = Of(x)
    BY <2>5 DEF Of
  <2>7. \A x : Renewal(now, x)' => Renewal(now, x)
    BY <1>3, <2>5, <2>6 DEF Renewal, Of
  <2>8. \A n \in Invoices : Chargeless(n)' => Chargeless(n) /\ n # k.i
    BY <2>2, <2>4 DEF Chargeless
  <2>9. /\ \A x : DueIn(now, 1, x)' => DueIn(now, 1, x)
        /\ \A x : DueIn(now, 2, x)' => DueIn(now, 2, x) /\ x # k.i
    BY <2>7, <2>8 DEF DueIn
  <2>10. NoneNew(now, k.phase, k.sub)
    BY <1>3, <1>4, <2>9 DEF NoneNew
  <2>11. \A x : InHand(k, x) => ~DueIn(now, k.phase, x)'
    BY <1>2, <1>4, <2>9 DEF InHand
  <2> QED
    BY <1>1, <1>2, <1>3, <2>10, <2>11, TickGoesOn
<1>7. CASE ~(invs[k.i].status = "Open" /\ ~invs[k.i].charge)
  <2>1. invs' = invs
    BY <1>1, <1>7 DEF StoreCharge
  <2>2. ~DueIn(now, 2, k.i)
    BY <1>7 DEF DueIn, Chargeless
  <2>3. ~DueIn(now, 2, k.i)' /\ NoneNew(now, k.phase, k.sub)
    BY <1>3, <2>1, <2>2, DataStands
  <2>4. \A x : InHand(k, x) => ~DueIn(now, k.phase, x)'
    BY <1>2, <1>4, <2>3 DEF InHand
  <2> QED
    BY <1>1, <1>2, <1>3, <2>3, <2>4, TickGoesOn
<1> QED
  BY <1>6, <1>7

\* move_status writes no other row, and this one only if it is as expected.
LEMMA MovedRow ==
    ASSUME BillingInv, NEW s \in Subs, NEW from, NEW to, subs' = Moved(s, from, to)
    PROVE  /\ \A t \in Subs : t # s => subs'[t] = subs[t]
           /\ subs[s].status = from => subs'[s].status = to
           /\ subs[s].status # from => subs' = subs
<1>1. subs \in [Subs -> SubRow]
  BY DEF BillingInv, Types, DataTypes
<1>2. CASE subs[s].status = from
  <2>1. PICK row : row = [subs[s] EXCEPT !.status = to]
    OBVIOUS
  <2>2. row.status = to
    BY <1>1, <2>1 DEF SubRow
  <2>3. subs' = [subs EXCEPT ![s] = row]
    BY <1>2, <2>1 DEF Moved
  <2> QED
    BY <1>1, <1>2, <2>2, <2>3
<1>3. CASE subs[s].status # from
  BY <1>3 DEF Moved
<1> QED
  BY <1>2, <1>3

\* A row moved out of a loop's way: nothing in the loops so far gets new work.
LEMMA StatusAway ==
    ASSUME NEW now, NEW s \in Subs, NEW p \in 1 .. 5, UNCHANGED invs,
           \A t \in Subs : t # s => subs'[t] = subs[t],
           subs'[s].status \in {"Suspended", "Cancelled"} \/ (subs'[s].status = "Grace" /\ p < 4)
    PROVE  NoneNew(now, p, s)
<1>1. \A x : Of(x)' = Of(x) /\ OpenOf(x)' = OpenOf(x)
  BY DEF Of, OpenOf
<1>2. \A x : Chargeless(x)' => Chargeless(x)
  BY DEF Chargeless
<1>3. \A x \in Subs : x # s =>
         /\ Renewal(now, x)' => Renewal(now, x)
         /\ Ended(now, x)' => Ended(now, x)
         /\ GraceOver(now, x)' => GraceOver(now, x)
         /\ Unpaid(now, x)' => Unpaid(now, x)
  BY <1>1 DEF Renewal, Ended, GraceOver, Unpaid
<1>4. ~Renewal(now, s)' /\ ~Ended(now, s)' /\ ~Unpaid(now, s)' /\ (p >= 4 => ~GraceOver(now, s)')
  BY DEF Renewal, Ended, GraceOver, Unpaid
<1>5. ASSUME NEW q \in 1 .. 5, q <= p, NEW x, DueIn(now, q, x)' PROVE DueIn(now, q, x)
  <2>1. CASE q = 1
    BY <1>3, <1>4, <1>5, <2>1 DEF DueIn
  <2>2. CASE q = 2
    BY <1>2, <1>5, <2>2 DEF DueIn
  <2>3. CASE q = 3
    BY <1>3, <1>4, <1>5, <2>3 DEF DueIn
  <2>4. CASE q = 4
    <3>1. p >= 4
      BY <1>5, <2>4
    <3> QED
      BY <1>3, <1>4, <1>5, <2>4, <3>1 DEF DueIn
  <2>5. CASE q = 5
    BY <1>3, <1>4, <1>5, <2>5 DEF DueIn
  <2> QED
    BY <1>5, <2>1, <2>2, <2>3, <2>4, <2>5
<1> QED
  BY <1>5 DEF NoneNew

LEMMA CatchEndPeriod ==
    ASSUME BillingInv, BillingInv', NEW now, NEW c \in Calls, ByItself(now, c), EndPeriod(c)
    PROVE  CatchesUp(now)
<1>1. PICK k : k = calls[c]
  OBVIOUS
<1>2. Ticks(now, k) /\ k.at = "end" /\ WellFormed(k)
  BY <1>1, TickTyped DEF EndPeriod
<1>3. k.phase = 3 /\ k.sub \in Subs
  BY <1>2 DEF Ticks, TickAt, WellFormed
<1>4. UNCHANGED invs /\ Go(c, Onward(k, k.rows))
  BY <1>1 DEF EndPeriod
<1>5. PICK to : to = IF k.row.cancel THEN "Cancelled" ELSE "Grace"
  OBVIOUS
<1>6. subs' = Moved(k.sub, "Active", to)
  BY <1>1, <1>5 DEF EndPeriod
<1>7. NoneNew(now, k.phase, k.sub) /\ subs'[k.sub].status # "Active"
  <2>1. CASE subs[k.sub].status = "Active"
    <3>1. subs'[k.sub].status \in {"Cancelled", "Grace"} /\ \A t \in Subs : t # k.sub => subs'[t] = subs[t]
      BY <1>3, <1>5, <1>6, <2>1, MovedRow
    <3> QED
      BY <1>3, <1>4, <3>1, StatusAway
  <2>2. CASE subs[k.sub].status # "Active"
    <3>1. subs' = subs
      BY <1>6, <2>2 DEF Moved
    <3> QED
      BY <1>4, <2>2, <3>1, DataStands
  <2> QED
    BY <2>1, <2>2
<1>8. \A x : InHand(k, x) => ~DueIn(now, k.phase, x)'
  BY <1>2, <1>3, <1>7 DEF InHand, DueIn, Ended
<1> QED
  BY <1>1, <1>2, <1>4, <1>7, <1>8, TickGoesOn

LEMMA CatchEndGrace ==
    ASSUME BillingInv, BillingInv', NEW now, NEW c \in Calls, ByItself(now, c), EndGrace(c)
    PROVE  CatchesUp(now)
<1>1. PICK k : k = calls[c]
  OBVIOUS
<1>2. Ticks(now, k) /\ k.op = "tick" /\ k.at = "grace" /\ k \in Call /\ WellFormed(k)
  BY <1>1, TickTyped DEF EndGrace
<1>3. k.phase = 4 /\ k.sub \in Subs
  BY <1>2 DEF Ticks, TickAt, WellFormed
<1>4. UNCHANGED invs
  BY DEF EndGrace
<1>5. PICK to : to = IF k.row.cancel THEN "Cancelled" ELSE "Suspended"
  OBVIOUS
<1>6. subs' = Moved(k.sub, "Grace", to)
  BY <1>1, <1>5 DEF EndGrace
<1>7. CASE subs[k.sub].status = "Grace"
  <2>1. subs'[k.sub].status = to /\ \A t \in Subs : t # k.sub => subs'[t] = subs[t]
    BY <1>3, <1>6, <1>7, MovedRow
  <2>2. NoneNew(now, k.phase, k.sub) /\ subs'[k.sub].status = to
    <3>1. to \in {"Suspended", "Cancelled"}
      BY <1>5
    <3>2. NoneNew(now, 4, k.sub) /\ subs'[k.sub].status = to
      BY <1>3, <1>4, <2>1, <3>1, StatusAway
    <3> QED
      BY <1>3, <3>2
  <2>3. PICK j : j = [k EXCEPT !.at = "open"]
    OBVIOUS
  <2>4. j.op = "tick" /\ j.now = k.now /\ j.at = "open" /\ j.phase = k.phase /\ j.rows = k.rows /\ j.sub = k.sub
    BY <1>2, <2>3 DEF Call
  <2>5. calls' = [calls EXCEPT ![c] = j]
    BY <1>1, <1>7, <2>3 DEF EndGrace, Go
  <2>6. TickAt(j) /\ Knows(j)'
    BY <1>3, <1>5, <2>2, <2>4 DEF TickAt, Knows
  <2>7. \A x : InHand(k, x) => ~DueIn(now, k.phase, x)'
    BY <1>2, <1>3, <1>5, <2>2 DEF InHand, DueIn, GraceOver
  <2> QED
    BY <1>1, <1>2, <2>2, <2>4, <2>5, <2>6, <2>7, TickKeepsOn
<1>8. CASE subs[k.sub].status # "Grace"
  <2>1. subs' = subs /\ Go(c, Onward(k, k.rows))
    BY <1>1, <1>6, <1>8 DEF Moved, EndGrace
  <2>2. NoneNew(now, k.phase, k.sub)
    BY <1>4, <2>1, DataStands
  <2>3. \A x : InHand(k, x) => ~DueIn(now, k.phase, x)'
    BY <1>2, <1>3, <1>8, <2>1 DEF InHand, DueIn, GraceOver
  <2> QED
    BY <1>1, <1>2, <2>1, <2>2, <2>3, TickGoesOn
<1> QED
  BY <1>7, <1>8

LEMMA CatchGraceOpen ==
    ASSUME BillingInv, BillingInv', NEW now, NEW c \in Calls, ByItself(now, c), GraceOpen(c)
    PROVE  CatchesUp(now)
<1>1. PICK k : k = calls[c]
  OBVIOUS
<1>2. Ticks(now, k) /\ k.op = "tick" /\ k.at = "open" /\ k \in Call
  BY <1>1, TickTyped DEF GraceOpen
<1>3. k.phase = 4 /\ Knows(k)
  BY <1>2 DEF Ticks, TickAt
<1>4. UNCHANGED <<subs, invs>>
  BY DEF GraceOpen
<1>5. NoneNew(now, k.phase, k.sub)
  BY <1>4, DataStands
<1>6. \A x : ~InHand(k, x)
  BY <1>2, <1>3 DEF InHand
<1>7. CASE OpenOf(k.sub) = {}
  <2>1. Go(c, Onward(k, k.rows))
    BY <1>1, <1>7 DEF GraceOpen
  <2> QED
    BY <1>1, <1>2, <1>5, <1>6, <2>1, TickGoesOn
<1>8. CASE OpenOf(k.sub) # {}
  <2>1. PICK i : i = OpenInvoice(k.sub)
    OBVIOUS
  <2>2. i \in OpenOf(k.sub)
    BY <1>8, <2>1, OpenInvoiceIsOpen
  <2>3. invs[i].sub = k.sub
    BY <2>2 DEF OpenOf, Of
  <2>4. PICK j : j = [k EXCEPT !.at = "expire", !.i = i]
    OBVIOUS
  <2>5. /\ j.op = "tick" /\ j.now = k.now /\ j.at = "expire" /\ j.phase = k.phase /\ j.rows = k.rows /\ j.sub = k.sub
        /\ j.i = i
    BY <1>2, <2>4 DEF Call
  <2>6. calls' = [calls EXCEPT ![c] = j]
    BY <1>1, <1>8, <2>1, <2>4 DEF GraceOpen, Go
  <2>7. TickAt(j) /\ Knows(j)
    BY <1>2, <1>3, <2>3, <2>5 DEF TickAt, Knows
  <2>8. Knows(j)'
    BY <1>4, <2>7, DataStands
  <2> QED
    BY <1>1, <1>2, <1>5, <1>6, <2>5, <2>6, <2>7, <2>8, TickKeepsOn
<1> QED
  BY <1>7, <1>8

LEMMA CatchPending ==
    ASSUME BillingInv, BillingInv', NEW now, NEW c \in Calls, ByItself(now, c), Pending(c)
    PROVE  CatchesUp(now)
<1>1. PICK k : k = calls[c]
  OBVIOUS
<1>2. Ticks(now, k) /\ k.op = "tick" /\ k.now = now /\ k.at = "pending" /\ k \in Call
  BY <1>1, TickTyped DEF Pending
<1>3. k.phase = 5 /\ k.i = 0
  BY <1>2 DEF Ticks, TickAt, Knows
<1>4. UNCHANGED <<subs, invs>>
  BY DEF Pending
<1>5. NoneNew(now, k.phase, k.sub)
  BY <1>4, DataStands
<1>6. ASSUME NEW j, j.op = "tick", j.now = k.now, j.at = "close", j.phase = k.phase, j.rows = k.rows, j.sub = k.sub,
             j.i # 0 => invs[j.i].sub = k.sub, calls' = [calls EXCEPT ![c] = j]
      PROVE  CatchesUp(now)
  <2>1. TickAt(j) /\ Knows(j)
    BY <1>3, <1>6 DEF TickAt, Knows
  <2>2. Knows(j)'
    BY <1>4, <2>1, DataStands
  <2>3. \A x : InHand(k, x) => InHand(j, x)
    BY <1>2, <1>3, <1>6 DEF InHand
  <2> QED
    BY <1>1, <1>2, <1>5, <1>6, <2>1, <2>2, <2>3, TickKeepsOn
<1>7. CASE OpenOf(k.sub) = {}
  <2>1. PICK j : j = [k EXCEPT !.at = "close"]
    OBVIOUS
  <2>2. j.op = "tick" /\ j.now = k.now /\ j.at = "close" /\ j.phase = k.phase /\ j.rows = k.rows /\ j.sub = k.sub /\ j.i = 0
    BY <1>2, <1>3, <2>1 DEF Call
  <2>3. calls' = [calls EXCEPT ![c] = j]
    BY <1>1, <1>7, <2>1 DEF Pending, Go
  <2> QED
    BY <1>6, <2>2, <2>3
<1>8. CASE OpenOf(k.sub) # {}
  <2>1. PICK i : i = OpenInvoice(k.sub)
    OBVIOUS
  <2>2. i \in OpenOf(k.sub)
    BY <1>8, <2>1, OpenInvoiceIsOpen
  <2>3. CASE invs[i].due > k.now
    <3>1. Go(c, Onward(k, k.rows))
      BY <1>1, <1>8, <2>1, <2>3 DEF Pending
    <3>2. invs[i].due \in Nat /\ k.now \in Nat
      BY <1>2, <2>2 DEF Call, OpenOf, Of, BillingInv, Types, DataTypes, InvoiceRow
    <3>3. ~DueIn(now, 5, k.sub)
      BY <1>2, <2>2, <2>3, <3>2 DEF DueIn, Unpaid
    <3>4. ~DueIn(now, 5, k.sub)'
      BY <1>4, <3>3, DataStands
    <3>5. \A x : InHand(k, x) => ~DueIn(now, k.phase, x)'
      BY <1>2, <1>3, <3>4 DEF InHand
    <3> QED
      BY <1>1, <1>2, <1>5, <3>1, <3>5, TickGoesOn
  <2>4. CASE ~(invs[i].due > k.now)
    <3>1. PICK j : j = [k EXCEPT !.at = "close", !.i = i]
      OBVIOUS
    <3>2. j.op = "tick" /\ j.now = k.now /\ j.at = "close" /\ j.phase = k.phase /\ j.rows = k.rows /\ j.sub = k.sub /\ j.i = i
      BY <1>2, <3>1 DEF Call
    <3>3. calls' = [calls EXCEPT ![c] = j]
      BY <1>1, <1>8, <2>1, <2>4, <3>1 DEF Pending, Go
    <3>4. invs[i].sub = k.sub
      BY <2>2 DEF OpenOf, Of
    <3> QED
      BY <1>6, <3>2, <3>3, <3>4
  <2> QED
    BY <2>3, <2>4
<1> QED
  BY <1>7, <1>8

LEMMA CatchClosePending ==
    ASSUME BillingInv, BillingInv', NEW now, NEW c \in Calls, ByItself(now, c), ClosePending(c)
    PROVE  CatchesUp(now)
<1>1. PICK k : k = calls[c]
  OBVIOUS
<1>2. Ticks(now, k) /\ k.op = "tick" /\ k.at = "close" /\ k \in Call /\ WellFormed(k)
  BY <1>1, TickTyped DEF ClosePending
<1>3. k.phase = 5 /\ k.sub \in Subs /\ (k.i # 0 => invs[k.i].sub = k.sub)
  BY <1>2 DEF Ticks, TickAt, Knows, WellFormed
<1>4. UNCHANGED invs
  BY DEF ClosePending
<1>5. subs' = Moved(k.sub, "Pending", "Cancelled")
  BY <1>1 DEF ClosePending
<1>6. NoneNew(now, k.phase, k.sub) /\ subs'[k.sub].status # "Pending"
      /\ (subs[k.sub].status = "Pending" => subs'[k.sub].status = "Cancelled")
  <2>1. CASE subs[k.sub].status = "Pending"
    <3>1. subs'[k.sub].status = "Cancelled" /\ \A t \in Subs : t # k.sub => subs'[t] = subs[t]
      BY <1>3, <1>5, <2>1, MovedRow
    <3>2. NoneNew(now, 5, k.sub) /\ subs'[k.sub].status = "Cancelled"
      BY <1>3, <1>4, <3>1, StatusAway
    <3> QED
      BY <1>3, <3>2
  <2>2. CASE subs[k.sub].status # "Pending"
    <3>1. subs' = subs
      BY <1>5, <2>2 DEF Moved
    <3> QED
      BY <1>4, <2>2, <3>1, DataStands
  <2> QED
    BY <2>1, <2>2
<1>7. \A x : InHand(k, x) => ~DueIn(now, k.phase, x)'
  BY <1>2, <1>3, <1>6 DEF InHand, DueIn, Unpaid
<1>8. CASE subs[k.sub].status = "Pending" /\ k.i # 0
  <2>1. PICK j : j = [k EXCEPT !.at = "expire"]
    OBVIOUS
  <2>2. /\ j.op = "tick" /\ j.now = k.now /\ j.at = "expire" /\ j.phase = k.phase /\ j.rows = k.rows /\ j.sub = k.sub
        /\ j.i = k.i
    BY <1>2, <2>1 DEF Call
  <2>3. calls' = [calls EXCEPT ![c] = j]
    BY <1>1, <1>8, <2>1 DEF ClosePending, Go
  <2>4. TickAt(j)
    BY <1>3, <2>2 DEF TickAt
  <2>5. Knows(j)'
    BY <1>3, <1>4, <1>6, <1>8, <2>2 DEF Knows
  <2> QED
    BY <1>1, <1>2, <1>6, <1>7, <2>2, <2>3, <2>4, <2>5, TickKeepsOn
<1>9. CASE ~(subs[k.sub].status = "Pending" /\ k.i # 0)
  <2>1. Go(c, Onward(k, k.rows))
    BY <1>1, <1>9 DEF ClosePending
  <2> QED
    BY <1>1, <1>2, <1>6, <1>7, <2>1, TickGoesOn
<1> QED
  BY <1>8, <1>9

LEMMA CatchExpire ==
    ASSUME BillingInv, BillingInv', NEW now, NEW c \in Calls, ByItself(now, c), Expire(c)
    PROVE  CatchesUp(now)
<1>1. PICK k : k = calls[c]
  OBVIOUS
<1>2. Ticks(now, k) /\ k.op = "tick" /\ k.at = "expire" /\ WellFormed(k)
  BY <1>1, TickTyped DEF Expire
<1>3. /\ k.phase \in {4, 5} /\ k.i \in Invoices /\ invs[k.i].sub = k.sub
      /\ subs[k.sub].status \in {"Suspended", "Cancelled"}
  BY <1>2 DEF Ticks, TickAt, Knows, WellFormed
<1>4. UNCHANGED subs /\ Go(c, Onward(k, k.rows))
  BY <1>1, <1>2 DEF Expire
<1>5. \A x : ~InHand(k, x)
  BY <1>2, <1>3 DEF InHand
<1>6. CASE invs[k.i].status = "Open"
  <2>1. PICK row : row = [invs[k.i] EXCEPT !.status = "Expired"]
    OBVIOUS
  <2>2. invs \in [Invoices -> InvoiceRow]
    BY DEF BillingInv, Types, DataTypes
  <2>3. row.sub = k.sub /\ row.status = "Expired"
    BY <1>3, <2>1, <2>2 DEF InvoiceRow
  <2>4. invs' = [invs EXCEPT ![k.i] = row]
    BY <1>1, <1>6, <2>1 DEF Expire, Turned
  <2>5. invs'[k.i] = row /\ \A n \in Invoices : n # k.i => invs'[n] = invs[n]
    BY <1>3, <2>2, <2>4
  <2>6. \A x : x # k.sub => Of(x)' = Of(x) /\ k.i \notin Of(x)
    BY <1>3, <2>3, <2>5 DEF Of
  <2>7. \A x : x # k.sub => OpenOf(x)' = OpenOf(x) /\ k.i \notin OpenOf(x)
    BY <2>5, <2>6 DEF OpenOf, Of
  <2>8. \A n \in Invoices : Chargeless(n)' => Chargeless(n)
    BY <2>3, <2>5 DEF Chargeless
  <2>9. \A n \in Invoices : invs'[n].status = "None" => invs[n].status = "None"
    BY <2>3, <2>5
  <2>10. ASSUME NEW x, Renewal(now, x)' PROVE Renewal(now, x)
    <3>1. x # k.sub
      BY <1>3, <1>4, <2>10 DEF Renewal
    <3>2. \A n \in Of(x) : n \in Of(x)' /\ invs'[n] = invs[n]
      BY <2>5, <2>6, <3>1 DEF Of
    <3>3. \A n \in Of(x) : ~(invs[n].start = subs[x].end /\ invs[n].status \in {"Open", "Paid"})
      BY <1>4, <2>10, <3>2 DEF Renewal
    <3> QED
      BY <1>4, <2>9, <2>10, <3>3 DEF Renewal
  <2>11. \A x : (Ended(now, x)' => Ended(now, x)) /\ (GraceOver(now, x)' => GraceOver(now, x))
    BY <1>4 DEF Ended, GraceOver
  <2>12. ASSUME NEW x, Unpaid(now, x)' PROVE Unpaid(now, x)
    <3>1. x # k.sub
      BY <1>3, <1>4, <2>12 DEF Unpaid
    <3>2. \A n \in OpenOf(x) : n \in OpenOf(x)' /\ invs'[n] = invs[n]
      BY <2>5, <2>7, <3>1 DEF OpenOf, Of
    <3> QED
      BY <1>4, <2>12, <3>2 DEF Unpaid
  <2>13. \A q, x : DueIn(now, q, x)' => DueIn(now, q, x)
    BY <2>8, <2>10, <2>11, <2>12 DEF DueIn
  <2>14. NoneNew(now, k.phase, k.sub)
    BY <1>4, <2>13 DEF NoneNew
  <2> QED
    BY <1>1, <1>2, <1>4, <1>5, <2>14, TickGoesOn
<1>7. CASE invs[k.i].status # "Open"
  <2>1. invs' = invs
    BY <1>1, <1>7 DEF Expire
  <2>2. NoneNew(now, k.phase, k.sub)
    BY <1>4, <2>1, DataStands
  <2> QED
    BY <1>1, <1>2, <1>4, <1>5, <2>2, TickGoesOn
<1> QED
  BY <1>6, <1>7

LEMMA CatchStatements ==
    ASSUME BillingInv, BillingInv', NEW now, NEW c \in Calls, ByItself(now, c), Step(c)
    PROVE  CatchesUp(now)
<1>1. Ticks(now, calls[c])
  BY DEF ByItself
<1>2. /\ calls[c].op = "tick"
      /\ calls[c].at \notin {"list", "void", "insert", "unlink", "next", "topup", "settle", "forget"}
  BY <1>1 DEF Ticks, TickAt
<1>3. CASE Exists(c) \/ NextNumber(c) \/ Raise(c) \/ CreateCharge(c) \/ StoreCharge(c)
  BY <1>3, CatchExists, CatchNextNumber, CatchRaise, CatchCreateCharge, CatchStoreCharge
<1>4. CASE Expire(c) \/ Select(c) \/ EndPeriod(c) \/ EndGrace(c)
  BY <1>4, CatchExpire, CatchSelect, CatchEndPeriod, CatchEndGrace
<1>5. CASE GraceOpen(c) \/ Pending(c) \/ ClosePending(c)
  BY <1>5, CatchGraceOpen, CatchPending, CatchClosePending
<1>6. ~ListOpen(c) /\ ~Void(c) /\ ~InsertSubscription(c) /\ ~Unlink(c) /\ ~RenewOpen(c)
  BY <1>2 DEF ListOpen, Void, InsertSubscription, Unlink, RenewOpen
<1>7. ~SetNextPlan(c) /\ ~SetPlan(c) /\ ~Reraise(c) /\ ~FinishCancel(c)
  BY <1>2 DEF SetNextPlan, SetPlan, Reraise, FinishCancel
<1>8. ~TopUp(c) /\ ~Settle(c) /\ ~LostCloses(c) /\ ~LostForgets(c)
  BY <1>2 DEF TopUp, Settle, LostCloses, LostForgets
<1> QED
  BY <1>3, <1>4, <1>5, <1>6, <1>7, <1>8 DEF Step

\* Only a call that is at a statement takes a step, and it goes on by Go.
LEMMA StepsGo ==
    ASSUME NEW c \in Calls, Step(c)
    PROVE  calls[c] # Idle /\ \E j : Go(c, j)
<1>1. CASE Exists(c) \/ NextNumber(c) \/ CreateCharge(c) \/ StoreCharge(c) \/ ListOpen(c)
  BY <1>1 DEF Exists, NextNumber, CreateCharge, StoreCharge, ListOpen, Idle
<1>2. CASE Raise(c)
  BY <1>2 DEF Raise, Idle
<1>3. CASE Void(c)
  BY <1>3 DEF Void, Idle
<1>4. CASE InsertSubscription(c)
  BY <1>4 DEF InsertSubscription, Idle
<1>5. CASE Expire(c) \/ Unlink(c) \/ RenewOpen(c)
  BY <1>5 DEF Expire, Unlink, RenewOpen, Idle
<1>6. CASE SetNextPlan(c) \/ SetPlan(c) \/ Reraise(c) \/ FinishCancel(c)
  BY <1>6 DEF SetNextPlan, SetPlan, Reraise, FinishCancel, Idle
<1>7. CASE TopUp(c) \/ Settle(c) \/ LostCloses(c) \/ LostForgets(c)
  BY <1>7 DEF TopUp, Settle, LostCloses, LostForgets, Idle
<1>8. CASE Select(c) \/ EndPeriod(c) \/ EndGrace(c) \/ GraceOpen(c) \/ Pending(c) \/ ClosePending(c)
  BY <1>8 DEF Select, EndPeriod, EndGrace, GraceOpen, Pending, ClosePending, Idle
<1> QED
  BY <1>1, <1>2, <1>3, <1>4, <1>5, <1>6, <1>7, <1>8 DEF Step

\* Requests and webhooks begin a call that is no tick.
LEMMA RequestsGo ==
    ASSUME NEW c \in Calls, Customer(c)
    PROVE  calls[c] = Idle /\ \E j : Go(c, j) /\ j.op # "tick"
<1>1. ASSUME NEW op, op # "tick", NEW s, NEW at, NEW p, Request(c, op, s, at, p)
      PROVE  calls[c] = Idle /\ \E j : Go(c, j) /\ j.op # "tick"
  <2>1. PICK j : j = Opening(op, at, s, p)
    OBVIOUS
  <2>2. j.op = op
    BY <2>1 DEF Opening, Idle
  <2>3. Go(c, j) /\ calls[c] = Idle
    BY <1>1, <2>1 DEF Request, Opening
  <2> QED
    BY <1>1, <2>2, <2>3
<1>2. ASSUME NEW p \in Plans, Subscribe(c, p)
      PROVE  calls[c] = Idle /\ \E j : Go(c, j) /\ j.op # "tick"
  <2>1. PICK j : j = [Idle EXCEPT !.op = "subscribe", !.at = "insert", !.plan = p, !.now = clock]
    OBVIOUS
  <2>2. j.op = "subscribe"
    BY <2>1 DEF Idle
  <2>3. Go(c, j) /\ calls[c] = Idle
    BY <1>2, <2>1 DEF Subscribe
  <2> QED
    BY <2>2, <2>3
<1>3. ASSUME NEW i \in Invoices, Reissue(c, i)
      PROVE  calls[c] = Idle /\ \E j : Go(c, j) /\ j.op # "tick"
  <2>1. PICK j : j = [Idle EXCEPT !.op = "reissue", !.at = "unlink", !.sub = invs[i].sub, !.i = i]
    OBVIOUS
  <2>2. j.op = "reissue"
    BY <2>1 DEF Idle
  <2>3. Go(c, j) /\ calls[c] = Idle
    BY <1>3, <2>1 DEF Reissue
  <2> QED
    BY <2>2, <2>3
<1>4. ASSUME NEW s \in Subs, Cancel(c, s) \/ CancelNow(c, s) \/ Renew(c, s)
      PROVE  calls[c] = Idle /\ \E j : Go(c, j) /\ j.op # "tick"
  BY <1>1, <1>4 DEF Cancel, CancelNow, Renew
<1>5. ASSUME NEW s \in Subs, NEW p \in Plans, ChangePlan(c, s, p)
      PROVE  calls[c] = Idle /\ \E j : Go(c, j) /\ j.op # "tick"
  BY <1>1, <1>5 DEF ChangePlan
<1> QED
  BY <1>2, <1>3, <1>4, <1>5 DEF Customer

LEMMA EventsGo ==
    ASSUME NEW c \in Calls, NEW m, OnEvent(c, m)
    PROVE  /\ UNCHANGED <<subs, invs>>
           /\ \/ UNCHANGED <<calls, alone>>
              \/ calls[c] = Idle /\ \E j : Go(c, j) /\ j.op # "tick"
<1>1. ASSUME NEW i PROVE PaidCall(i).op = "paid" /\ LostCall(i).op = "lost"
  BY DEF PaidCall, LostCall, Idle
<1>2. CASE invs[m[2]].status = "Open"
  <2>1. PICK j : j = IF m[1] = "paid" THEN PaidCall(m[2]) ELSE LostCall(m[2])
    OBVIOUS
  <2>2. j.op # "tick"
    BY <1>1, <2>1
  <2>3. Go(c, j) /\ calls[c] = Idle
    BY <1>2, <2>1 DEF OnEvent
  <2> QED
    BY <2>2, <2>3 DEF OnEvent
<1>3. CASE invs[m[2]].status # "Open"
  BY <1>3 DEF OnEvent
<1> QED
  BY <1>2, <1>3

\* What a step has to do with a tick that is by itself, if there is one.
Catching ==
    /\ AloneInv'
    /\ (alone /\ calls' = [c \in Calls |-> Idle] /\ faults' = faults)
         => \A c \in Calls, now \in Nat : (calls[c] # Idle /\ calls[c].now = now) => Caught(now)'

\* A call that begins beside the tick.
LEMMA Joined ==
    ASSUME BillingInv, NEW c \in Calls, calls[c] # Idle, NEW d \in Calls, calls[d] = Idle, NEW j, Go(d, j)
    PROVE  Catching
<1>1. d # c
  OBVIOUS
<1>2. alone' = FALSE
  BY <1>1 DEF Go
<1>3. calls'[c] = calls[c]
  BY <1>1 DEF Go, BillingInv, Types
<1> QED
  BY <1>2, <1>3 DEF Catching, AloneInv

\* A step that leaves the calls and the tables alone.
LEMMA TickWaits ==
    ASSUME BillingInv, NEW now, NEW c \in Calls, ByItself(now, c), calls[c] # Idle,
           UNCHANGED <<subs, invs, calls, alone>>
    PROVE  Catching
<1>n. now \in Nat
  BY DEF ByItself, Ticks, Call, BillingInv, Types
<1>1. PICK k : k = calls[c]
  OBVIOUS
<1>2. \A q, x : DueIn(now, q, x)' <=> DueIn(now, q, x)
  BY DataStands
<1>3. Knows(k) => Knows(k)'
  BY DataStands
<1>4. Ticks(now, k)
  BY <1>1 DEF ByItself
<1>5. Past(now, k)'
  BY <1>2, <1>4 DEF Ticks, Past, Complete
<1>6. Ahead(now, k)'
  <2> SUFFICES ASSUME k.at # "select", NEW x, DueIn(now, k.phase, x)'
               PROVE  Listed(k.phase, k.rows, x)' \/ InHand(k, x)'
    BY DEF Ahead
  <2>1. Listed(k.phase, k.rows, x) \/ InHand(k, x)
    BY <1>2, <1>4 DEF Ticks, Ahead
  <2> QED
    BY <2>1 DEF Listed, InHand
<1>7. Present(k)' /\ TickAt(k)'
  BY <1>4 DEF Ticks, Present, TickAt
<1>8. Ticks(now, k)'
  BY <1>3, <1>4, <1>5, <1>6, <1>7 DEF Ticks
<1>9. Ticks(now, calls[c])'
  BY <1>1, <1>8 DEF Ticks, TickAt, Past, Ahead, Present, Knows, InHand
<1>10. ByItself(now, c)'
  BY <1>9 DEF ByItself
<1>11. calls'[c] # Idle
  OBVIOUS
<1> QED
  BY <1>n, <1>10, <1>11 DEF Catching, AloneInv

LEMMA CatchingAlone ==
    ASSUME BillingInv, BillingInv', NEW now, NEW c \in Calls, ByItself(now, c), [Next]_vars
    PROVE  Catching
<1>1. calls[c] # Idle /\ \A d \in Calls \ {c} : calls[d] = Idle
  BY TickTyped DEF ByItself
<1>2. ASSUME NEW d \in Calls, Step(d) PROVE Catching
  <2>1. d = c
    BY <1>1, <1>2, StepsGo
  <2>2. CatchesUp(now)
    BY <1>2, <2>1, CatchStatements
  <2>3. \A e \in Calls : calls[e] # Idle => calls[e].now = now
    BY <1>1 DEF ByItself, Ticks
  <2> QED
    BY <2>2, <2>3 DEF CatchesUp, Catching
<1>3. ASSUME NEW d \in Calls, CreateFails(d) \/ StoreFails(d) \/ Fault(d) \/ Strand(d) PROVE Catching
  <2>1. faults \in Nat /\ faults' = faults - 1
    BY <1>3 DEF CreateFails, StoreFails, Fault, Strand, BillingInv, Types, DataTypes
  <2>2. alone' = FALSE
    BY <1>3 DEF CreateFails, StoreFails, Fault, Strand, Go, Idle
  <2> QED
    BY <2>1, <2>2 DEF Catching, AloneInv
<1>4. ASSUME NEW d \in Schedulers, TickStart(d) PROVE Catching
  <2>1. d \in Calls /\ calls[d] = Idle
    BY <1>4, BillingConstants DEF TickStart
  <2>2. PICK j : j = [Idle EXCEPT !.op = "tick", !.at = "select", !.phase = 1, !.now = clock]
    OBVIOUS
  <2>3. Go(d, j)
    BY <1>4, <2>2 DEF TickStart
  <2> QED
    BY <1>1, <2>1, <2>3, Joined
<1>5. ASSUME NEW d \in Servers, Customer(d) PROVE Catching
  <2>1. d \in Calls
    BY BillingConstants
  <2>2. PICK j : Go(d, j)
    BY <1>5, <2>1, RequestsGo
  <2>3. calls[d] = Idle
    BY <1>5, <2>1, RequestsGo
  <2> QED
    BY <1>1, <2>1, <2>2, <2>3, Joined
<1>6. ASSUME NEW d \in Servers, NEW m \in mail, OnEvent(d, m) PROVE Catching
  <2>1. d \in Calls
    BY BillingConstants
  <2>2. UNCHANGED <<subs, invs>>
    BY <1>6, <2>1, EventsGo
  <2>3. CASE UNCHANGED <<calls, alone>>
    BY <1>1, <2>2, <2>3, TickWaits
  <2>4. CASE calls[d] = Idle /\ \E j : Go(d, j) /\ j.op # "tick"
    <3>1. PICK j : Go(d, j)
      BY <2>4
    <3> QED
      BY <1>1, <2>1, <2>4, <3>1, Joined
  <2> QED
    BY <1>6, <2>1, <2>3, <2>4, EventsGo
<1>7. ASSUME NEW i \in Invoices, Pay(i) \/ LoseCharge(i) PROVE Catching
  <2>1. UNCHANGED <<subs, invs, calls, alone>>
    BY <1>7 DEF Pay, LoseCharge
  <2> QED
    BY <1>1, <2>1, TickWaits
<1>8. ASSUME Advance PROVE Catching
  <2>1. UNCHANGED <<subs, invs, calls, alone>>
    BY <1>8 DEF Advance
  <2> QED
    BY <1>1, <2>1, TickWaits
<1>9. ASSUME UNCHANGED vars PROVE Catching
  <2>1. UNCHANGED <<subs, invs, calls, alone>>
    BY <1>9 DEF vars
  <2> QED
    BY <1>1, <2>1, TickWaits
<1> QED
  BY <1>2, <1>3, <1>4, <1>5, <1>6, <1>7, <1>8, <1>9 DEF Next

\* A tick that begins with no other call running is by itself.
LEMMA TickBeginsAlone ==
    ASSUME BillingInv, NEW c \in Calls, TickStart(c)
    PROVE  AloneInv'
<1>1. PICK j : j = [Idle EXCEPT !.op = "tick", !.at = "select", !.phase = 1, !.now = clock]
  OBVIOUS
<1>n. PICK now \in Nat : now = clock
  BY DEF BillingInv, Types, DataTypes
<1>2. j.op = "tick" /\ j.at = "select" /\ j.phase = 1 /\ j.rows = {} /\ j.now = now
  BY <1>1, <1>n DEF Idle
<1>3. Go(c, j)
  BY <1>1 DEF TickStart
<1> SUFFICES ASSUME alone' PROVE \E t \in Nat : ByItself(t, c)'
  BY DEF AloneInv
<1>4. \A d \in Calls \ {c} : calls[d] = Idle
  BY <1>3 DEF Go
<1>5. calls'[c] = j /\ \A d \in Calls \ {c} : calls'[d] = Idle
  BY <1>3, <1>4 DEF Go, BillingInv, Types
<1>6. TickAt(calls[c])' /\ Past(now, calls[c])' /\ Ahead(now, calls[c])' /\ Present(calls[c])' /\ Knows(calls[c])'
  BY <1>2, <1>5 DEF TickAt, Past, Ahead, Present, Knows
<1>7. Ticks(now, calls[c])'
  BY <1>2, <1>5, <1>6 DEF Ticks
<1>8. ByItself(now, c)'
  BY <1>5, <1>7 DEF ByItself
<1> QED
  BY <1>n, <1>8

LEMMA CatchingOtherwise ==
    ASSUME BillingInv, ~alone, [Next]_vars
    PROVE  Catching
<1> SUFFICES AloneInv'
  BY DEF Catching
<1>1. ASSUME NEW d \in Calls, Step(d) PROVE AloneInv'
  <2>1. PICK j : Go(d, j)
    BY <1>1, StepsGo
  <2>2. calls[d] # Idle
    BY <1>1, StepsGo
  <2>3. alone' = FALSE
    BY <2>1, <2>2 DEF Go
  <2> QED
    BY <2>3 DEF AloneInv
<1>2. ASSUME NEW d \in Calls, CreateFails(d) \/ StoreFails(d) \/ Fault(d) \/ Strand(d) PROVE AloneInv'
  <2>1. alone' = FALSE
    BY <1>2 DEF CreateFails, StoreFails, Fault, Strand, Go, Idle
  <2> QED
    BY <2>1 DEF AloneInv
<1>3. ASSUME NEW d \in Schedulers, TickStart(d) PROVE AloneInv'
  BY <1>3, TickBeginsAlone, BillingConstants
<1>4. ASSUME NEW d \in Calls, NEW j, Go(d, j), j.op # "tick" PROVE AloneInv'
  <2>1. alone' = FALSE
    BY <1>4 DEF Go
  <2> QED
    BY <2>1 DEF AloneInv
<1>5. ASSUME NEW d \in Servers, Customer(d) PROVE AloneInv'
  <2>1. d \in Calls
    BY BillingConstants
  <2>2. PICK j : Go(d, j) /\ j.op # "tick"
    BY <1>5, <2>1, RequestsGo
  <2> QED
    BY <1>4, <2>1, <2>2
<1>6. ASSUME alone' = alone PROVE AloneInv'
  BY <1>6 DEF AloneInv
<1>7. ASSUME NEW d \in Servers, NEW m \in mail, OnEvent(d, m) PROVE AloneInv'
  <2>1. d \in Calls
    BY BillingConstants
  <2>2. CASE UNCHANGED <<calls, alone>>
    BY <1>6, <2>2
  <2>3. CASE \E j : Go(d, j) /\ j.op # "tick"
    BY <1>4, <2>1, <2>3
  <2> QED
    BY <1>7, <2>1, <2>2, <2>3, EventsGo
<1>8. CASE (\E i \in Invoices : Pay(i) \/ LoseCharge(i)) \/ Advance \/ UNCHANGED vars
  BY <1>6, <1>8 DEF Pay, LoseCharge, Advance, vars
<1> QED
  BY <1>1, <1>2, <1>3, <1>5, <1>7, <1>8 DEF Next

LEMMA AlwaysCatching ==
    ASSUME BillingInv, BillingInv', AloneInv, [Next]_vars
    PROVE  Catching
<1>1. CASE alone
  <2>1. PICK c \in Calls, now \in Nat : ByItself(now, c)
    BY <1>1 DEF AloneInv
  <2> QED
    BY <2>1, CatchingAlone
<1>2. CASE ~alone
  BY <1>2, CatchingOtherwise
<1> QED
  BY <1>1, <1>2

\* With every loop done, nothing is owed.
LEMMA CaughtUp ==
    ASSUME NEW now, Caught(now), NEW s \in Subs
    PROVE  ~Owed(s, now)
<1>1. ~DueIn(now, 1, s) /\ ~DueIn(now, 3, s) /\ ~DueIn(now, 4, s) /\ ~DueIn(now, 5, s) /\ \A i : ~DueIn(now, 2, i)
  BY DEF Caught, Complete
<1>2. ~Renewal(now, s) /\ ~Ended(now, s) /\ ~GraceOver(now, s) /\ ~Unpaid(now, s) /\ \A i \in Invoices : ~Chargeless(i)
  BY <1>1 DEF DueIn
<1>3. \A i \in OpenOf(s) : invs[i].charge
  BY <1>2 DEF Chargeless, OpenOf, Of
<1>4. ~(/\ subs[s].status = "Active" /\ ~subs[s].cancel /\ subs[s].end <= now + Lead
        /\ \A i \in Of(s) : ~(invs[i].start = subs[s].end /\ invs[i].status \in {"Open", "Paid"})
        /\ \E i \in Invoices : invs[i].status = "None")
  BY <1>2 DEF Renewal
<1>5. /\ ~(subs[s].status = "Active" /\ subs[s].end <= now)
      /\ ~(subs[s].status = "Grace" /\ subs[s].end + Grace <= now)
      /\ ~(subs[s].status = "Pending" /\ \A i \in OpenOf(s) : invs[i].due <= now)
  BY <1>2 DEF Ended, GraceOver, Unpaid
<1> QED
  BY <1>3, <1>4, <1>5, Zenon DEF Owed

\* A tick that runs to its end by itself and fails at nothing leaves nothing for a tick
\* as of the time it began to do: no renewal to raise, no open invoice without a charge,
\* no period or grace past its end, no subscription past the due date of its first
\* invoice; whatever earlier calls, faults and lost charges had left behind, and however
\* far the clock moves while it runs.
THEOREM TickLeavesNothingOwed == Spec => TickCatchesUp
<1> DEFINE Fine == (alone /\ calls' = [c \in Calls |-> Idle] /\ faults' = faults)
                     => \A s \in Subs, t \in 1..MaxClock :
                          (\E c \in Calls : calls[c] # Idle /\ calls[c].now = t) => ~Owed(s, t)'
<1>1. Init => AloneInv
  BY DEF Init, AloneInv
<1>2. BillingInv /\ BillingInv' /\ AloneInv /\ [Next]_vars => AloneInv'
  BY AlwaysCatching DEF Catching
<1>3. \A t \in Nat : Caught(t) => \A s \in Subs : ~Owed(s, t)
  BY CaughtUp
<1>4. (\A t \in Nat : Caught(t) => \A s \in Subs : ~Owed(s, t))'
  BY <1>3, PTL
<1>5. BillingInv /\ BillingInv' /\ AloneInv /\ [Next]_vars => Fine
  <2> SUFFICES ASSUME BillingInv, BillingInv', AloneInv, [Next]_vars,
                      alone, calls' = [c \in Calls |-> Idle], faults' = faults,
                      NEW s \in Subs, NEW t \in 1..MaxClock,
                      NEW c \in Calls, calls[c] # Idle, calls[c].now = t
               PROVE  ~Owed(s, t)'
    OBVIOUS
  <2>1. t \in Nat
    OBVIOUS
  <2>2. Caught(t)'
    BY <2>1, AlwaysCatching DEF Catching
  <2> QED
    BY <1>4, <2>1, <2>2
<1> QED
  BY <1>1, <1>2, <1>5, BillingInvariant, PTL DEF Spec, TickCatchesUp
=============================================================================
