------------------------------ MODULE Billing -------------------------------
(***************************************************************************)
(* Subscriptions over a database, a ledger and a payment gateway            *)
(* (rustlavel-billing: billing.rs, schema.rs, subscription.rs).             *)
(*                                                                          *)
(* A call is one task inside Billing: a customer's request, a webhook       *)
(* handed to on_event, or a run of the scheduled tick.  Every statement a   *)
(* call sends to the database, the ledger or the gateway is one step, and   *)
(* the other calls run between any two of them.  What a call read stays in  *)
(* its record and is used however old it is by then.                        *)
(*                                                                          *)
(* The ledger keeps its own promise (Ledger.tla): a top-up counts once for  *)
(* each reference, here the invoice.  The receiver keeps its own too        *)
(* (WebhookReceiver.tla): an event whose handler fails comes again, and one  *)
(* whose handler is cut off may not.                                        *)
(* Left out because nothing else reads them: prices, names, channels, the   *)
(* text of a charge, and the reminders a tick hands back (each claimed by   *)
(* one insert under a unique index).                                        *)
(***************************************************************************)
EXTENDS Integers, FiniteSets, FiniteSetsExt

CONSTANTS
    Subs,         \* subscription ids one customer can come to have
    Plans,        \* the configured plans; all of one cycle and one grace
    Calls,        \* tasks that can be inside Billing at once
    Schedulers,   \* the calls that run tick
    Servers,      \* the calls that serve customers and webhooks
    NoPlan,       \* next_plan_id = NULL
    Cycle, Grace, \* a plan's cycle and grace
    Lead,         \* Billing::lead
    Ttl,          \* Billing::first_invoice_ttl
    MaxClock,     \* bound: the clock
    MaxInvoices,  \* bound: invoices raised, over all subscriptions
    MaxRequests,  \* bound: customers' requests
    MaxFaults     \* bound: failing statements, gateway failures, lost charges

ASSUME BillingConstants ==
    /\ NoPlan \notin Plans /\ Schedulers \subseteq Calls /\ Servers \subseteq Calls
    /\ Cycle \in Nat \ {0} /\ Grace \in Nat /\ Lead \in Nat /\ Ttl \in Nat
    /\ MaxClock \in Nat \ {0} /\ MaxInvoices \in Nat
    /\ MaxRequests \in Nat /\ MaxFaults \in Nat

VARIABLES
    clock,
    subs,      \* billing_subscriptions
    invs,      \* billing_invoices
    topped,    \* the ledger: invoices whose credits are in
    payable,   \* the gateway: invoices with a charge that can be paid
    mail,      \* the gateway: events it has not seen handled
    calls,     \* where each call is and what it holds
    overtaken, \* history: subscriptions a payment settled in the middle of another call
    doubled,   \* history: subscriptions a payment settled beside another open invoice
    astray,    \* history: invoices whose payment was cut short for good, or that were
               \* closed when their payment was under way
    alone,     \* history: the tick that is running has had no other call beside it,
               \* and no charge has failed it
    requests, faults

budget == <<requests, faults>>
vars   == <<clock, subs, invs, topped, payable, mail, calls, overtaken, doubled, astray, alone, budget>>

Invoices == 1..MaxInvoices

-----------------------------------------------------------------------------
\* Rows.

NoSub(s) == [id |-> s, status |-> "None", plan |-> NoPlan, next |-> NoPlan,
             start |-> 0, end |-> 0, cancel |-> FALSE]

NoInvoice == [sub |-> NoPlan, plan |-> NoPlan, number |-> 0, start |-> 0, end |-> 0,
              due |-> 0, status |-> "None", charge |-> FALSE]

Of(s)     == {i \in Invoices : invs[i].sub = s}
OpenOf(s) == {i \in Of(s) : invs[i].status = "Open"}

\* Billing::open_invoice: the one with the highest number.
OpenInvoice(s) == CHOOSE i \in OpenOf(s) : \A j \in OpenOf(s) : invs[j].number <= invs[i].number

\* Billing::for_customer finds a subscription.
Live == {s \in Subs : subs[s].status \notin {"None", "Cancelled"}}

\* The plan the next invoice is for.
PlanOf(row) == IF row.next = NoPlan THEN row.plan ELSE row.next

\* A call between two operations.
Idle == [op |-> "none", at |-> "idle", phase |-> 0, rows |-> {}, i |-> 0,
         number |-> 0, start |-> 0, plan |-> NoPlan, sub |-> NoPlan, row |-> NoPlan, now |-> 0]

\* The five loops of tick_at begin with these statements.
Loops == <<"exists", "create", "end", "grace", "pending">>

\* A call of a tick that takes the next of the rows its loop selected.
TakeRow(phase, rows, now) ==
    LET r == CHOOSE r \in rows : TRUE
        k == [Idle EXCEPT !.op = "tick", !.at = Loops[phase], !.phase = phase, !.rows = rows \ {r},
                          !.now = now]
    IN  IF phase = 2 THEN [k EXCEPT !.i = r, !.sub = invs[r].sub]
                     ELSE [k EXCEPT !.row = r, !.sub = r.id]

\* What a call does next when it is done with an invoice or a row: a tick takes
\* the next row or begins its next loop, every other operation is over.
Onward(k, rows) ==
    IF k.op # "tick" THEN Idle
    ELSE IF rows # {} THEN TakeRow(k.phase, rows, k.now)
    ELSE IF k.phase < 5 THEN [Idle EXCEPT !.op = "tick", !.at = "select", !.phase = k.phase + 1, !.now = k.now]
    ELSE Idle

\* The call, not itself a payment, works from something it read about s.
Holds(k, s) ==
    /\ k.op # "paid"
    /\ \/ k.sub = s
       \/ k.phase \in {1, 3, 4, 5} /\ \E r \in k.rows : r.id = s

\* An invoice's row with another status.
Turned(i, status) == [invs[i] EXCEPT !.status = status]

\* The call goes on as k.  A tick stays alone if it was when it began.
Go(c, k) ==
    /\ calls' = [calls EXCEPT ![c] = k]
    /\ alone' = (/\ k.op = "tick" /\ (calls[c] = Idle \/ alone)
                 /\ \A d \in Calls \ {c} : calls[d] = Idle)

-----------------------------------------------------------------------------
\* Raising an invoice and attaching its charge: raise_renewal, raise, attach_charge.

\* raise_renewal: is there an invoice for the next period already?
Exists(c) ==
    LET k == calls[c]
        already == \E i \in Of(k.sub) : invs[i].start = k.row.end /\ invs[i].status \in {"Open", "Paid"}
    IN  /\ k.at = "exists"
        /\ Go(c, IF already THEN Onward(k, k.rows)
                 ELSE [k EXCEPT !.at = "number", !.plan = PlanOf(k.row), !.start = k.row.end])
        /\ UNCHANGED <<clock, subs, invs, topped, payable, mail, overtaken, doubled, astray, budget>>

\* next_number: the highest number so far, plus one.
NextNumber(c) ==
    LET k == calls[c] IN
    /\ k.at = "number"
    /\ Go(c, [k EXCEPT !.at = "raise", !.number = 1 + Max({0} \cup {invs[i].number : i \in Of(k.sub)})])
    /\ UNCHANGED <<clock, subs, invs, topped, payable, mail, overtaken, doubled, astray, budget>>

\* Mutant: the period of a renewal is in no index.
AdmitsAnyPeriod(k) == \A i \in Of(k.sub) : /\ invs[i].number # k.number
                                           /\ invs[i].status = "Open" => k.start # 0 \/ invs[i].start # 0

\* The unique indexes on (subscription_id, period_key) and (subscription_id, number)
\* let the row in: an open invoice's key is its period, a closed one's is its own.
Admits(k) == \A i \in Of(k.sub) : /\ invs[i].number # k.number
                                  /\ invs[i].status = "Open" => invs[i].start # k.start

\* raise: insert the invoice, or learn that another call was first.  The bound on
\* invoices is one more way for the insert to be refused.
Raise(c) ==
    LET k == calls[c]
        fresh == {i \in Invoices : invs[i].status = "None"}
        end == IF k.start = 0 THEN 0 ELSE k.start + Cycle
        due == IF k.start = 0 THEN k.now + Ttl ELSE k.start
    IN  /\ k.at = "raise"
        /\ IF Admits(k) /\ fresh # {}
           THEN /\ invs' = [invs EXCEPT ![Min(fresh)] =
                      [sub |-> k.sub, plan |-> k.plan, number |-> k.number, start |-> k.start,
                       end |-> end, due |-> due, status |-> "Open", charge |-> FALSE]]
                /\ Go(c, [Idle EXCEPT !.op = k.op, !.at = "create", !.phase = k.phase, !.rows = k.rows,
                                       !.i = Min(fresh), !.sub = k.sub, !.now = k.now])
           ELSE /\ Go(c, Onward(k, k.rows))
                /\ UNCHANGED invs
        /\ UNCHANGED <<clock, subs, topped, payable, mail, overtaken, doubled, astray, budget>>

\* attach_charge: create the charge at the gateway.
CreateCharge(c) ==
    LET k == calls[c] IN
    /\ k.at = "create"
    /\ Go(c, [k EXCEPT !.at = "store"])
    /\ payable' = payable \cup {k.i}
    /\ UNCHANGED <<clock, subs, invs, topped, mail, overtaken, doubled, astray, budget>>

\* The gateway refuses or cannot be reached: the invoice keeps charge_id = NULL.
CreateFails(c) ==
    LET k == calls[c] IN
    /\ k.at = "create" /\ faults > 0
    /\ calls' = [calls EXCEPT ![c] = Onward(k, k.rows)] /\ alone' = FALSE
    /\ faults' = faults - 1
    /\ UNCHANGED <<clock, subs, invs, topped, payable, mail, overtaken, doubled, astray, requests>>

\* External: cancel_charge, whose answer nobody looks at.  The gateway withdraws the
\* charge or does not, and the invoice may have another one besides: of the charges
\* the model keeps only whether the customer can still pay one of them.
CancelCharge(i) == payable' \in {payable, payable \ {i}}

\* attach_charge: store it if the invoice is open and has none, else it is surplus.
StoreCharge(c) ==
    LET k == calls[c] IN
    /\ k.at = "store"
    /\ IF invs[k.i].status = "Open" /\ ~invs[k.i].charge
       THEN /\ invs' = [invs EXCEPT ![k.i] = [invs[k.i] EXCEPT !.charge = TRUE]]
            /\ UNCHANGED payable
       ELSE CancelCharge(k.i) /\ UNCHANGED invs
    /\ Go(c, Onward(k, k.rows))
    /\ UNCHANGED <<clock, subs, topped, mail, overtaken, doubled, astray, budget>>

\* The update fails: the charge is withdrawn, and the call goes on.
StoreFails(c) ==
    LET k == calls[c] IN
    /\ k.at = "store" /\ faults > 0
    /\ CancelCharge(k.i)
    /\ calls' = [calls EXCEPT ![c] = Onward(k, k.rows)] /\ alone' = FALSE
    /\ faults' = faults - 1
    /\ UNCHANGED <<clock, subs, invs, topped, mail, overtaken, doubled, astray, requests>>

-----------------------------------------------------------------------------
\* Closing invoices: void_open_invoices, expire_invoice.

\* void_open_invoices: select the open ones.
ListOpen(c) ==
    LET k == calls[c] IN
    /\ k.at = "list"
    /\ Go(c, [k EXCEPT !.at = "void", !.rows = OpenOf(k.sub)])
    /\ UNCHANGED <<clock, subs, invs, topped, payable, mail, overtaken, doubled, astray, budget>>

\* The payment of an invoice that is being closed may be under way.
Closed(i) ==
    LET underWay == i \in topped \/ \E d \in Calls : calls[d].op = "paid" /\ calls[d].i = i
    IN  astray' = IF underWay THEN astray \cup {i} ELSE astray

\* Void one if it is still open, and withdraw its charge.
Void(c) ==
    LET k == calls[c] IN
    /\ k.at = "void"
    /\ \E i \in k.rows :
         IF invs[i].status = "Open"
         THEN /\ invs' = [invs EXCEPT ![i] = Turned(i, "Void")]
              /\ CancelCharge(i) /\ Closed(i)
              /\ Go(c, [k EXCEPT !.rows = k.rows \ {i}, !.i = i])
         ELSE /\ Go(c, [k EXCEPT !.rows = k.rows \ {i}])
              /\ UNCHANGED <<invs, payable, astray>>
    /\ UNCHANGED <<clock, subs, topped, mail, overtaken, doubled, budget>>

\* expire_invoice, for a tick or for a charge the gateway lost.
Expire(c) ==
    LET k == calls[c] IN
    /\ k.at = "expire"
    /\ IF invs[k.i].status = "Open"
       THEN invs' = [invs EXCEPT ![k.i] = Turned(k.i, "Expired")] /\ CancelCharge(k.i) /\ Closed(k.i)
       ELSE UNCHANGED <<invs, payable, astray>>
    /\ Go(c, IF k.op = "lost" THEN [k EXCEPT !.at = "close"] ELSE Onward(k, k.rows))
    /\ UNCHANGED <<clock, subs, topped, mail, overtaken, doubled, budget>>

-----------------------------------------------------------------------------
\* Customers' requests.

\* subscribe: refused while the customer has a live subscription.  The bound on
\* subscriptions leaves a row for every call that got this far.
Subscribe(c, p) ==
    /\ calls[c] = Idle /\ Live = {}
    /\ Cardinality({d \in Calls : calls[d].at = "insert"}) < Cardinality({s \in Subs : subs[s].status = "None"})
    /\ Go(c, [Idle EXCEPT !.op = "subscribe", !.at = "insert", !.plan = p, !.now = clock])
    /\ UNCHANGED <<clock, subs, invs, topped, payable, mail, overtaken, doubled, astray, budget>>

\* subscribe: insert the row, then raise the first invoice.
InsertSubscription(c) ==
    LET k == calls[c] IN
    /\ k.at = "insert"
    /\ \E s \in {s \in Subs : subs[s].status = "None"} :
         /\ subs' = [subs EXCEPT ![s] = [NoSub(s) EXCEPT !.status = "Pending", !.plan = k.plan]]
         /\ Go(c, [k EXCEPT !.at = "raise", !.sub = s, !.number = 1])
    /\ UNCHANGED <<clock, invs, topped, payable, mail, overtaken, doubled, astray, budget>>

\* The subscription a request names, read before anything else.
Request(c, op, s, at, p) ==
    /\ calls[c] = Idle /\ requests > 0
    /\ Go(c, [Idle EXCEPT !.op = op, !.at = at, !.sub = s, !.row = subs[s], !.plan = p, !.now = clock])
    /\ requests' = requests - 1
    /\ UNCHANGED <<clock, subs, invs, topped, payable, mail, overtaken, doubled, astray, faults>>

\* change_plan of a live subscription: at once while nothing is paid, else at the next cycle.
ChangePlan(c, s, p) ==
    /\ s \in Live
    /\ Request(c, "change", s, IF subs[s].status = "Pending" THEN "list" ELSE "next", p)

Cancel(c, s) ==
    subs[s].status # "None" /\ Request(c, "cancel", s, "list", NoPlan)

CancelNow(c, s) ==
    subs[s].status # "None" /\ Request(c, "cancel_now", s, "list", NoPlan)

Renew(c, s) ==
    subs[s].status = "Suspended" /\ Request(c, "renew", s, "open", PlanOf(subs[s]))

\* reissue an open invoice through another channel.
Reissue(c, i) ==
    /\ calls[c] = Idle /\ requests > 0 /\ invs[i].status = "Open"
    /\ Go(c, [Idle EXCEPT !.op = "reissue", !.at = "unlink", !.sub = invs[i].sub, !.i = i])
    /\ requests' = requests - 1
    /\ UNCHANGED <<clock, subs, invs, topped, payable, mail, overtaken, doubled, astray, faults>>

\* reissue: cancel the old charge and forget it, whatever the invoice is by now.
Unlink(c) ==
    LET k == calls[c] IN
    /\ k.at = "unlink"
    /\ CancelCharge(k.i)
    /\ invs' = [invs EXCEPT ![k.i] = [invs[k.i] EXCEPT !.charge = FALSE]]
    /\ Go(c, [k EXCEPT !.at = "create"])
    /\ UNCHANGED <<clock, subs, topped, mail, overtaken, doubled, astray, budget>>

\* renew: an open invoice is handed back, else one is raised whose period starts when paid.
RenewOpen(c) ==
    LET k == calls[c] IN
    /\ k.at = "open" /\ k.op = "renew"
    /\ Go(c, IF OpenOf(k.sub) # {} THEN Idle ELSE [k EXCEPT !.at = "number", !.now = clock])
    /\ UNCHANGED <<clock, subs, invs, topped, payable, mail, overtaken, doubled, astray, budget>>

\* change_plan, something paid: the plan of the next cycle, then void what is open.
SetNextPlan(c) ==
    LET k == calls[c] IN
    /\ k.at = "next"
    /\ subs' = [subs EXCEPT ![k.sub] =
         [subs[k.sub] EXCEPT !.next = IF k.plan = k.row.plan THEN NoPlan ELSE k.plan]]
    /\ Go(c, [k EXCEPT !.at = "list"])
    /\ UNCHANGED <<clock, invs, topped, payable, mail, overtaken, doubled, astray, budget>>

\* change_plan, nothing paid: with the first invoice void, the plan itself is replaced.
SetPlan(c) ==
    LET k == calls[c] IN
    /\ k.op = "change" /\ k.at = "void" /\ k.rows = {} /\ k.row.status = "Pending"
    /\ subs' = [subs EXCEPT ![k.sub] = [subs[k.sub] EXCEPT !.plan = k.plan]]
    /\ Go(c, [k EXCEPT !.at = "number"])
    /\ UNCHANGED <<clock, invs, topped, payable, mail, overtaken, doubled, astray, budget>>

\* change_plan, something paid: a voided renewal is raised again from the row as it is now.
Reraise(c) ==
    LET k == calls[c]
        next == IF k.plan = k.row.plan THEN NoPlan ELSE k.plan
    IN  /\ k.op = "change" /\ k.at = "void" /\ k.rows = {} /\ k.row.status # "Pending"
        /\ Go(c, IF k.i = 0 THEN Idle
                 ELSE [k EXCEPT !.at = "exists", !.row = [subs[k.sub] EXCEPT !.next = next]])
        /\ UNCHANGED <<clock, subs, invs, topped, payable, mail, overtaken, doubled, astray, budget>>

\* cancel and cancel_now: the last update, decided by the row read at the start.
FinishCancel(c) ==
    LET k == calls[c]
        later == k.op = "cancel" /\ k.row.status \in {"Active", "Grace"}
    IN  /\ k.op \in {"cancel", "cancel_now"} /\ k.at = "void" /\ k.rows = {}
        /\ subs' = [subs EXCEPT ![k.sub] =
             [subs[k.sub] EXCEPT !.cancel = TRUE, !.status = IF later THEN subs[k.sub].status ELSE "Cancelled"]]
        /\ Go(c, Idle)
        /\ UNCHANGED <<clock, invs, topped, payable, mail, overtaken, doubled, astray, budget>>

-----------------------------------------------------------------------------
\* The gateway, and money arriving: on_event, on_paid, on_charge_lost.

\* External: the customer pays a charge; the gateway will tell.
Pay(i) ==
    /\ i \in payable
    /\ payable' = payable \ {i}
    /\ mail' = mail \cup {<<"paid", i>>}
    /\ UNCHANGED <<clock, subs, invs, topped, calls, overtaken, doubled, astray, alone, budget>>

\* External: the gateway expires or fails a charge; it will tell.
LoseCharge(i) ==
    /\ i \in payable /\ faults > 0
    /\ payable' = payable \ {i}
    /\ mail' = mail \cup {<<"lost", i>>}
    /\ faults' = faults - 1
    /\ UNCHANGED <<clock, subs, invs, topped, calls, overtaken, doubled, astray, alone, requests>>

\* on_paid reads the invoice and the subscription, and decides where the new period starts.
PaidCall(i) ==
    LET inv == invs[i]
        fromNow == inv.number = 1 \/ inv.start = 0 \/ subs[inv.sub].status \in {"Pending", "Suspended"}
    IN  [Idle EXCEPT !.op = "paid", !.at = "topup", !.i = i, !.sub = inv.sub,
                     !.start = IF fromNow THEN clock ELSE inv.start]

\* on_charge_lost reads both: a first invoice ends the subscription, a renewal loses its charge.
LostCall(i) ==
    [Idle EXCEPT !.op = "lost", !.i = i, !.sub = invs[i].sub,
                 !.at = IF subs[invs[i].sub].status = "Pending" THEN "expire" ELSE "forget"]

\* on_event: an invoice that is not open is answered at once.  A row that changes
\* between the read of the invoice and of the subscription changes as well right
\* after the two, so the model reads both in one step.
OnEvent(c, m) ==
    LET i == m[2] IN
    /\ calls[c] = Idle /\ m \in mail
    /\ IF invs[i].status = "Open"
       THEN Go(c, IF m[1] = "paid" THEN PaidCall(i) ELSE LostCall(i)) /\ UNCHANGED mail
       ELSE mail' = mail \ {m} /\ UNCHANGED <<calls, alone>>
    /\ UNCHANGED <<clock, subs, invs, topped, payable, overtaken, doubled, astray, budget>>

\* Mutant: a top-up that is already there ends the call.
TopUpAlready(c) ==
    LET k == calls[c] IN
    /\ k.at = "topup"
    /\ topped' = topped \cup {k.i}
    /\ IF k.i \in topped THEN Go(c, Idle) /\ mail' = mail \ {<<"paid", k.i>>}
                         ELSE Go(c, [k EXCEPT !.at = "settle"]) /\ UNCHANGED mail
    /\ UNCHANGED <<clock, subs, invs, payable, overtaken, doubled, astray, budget>>

\* on_paid: the ledger's top_up, under the invoice's id.
TopUp(c) ==
    LET k == calls[c] IN
    /\ k.at = "topup"
    /\ topped' = topped \cup {k.i}
    /\ Go(c, [k EXCEPT !.at = "settle"])
    /\ UNCHANGED <<clock, subs, invs, payable, mail, overtaken, doubled, astray, budget>>

\* Mutant: the subscription is extended whether or not this call won the invoice.
SettleUnwon(c) ==
    LET k == calls[c] IN
    /\ k.at = "settle"
    /\ invs' = IF invs[k.i].status # "Open" THEN invs
               ELSE [invs EXCEPT ![k.i] = [Turned(k.i, "Paid") EXCEPT !.start = k.start, !.end = k.start + Cycle]]
    /\ subs' = [subs EXCEPT ![k.sub] = [subs[k.sub] EXCEPT !.status = "Active", !.next = NoPlan,
                                                            !.start = k.start, !.end = k.start + Cycle]]
    /\ Go(c, Idle)
    /\ mail' = mail \ {<<"paid", k.i>>}
    /\ UNCHANGED <<clock, topped, payable, overtaken, doubled, astray, budget>>

\* on_paid's transaction: open to paid and the subscription onto the new period, or Already.
Settle(c) ==
    LET k == calls[c]
        end == k.start + Cycle
    IN  /\ k.at = "settle"
        /\ IF invs[k.i].status = "Open"
           THEN /\ invs' = [invs EXCEPT ![k.i] =
                     [Turned(k.i, "Paid") EXCEPT !.start = k.start, !.end = end]]
                /\ subs' = [subs EXCEPT ![k.sub] =
                     [subs[k.sub] EXCEPT !.status = "Active", !.plan = invs[k.i].plan,
                                         !.next = NoPlan, !.start = k.start, !.end = end]]
                /\ overtaken' = IF \E d \in Calls \ {c} : Holds(calls[d], k.sub)
                                THEN overtaken \cup {k.sub} ELSE overtaken
                /\ doubled' = IF OpenOf(k.sub) # {k.i} THEN doubled \cup {k.sub} ELSE doubled
           ELSE UNCHANGED <<invs, subs, overtaken, doubled>>
        /\ Go(c, Idle)
        /\ mail' = mail \ {<<"paid", k.i>>}
        /\ UNCHANGED <<clock, topped, payable, astray, budget>>

\* on_charge_lost, pending: the invoice is expired, now close the subscription if it is still pending.
LostCloses(c) ==
    LET k == calls[c] IN
    /\ k.op = "lost" /\ k.at = "close"
    /\ subs' = IF subs[k.sub].status # "Pending" THEN subs
               ELSE [subs EXCEPT ![k.sub] = [subs[k.sub] EXCEPT !.status = "Cancelled"]]
    /\ mail' = mail \ {<<"lost", k.i>>}
    /\ Go(c, Idle)
    /\ UNCHANGED <<clock, invs, topped, payable, overtaken, doubled, astray, budget>>

\* on_charge_lost, a renewal: the next tick creates a fresh charge.
LostForgets(c) ==
    LET k == calls[c] IN
    /\ k.at = "forget"
    /\ invs' = IF invs[k.i].status # "Open" THEN invs
               ELSE [invs EXCEPT ![k.i] = [invs[k.i] EXCEPT !.charge = FALSE]]
    /\ mail' = mail \ {<<"lost", k.i>>}
    /\ Go(c, Idle)
    /\ UNCHANGED <<clock, subs, topped, payable, overtaken, doubled, astray, budget>>

-----------------------------------------------------------------------------
\* The schedule: tick_at, five loops over rows selected as each loop begins.

TickStart(c) ==
    /\ calls[c] = Idle
    /\ Go(c, [Idle EXCEPT !.op = "tick", !.at = "select", !.phase = 1, !.now = clock])
    /\ UNCHANGED <<clock, subs, invs, topped, payable, mail, overtaken, doubled, astray, budget>>

\* Mutant: periods are ended as early as their renewals are raised.
SelectedEarly(phase, now) ==
    CASE phase = 2 -> {i \in Invoices : invs[i].status = "Open" /\ ~invs[i].charge}
      [] phase = 4 -> {subs[s] : s \in {s \in Subs : subs[s].status = "Grace" /\ subs[s].end + Grace <= now}}
      [] phase = 5 -> {subs[s] : s \in {s \in Subs : subs[s].status = "Pending"}}
      [] OTHER -> {subs[s] : s \in {s \in Subs : subs[s].status = "Active" /\ subs[s].end <= now + Lead}}

\* The rows a loop of the tick works on: renewals to raise, open invoices without a charge,
\* periods that ended, grace that ran out, subscriptions nobody has paid for.
Selected(phase, now) ==
    CASE phase = 1 -> {subs[s] : s \in {s \in Subs : /\ subs[s].status = "Active" /\ ~subs[s].cancel
                                                     /\ subs[s].end <= now + Lead}}
      [] phase = 2 -> {i \in Invoices : invs[i].status = "Open" /\ ~invs[i].charge}
      [] phase = 3 -> {subs[s] : s \in {s \in Subs : subs[s].status = "Active" /\ subs[s].end <= now}}
      [] phase = 4 -> {subs[s] : s \in {s \in Subs : subs[s].status = "Grace" /\ subs[s].end + Grace <= now}}
      [] phase = 5 -> {subs[s] : s \in {s \in Subs : subs[s].status = "Pending"}}

Select(c) ==
    LET k == calls[c] IN
    /\ k.at = "select"
    /\ Go(c, Onward(k, Selected(k.phase, k.now)))
    /\ UNCHANGED <<clock, subs, invs, topped, payable, mail, overtaken, doubled, astray, budget>>

\* move_status: from -> to if it is still from.
Moved(s, from, to) ==
    IF subs[s].status # from THEN subs
    ELSE [subs EXCEPT ![s] = [subs[s] EXCEPT !.status = to]]

\* Loop 3: an ended period becomes grace, or the end the customer asked for.
EndPeriod(c) ==
    LET k == calls[c] IN
    /\ k.at = "end"
    /\ subs' = Moved(k.sub, "Active", IF k.row.cancel THEN "Cancelled" ELSE "Grace")
    /\ Go(c, Onward(k, k.rows))
    /\ UNCHANGED <<clock, invs, topped, payable, mail, overtaken, doubled, astray, budget>>

\* Loop 4: grace that ran out; the call that moved it goes on to the open invoice.
EndGrace(c) ==
    LET k == calls[c] IN
    /\ k.at = "grace"
    /\ subs' = Moved(k.sub, "Grace", IF k.row.cancel THEN "Cancelled" ELSE "Suspended")
    /\ Go(c, IF subs[k.sub].status = "Grace" THEN [k EXCEPT !.at = "open"] ELSE Onward(k, k.rows))
    /\ UNCHANGED <<clock, invs, topped, payable, mail, overtaken, doubled, astray, budget>>

\* Loop 4: the open invoice of what was just moved is to be expired.
GraceOpen(c) ==
    LET k == calls[c] IN
    /\ k.at = "open" /\ k.op = "tick"
    /\ Go(c, IF OpenOf(k.sub) = {} THEN Onward(k, k.rows)
             ELSE [k EXCEPT !.at = "expire", !.i = OpenInvoice(k.sub)])
    /\ UNCHANGED <<clock, subs, invs, topped, payable, mail, overtaken, doubled, astray, budget>>

\* Mutant: a pending subscription without an open invoice is passed over.
PendingSkips(c) ==
    LET k == calls[c]
        due == OpenOf(k.sub) # {} /\ invs[OpenInvoice(k.sub)].due <= k.now
    IN  /\ k.at = "pending"
        /\ Go(c, IF due THEN [k EXCEPT !.at = "close", !.i = OpenInvoice(k.sub)] ELSE Onward(k, k.rows))
        /\ UNCHANGED <<clock, subs, invs, topped, payable, mail, overtaken, doubled, astray, budget>>

\* Loop 5: a pending subscription with no open invoice, or one past due, is to be closed.
Pending(c) ==
    LET k == calls[c] IN
    /\ k.at = "pending"
    /\ Go(c, IF OpenOf(k.sub) = {} THEN [k EXCEPT !.at = "close"]
             ELSE IF invs[OpenInvoice(k.sub)].due > k.now THEN Onward(k, k.rows)
             ELSE [k EXCEPT !.at = "close", !.i = OpenInvoice(k.sub)])
    /\ UNCHANGED <<clock, subs, invs, topped, payable, mail, overtaken, doubled, astray, budget>>

\* Loop 5: close it if it is still pending, then expire the invoice it had.
ClosePending(c) ==
    LET k == calls[c] IN
    /\ k.op = "tick" /\ k.at = "close"
    /\ subs' = Moved(k.sub, "Pending", "Cancelled")
    /\ Go(c, IF subs[k.sub].status = "Pending" /\ k.i # 0 THEN [k EXCEPT !.at = "expire"]
             ELSE Onward(k, k.rows))
    /\ UNCHANGED <<clock, invs, topped, payable, mail, overtaken, doubled, astray, budget>>

-----------------------------------------------------------------------------
\* A statement fails and the call is over where it stands; the receiver of an event
\* withdraws its record, and the event comes again.
Fault(c) ==
    /\ calls[c] # Idle /\ faults > 0
    /\ Go(c, Idle)
    /\ faults' = faults - 1
    /\ UNCHANGED <<clock, subs, invs, topped, payable, mail, overtaken, doubled, astray, requests>>

\* The task panics or its process dies inside a handler: the receiver's record of the
\* event stays, and a delivery that comes again is answered as a duplicate.
Strand(c) ==
    LET k == calls[c] IN
    /\ k.op \in {"paid", "lost"} /\ faults > 0
    /\ Go(c, Idle)
    /\ mail' = mail \ {<<k.op, k.i>>}
    /\ astray' = IF k.op = "paid" THEN astray \cup {k.i} ELSE astray
    /\ faults' = faults - 1
    /\ UNCHANGED <<clock, subs, invs, topped, payable, overtaken, doubled, requests>>

\* The clock moves whatever is in flight: a call goes on with the time it read.
Advance ==
    /\ clock < MaxClock
    /\ clock' = clock + 1
    /\ UNCHANGED <<subs, invs, topped, payable, mail, calls, overtaken, doubled, astray, alone, budget>>

Init ==
    /\ clock = 1
    /\ subs = [s \in Subs |-> NoSub(s)]
    /\ invs = [i \in Invoices |-> NoInvoice]
    /\ topped = {} /\ payable = {} /\ mail = {} /\ overtaken = {} /\ doubled = {}
    /\ astray = {} /\ alone = FALSE
    /\ calls = [c \in Calls |-> Idle]
    /\ requests = MaxRequests /\ faults = MaxFaults

Step(c) ==
    \/ Exists(c) \/ NextNumber(c) \/ Raise(c) \/ CreateCharge(c) \/ StoreCharge(c)
    \/ ListOpen(c) \/ Void(c) \/ Expire(c)
    \/ InsertSubscription(c) \/ Unlink(c) \/ RenewOpen(c)
    \/ SetNextPlan(c) \/ SetPlan(c) \/ Reraise(c) \/ FinishCancel(c)
    \/ TopUp(c) \/ Settle(c) \/ LostCloses(c) \/ LostForgets(c)
    \/ Select(c) \/ EndPeriod(c) \/ EndGrace(c) \/ GraceOpen(c)
    \/ Pending(c) \/ ClosePending(c)

Customer(c) ==
    \/ \E p \in Plans : Subscribe(c, p)
    \/ \E s \in Subs, p \in Plans : ChangePlan(c, s, p)
    \/ \E s \in Subs : Cancel(c, s) \/ CancelNow(c, s) \/ Renew(c, s)
    \/ \E i \in Invoices : Reissue(c, i)

Next ==
    \/ \E c \in Calls : Step(c) \/ CreateFails(c) \/ StoreFails(c) \/ Fault(c) \/ Strand(c)
    \/ \E c \in Schedulers : TickStart(c)
    \/ \E c \in Servers : Customer(c)
    \/ \E c \in Servers, m \in mail : OnEvent(c, m)
    \/ \E i \in Invoices : Pay(i) \/ LoseCharge(i)
    \/ Advance

Spec == Init /\ [][Next]_vars

-----------------------------------------------------------------------------
\* Every variable holds what its column or its record can hold.
TypeOK ==
    /\ clock \in 1..MaxClock /\ requests \in 0..MaxRequests /\ faults \in 0..MaxFaults
    /\ \A s \in Subs :
         /\ subs[s].id = s /\ subs[s].cancel \in BOOLEAN
         /\ subs[s].status \in {"None", "Pending", "Active", "Grace", "Suspended", "Cancelled"}
         /\ subs[s].plan \in Plans \cup {NoPlan} /\ subs[s].next \in Plans \cup {NoPlan}
         /\ subs[s].start \in Nat /\ subs[s].end \in Nat
    /\ \A i \in Invoices :
         /\ invs[i].status \in {"None", "Open", "Paid", "Void", "Expired"}
         /\ invs[i].sub \in Subs \cup {NoPlan} /\ invs[i].plan \in Plans \cup {NoPlan}
         /\ invs[i].number \in Nat /\ invs[i].start \in Nat /\ invs[i].due \in Nat
         /\ invs[i].charge \in BOOLEAN
    /\ topped \subseteq Invoices /\ payable \subseteq Invoices /\ overtaken \cup doubled \subseteq Subs
    /\ astray \subseteq Invoices
    /\ mail \subseteq {"paid", "lost"} \X Invoices

\* Credits and payment match.  An invoice is marked paid only after its credits are
\* in the ledger, and credits that are in belong to an invoice that is paid, or to an
\* open one whose event will come again to complete it; so a payment that comes when
\* the invoice is closed already brings no credits.  The exceptions are payments that
\* went astray: on_paid was cut off by a panic or a crash, after which the receiver
\* takes a retry for a duplicate, or the invoice was closed while it was being paid.
CreditsMatchPayment ==
    \A i \in Invoices :
        /\ invs[i].status = "Paid" => i \in topped
        /\ i \in topped \ astray =>
               invs[i].status = "Paid" \/ (invs[i].status = "Open" /\ <<"paid", i>> \in mail)

\* A period nobody paid for is never served: the period a subscription runs on is
\* the period of a paid invoice of its own, whichever calls raced to write it.
PeriodIsPaid ==
    \A s \in Subs : subs[s].end > 0 =>
        \E i \in Of(s) : invs[i].status = "Paid" /\ invs[i].start = subs[s].start
                                                 /\ invs[i].end = subs[s].end

\* Grace: "the period has ended and the renewal is unpaid".  It holds of a
\* subscription as long as no payment settles in the middle of another call that
\* works on it; move_status looks at the status only, so a tick that selected the
\* row before the payment moves it to grace after the payment.
GraceMeansEndedSerially ==
    \A s \in Subs \ overtaken : subs[s].status = "Grace" => subs[s].end <= clock

\* One invoice bills a period.  The index on period_key keeps two open ones apart,
\* and a renewal begins where the paid periods end; unless a payment comes between
\* the check for an invoice and the insert, or settles while another invoice of
\* the subscription is open, whose period it may come to share.
PeriodBilledOnceSerially ==
    \A s \in Subs \ (overtaken \cup doubled) : \A i, j \in Of(s) :
        (i # j /\ {invs[i].status, invs[j].status} \subseteq {"Open", "Paid"})
            => invs[i].start # invs[j].start

\* Something a tick as of now has to do about s: raise a renewal, give an open invoice
\* a charge, end a period or a grace, close a subscription nobody paid for.
Owed(s, now) ==
    \/ /\ subs[s].status = "Active" /\ ~subs[s].cancel /\ subs[s].end <= now + Lead
       /\ \A i \in Of(s) : ~(invs[i].start = subs[s].end /\ invs[i].status \in {"Open", "Paid"})
       /\ \E i \in Invoices : invs[i].status = "None"
    \/ \E i \in OpenOf(s) : ~invs[i].charge
    \/ subs[s].status = "Active" /\ subs[s].end <= now
    \/ subs[s].status = "Grace" /\ subs[s].end + Grace <= now
    \/ subs[s].status = "Pending" /\ \A i \in OpenOf(s) : invs[i].due <= now

\* One run of tick catches up with everything: whatever earlier calls left half
\* done when they failed or raced, a tick that runs to its end by itself, and
\* fails at nothing, leaves nothing owed as of the time it began.
TickCatchesUp ==
    [][(alone /\ calls' = [c \in Calls |-> Idle] /\ faults' = faults)
         => \A s \in Subs, t \in 1..MaxClock :
                (\E c \in Calls : calls[c] # Idle /\ calls[c].now = t) => ~Owed(s, t)']_vars
=============================================================================
