------------------------------- MODULE Ledger -------------------------------
(***************************************************************************)
(* The double-entry ledger (rustlavel-ledger).                              *)
(*                                                                          *)
(* Application tasks and scheduled sweeps run their calls concurrently      *)
(* against one database.  A call is a lookup outside any transaction and    *)
(* then one transaction.  The transaction is split where another one can    *)
(* come in between: after its begin, after the guarded update that takes    *)
(* the owner's row lock, after each plain read whose result is used later,  *)
(* and at the commit.  An update waits for the row's lock; the rows a       *)
(* transaction wrote stay locked until it ends and change for the others    *)
(* when it commits.  Accounts, lots and holds are named by what makes them  *)
(* unique: the owner, the top-up's reference, the hold's reference.         *)
(***************************************************************************)
EXTENDS Integers, FiniteSets, FiniteSetsExt

CONSTANTS
    Callers,      \* application tasks
    Sweepers,     \* tasks that run the scheduled sweep
    Owners,       \* accounts that are not system accounts
    Requests,     \* the top_up, consume and hold calls the application makes
    Engines,      \* the databases considered: "postgres", "mysql", "sqlite"
    MaxTime,      \* bound: ticks of the clock
    MaxCalls,     \* bound: calls, retries included
    MaxFaults,    \* bound: connections that break inside a transaction
    Null

VARIABLES
    engine,       \* the database the ledger runs on
    now,          \* unix time
    opened,       \* ledger_accounts: the rows that exist
    balance,      \* ledger_accounts.balance
    held,         \* ledger_accounts.held
    transfers,    \* ledger_transfers by reference; each has its two entries
    lots,         \* ledger_lots, by the reference of the top-up
    holds,        \* ledger_holds by reference
    pc,           \* where each task is in its call
    op,           \* the call's arguments
    view,         \* what the open transaction has read: lots and available
    lock,         \* the rows the open transaction has locked
    todo,         \* holds or lots a sweep has selected and not yet visited
    swept,        \* the `now' a sweep began with
    calls, faults \* what is left of the bounds

book  == <<opened, balance, held, transfers, lots, holds>>
task  == <<pc, op, view, lock, todo, swept>>
vars  == <<engine, now, book, task, calls, faults>>

Tasks    == Callers \cup Sweepers
Topup    == "system:topup"
Consumed == "system:consumption"
Expiry   == "system:expiry"
Systems  == {Topup, Consumed, Expiry}
Accounts == Owners \cup Systems
Refs     == {r.ref : r \in Requests}
\* Transfer references: the caller's own, and the two the ledger makes up.
Keys     == {"call", "capture", "expire"} \X Refs

Request == [kind : {"TopUp", "Consume", "Hold"}, owner : Owners,
            amount : Nat \ {0}, ref : Refs, ttl : Nat \cup {Null}]

\* Rows of the book's tables.
Transfer == [from : Accounts, to : Accounts, amount : Nat]
Lot      == [owner : Owners, remaining : Nat, expiresAt : Nat \cup {Null}]
Hold     == [owner : Owners, amount : Nat \ {0}, status : {"held", "captured", "released"},
             expiresAt : Nat]
Book     == [Refs -> Lot \cup {Null}]

\* What a task is in the middle of, what its transaction has read and locks.
Operation == [kind : {"TopUp", "Consume", "Hold", "Capture", "Expire"}, owner : Owners,
              amount : Nat, ref : Refs, ttl : Nat \cup {Null}]
View      == [lots : Book, available : Int]
Rows      == ({"account"} \X Owners) \cup ({"lot", "hold"} \X Refs) \cup {<<"db", Null>>}
PCs       == {"idle", "begin", "guard", "charge", "draw", "commit", "sweepHolds",
              "sweepLots", "readAccount", "zero", "expire"}

ASSUME LedgerConstants ==
    /\ Engines \subseteq {"postgres", "mysql", "sqlite"}
    /\ Callers \cap Sweepers = {} /\ Owners \cap Systems = {}
    /\ IsFiniteSet(Owners) /\ IsFiniteSet(Requests)
    /\ \A r \in Requests : /\ r \in Request
                           /\ r.kind = "Hold" => r.ttl # Null
    /\ MaxTime \in Nat /\ MaxCalls \in Nat /\ MaxFaults \in Nat
    /\ Null \notin Int /\ Null \notin Transfer /\ Null \notin Lot
    /\ Null \notin Hold /\ Null \notin Operation

-----------------------------------------------------------------------------
(* Reading the book.                                                        *)

available(o) == balance[o] - held[o]

\* A reference already in ledger_transfers, which the unique index refuses.
Taken(k) == transfers[k] # Null

Exists(l) == lots[l] # Null

IsHeld(h) == holds[h] # Null /\ holds[h].status = "held"

\* draw_lots' sort key: the earliest expiry first, those that never expire last.
Earlier(a, b) ==
    /\ a.expiresAt # Null
    /\ b.expiresAt = Null \/ a.expiresAt < b.expiresAt

\* A lot with another remainder.
Leaving(row, n) == [row EXCEPT !.remaining = n]

\* One turn of draw_lots' loop: `take' comes from the rows that were read, the
\* update's guard from the row as it is now.
DrawOne(seen, acc, l) ==
    LET take == Min({seen[l].remaining, acc.left})
    IN  IF acc.left > 0 /\ acc.lots[l].remaining >= take
        THEN [left |-> acc.left - take,
              lots |-> [acc.lots EXCEPT ![l] = Leaving(acc.lots[l], acc.lots[l].remaining - take)]]
        ELSE acc

\* The rows draw_lots' select finds, and the one of them its sort puts last.
Drawable(seen, o) == {l \in Refs : seen[l] # Null /\ seen[l].owner = o /\ seen[l].remaining > 0}
LastOf(seen, T)   == CHOOSE l \in T : \A m \in T : ~ Earlier(seen[l], seen[m])

\* Mutant: the loop stops after the first lot.
draw_lots_first(seen, o, amount) ==
    LET mine  == Drawable(seen, o)
        first == CHOOSE l \in mine : \A m \in mine : ~ Earlier(seen[m], seen[l])
    IN  IF mine = {} THEN lots
        ELSE DrawOne(seen, [left |-> amount, lots |-> lots], first).lots

\* The lots after draw_lots took `amount' from the owner's, having read `seen':
\* the turn of the lot that is sorted last comes after those of the others.
draw_lots(seen, o, amount) ==
    MapThenFoldSet(LAMBDA l, acc : DrawOne(seen, acc, l), [left |-> amount, lots |-> lots],
                   LAMBDA l : l, LAMBDA T : LastOf(seen, T), Drawable(seen, o)).lots

-----------------------------------------------------------------------------
(* Locks and the ends of a transaction.                                     *)

AccountRow(o) == <<"account", o>>
LotRow(l)     == <<"lot", l>>
HoldRow(h)    == <<"hold", h>>

\* `begin immediate' takes SQLite's one write lock; the others take none.
BeginRows == IF engine = "sqlite" THEN {<<"db", Null>>} ELSE {}

\* No other transaction holds any of these rows.
Free(p, rows) == \A q \in Tasks \ {p} : lock[q] \cap rows = {}

Empty == [lots |-> [l \in Refs |-> Null], available |-> 0]

\* What a plain read sees from now on.  MySQL's first read in a transaction
\* fixes it; elsewhere every statement reads what is committed.
Snapshot(o) == [lots |-> lots, available |-> available(o)]

\* The task's transaction is over and its call has returned.
Return(p) ==
    /\ pc' = [pc EXCEPT ![p] = "idle"]
    /\ lock' = [lock EXCEPT ![p] = {}]
    /\ view' = [view EXCEPT ![p] = Empty]
    /\ op' = [op EXCEPT ![p] = Null]
    /\ UNCHANGED <<todo, swept, calls, faults, engine, now>>

\* Like Return, for one lot of a sweep: the loop goes on with the next.
NextLot(p) ==
    /\ pc' = [pc EXCEPT ![p] = "sweepLots"]
    /\ lock' = [lock EXCEPT ![p] = {}]
    /\ view' = [view EXCEPT ![p] = Empty]
    /\ op' = [op EXCEPT ![p] = Null]
    /\ UNCHANGED <<todo, swept, calls, faults, engine, now>>

Goto(p, label, rows) ==
    /\ pc' = [pc EXCEPT ![p] = label]
    /\ lock' = [lock EXCEPT ![p] = @ \cup rows]

-----------------------------------------------------------------------------
(* top_up, consume and hold.                                                *)

\* Find the account or insert it; the unique index on the owner lets one of
\* two racing inserts through and the other one's next attempt finds the row.
ensure_account(accounts) == opened' = opened \cup accounts

\* The lookup that makes a retry return the first result, then ensure_account.
\* A hit returns what is there and changes nothing.
Call(p, r) ==
    /\ pc[p] = "idle" /\ calls > 0
    /\ IF r.kind = "Hold" THEN holds[r.ref] = Null ELSE ~Taken(<<"call", r.ref>>)
    /\ ensure_account({r.owner} \cup (CASE r.kind = "TopUp" -> {Topup}
                                        [] r.kind = "Consume" -> {Consumed}
                                        [] r.kind = "Hold" -> {}))
    /\ pc' = [pc EXCEPT ![p] = "begin"]
    /\ op' = [op EXCEPT ![p] = r]
    /\ calls' = calls - 1
    /\ UNCHANGED <<now, balance, held, transfers, lots, holds, view, lock, todo, swept, faults, engine>>

\* begin, and the reads of account_in.
Begin(p) ==
    /\ pc[p] = "begin" /\ Free(p, BeginRows)
    /\ Goto(p, IF op[p].kind = "TopUp" THEN "commit" ELSE "guard", BeginRows)
    /\ view' = [view EXCEPT ![p] = Snapshot(op[p].owner)]
    /\ UNCHANGED <<now, book, op, todo, swept, calls, faults, engine>>

\* Mutant: the guard looks at the balance and forgets what is held.
GuardIgnoresHeld(p) ==
    /\ pc[p] = "guard" /\ Free(p, {AccountRow(op[p].owner)})
    /\ balance[op[p].owner] >= op[p].amount
    /\ Goto(p, IF op[p].kind = "Hold" THEN "commit" ELSE "draw", {AccountRow(op[p].owner)})
    /\ UNCHANGED <<now, book, op, view, todo, swept, calls, faults, engine>>

\* debit_available, and the same guard in hold: the check is the lock.
Guard(p) ==
    /\ pc[p] = "guard" /\ Free(p, {AccountRow(op[p].owner)})
    /\ available(op[p].owner) >= op[p].amount
    /\ Goto(p, IF op[p].kind = "Hold" THEN "commit" ELSE "draw", {AccountRow(op[p].owner)})
    /\ UNCHANGED <<now, book, op, view, todo, swept, calls, faults, engine>>

\* Zero rows updated: roll back and report insufficient credits.
Insufficient(p) ==
    /\ pc[p] = "guard" /\ Free(p, {AccountRow(op[p].owner)})
    /\ available(op[p].owner) < op[p].amount
    /\ Return(p)
    /\ UNCHANGED book

\* draw_lots' select.
SelectLots(p) ==
    /\ pc[p] = "draw"
    /\ pc' = [pc EXCEPT ![p] = "commit"]
    /\ view' = IF engine = "mysql" THEN view
                ELSE [view EXCEPT ![p] = [view[p] EXCEPT !.lots = lots]]
    /\ UNCHANGED <<now, book, op, lock, todo, swept, calls, faults, engine>>

\* record: the transfer under its unique reference, and its two entries.
record(k, from, to, amount) ==
    transfers' = [transfers EXCEPT ![k] = [from |-> from, to |-> to, amount |-> amount]]

move(from, to, amount) ==
    balance' = [balance EXCEPT ![from] = @ - amount, ![to] = @ + amount]

expires(r) == IF r.ttl = Null THEN Null ELSE now + r.ttl

CommitTopUp(p) ==
    LET r == op[p] IN
    /\ pc[p] = "commit" /\ r.kind = "TopUp"
    /\ Free(p, {AccountRow(r.owner)}) /\ ~Taken(<<"call", r.ref>>)
    /\ move(Topup, r.owner, r.amount)
    /\ record(<<"call", r.ref>>, Topup, r.owner, r.amount)
    /\ lots' = [lots EXCEPT ![r.ref] =
                  [owner |-> r.owner, remaining |-> r.amount, expiresAt |-> expires(r)]]
    /\ Return(p)
    /\ UNCHANGED <<opened, held, holds>>

\* The lots a draw changes, which must be free for the transaction to write.
Drawn(p) == {l \in Refs : draw_lots(view[p].lots, op[p].owner, op[p].amount)[l] # lots[l]}

\* credit, draw_lots' updates and record, for consume.
CommitConsume(p) ==
    LET r == op[p] IN
    /\ pc[p] = "commit" /\ r.kind = "Consume"
    /\ Free(p, {LotRow(l) : l \in Drawn(p)}) /\ ~Taken(<<"call", r.ref>>)
    /\ move(r.owner, Consumed, r.amount)
    /\ lots' = draw_lots(view[p].lots, r.owner, r.amount)
    /\ record(<<"call", r.ref>>, r.owner, Consumed, r.amount)
    /\ Return(p)
    /\ UNCHANGED <<opened, held, holds>>

CommitHold(p) ==
    LET r == op[p] IN
    /\ pc[p] = "commit" /\ r.kind = "Hold" /\ holds[r.ref] = Null
    /\ held' = [held EXCEPT ![r.owner] = @ + r.amount]
    /\ holds' = [holds EXCEPT ![r.ref] = [owner |-> r.owner, amount |-> r.amount,
                                          status |-> "held", expiresAt |-> expires(r)]]
    /\ Return(p)
    /\ UNCHANGED <<opened, balance, transfers, lots>>

\* The unique index refuses the insert: roll back, answer with the winner's.
LoseRace(p) ==
    /\ pc[p] = "commit" /\ op[p].kind \in {"TopUp", "Consume", "Hold"}
    /\ op[p].kind = "TopUp" => Free(p, {AccountRow(op[p].owner)})
    /\ op[p].kind = "Consume" => Free(p, {LotRow(l) : l \in Drawn(p)})
    /\ IF op[p].kind = "Hold" THEN holds[op[p].ref] # Null ELSE Taken(<<"call", op[p].ref>>)
    /\ Return(p)
    /\ UNCHANGED book

-----------------------------------------------------------------------------
(* capture and release.  On a hold that is not held both report an error    *)
(* and change nothing.                                                      *)

\* The compare-and-set from held to captured, and the reads after it.
ClaimHold(p, h) ==
    /\ pc[p] = "idle" /\ calls > 0 /\ IsHeld(h)
    /\ Free(p, {HoldRow(h)} \cup BeginRows)
    /\ ensure_account({Consumed})
    /\ Goto(p, "charge", {HoldRow(h)} \cup BeginRows)
    /\ op' = [op EXCEPT ![p] = [kind |-> "Capture", owner |-> holds[h].owner,
                                amount |-> holds[h].amount, ref |-> h, ttl |-> Null]]
    /\ view' = [view EXCEPT ![p] = Snapshot(holds[h].owner)]
    /\ calls' = calls - 1
    /\ UNCHANGED <<now, balance, held, transfers, lots, holds, todo, swept, faults, engine>>

\* The update of the account, with no guard: the hold covers the amount.
Charge(p) ==
    /\ pc[p] = "charge" /\ Free(p, {AccountRow(op[p].owner)})
    /\ Goto(p, "draw", {AccountRow(op[p].owner)})
    /\ UNCHANGED <<now, book, op, view, todo, swept, calls, faults, engine>>

CommitCapture(p) ==
    LET r == op[p] IN
    /\ pc[p] = "commit" /\ r.kind = "Capture"
    /\ Free(p, {LotRow(l) : l \in Drawn(p)}) /\ ~Taken(<<"capture", r.ref>>)
    /\ holds' = [holds EXCEPT ![r.ref] = [holds[r.ref] EXCEPT !.status = "captured"]]
    /\ move(r.owner, Consumed, r.amount)
    /\ held' = [held EXCEPT ![r.owner] = @ - r.amount]
    /\ lots' = draw_lots(view[p].lots, r.owner, r.amount)
    /\ record(<<"capture", r.ref>>, r.owner, Consumed, r.amount)
    /\ Return(p)
    /\ UNCHANGED opened

\* Mutant: release gives the credits back whatever the hold's status.
release_in_any(p, h) ==
    /\ Free(p, {HoldRow(h), AccountRow(holds[h].owner)} \cup BeginRows)
    /\ holds' = [holds EXCEPT ![h] = [holds[h] EXCEPT !.status = "released"]]
    /\ held' = [held EXCEPT ![holds[h].owner] = @ - holds[h].amount]

\* Mutant: the hold is released and the account's reservation forgotten.
release_in_keeps(p, h) ==
    /\ Free(p, {HoldRow(h), AccountRow(holds[h].owner)} \cup BeginRows)
    /\ IsHeld(h)
    /\ holds' = [holds EXCEPT ![h] = [holds[h] EXCEPT !.status = "released"]]
    /\ held' = held

release_in(p, h) ==
    /\ Free(p, {HoldRow(h), AccountRow(holds[h].owner)} \cup BeginRows)
    /\ IsHeld(h)
    /\ holds' = [holds EXCEPT ![h] = [holds[h] EXCEPT !.status = "released"]]
    /\ held' = [held EXCEPT ![holds[h].owner] = @ - holds[h].amount]

Release(p, h) ==
    /\ pc[p] = "idle" /\ calls > 0 /\ holds[h] # Null
    /\ release_in(p, h)
    /\ calls' = calls - 1
    /\ UNCHANGED <<now, opened, balance, transfers, lots, task, faults, engine>>

-----------------------------------------------------------------------------
(* sweep.                                                                   *)

\* Mutant: the sweep looks at the wrong status.
StaleHoldsWrongStatus ==
    {h \in Refs : holds[h] # Null /\ holds[h].status = "released" /\ holds[h].expiresAt <= now}

StaleHolds == {h \in Refs : IsHeld(h) /\ holds[h].expiresAt <= now}

\* Mutant: lots are compared with their expiry strictly.
DeadLotsStrict(t) ==
    {l \in Refs : /\ Exists(l) /\ lots[l].remaining > 0
                  /\ lots[l].expiresAt # Null /\ lots[l].expiresAt < t}

DeadLots(t) ==
    {l \in Refs : /\ Exists(l) /\ lots[l].remaining > 0
                  /\ lots[l].expiresAt # Null /\ lots[l].expiresAt <= t}

Sweep(s) ==
    /\ pc[s] = "idle"
    /\ ensure_account({Expiry})
    /\ swept' = [swept EXCEPT ![s] = now]
    /\ todo' = [todo EXCEPT ![s] = StaleHolds]
    /\ pc' = [pc EXCEPT ![s] = "sweepHolds"]
    /\ UNCHANGED <<now, balance, held, transfers, lots, holds, op, view, lock, calls, faults, engine>>

\* One stale hold: released, unless somebody captured or released it first.
SweepHold(s, h) ==
    /\ pc[s] = "sweepHolds" /\ h \in todo[s]
    /\ \/ release_in(s, h)
       \/ ~IsHeld(h) /\ Free(s, {HoldRow(h)} \cup BeginRows) /\ UNCHANGED <<holds, held>>
    /\ todo' = [todo EXCEPT ![s] = @ \ {h}]
    /\ UNCHANGED <<now, opened, balance, transfers, lots, pc, op, view, lock, swept, calls, faults, engine>>

SelectDeadLots(s) ==
    /\ pc[s] = "sweepHolds" /\ todo[s] = {}
    /\ todo' = [todo EXCEPT ![s] = DeadLots(swept[s])]
    /\ pc' = [pc EXCEPT ![s] = "sweepLots"]
    /\ UNCHANGED <<now, book, op, view, lock, swept, calls, faults, engine>>

\* begin, and the read of the lot's remainder, which locks nothing.
ReadLot(s, l) ==
    /\ pc[s] = "sweepLots" /\ l \in todo[s] /\ Free(s, BeginRows)
    /\ lots[l].remaining > 0
    /\ todo' = [todo EXCEPT ![s] = @ \ {l}]
    /\ op' = [op EXCEPT ![s] = [kind |-> "Expire", owner |-> lots[l].owner,
                                amount |-> lots[l].remaining, ref |-> l, ttl |-> Null]]
    /\ view' = [view EXCEPT ![s] = Snapshot(lots[l].owner)]
    /\ Goto(s, "readAccount", BeginRows)
    /\ UNCHANGED <<now, book, swept, calls, faults, engine>>

\* Nothing is left of it: roll back and go on.
SkipLot(s, l) ==
    /\ pc[s] = "sweepLots" /\ l \in todo[s] /\ Free(s, BeginRows)
    /\ lots[l].remaining = 0
    /\ todo' = [todo EXCEPT ![s] = @ \ {l}]
    /\ UNCHANGED <<now, book, pc, op, view, lock, swept, calls, faults, engine>>

\* The read of the account: what to expire is the lesser of lot and available.
ReadAccount(s) ==
    LET avail == IF engine = "mysql" THEN view[s].available ELSE available(op[s].owner)
    IN  /\ pc[s] = "readAccount"
        /\ op' = [op EXCEPT ![s] = [op[s] EXCEPT !.amount = Max({0, Min({op[s].amount, avail})})]]
        /\ pc' = [pc EXCEPT ![s] = "zero"]
        /\ UNCHANGED <<now, book, view, lock, todo, swept, calls, faults, engine>>

\* The unguarded update of the lot, which takes its lock.
ZeroLot(s) ==
    /\ pc[s] = "zero" /\ Free(s, {LotRow(op[s].ref)})
    /\ Goto(s, "expire", {LotRow(op[s].ref)})
    /\ UNCHANGED <<now, book, op, view, todo, swept, calls, faults, engine>>

Zeroed(l) == lots' = [lots EXCEPT ![l] = Leaving(lots[l], 0)]

\* Mutant: the expired credits leave the owner and reach no account.
ExpireLotOneSided(s) ==
    LET r == op[s] IN
    /\ pc[s] = "expire" /\ r.amount > 0 /\ Free(s, {AccountRow(r.owner)})
    /\ available(r.owner) >= r.amount /\ ~Taken(<<"expire", r.ref>>)
    /\ Zeroed(r.ref)
    /\ balance' = [balance EXCEPT ![r.owner] = @ - r.amount]
    /\ record(<<"expire", r.ref>>, r.owner, Expiry, r.amount)
    /\ NextLot(s)
    /\ UNCHANGED <<opened, held, holds>>

\* debit_available, credit, record and commit.
ExpireLot(s) ==
    LET r == op[s] IN
    /\ pc[s] = "expire" /\ r.amount > 0 /\ Free(s, {AccountRow(r.owner)})
    /\ available(r.owner) >= r.amount /\ ~Taken(<<"expire", r.ref>>)
    /\ Zeroed(r.ref)
    /\ move(r.owner, Expiry, r.amount)
    /\ record(<<"expire", r.ref>>, r.owner, Expiry, r.amount)
    /\ NextLot(s)
    /\ UNCHANGED <<opened, held, holds>>

\* Nothing to take, or the guard refused it: only the lot is emptied.
ExpireNothing(s) ==
    LET r == op[s] IN
    /\ pc[s] = "expire"
    /\ \/ r.amount = 0
       \/ Free(s, {AccountRow(r.owner)}) /\ available(r.owner) < r.amount
    /\ Zeroed(r.ref)
    /\ NextLot(s)
    /\ UNCHANGED <<opened, balance, held, transfers, holds>>

\* Another sweep has recorded this lot.  `record' says so and nobody listens:
\* the failed insert dooms a PostgreSQL transaction, whose commit is then a
\* rollback; on the others the commit keeps what was moved.
ExpireAgain(s) ==
    LET r == op[s] IN
    /\ pc[s] = "expire" /\ r.amount > 0 /\ Free(s, {AccountRow(r.owner)})
    /\ available(r.owner) >= r.amount /\ Taken(<<"expire", r.ref>>)
    /\ IF engine = "postgres"
       THEN UNCHANGED <<lots, balance>>
       ELSE Zeroed(r.ref) /\ move(r.owner, Expiry, r.amount)
    /\ NextLot(s)
    /\ UNCHANGED <<opened, held, transfers, holds>>

SweepDone(s) ==
    /\ pc[s] = "sweepLots" /\ todo[s] = {}
    /\ pc' = [pc EXCEPT ![s] = "idle"]
    /\ UNCHANGED <<now, book, op, view, lock, todo, swept, calls, faults, engine>>

-----------------------------------------------------------------------------
(* The database and the clock.                                              *)

\* The rows a task's next statement waits for.
Wants(p) ==
    CASE pc[p] \in {"guard", "charge", "expire"} -> {AccountRow(op[p].owner)}
      [] pc[p] = "commit" /\ op[p].kind = "TopUp" -> {AccountRow(op[p].owner)}
      [] pc[p] = "commit" /\ op[p].kind # "TopUp" -> {LotRow(l) : l \in Drawn(p)}
      [] pc[p] = "zero" -> {LotRow(op[p].ref)}
      [] OTHER -> {}

Deadlocked(p) ==
    /\ lock[p] # {}
    /\ \E q \in Tasks \ {p} : /\ lock[q] # {}
                              /\ Wants(p) \cap lock[q] # {} /\ Wants(q) \cap lock[p] # {}

InTransaction(p) == pc[p] \in {"guard", "charge", "draw", "commit", "readAccount", "zero", "expire"}

\* The transaction is rolled back and the error ends the call or the sweep.
Abort(p) ==
    /\ InTransaction(p)
    /\ pc' = [pc EXCEPT ![p] = "idle"]
    /\ lock' = [lock EXCEPT ![p] = {}]
    /\ view' = [view EXCEPT ![p] = Empty]
    /\ op' = [op EXCEPT ![p] = Null]
    /\ todo' = [todo EXCEPT ![p] = {}]
    /\ UNCHANGED <<now, book, swept, calls, engine>>

\* The database breaks a cycle of lock waits.
Victim(p) == Deadlocked(p) /\ Abort(p) /\ UNCHANGED faults

\* The process dies or its connection breaks inside the transaction.
Crash(p) == faults > 0 /\ Abort(p) /\ faults' = faults - 1

Tick == now < MaxTime /\ now' = now + 1 /\ UNCHANGED <<book, task, calls, faults, engine>>

-----------------------------------------------------------------------------
Init ==
    /\ engine \in Engines
    /\ now = 0 /\ opened = {}
    /\ balance = [a \in Accounts |-> 0]
    /\ held = [o \in Owners |-> 0]
    /\ transfers = [k \in Keys |-> Null]
    /\ lots = [l \in Refs |-> Null]
    /\ holds = [h \in Refs |-> Null]
    /\ pc = [p \in Tasks |-> "idle"]
    /\ op = [p \in Tasks |-> Null]
    /\ view = [p \in Tasks |-> Empty]
    /\ lock = [p \in Tasks |-> {}]
    /\ todo = [p \in Tasks |-> {}]
    /\ swept = [p \in Tasks |-> 0]
    /\ calls = MaxCalls /\ faults = MaxFaults

\* The steps of a transaction that is under way.
Proceed(p) ==
    \/ Begin(p) \/ Guard(p) \/ Insufficient(p) \/ SelectLots(p)
    \/ CommitTopUp(p) \/ CommitConsume(p) \/ CommitHold(p) \/ LoseRace(p)
    \/ Charge(p) \/ CommitCapture(p) \/ Victim(p)

SweepStep(s) ==
    \/ Sweep(s) \/ SelectDeadLots(s) \/ SweepDone(s)
    \/ \E h \in Refs : SweepHold(s, h)
    \/ \E l \in Refs : ReadLot(s, l) \/ SkipLot(s, l)
    \/ ReadAccount(s) \/ ZeroLot(s) \/ ExpireLot(s) \/ ExpireNothing(s)
    \/ ExpireAgain(s) \/ Victim(s)

Next ==
    \/ Tick
    \/ \E p \in Callers : \/ \E r \in Requests : Call(p, r)
                          \/ \E h \in Refs : ClaimHold(p, h) \/ Release(p, h)
                          \/ Proceed(p) \/ Crash(p)
    \/ \E s \in Sweepers : SweepStep(s) \/ Crash(s)

\* Time passes, a transaction under way goes on or is aborted, and the
\* schedule keeps running the sweep.
Fairness ==
    /\ WF_vars(Tick)
    /\ \A p \in Callers : WF_vars(Proceed(p))
    /\ \A s \in Sweepers : WF_vars(SweepStep(s))

Spec == Init /\ [][Next]_vars /\ Fairness

-----------------------------------------------------------------------------
(* Properties.                                                              *)

Sum(f, S) == MapThenSumSet(LAMBDA x : f[x], S)

OwnersLots(o) == {l \in Refs : Exists(l) /\ lots[l].owner = o}
InLot(l)  == IF Exists(l) THEN lots[l].remaining ELSE 0
InLots(o) == Sum([l \in Refs |-> InLot(l)], OwnersLots(o))

\* The transfers in and out of an account, and the sum of its rows in ledger_entries.
Into(a)       == {k \in Keys : Taken(k) /\ transfers[k].to = a}
OutOf(a)      == {k \in Keys : Taken(k) /\ transfers[k].from = a}
EntryTotal(a) ==
    LET amounts == [k \in Keys |-> transfers[k].amount]
    IN  Sum(amounts, Into(a)) - Sum(amounts, OutOf(a))

\* The holds that reserve an owner's credits.
Reserving(o) == {h \in Refs : IsHeld(h) /\ holds[h].owner = o}

\* Every row of the book and every task is of the form the code gives it.
TypeOK ==
    /\ engine \in Engines /\ now \in Nat /\ opened \subseteq Accounts
    /\ balance \in [Accounts -> Int] /\ held \in [Owners -> Int]
    /\ transfers \in [Keys -> Transfer \cup {Null}]
    /\ lots \in Book /\ holds \in [Refs -> Hold \cup {Null}]
    /\ pc \in [Tasks -> PCs] /\ op \in [Tasks -> Operation \cup {Null}]
    /\ view \in [Tasks -> View] /\ lock \in [Tasks -> SUBSET Rows]
    /\ todo \in [Tasks -> SUBSET Refs] /\ swept \in [Tasks -> Nat]
    /\ calls \in Nat /\ faults \in Nat

\* audit's first claims: the balances of the book sum to zero, and each is the
\* sum of its account's entries (record and the updates commit together, and
\* a reference moves value once however often and concurrently it is used).
BookBalances ==
    /\ Sum(balance, Accounts) = 0
    /\ \A a \in Accounts : balance[a] = EntryTotal(a)

\* audit's third: no owner has more on hold than there is, so nobody spends
\* credits that a hold reserved or that are not there (the guarded updates of
\* consume and hold under races with captures, releases and sweeps).
NeverOverdrawn == \A o \in Owners : 0 <= held[o] /\ held[o] <= balance[o]

\* `held' is exactly what the holds that are still held reserve: capture,
\* release and the sweep each give a reservation back once.
HeldIsReserved ==
    \A o \in Owners : held[o] = Sum([h \in Refs |-> holds[h].amount], Reserving(o))

\* A hold is charged when and only when it was captured, for its own amount:
\* capture never charges a hold that a racing release or sweep gave back.
CapturedIffCharged ==
    \A h \in Refs :
        /\ Taken(<<"capture", h>>) <=> (holds[h] # Null /\ holds[h].status = "captured")
        /\ Taken(<<"capture", h>>) => transfers[<<"capture", h>>].amount = holds[h].amount

\* The lots never claim more credits than the owner has, so expiring a lot
\* cannot take credits that came from another one.
LotsCovered == \A o \in Owners : InLots(o) <= balance[o]

\* Where transactions run one at a time, nothing comes between the sweep's
\* read of a lot and its debit, nor between a debit and its draw.
LotsCoveredSerially == engine = "sqlite" => LotsCovered

\* A job that died without releasing does not keep its credits reserved: a
\* hold past its lifetime is eventually captured or released.
StaleHoldsReleased ==
    \A h \in Refs : (IsHeld(h) /\ holds[h].expiresAt <= now) ~> ~IsHeld(h)

\* Credits past their lifetime are eventually spent or expired.
DeadLotsEmptied ==
    \A l \in Refs :
        (Exists(l) /\ lots[l].expiresAt # Null /\ lots[l].expiresAt <= now) ~> InLot(l) = 0
=============================================================================
