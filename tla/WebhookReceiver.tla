-------------------------- MODULE WebhookReceiver ---------------------------
(***************************************************************************)
(* The receiver of payment webhooks (rustlavel-payment: receiver.rs,        *)
(* webhook.rs, database.rs) and the gateway that calls it.                  *)
(*                                                                          *)
(* A gateway delivers an event until it hears a 200 for it.  A delivery is  *)
(* a task of one of the application's processes: it records the event, runs *)
(* the application's handler, and withdraws the record when the handler     *)
(* failed.  Other deliveries, of the same event too, come in between any    *)
(* two of these awaits.  A delivery whose signature does not verify is      *)
(* refused before any state is touched, and is not modelled.                *)
(***************************************************************************)
EXTENDS Integers, FiniteSets

CONSTANTS
    Events,       \* by dedup_key: kind and gateway id
    Deliveries,   \* tasks that can be receiving at once
    Durable,      \* DatabaseWebhookLog, or MemoryWebhookLog
    Overlapping,  \* events the gateway resends before it has heard of the last try
    MaxErrors,    \* bound: handlers that return an error
    MaxLosses,    \* bound: failing log calls and lost answers
    MaxCrashes    \* bound: handlers that panic, processes that die

VARIABLES
    log,          \* the recorded dedup keys
    step,         \* where each delivery is
    event,        \* the event each delivery is about
    acked,        \* the gateway: events it has heard a 200 for
    handled,      \* history: how often the handler finished for each event
    orphaned,     \* history: events left recorded by a fault or a crash
    errors, losses, crashes

bounds       == <<errors, losses, crashes>>
receiverVars == <<log, step, event, acked, handled, orphaned, bounds>>

ASSUME ReceiverConstants ==
    /\ Durable \in BOOLEAN /\ Overlapping \subseteq Events
    /\ MaxErrors \in Nat /\ MaxLosses \in Nat /\ MaxCrashes \in Nat

\* The delivery has recorded its event and not yet been answered.
Running(d) == step[d] \in {"handle", "withdraw"}

\* Deliveries of e that have not been answered.
About(e) == {d \in Deliveries : step[d] # "idle" /\ event[d] = e}

-----------------------------------------------------------------------------
\* The gateway posts an event it has not been acknowledged for.
Post(d, e) ==
    /\ step[d] = "idle" /\ e \notin acked
    /\ e \in Overlapping \/ About(e) = {}
    /\ step' = [step EXCEPT ![d] = "record"]
    /\ event' = [event EXCEPT ![d] = e]
    /\ UNCHANGED <<log, acked, handled, orphaned, bounds>>

\* The answer 200 reaches the gateway, or is lost on the way.
Answer200(d) ==
    /\ step' = [step EXCEPT ![d] = "idle"]
    /\ \/ acked' = acked \cup {event[d]} /\ losses' = losses
       \/ losses > 0 /\ losses' = losses - 1 /\ acked' = acked

\* The answer 500: the gateway will try again.
Answer500(d) ==
    /\ step' = [step EXCEPT ![d] = "idle"]
    /\ acked' = acked

\* record returns true: this delivery runs the handler.
RecordNew(d) ==
    /\ step[d] = "record" /\ event[d] \notin log
    /\ log' = log \cup {event[d]}
    /\ step' = [step EXCEPT ![d] = "handle"]
    /\ UNCHANGED <<event, acked, handled, orphaned, bounds>>

\* Mutant: a duplicate runs the handler too.
DuplicateHandled(d) ==
    /\ step[d] = "record" /\ event[d] \in log
    /\ step' = [step EXCEPT ![d] = "handle"]
    /\ UNCHANGED <<log, event, acked, handled, orphaned, bounds>>

\* record returns false: answered without running the handler.
Duplicate(d) ==
    /\ step[d] = "record" /\ event[d] \in log
    /\ Answer200(d)
    /\ UNCHANGED <<log, event, handled, orphaned, errors, crashes>>

\* record fails; the insert may have been made before the connection broke.
RecordFails(d) ==
    /\ step[d] = "record" /\ losses > 0
    /\ losses' = losses - 1
    /\ \/ UNCHANGED <<log, orphaned>>
       \/ /\ event[d] \notin log
          /\ log' = log \cup {event[d]}
          /\ orphaned' = orphaned \cup {event[d]}
    /\ Answer500(d)
    /\ UNCHANGED <<event, handled, errors, crashes>>

HandlerFinishes(d) ==
    /\ step[d] = "handle"
    /\ handled' = [handled EXCEPT ![event[d]] = @ + 1]
    /\ Answer200(d)
    /\ UNCHANGED <<log, event, orphaned, errors, crashes>>

HandlerErr(d) ==
    /\ step[d] = "handle" /\ errors > 0
    /\ errors' = errors - 1
    /\ step' = [step EXCEPT ![d] = "withdraw"]
    /\ UNCHANGED <<log, event, acked, handled, orphaned, losses, crashes>>

\* Mutant: the record is not withdrawn after a failed handler.
WithdrawForgotten(d) ==
    /\ step[d] = "withdraw"
    /\ Answer500(d)
    /\ UNCHANGED <<log, event, handled, orphaned, bounds>>

Withdraw(d) ==
    /\ step[d] = "withdraw"
    /\ log' = log \ {event[d]}
    /\ Answer500(d)
    /\ UNCHANGED <<event, handled, orphaned, bounds>>

\* The withdrawal fails: logged, and the event stays recorded.
WithdrawFails(d) ==
    /\ step[d] = "withdraw" /\ losses > 0
    /\ losses' = losses - 1
    /\ orphaned' = orphaned \cup {event[d]}
    /\ Answer500(d)
    /\ UNCHANGED <<log, event, handled, errors, crashes>>

\* The handler panics, and nothing after it in `deliver' runs.
HandlerPanics(d) ==
    /\ step[d] = "handle" /\ crashes > 0
    /\ crashes' = crashes - 1
    /\ orphaned' = orphaned \cup {event[d]}
    /\ step' = [step EXCEPT ![d] = "idle"]
    /\ UNCHANGED <<log, event, acked, handled, errors, losses>>

\* The process dies with every delivery it is running, and with a memory log.
Restart ==
    /\ crashes > 0
    /\ crashes' = crashes - 1
    /\ orphaned' = orphaned \cup {event[d] : d \in {x \in Deliveries : Running(x)}}
    /\ step' = [d \in Deliveries |-> "idle"]
    /\ log' = IF Durable THEN log ELSE {}
    /\ UNCHANGED <<event, acked, handled, errors, losses>>

-----------------------------------------------------------------------------
ReceiverInit ==
    /\ log = {} /\ acked = {} /\ orphaned = {}
    /\ step = [d \in Deliveries |-> "idle"]
    /\ event \in [Deliveries -> Events]
    /\ handled = [e \in Events |-> 0]
    /\ errors = MaxErrors /\ losses = MaxLosses /\ crashes = MaxCrashes

\* One delivery, from the post to the answer.
Receive(d) ==
    \/ RecordNew(d) \/ Duplicate(d) \/ RecordFails(d) \/ HandlerFinishes(d) \/ HandlerErr(d)
    \/ Withdraw(d) \/ WithdrawFails(d)

ReceiverNext ==
    \/ \E d \in Deliveries : Receive(d) \/ HandlerPanics(d) \/ \E e \in Events : Post(d, e)
    \/ Restart

\* A task that is running goes on, and the gateway keeps retrying each event.
Fairness ==
    /\ \A d \in Deliveries : WF_receiverVars(Receive(d))
    /\ \A e \in Events : WF_receiverVars(\E d \in Deliveries : Post(d, e))

ReceiverSpec == ReceiverInit /\ [][ReceiverNext]_receiverVars /\ Fairness

-----------------------------------------------------------------------------
(* Properties.                                                              *)

\* The receiver's state is of the form the code gives it, and the event of a
\* delivery that is past `record' is in the log.
ReceiverTypeOK ==
    /\ log \subseteq Events /\ acked \subseteq Events /\ orphaned \subseteq Events
    /\ step \in [Deliveries -> {"idle", "record", "handle", "withdraw"}]
    /\ event \in [Deliveries -> Events]
    /\ handled \in [Events -> Nat]
    /\ \A d \in Deliveries : Running(d) => event[d] \in log

\* "A handler that finished is never run again", whatever is retried, overlaps
\* or crashes, with the log in the database.
HandledOnce == \A e \in Events : handled[e] <= 1

\* A record left without its delivery stands for a finished handler, or for
\* one of the failures that are known to strand it.
RecordedIsOwned ==
    \A e \in log : handled[e] = 1 \/ e \in orphaned
                   \/ \E d \in Deliveries : Running(d) /\ event[d] = e

\* An event whose deliveries do not overlap is eventually handled, through
\* failing handlers, failing log calls and lost answers, unless one of the
\* known failures strands its record.
EventuallyHandled ==
    \A e \in Events \ Overlapping : <>(handled[e] = 1 \/ e \in orphaned)

\* What the gateway has heard a 200 for has been handled, once no delivery
\* of it is under way.
AckedMeansHandled == \A e \in acked : About(e) = {} => handled[e] = 1
=============================================================================
