----------------------------- MODULE UsageClient -----------------------------
(***************************************************************************)
(* The control-plane metering client, cp.UsageClient: a bounded queue      *)
(* filled by webhook handlers, one background worker that posts each event *)
(* with a bounded number of attempts, the network and the control plane it *)
(* talks to, and the order in which main() shuts these down.               *)
(*                                                                         *)
(* A request the client stopped waiting for stays on the wire: the control *)
(* plane may handle it long after the client retried or gave up.           *)
(***************************************************************************)
EXTENDS Naturals, Sequences, FiniteSets

CONSTANTS
  Event,           \* usage events, one per finished room with minutes to bill
  Keyless,         \* the events reported with an empty idempotency key
  MaxAttempts,     \* Config.MaxAttempts
  QueueSize,       \* Config.QueueSize
  GraceSuffices,   \* every webhook handler returns within the 10s of Shutdown
  NoEvent          \* the worker holds no event

ASSUME KeylessAssumption     == Keyless \subseteq Event
ASSUME MaxAttemptsAssumption == MaxAttempts \in Nat \ {0}
ASSUME QueueSizeAssumption   == QueueSize \in Nat \ {0}
ASSUME GraceAssumption       == GraceSuffices \in BOOLEAN
ASSUME NoEventAssumption     == NoEvent \notin Event

VARIABLES
  urlParses,    \* CP_URL is a URL that net/http can parse (never changes)
  main,         \* where main() is: serving, draining, in Close, gone
  handlers,     \* events whose webhook handler runs and has not called Report
  reported,     \* events for which Report was called
  queue,        \* UsageClient.queue, the buffered channel
  queueClosed,  \* the channel is closed
  pc,           \* the worker: in the range loop, sending, awaiting, gone
  cur,          \* the event post() works on
  attempt,      \* post()'s attempt counter
  answer,       \* what came back for the current attempt
  dropped,      \* UsageClient.dropped
  wire,         \* requests sent and not yet handled or lost
  seen,         \* the control plane's table of idempotency keys
  counted,      \* per event, the attempts the control plane billed
  vanished      \* history: events that left the client uncounted and unsent

chanVars   == <<queue, queueClosed>>
workerVars == <<pc, cur, attempt, answer>>
cpVars     == <<seen, counted>>
otherVars  == <<urlParses, vanished>>
mainVars   == <<main, handlers, reported>>
vars == <<urlParses, mainVars, chanVars, workerVars, dropped, wire, cpVars,
          vanished>>

Attempt == 0 .. MaxAttempts - 1

NoKey == <<>>

(* Seeded fault: a key made afresh for each delivery attempt.              *)
KeyOfFresh(e, a) == IF e \in Keyless THEN NoKey ELSE <<e, a>>

(* The key is fixed when the event is queued, so each attempt carries it.  *)
KeyOf(e, a) == IF e \in Keyless THEN NoKey ELSE <<e>>

Key == {<<e>> : e \in Event} \cup {NoKey}

Request == [ev : Event, attempt : Attempt, key : Key]

Queued == {queue[i] : i \in DOMAIN queue}

(* Events in the client's hands: queued, or being posted.                  *)
Pending == Queued \cup ({cur} \ {NoEvent})

Billed == {e \in Event : counted[e] # {}}

TypeOK ==
  /\ urlParses \in BOOLEAN
  /\ main \in {"serving", "draining", "flushing", "exited"}
  /\ handlers \subseteq Event
  /\ reported \subseteq Event
  /\ queue \in Seq(Event)
  /\ Len(queue) <= QueueSize
  /\ queueClosed \in BOOLEAN
  /\ pc \in {"recv", "send", "await", "exited"}
  /\ cur \in Event \cup {NoEvent}
  /\ attempt \in Attempt
  /\ answer \in {"none", "2xx", "4xx", "5xx"}
  /\ dropped \in Nat
  /\ wire \subseteq Request
  /\ seen \subseteq Key
  /\ counted \in [Event -> SUBSET Attempt]
  /\ vanished \subseteq Event

Init ==
  /\ urlParses \in BOOLEAN
  /\ main = "serving"
  /\ handlers = {}
  /\ reported = {}
  /\ queue = <<>>
  /\ queueClosed = FALSE
  /\ pc = "recv"
  /\ cur = NoEvent
  /\ attempt = 0
  /\ answer = "none"
  /\ dropped = 0
  /\ wire = {}
  /\ seen = {}
  /\ counted = [e \in Event |-> {}]
  /\ vanished = {}

(* post() returns to the range loop.                                       *)
PostReturns ==
  /\ pc' = "recv"
  /\ cur' = NoEvent
  /\ attempt' = 0
  /\ answer' = "none"

(* Seeded faults, each the counterpart of an action below: the capacity    *)
(* check off by one, the worker leaving a closed queue undrained, a 4xx    *)
(* that is not counted, a 5xx taken for success, an attempt not counted.   *)
ReportOverfull(e) ==
  /\ e \in handlers
  /\ handlers' = handlers \ {e}
  /\ reported' = reported \cup {e}
  /\ ~queueClosed
  /\ Len(queue) <= QueueSize
  /\ queue' = Append(queue, e)
  /\ UNCHANGED <<otherVars, main, queueClosed, workerVars, dropped, wire,
                 cpVars>>

DrainEndsEarly ==
  /\ pc = "recv"
  /\ queueClosed
  /\ pc' = "exited"
  /\ UNCHANGED <<otherVars, mainVars, chanVars, cur, attempt, answer, dropped,
                 wire, cpVars>>

RejectedUncounted ==
  /\ pc = "await"
  /\ answer = "4xx"
  /\ PostReturns
  /\ UNCHANGED <<otherVars, mainVars, chanVars, dropped, wire, cpVars>>

AcknowledgedOn5xx ==
  /\ pc = "await"
  /\ answer \in {"2xx", "5xx"}
  /\ PostReturns
  /\ UNCHANGED <<otherVars, mainVars, chanVars, dropped, wire, cpVars>>

RetryForever ==
  /\ pc = "await"
  /\ answer \in {"none", "5xx"}
  /\ pc' = "send"
  /\ answer' = "none"
  /\ UNCHANGED <<otherVars, mainVars, chanVars, cur, attempt, dropped, wire,
                 cpVars>>

-----------------------------------------------------------------------------
(* Webhook handlers and main().                                            *)

(* A room finished: its webhook handler is on its way to Report.           *)
HandlerBegin(e) ==
  /\ main = "serving"
  /\ e \notin handlers \cup reported
  /\ handlers' = handlers \cup {e}
  /\ UNCHANGED <<otherVars, main, reported, chanVars, workerVars, dropped,
                 wire, cpVars>>

(* enqueue: the event goes into the channel, or is dropped and counted     *)
(* when the channel is full.  A send on the closed channel panics; the     *)
(* HTTP server recovers the handler's panic and the event is gone.         *)
Report(e) ==
  /\ e \in handlers
  /\ handlers' = handlers \ {e}
  /\ reported' = reported \cup {e}
  /\ \/ /\ queueClosed
        /\ vanished' = vanished \cup {e}
        /\ UNCHANGED <<queue, dropped>>
     \/ /\ ~queueClosed
        /\ Len(queue) < QueueSize
        /\ queue' = Append(queue, e)
        /\ UNCHANGED <<dropped, vanished>>
     \/ /\ ~queueClosed
        /\ Len(queue) = QueueSize
        /\ dropped' = dropped + 1
        /\ UNCHANGED <<queue, vanished>>
  /\ UNCHANGED <<urlParses, main, queueClosed, workerVars, wire, cpVars>>

(* A signal or a failed subsystem: the servers stop accepting requests.    *)
BeginShutdown ==
  /\ main = "serving"
  /\ main' = "draining"
  /\ UNCHANGED <<otherVars, handlers, reported, chanVars, workerVars, dropped,
                 wire, cpVars>>

(* Server.Shutdown returned, because no handler is left or because its     *)
(* context expired, and main() calls Close.                                *)
Close ==
  /\ main = "draining"
  /\ handlers = {} \/ ~GraceSuffices
  /\ main' = "flushing"
  /\ queueClosed' = TRUE
  /\ UNCHANGED <<otherVars, handlers, reported, queue, workerVars, dropped,
                 wire, cpVars>>

(* Close's wg.Wait returns once the worker is gone.                        *)
CloseReturns ==
  /\ main = "flushing"
  /\ pc = "exited"
  /\ main' = "exited"
  /\ UNCHANGED <<otherVars, handlers, reported, chanVars, workerVars, dropped,
                 wire, cpVars>>

-----------------------------------------------------------------------------
(* The worker: drain() and post().                                         *)

Take ==
  /\ pc = "recv"
  /\ queue # <<>>
  /\ cur' = Head(queue)
  /\ queue' = Tail(queue)
  /\ pc' = "send"
  /\ attempt' = 0
  /\ UNCHANGED <<otherVars, mainVars, queueClosed, answer, dropped, wire,
                 cpVars>>

(* The range loop ends: the channel is closed and empty.                   *)
DrainEnds ==
  /\ pc = "recv"
  /\ queue = <<>>
  /\ queueClosed
  /\ pc' = "exited"
  /\ UNCHANGED <<otherVars, mainVars, chanVars, cur, attempt, answer, dropped,
                 wire, cpVars>>

(* One delivery attempt.  The backoff before it only takes time.           *)
Send ==
  /\ pc = "send"
  /\ urlParses
  /\ wire' = wire \cup
       {[ev |-> cur, attempt |-> attempt, key |-> KeyOf(cur, attempt)]}
  /\ pc' = "await"
  /\ UNCHANGED <<otherVars, mainVars, chanVars, cur, attempt, answer, dropped,
                 cpVars>>

(* The request cannot be built: logged, and post() returns.                *)
BuildFails ==
  /\ pc = "send"
  /\ ~urlParses
  /\ vanished' = vanished \cup {cur}
  /\ PostReturns
  /\ UNCHANGED <<urlParses, mainVars, chanVars, dropped, wire, cpVars>>

Acknowledged ==
  /\ pc = "await"
  /\ answer = "2xx"
  /\ PostReturns
  /\ UNCHANGED <<otherVars, mainVars, chanVars, dropped, wire, cpVars>>

Rejected ==
  /\ pc = "await"
  /\ answer = "4xx"
  /\ dropped' = dropped + 1
  /\ PostReturns
  /\ UNCHANGED <<otherVars, mainVars, chanVars, wire, cpVars>>

(* A transport error, a timeout or a 5xx: try again if attempts are left.  *)
Retry ==
  /\ pc = "await"
  /\ answer \in {"none", "5xx"}
  /\ attempt + 1 < MaxAttempts
  /\ attempt' = attempt + 1
  /\ pc' = "send"
  /\ answer' = "none"
  /\ UNCHANGED <<otherVars, mainVars, chanVars, cur, dropped, wire, cpVars>>

Exhausted ==
  /\ pc = "await"
  /\ answer \in {"none", "5xx"}
  /\ attempt + 1 >= MaxAttempts
  /\ dropped' = dropped + 1
  /\ PostReturns
  /\ UNCHANGED <<otherVars, mainVars, chanVars, wire, cpVars>>

-----------------------------------------------------------------------------
(* The network and the control plane, as the client's contract sees them.  *)

(* The answer reaches the client if it still waits for this very request.  *)
Reply(m, a) ==
  answer' = IF /\ pc = "await" /\ answer = "none"
               /\ m.ev = cur /\ m.attempt = attempt
            THEN a ELSE answer

(* The control plane bills the event unless it knows the key.              *)
CPHandles(m) ==
  /\ wire' = wire \ {m}
  /\ \/ /\ m.key # NoKey
        /\ m.key \in seen
        /\ UNCHANGED cpVars
     \/ /\ m.key = NoKey \/ m.key \notin seen
        /\ seen' = seen \cup ({m.key} \ {NoKey})
        /\ counted' = [counted EXCEPT ![m.ev] = @ \cup {m.attempt}]
  /\ \E a \in {"none", "2xx", "5xx"} : Reply(m, a)
  /\ UNCHANGED <<otherVars, mainVars, chanVars, pc, cur, attempt, dropped>>

(* The request is refused, fails before it is billed, or is lost.          *)
CPRefuses(m) ==
  /\ wire' = wire \ {m}
  /\ \E a \in {"none", "4xx", "5xx"} : Reply(m, a)
  /\ UNCHANGED <<otherVars, mainVars, chanVars, pc, cur, attempt, dropped,
                 cpVars>>

-----------------------------------------------------------------------------
Main == BeginShutdown \/ Close \/ CloseReturns

Worker ==
  \/ Take \/ DrainEnds \/ Send \/ BuildFails
  \/ Acknowledged \/ Rejected \/ Retry \/ Exhausted

Next ==
  \/ \E e \in Event : HandlerBegin(e) \/ Report(e)
  \/ Main
  \/ Worker
  \/ \E m \in wire : CPHandles(m) \/ CPRefuses(m)

Spec == Init /\ [][Next]_vars

(* The worker is a goroutine whose HTTP calls time out after 10s; handlers *)
(* and main() are goroutines too.  Nothing is assumed of rooms, signals,   *)
(* the network or the control plane.                                       *)
Fairness ==
  /\ WF_vars(Worker)
  /\ WF_vars(Close)
  /\ WF_vars(CloseReturns)
  /\ \A e \in Event : WF_vars(Report(e))

FairSpec == Spec /\ Fairness

-----------------------------------------------------------------------------
(* Properties.                                                             *)

(* cp/usage.go: "a transient blip that forces a retry does not double-     *)
(* count minutes".  An event with a key is billed by at most one of its    *)
(* attempts, however late a timed-out request is handled.                  *)
AtMostOnce ==
  \A e \in Event \ Keyless : \A a, b \in counted[e] : a = b

(* Dropped() makes loss visible: there are never more reported events that *)
(* are neither billed nor still in the client's hands than it says.  (When *)
(* no request can be built every event vanishes uncounted: BuildFails.)    *)
LossVisible ==
  urlParses =>
    Cardinality(reported \ (Pending \cup Billed)) <= dropped

(* What the client promises: an event leaves its hands only billed or      *)
(* counted, and only reported events are billed.  One that vanished is, in *)
(* the eyes of that promise, never settled.                                *)
Delivery == INSTANCE MeterDelivery WITH
  open <- Pending \cup vanished, ledger <- Billed

ImplementsDelivery == Delivery!Spec

(* Every event is settled in the end: the worker never wedges on one.      *)
Settles ==
  \A e \in Event : e \in Pending ~> e \notin Pending

(* "Close ... drains what is queued, and waits for the worker to exit":    *)
(* once shutdown begins main() gets out, with nothing left in the client.  *)
ShutdownFlushes ==
  main = "draining" ~> (main = "exited" /\ Pending = {})
=============================================================================
