-------------------------- MODULE UsageClientProofs --------------------------
(***************************************************************************)
(* Proofs about UsageClient, for any set of events, any number of attempts *)
(* and any queue size.                                                     *)
(***************************************************************************)
EXTENDS UsageClient, FiniteSetTheorems, TLAPS

-----------------------------------------------------------------------------
(* Facts about the channel's buffer.                                       *)

Elements(q) == {q[i] : i \in DOMAIN q}

Distinct(q) == \A i, j \in DOMAIN q : q[i] = q[j] => i = j

(* Appending adds one element, and keeps the entries distinct if it is new.*)
LEMMA AppendElements ==
  ASSUME NEW S, NEW q \in Seq(S), NEW e \in S
  PROVE  /\ Append(q, e) \in Seq(S)
         /\ Elements(Append(q, e)) = Elements(q) \cup {e}
         /\ Distinct(q) /\ e \notin Elements(q) => Distinct(Append(q, e))
<1> DEFINE r == Append(q, e)
<1>1. /\ r \in Seq(S)
      /\ DOMAIN q = 1 .. Len(q)
      /\ DOMAIN r = 1 .. Len(q) + 1
      /\ Len(q) \in Nat
      /\ \A i \in 1 .. Len(q) : r[i] = q[i]
      /\ r[Len(q) + 1] = e
  OBVIOUS
<1> HIDE DEF r
<1>2. Elements(r) = Elements(q) \cup {e}
  BY <1>1 DEF Elements
<1>3. ASSUME Distinct(q), e \notin Elements(q)
      PROVE  Distinct(r)
  BY <1>1, <1>3 DEF Elements, Distinct
<1> QED
  BY <1>1, <1>2, <1>3 DEF r

(* Taking the head removes it, and only it, from distinct entries.         *)
LEMMA TailElements ==
  ASSUME NEW S, NEW q \in Seq(S), q # <<>>
  PROVE  /\ Head(q) \in S
         /\ Tail(q) \in Seq(S)
         /\ Len(Tail(q)) = Len(q) - 1
         /\ Elements(q) = Elements(Tail(q)) \cup {Head(q)}
         /\ Distinct(q) => /\ Distinct(Tail(q))
                           /\ Head(q) \notin Elements(Tail(q))
<1> DEFINE r == Tail(q)
           h == Head(q)
<1>1. /\ Len(q) \in Nat \ {0}
      /\ DOMAIN q = 1 .. Len(q)
      /\ h = q[1]
      /\ q[1] \in S
  OBVIOUS
<1>2. /\ r \in Seq(S)
      /\ Len(r) = Len(q) - 1
      /\ DOMAIN r = 1 .. Len(q) - 1
      /\ \A i \in 1 .. Len(q) - 1 : r[i] = q[i + 1]
  OBVIOUS
<1> HIDE DEF r, h
<1>3. Elements(q) = Elements(r) \cup {h}
  <2>1. ASSUME NEW i \in DOMAIN q
        PROVE  q[i] \in Elements(r) \cup {h}
    <3>1. CASE i = 1
      BY <1>1, <3>1
    <3>2. CASE i # 1
      <4>1. i - 1 \in DOMAIN r /\ q[i] = r[i - 1]
        BY <1>1, <1>2, <3>2
      <4> QED
        BY <4>1 DEF Elements
    <3> QED
      BY <3>1, <3>2
  <2>2. ASSUME NEW i \in DOMAIN r
        PROVE  r[i] \in Elements(q)
    <3>1. i + 1 \in DOMAIN q /\ r[i] = q[i + 1]
      BY <1>1, <1>2
    <3> QED
      BY <3>1 DEF Elements
  <2>3. h \in Elements(q)
    BY <1>1 DEF Elements
  <2> QED
    BY <2>1, <2>2, <2>3 DEF Elements
<1>4. ASSUME Distinct(q)
      PROVE  Distinct(r) /\ h \notin Elements(r)
  <2>1. ASSUME NEW i \in DOMAIN r, NEW j \in DOMAIN r, r[i] = r[j]
        PROVE  i = j
    <3>1. /\ i + 1 \in DOMAIN q /\ j + 1 \in DOMAIN q
          /\ q[i + 1] = q[j + 1]
      BY <1>1, <1>2, <2>1
    <3>2. i + 1 = j + 1
      BY <1>4, <3>1 DEF Distinct
    <3> QED
      BY <1>1, <1>2, <3>2
  <2>2. ASSUME NEW i \in DOMAIN r
        PROVE  r[i] # h
    <3>1. 1 \in DOMAIN q /\ i + 1 \in DOMAIN q /\ r[i] = q[i + 1] /\ i + 1 # 1
      BY <1>1, <1>2
    <3> QED
      BY <1>1, <1>4, <3>1 DEF Distinct
  <2> QED
    BY <2>1, <2>2 DEF Elements, Distinct
<1> QED
  BY <1>1, <1>2, <1>3, <1>4 DEF r, h

-----------------------------------------------------------------------------
(* The inductive invariant, part by part.                                  *)

(* The worker holds an event exactly while it is in post().                *)
Holding ==
  /\ pc \in {"send", "await"} <=> cur \in Event
  /\ answer # "none" => pc = "await"

(* The channel is closed by Close and by nothing else, and, when handlers  *)
(* return in time, only after the last of them.                            *)
ClosedLast ==
  /\ queueClosed <=> main \in {"flushing", "exited"}
  /\ main # "serving" /\ queueClosed /\ GraceSuffices => handlers = {}

(* An event is in one place: with its handler, in the channel once, with   *)
(* the worker, or gone.                                                    *)
OnePlace ==
  /\ handlers \cap reported = {}
  /\ Pending \cup vanished \subseteq reported
  /\ Distinct(queue)
  /\ cur \notin Queued
  /\ vanished \cap Pending = {}

(* Events vanish only with an unusable URL or an overrun grace period.     *)
NoneVanished == urlParses /\ GraceSuffices => vanished = {}

(* A request carries a reported event and that event's one key; the        *)
(* control plane knows the keys of exactly the keyed events it billed.     *)
KeysKept ==
  /\ \A m \in wire : m.ev \in reported /\ m.key = KeyOf(m.ev, m.attempt)
  /\ \A e \in Event \ Keyless : <<e>> \in seen <=> counted[e] # {}
  /\ NoKey \notin seen
  /\ Billed \subseteq reported

(* The client is told of success only after the event was billed.          *)
AnswerTrue == answer = "2xx" => cur \in Billed

IInv ==
  /\ TypeOK
  /\ Holding
  /\ ClosedLast
  /\ OnePlace
  /\ NoneVanished
  /\ KeysKept
  /\ AnswerTrue
  /\ AtMostOnce

-----------------------------------------------------------------------------
LEMMA InitInvariant == Init => IInv
<1> SUFFICES ASSUME Init PROVE IInv
  OBVIOUS
<1>1. TypeOK
  <2>1. queue \in Seq(Event) /\ Len(queue) = 0
    BY DEF Init
  <2>2. 0 \in Attempt /\ 0 <= QueueSize
    BY MaxAttemptsAssumption, QueueSizeAssumption DEF Attempt
  <2>3. counted \in [Event -> SUBSET Attempt]
    BY DEF Init
  <2> QED
    BY <2>1, <2>2, <2>3 DEF Init, TypeOK
<1>2. Pending = {} /\ Queued = {} /\ Distinct(queue)
  BY DEF Init, Pending, Queued, Distinct
<1>3. Billed = {}
  BY DEF Init, Billed
<1> QED
  BY <1>1, <1>2, <1>3, NoEventAssumption
  DEF Init, IInv, Holding, ClosedLast, OnePlace, NoneVanished, KeysKept,
      AnswerTrue, AtMostOnce

(* Handlers and main() touch neither the worker nor the control plane.     *)
LEMMA MainKeepsInvariant ==
  IInv /\ (Main \/ \E e \in Event : HandlerBegin(e)) => IInv'
<1> SUFFICES ASSUME IInv, Main \/ \E e \in Event : HandlerBegin(e)
             PROVE  IInv'
  OBVIOUS
<1>1. UNCHANGED <<otherVars, reported, queue, workerVars, dropped, wire, cpVars>>
  BY DEF Main, BeginShutdown, Close, CloseReturns, HandlerBegin, chanVars
<1>2. TypeOK'
  BY <1>1 DEF IInv, TypeOK, Main, BeginShutdown, Close, CloseReturns, HandlerBegin,
     otherVars, chanVars, workerVars, cpVars
<1>3. UNCHANGED <<Pending, Queued, Billed>>
  BY <1>1 DEF Pending, Queued, Billed, workerVars, cpVars
<1>4. ClosedLast'
  BY DEF IInv, TypeOK, ClosedLast, Main, BeginShutdown, Close, CloseReturns,
     HandlerBegin, chanVars
<1>5. OnePlace'
  BY <1>1, <1>3 DEF IInv, OnePlace, Main, BeginShutdown, Close, CloseReturns,
     HandlerBegin, otherVars, workerVars, Distinct
<1>6. /\ Holding' /\ NoneVanished' /\ AnswerTrue'
  BY <1>1, <1>3 DEF IInv, Holding, NoneVanished, AnswerTrue, otherVars, workerVars
<1>7. KeysKept' /\ AtMostOnce'
  BY <1>1, <1>3 DEF IInv, KeysKept, AtMostOnce, cpVars
<1> QED
  BY <1>2, <1>4, <1>5, <1>6, <1>7 DEF IInv

(* enqueue puts an event that is nowhere else into the channel, or drops   *)
(* it, or panics because the channel is closed.                            *)
LEMMA ReportKeepsInvariant ==
  ASSUME NEW e \in Event, IInv, Report(e)
  PROVE  IInv'
<1>1. UNCHANGED <<urlParses, main, queueClosed, workerVars, wire, cpVars>>
  BY DEF Report
<1>2. e \notin reported /\ e \notin Pending /\ e \notin vanished
  BY DEF Report, IInv, OnePlace
<1>3. \/ /\ queue' = Append(queue, e)
         /\ Len(queue) < QueueSize
         /\ UNCHANGED vanished
      \/ /\ UNCHANGED queue
         /\ vanished' = vanished \cup {e}
         /\ queueClosed
      \/ UNCHANGED <<queue, vanished>>
  BY DEF Report
<1>4. Queued = Elements(queue) /\ Queued' = Elements(queue')
  BY DEF Queued, Elements
<1>5. /\ queue' \in Seq(Event)
      /\ Len(queue') <= QueueSize
  BY <1>3, QueueSizeAssumption DEF IInv, TypeOK
<1>6. \/ /\ Queued' = Queued \cup {e}
         /\ UNCHANGED vanished
      \/ /\ Queued' = Queued
         /\ vanished' \subseteq vanished \cup {e}
  <2>1. queue' = Append(queue, e) => Queued' = Queued \cup {e}
    BY <1>4, AppendElements DEF IInv, TypeOK
  <2>2. queue' = queue => Queued' = Queued
    BY <1>4
  <2> QED
    BY <1>3, <2>1, <2>2
<1>7. Distinct(queue')
  <2>1. queue \in Seq(Event) /\ Distinct(queue) /\ e \notin Elements(queue)
    BY <1>2, <1>4 DEF IInv, TypeOK, OnePlace, Pending
  <2>2. Distinct(Append(queue, e))
    BY <2>1, AppendElements
  <2>3. queue' = queue \/ queue' = Append(queue, e)
    BY <1>3
  <2> QED
    BY <2>1, <2>2, <2>3
<1>8. TypeOK'
  BY <1>1, <1>5 DEF IInv, TypeOK, Report, workerVars, cpVars
<1>9. Holding' /\ AnswerTrue' /\ AtMostOnce'
  BY <1>1 DEF IInv, Holding, AnswerTrue, AtMostOnce, Billed, workerVars, cpVars
<1>10. ClosedLast'
  BY <1>1 DEF IInv, ClosedLast, Report
<1>11. OnePlace'
  <2>1. cur' = cur /\ cur \notin Queued' /\ cur # e
    BY <1>1, <1>2, <1>6, NoEventAssumption
    DEF IInv, OnePlace, Pending, workerVars
  <2>2. Pending' = Queued' \cup ({cur} \ {NoEvent})
    BY <2>1 DEF Pending
  <2> QED
    BY <1>2, <1>6, <1>7, <2>1, <2>2 DEF IInv, OnePlace, Pending, Report
<1>12. NoneVanished'
  BY <1>1, <1>3 DEF IInv, NoneVanished, ClosedLast, TypeOK, Report
<1>13. KeysKept'
  BY <1>1 DEF IInv, KeysKept, Billed, Report, cpVars
<1> QED
  BY <1>8, <1>9, <1>10, <1>11, <1>12, <1>13 DEF IInv

(* Take moves the head of the channel to the worker.                       *)
LEMMA TakeKeepsInvariant ==
  ASSUME IInv, Take
  PROVE  IInv'
<1>1. /\ UNCHANGED <<otherVars, mainVars, queueClosed, answer, dropped, wire, cpVars>>
      /\ cur' = Head(queue) /\ queue' = Tail(queue)
      /\ pc = "recv" /\ pc' = "send" /\ attempt' = 0
  BY DEF Take
<1>2. queue \in Seq(Event) /\ queue # <<>> /\ Distinct(queue)
  BY DEF Take, IInv, TypeOK, OnePlace
<1>3. /\ cur' \in Event
      /\ queue' \in Seq(Event)
      /\ Len(queue') = Len(queue) - 1
      /\ Elements(queue) = Elements(queue') \cup {cur'}
      /\ Distinct(queue')
      /\ cur' \notin Elements(queue')
  BY <1>1, <1>2, TailElements
<1>4. cur = NoEvent
  BY <1>1 DEF IInv, TypeOK, Holding
<1>5. Queued = Elements(queue) /\ Queued' = Elements(queue')
  BY DEF Queued, Elements
<1>6. Pending' = Pending
  BY <1>3, <1>4, <1>5, NoEventAssumption DEF Pending
<1>7. TypeOK'
  <2>1. Len(queue') <= QueueSize /\ attempt' \in Attempt
    BY <1>1, <1>2, <1>3, MaxAttemptsAssumption, QueueSizeAssumption
    DEF IInv, TypeOK, Attempt
  <2> QED
    BY <1>1, <1>3, <2>1 DEF IInv, TypeOK, otherVars, mainVars, cpVars
<1>8. Holding' /\ AnswerTrue'
  BY <1>1, <1>3 DEF IInv, Holding, AnswerTrue
<1>9. OnePlace'
  BY <1>1, <1>3, <1>5, <1>6 DEF IInv, OnePlace, otherVars, mainVars
<1>10. ClosedLast' /\ NoneVanished' /\ KeysKept' /\ AtMostOnce'
  BY <1>1 DEF IInv, ClosedLast, NoneVanished, KeysKept, AtMostOnce, Billed,
     otherVars, mainVars, cpVars
<1> QED
  BY <1>7, <1>8, <1>9, <1>10 DEF IInv

(* Sending puts one request with the event's key on the wire.              *)
LEMMA SendKeepsInvariant ==
  ASSUME IInv, Send
  PROVE  IInv'
<1>1. /\ UNCHANGED <<otherVars, mainVars, chanVars, cur, attempt, answer, dropped, cpVars>>
      /\ wire' = wire \cup
           {[ev |-> cur, attempt |-> attempt, key |-> KeyOf(cur, attempt)]}
      /\ pc = "send" /\ pc' = "await"
  BY DEF Send
<1>2. cur \in Event /\ cur \in reported
  BY <1>1, NoEventAssumption DEF IInv, Holding, OnePlace, Pending
<1>3. KeyOf(cur, attempt) \in Key
  BY <1>2 DEF KeyOf, Key
<1>4. TypeOK'
  BY <1>1, <1>2, <1>3
  DEF IInv, TypeOK, Request, otherVars, mainVars, chanVars, cpVars
<1>5. Holding' /\ AnswerTrue' /\ ClosedLast' /\ NoneVanished' /\ AtMostOnce'
  BY <1>1, <1>2 DEF IInv, Holding, AnswerTrue, ClosedLast, NoneVanished, AtMostOnce,
     Billed, otherVars, mainVars, chanVars, cpVars
<1>6. OnePlace'
  BY <1>1 DEF IInv, OnePlace, Pending, Queued, Distinct, otherVars, mainVars, chanVars
<1>7. KeysKept'
  BY <1>1, <1>2 DEF IInv, KeysKept, Billed, KeyOf, mainVars, cpVars
<1> QED
  BY <1>4, <1>5, <1>6, <1>7 DEF IInv

(* The ways out of one attempt: the next attempt, or back to the channel.  *)
LEMMA OutcomeKeepsInvariant ==
  ASSUME IInv,
         DrainEnds \/ BuildFails \/ Acknowledged \/ Rejected \/ Retry \/ Exhausted
  PROVE  IInv'
<1>1. /\ UNCHANGED <<urlParses, mainVars, chanVars, wire, cpVars>>
      /\ dropped' \in Nat
  BY DEF IInv, TypeOK, DrainEnds, BuildFails, Acknowledged, Rejected, Retry,
     Exhausted, PostReturns, otherVars
<1>2. \/ UNCHANGED vanished
      \/ ~urlParses /\ cur \in Event /\ PostReturns /\ vanished' = vanished \cup {cur}
  BY DEF IInv, Holding, DrainEnds, BuildFails, Acknowledged, Rejected, Retry,
     Exhausted, otherVars
<1>3. \/ cur' = NoEvent /\ pc' \in {"recv", "exited"} /\ answer' = "none"
      \/ UNCHANGED <<cur, vanished>> /\ cur \in Event /\ pc' = "send" /\ answer' = "none"
  BY DEF IInv, TypeOK, Holding, DrainEnds, BuildFails, Acknowledged, Rejected, Retry,
     Exhausted, PostReturns, otherVars
<1>4. attempt' \in Attempt
  BY MaxAttemptsAssumption DEF IInv, TypeOK, DrainEnds, BuildFails, Acknowledged,
     Rejected, Retry, Exhausted, PostReturns, Attempt
<1>5. TypeOK'
  BY <1>1, <1>2, <1>3, <1>4 DEF IInv, TypeOK, mainVars, chanVars, cpVars
<1>6. Holding' /\ AnswerTrue'
  BY <1>3, NoEventAssumption DEF Holding, AnswerTrue
<1>7. ClosedLast' /\ KeysKept' /\ AtMostOnce' /\ NoneVanished'
  BY <1>1, <1>2 DEF IInv, ClosedLast, KeysKept, AtMostOnce, NoneVanished, Billed,
     mainVars, chanVars, cpVars
<1>8. Queued' = Queued /\ NoEvent \notin Queued
  BY <1>1, NoEventAssumption DEF IInv, TypeOK, Queued, chanVars
<1>9. Distinct(queue')
  BY <1>1 DEF IInv, OnePlace, chanVars
<1>10. OnePlace'
  BY <1>1, <1>2, <1>3, <1>8, <1>9, NoEventAssumption
  DEF IInv, OnePlace, Pending, PostReturns, mainVars
<1> QED
  BY <1>5, <1>6, <1>7, <1>10 DEF IInv

(* The control plane bills a keyed event only when it does not know the    *)
(* event's key, which by KeysKept means that it has not billed it.         *)
LEMMA CPKeepsInvariant ==
  ASSUME IInv, NEW m \in wire, CPHandles(m) \/ CPRefuses(m)
  PROVE  IInv'
<1>1. /\ UNCHANGED <<otherVars, mainVars, chanVars, pc, cur, attempt, dropped>>
      /\ wire' = wire \ {m}
  BY DEF CPHandles, CPRefuses
<1>2. /\ m \in Request
      /\ m.ev \in Event /\ m.attempt \in Attempt /\ m.ev \in reported
      /\ m.key = KeyOf(m.ev, m.attempt)
  BY DEF IInv, TypeOK, KeysKept, Request
<1>3. m.ev \notin Keyless => m.key = <<m.ev>> /\ m.key # NoKey
  BY <1>2 DEF KeyOf, NoKey
<1>4. m.ev \in Keyless => m.key = NoKey
  BY <1>2 DEF KeyOf
<1>5. m.key \in Key
  BY <1>2 DEF Request
<1>6. TypeOK'
  BY <1>1, <1>2, <1>5 DEF IInv, TypeOK, CPHandles, CPRefuses, Reply,
     otherVars, mainVars, chanVars, cpVars
<1>7. /\ counted' \in [Event -> SUBSET Attempt]
      /\ \A e \in Event \ {m.ev} : counted'[e] = counted[e]
      /\ counted[m.ev] \subseteq counted'[m.ev]
      /\ counted'[m.ev] \subseteq counted[m.ev] \cup {m.attempt}
  BY <1>2, <1>6 DEF IInv, TypeOK, CPHandles, CPRefuses, cpVars
<1>8. Billed \subseteq Billed' /\ Billed' \subseteq Billed \cup {m.ev}
  BY <1>7 DEF Billed
<1>9. ASSUME CPRefuses(m) \/ (m.key # NoKey /\ m.key \in seen)
      PROVE  KeysKept' /\ AtMostOnce'
  <2>1. UNCHANGED <<seen, counted>>
    BY <1>9 DEF CPHandles, CPRefuses, cpVars
  <2>2. KeysKept' /\ AtMostOnce'
    BY <1>1, <2>1 DEF IInv, KeysKept, AtMostOnce, Billed, mainVars
  <2> QED
    BY <2>2
<1>10. ASSUME CPHandles(m), m.key = NoKey \/ m.key \notin seen
       PROVE  KeysKept' /\ AtMostOnce'
  <2>1. /\ seen' = seen \cup ({m.key} \ {NoKey})
        /\ counted' = [counted EXCEPT ![m.ev] = @ \cup {m.attempt}]
    BY <1>10 DEF CPHandles
  <2>2. CASE m.ev \in Keyless
    <3>1. seen' = seen
      BY <1>4, <2>1, <2>2
    <3>2. \A e \in Event \ Keyless : counted'[e] = counted[e]
      BY <1>7, <2>2
    <3> QED
      BY <1>1, <1>2, <1>8, <3>1, <3>2 DEF IInv, KeysKept, AtMostOnce, mainVars
  <2>3. CASE m.ev \notin Keyless
    <3>1. counted[m.ev] = {} /\ counted'[m.ev] = {m.attempt}
      BY <1>2, <1>3, <1>10, <2>1, <2>3 DEF IInv, TypeOK, KeysKept
    <3>2. AtMostOnce'
      BY <1>7, <3>1 DEF IInv, AtMostOnce
    <3>3. seen' = seen \cup {<<m.ev>>}
      BY <1>3, <2>1, <2>3
    <3>4. \A e \in Event \ Keyless : <<e>> \in seen' <=> counted'[e] # {}
      BY <1>7, <3>1, <3>3 DEF IInv, KeysKept
    <3>5. NoKey \notin seen'
      BY <3>3 DEF IInv, KeysKept, NoKey
    <3> QED
      BY <1>1, <1>2, <1>8, <3>2, <3>4, <3>5 DEF IInv, KeysKept, mainVars
  <2> QED
    BY <2>2, <2>3
<1>11. KeysKept' /\ AtMostOnce'
  BY <1>9, <1>10
<1>12. AnswerTrue'
  <2>1. CASE answer' = answer
    BY <1>1, <1>8, <2>1 DEF IInv, AnswerTrue
  <2>2. CASE answer' # answer /\ answer' = "2xx"
    <3>1. CPHandles(m) /\ m.ev = cur
      BY <2>2 DEF CPHandles, CPRefuses, Reply
    <3>2. m.ev \in Billed'
      <4>1. CASE m.key # NoKey /\ m.key \in seen
        BY <1>2, <1>3, <1>4, <1>8, <4>1 DEF IInv, KeysKept, Billed
      <4>2. CASE m.key = NoKey \/ m.key \notin seen
        <5>1. counted' = [counted EXCEPT ![m.ev] = @ \cup {m.attempt}]
          BY <3>1, <4>2 DEF CPHandles
        <5>2. m.attempt \in counted'[m.ev]
          BY <1>2, <5>1 DEF IInv, TypeOK
        <5> QED
          BY <1>2, <5>2 DEF Billed
      <4> QED
        BY <4>1, <4>2
    <3> QED
      BY <1>1, <3>1, <3>2 DEF AnswerTrue
  <2> QED
    BY <2>1, <2>2 DEF AnswerTrue
<1>13. Holding'
  BY <1>1 DEF IInv, Holding, CPHandles, CPRefuses, Reply
<1>14. ClosedLast' /\ NoneVanished'
  BY <1>1 DEF IInv, ClosedLast, NoneVanished, otherVars, mainVars, chanVars
<1>15. OnePlace'
  BY <1>1 DEF IInv, OnePlace, Pending, Queued, Distinct, otherVars, mainVars, chanVars
<1> QED
  BY <1>6, <1>11, <1>12, <1>13, <1>14, <1>15 DEF IInv

LEMMA StepInvariant == IInv /\ [Next]_vars => IInv'
<1> SUFFICES ASSUME IInv, [Next]_vars
             PROVE  IInv'
  OBVIOUS
<1>1. CASE UNCHANGED vars
  BY <1>1 DEF vars, otherVars, mainVars, chanVars, workerVars, cpVars, IInv, TypeOK,
     Holding, ClosedLast, OnePlace, NoneVanished, KeysKept, AnswerTrue, AtMostOnce,
     Pending, Queued, Billed, Distinct
<1> QED
  BY <1>1, MainKeepsInvariant, ReportKeepsInvariant, TakeKeepsInvariant,
     SendKeepsInvariant, OutcomeKeepsInvariant, CPKeepsInvariant
  DEF Next, Worker

THEOREM Invariance == Spec => []IInv
  BY InitInvariant, StepInvariant, PTL DEF Spec

(* Type correctness, the channel's bound included, of every behaviour.     *)
THEOREM TypeCorrect == Spec => []TypeOK
<1>1. IInv => TypeOK
  BY DEF IInv
<1> QED
  BY <1>1, Invariance, PTL

(* No event with an idempotency key is billed twice, whatever the network  *)
(* and the control plane do with the client's retries.                     *)
THEOREM BilledAtMostOnce == Spec => []AtMostOnce
<1>1. IInv => AtMostOnce
  BY DEF IInv
<1> QED
  BY <1>1, Invariance, PTL

-----------------------------------------------------------------------------
(* The client implements MeterDelivery.                                    *)

LEMMA InitDelivers == Init => Delivery!Init
  BY DEF Init, Delivery!Init, Pending, Queued, Billed

(* A report is an Accept or a Refuse.  One that panics is accepted too:    *)
(* it vanished, so it stays open for ever.                                 *)
LEMMA ReportDelivers ==
  ASSUME NEW e \in Event, IInv, Report(e)
  PROVE  Delivery!Accept(e) \/ Delivery!Refuse(e)
<1>1. /\ e \notin reported
      /\ reported' = reported \cup {e}
      /\ UNCHANGED <<cur, counted>>
  BY DEF Report, IInv, OnePlace, workerVars, cpVars
<1>2. Queued = Elements(queue) /\ Queued' = Elements(queue')
  BY DEF Queued, Elements
<1>3. queue' = Append(queue, e) => Queued' = Queued \cup {e}
  BY <1>2, AppendElements DEF IInv, TypeOK
<1>4. queue' = queue => Queued' = Queued
  BY <1>2
<1>5. \/ /\ (Pending \cup vanished)' = (Pending \cup vanished) \cup {e}
         /\ UNCHANGED dropped
      \/ /\ UNCHANGED <<Pending, vanished>>
         /\ dropped' = dropped + 1
  BY <1>1, <1>3, <1>4 DEF Report, Pending
<1>6. UNCHANGED Billed
  BY <1>1 DEF Billed
<1> QED
  BY <1>1, <1>5, <1>6 DEF Delivery!Accept, Delivery!Refuse

(* Returning from post() without a vanished event releases cur.            *)
LEMMA PostReleases ==
  ASSUME IInv, pc = "await", PostReturns, UNCHANGED <<queue, vanished>>
  PROVE  /\ cur \in Event
         /\ cur \in Pending
         /\ (Pending \cup vanished)' = (Pending \cup vanished) \ {cur}
<1>1. cur \in Event /\ cur # NoEvent /\ cur' = NoEvent
  BY NoEventAssumption DEF IInv, Holding, PostReturns
<1>2. Queued' = Queued /\ cur \notin Queued /\ cur \notin vanished
  BY <1>1 DEF Queued, IInv, OnePlace, Pending
<1> QED
  BY <1>1, <1>2 DEF Pending

LEMMA WorkerDelivers ==
  ASSUME IInv, Worker
  PROVE  Delivery!Next \/ UNCHANGED Delivery!vars
<1>1. UNCHANGED <<reported, counted, Billed>>
  BY DEF Worker, Take, DrainEnds, Send, BuildFails, Acknowledged, Rejected, Retry,
     Exhausted, mainVars, cpVars, Billed
<1>2. CASE Take
  <2>1. queue \in Seq(Event) /\ queue # <<>>
    BY <1>2 DEF Take, IInv, TypeOK
  <2>2. Elements(queue) = Elements(queue') \cup {cur'} /\ cur' \in Event
    BY <1>2, <2>1, TailElements DEF Take
  <2>3. cur = NoEvent
    BY <1>2 DEF IInv, TypeOK, Holding, Take
  <2>4. UNCHANGED Pending
    BY <2>2, <2>3, NoEventAssumption DEF Pending, Queued, Elements
  <2> QED
    BY <1>1, <1>2, <2>4 DEF Take, otherVars, Delivery!vars
<1>3. CASE DrainEnds \/ Send \/ Retry
  BY <1>1, <1>3 DEF DrainEnds, Send, Retry, Pending, Queued, otherVars, chanVars,
     Delivery!vars
<1>4. CASE BuildFails
  <2>1. cur \in Event /\ cur # NoEvent /\ cur' = NoEvent /\ Queued' = Queued
    BY <1>4, NoEventAssumption
    DEF IInv, Holding, BuildFails, PostReturns, Queued, chanVars
  <2>2. UNCHANGED (Pending \cup vanished)
    BY <1>4, <2>1 DEF BuildFails, Pending
  <2> QED
    BY <1>1, <1>4, <2>2 DEF BuildFails, Delivery!vars
<1>5. CASE Acknowledged
  <2>1. cur \in Billed
    BY <1>5 DEF Acknowledged, IInv, AnswerTrue
  <2>2. /\ cur \in Event /\ cur \in Pending
        /\ (Pending \cup vanished)' = (Pending \cup vanished) \ {cur}
    BY <1>5, PostReleases DEF Acknowledged, otherVars, chanVars
  <2>3. Delivery!Confirm(cur)
    BY <1>1, <1>5, <2>1, <2>2 DEF Acknowledged, Delivery!Confirm
  <2> QED
    BY <2>2, <2>3 DEF Delivery!Next
<1>6. CASE Rejected \/ Exhausted
  <2>1. /\ cur \in Event /\ cur \in Pending
        /\ (Pending \cup vanished)' = (Pending \cup vanished) \ {cur}
    BY <1>6, PostReleases DEF Rejected, Exhausted, otherVars, chanVars
  <2>2. Delivery!GiveUp(cur)
    BY <1>1, <1>6, <2>1 DEF Rejected, Exhausted, Delivery!GiveUp
  <2> QED
    BY <2>1, <2>2 DEF Delivery!Next
<1> QED
  BY <1>2, <1>3, <1>4, <1>5, <1>6 DEF Worker

LEMMA CPDelivers ==
  ASSUME IInv, NEW m \in wire, CPHandles(m) \/ CPRefuses(m)
  PROVE  Delivery!Next \/ UNCHANGED Delivery!vars
<1>1. /\ UNCHANGED <<otherVars, mainVars, chanVars, cur, dropped>>
      /\ m.ev \in Event /\ m.ev \in reported
  BY DEF CPHandles, CPRefuses, IInv, TypeOK, KeysKept, Request
<1>2. UNCHANGED <<reported, Pending, vanished>>
  BY <1>1 DEF Pending, Queued, otherVars, mainVars, chanVars
<1>3. CASE UNCHANGED Billed
  BY <1>1, <1>2, <1>3 DEF Delivery!vars
<1>4. CASE Billed' # Billed
  <2>1. counted' = [counted EXCEPT ![m.ev] = @ \cup {m.attempt}]
    BY <1>4 DEF CPHandles, CPRefuses, Billed, cpVars
  <2>2. Billed' = Billed \cup {m.ev}
    BY <1>1, <2>1 DEF Billed, IInv, TypeOK
  <2>3. m.ev \notin Billed
    BY <1>4, <2>2
  <2>4. Delivery!Bill(m.ev)
    BY <1>1, <1>2, <2>2, <2>3 DEF Delivery!Bill
  <2> QED
    BY <1>1, <2>4 DEF Delivery!Next
<1> QED
  BY <1>3, <1>4

LEMMA StepDelivers ==
  IInv /\ [Next]_vars => [Delivery!Next]_(Delivery!vars)
<1> SUFFICES ASSUME IInv, [Next]_vars
             PROVE  Delivery!Next \/ UNCHANGED Delivery!vars
  OBVIOUS
<1>1. CASE UNCHANGED vars
  BY <1>1 DEF vars, otherVars, mainVars, chanVars, workerVars, cpVars, Pending, Queued,
     Billed, Delivery!vars
<1>2. CASE Main \/ \E e \in Event : HandlerBegin(e)
  BY <1>2 DEF Main, BeginShutdown, Close, CloseReturns, HandlerBegin, otherVars,
     chanVars, workerVars, cpVars, Pending, Queued, Billed, Delivery!vars
<1>3. ASSUME NEW e \in Event, Report(e)
      PROVE  Delivery!Next
  BY <1>3, ReportDelivers DEF Delivery!Next
<1> QED
  BY <1>1, <1>2, <1>3, WorkerDelivers, CPDelivers DEF Next

(* The client keeps the promise of MeterDelivery: an event leaves it only  *)
(* billed or counted as dropped, and only reported events are billed.      *)
THEOREM Refinement == Spec => ImplementsDelivery
  BY InitDelivers, StepDelivers, Invariance, PTL
  DEF Spec, ImplementsDelivery, Delivery!Spec

-----------------------------------------------------------------------------
(* Dropped() covers every loss.                                            *)

Unsettled == reported \ ((Pending \cup vanished) \cup Billed)

LossInv == IsFiniteSet(reported) /\ Cardinality(Unsettled) <= dropped

(* At most one more element, at most one more in the count.                *)
LEMMA OneMore ==
  ASSUME NEW S, IsFiniteSet(S), NEW x, NEW T, T \subseteq S \cup {x}
  PROVE  /\ IsFiniteSet(T)
         /\ Cardinality(T) \in Nat /\ Cardinality(S) \in Nat
         /\ Cardinality(T) <= Cardinality(S) + 1
         /\ T \subseteq S => Cardinality(T) <= Cardinality(S)
<1>1. /\ IsFiniteSet(S \cup {x})
      /\ Cardinality(S \cup {x}) \in Nat /\ Cardinality(S) \in Nat
      /\ Cardinality(S \cup {x}) <= Cardinality(S) + 1
  BY FS_AddElement, FS_CardinalityType
<1>2. /\ IsFiniteSet(T) /\ Cardinality(T) \in Nat
      /\ Cardinality(T) <= Cardinality(S \cup {x})
  BY <1>1, FS_Subset, FS_CardinalityType
<1>3. T \subseteq S => Cardinality(T) <= Cardinality(S)
  BY FS_Subset
<1> QED
  BY <1>1, <1>2, <1>3

LEMMA LossStep ==
  ASSUME TypeOK, TypeOK', LossInv, Delivery!Next \/ UNCHANGED Delivery!vars
  PROVE  LossInv'
<1>1. /\ IsFiniteSet(Unsettled)
      /\ dropped \in Nat /\ dropped' \in Nat
  BY FS_Subset DEF LossInv, Unsettled, TypeOK
<1>2. PICK e :
        /\ reported' \subseteq reported \cup {e}
        /\ Unsettled' \subseteq Unsettled \cup {e}
        /\ \/ dropped' = dropped + 1
           \/ dropped' = dropped /\ Unsettled' \subseteq Unsettled
  BY DEF Delivery!Next, Delivery!vars, Delivery!Accept, Delivery!Refuse,
     Delivery!Bill, Delivery!Confirm, Delivery!GiveUp, Unsettled
<1>3. IsFiniteSet(reported')
  BY <1>2, OneMore DEF LossInv
<1>4. /\ Cardinality(Unsettled') \in Nat /\ Cardinality(Unsettled) \in Nat
      /\ Cardinality(Unsettled') <= Cardinality(Unsettled) + 1
      /\ Unsettled' \subseteq Unsettled =>
           Cardinality(Unsettled') <= Cardinality(Unsettled)
  BY <1>1, <1>2, OneMore
<1>5. Cardinality(Unsettled') <= dropped'
  BY <1>1, <1>2, <1>4 DEF LossInv
<1> QED
  BY <1>3, <1>5 DEF LossInv

(* With a usable CP_URL, and handlers that return within the grace period, *)
(* no usage event is lost without Dropped() showing it.                    *)
THEOREM LossIsVisible ==
  ASSUME GraceSuffices
  PROVE  Spec => []LossVisible
<1>1. Init => LossInv
  BY FS_EmptySet DEF Init, LossInv, Unsettled
<1>2. IInv /\ IInv' /\ LossInv /\ [Next]_vars => LossInv'
  BY StepDelivers, LossStep DEF IInv
<1>3. IInv /\ LossInv => LossVisible
  BY GraceSuffices DEF IInv, NoneVanished, LossInv, Unsettled, LossVisible
<1> QED
  BY <1>1, <1>2, <1>3, Invariance, PTL DEF Spec
=============================================================================
