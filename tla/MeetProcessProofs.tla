------------------------- MODULE MeetProcessProofs -------------------------
(***************************************************************************)
(* Theorems about MeetProcess: its type invariant, that run() leaves no    *)
(* child behind, and that no goroutine blocks in its send to errCh.        *)
(***************************************************************************)
EXTENDS MeetProcess, TLAPS

(* A child that is up has a supervisor that waits for it, and one that was *)
(* never started has a supervisor that may still start it.                 *)
Supervised ==
  /\ child = "up" => worker["supervisor"] = "running"
  /\ worker["supervisor"] = "starting" => child = "none"

(* What run() has seen when wg.Wait returned does not change any more.     *)
Waited == pc = "exited" => \A w \in Worker : worker[w] = "done"

(* A goroutine that is not done may still send one error, and a sweeper    *)
(* none: what errCh holds and what may still come fit its capacity.        *)
Owed(w) == IF worker[w] = "done" THEN 0 ELSE 1

Room ==
  /\ worker["sweeper"] \in {"running", "done"}
  /\ errs + Owed("admin") + Owed("metrics") + Owed("signal")
          + Owed("supervisor") =< ErrCap

IInv == TypeOK /\ Supervised /\ Waited /\ Room

-----------------------------------------------------------------------------
LEMMA InitEstablishes == Init => IInv
<1> SUFFICES ASSUME Init PROVE IInv
  OBVIOUS
<1>1. worker \in [Worker -> {"starting", "running", "failing", "done"}]
  BY DEF Init
<1>2. errs \in 0 .. ErrCap
  BY DEF Init, ErrCap
<1>3. TypeOK
  BY <1>1, <1>2, Zenon DEF Init, TypeOK
<1>4. /\ worker["supervisor"] = "starting"
      /\ worker["sweeper"] \in {"running", "done"}
  BY DEF Init, Worker, Server
<1>5. Room
  BY <1>4 DEF Init, Room, Owed, ErrCap
<1> QED
  BY <1>3, <1>4, <1>5 DEF Init, IInv, Supervised, Waited

LEMMA GoKeeps ==
  ASSUME IInv, NEW w \in Worker,
         NEW from \in {"starting", "running", "failing"},
         NEW to \in {"starting", "running", "failing", "done"},
         Go(w, from, to)
  PROVE  /\ worker' \in [Worker -> {"starting", "running", "failing", "done"}]
         /\ pc # "exited"
         /\ worker'[w] = to
         /\ \A v \in Worker : v # w => worker'[v] = worker[v]
  BY DEF IInv, TypeOK, Go, Alive

LEMMA TypeKept == IInv /\ [Next]_vars => TypeOK'
<1> SUFFICES ASSUME IInv, [Next]_vars PROVE TypeOK'
  OBVIOUS
<1> USE DEF IInv, TypeOK
<1>0. "supervisor" \in Worker /\ "sweeper" \in Worker /\ Server \subseteq Worker
  BY DEF Worker
<1>1. ASSUME NEW s \in Server, Serve(s) PROVE TypeOK'
  BY <1>0, <1>1, GoKeeps DEF Serve
<1>2. ASSUME NEW s \in Server, ServerClosed(s) PROVE TypeOK'
  BY <1>0, <1>2, GoKeeps DEF ServerClosed
<1>3. CASE SweeperEnds
  BY <1>0, <1>3, GoKeeps DEF SweeperEnds
<1>4. CASE Supervise
  BY <1>0, <1>4, GoKeeps
     DEF Supervise, StartFails, StartChild, Terminate, WaitReturns
<1>5. ASSUME NEW w \in Worker, Report(w) PROVE TypeOK'
  BY <1>5, GoKeeps DEF Report, ErrCap
<1>6. CASE Main
  <2>1. CASE Select
    <3>1. errs' \in 0 .. ErrCap
      BY <2>1 DEF Select, ErrCap
    <3> QED
      BY <2>1, <3>1, Zenon DEF Select
  <2>2. CASE Shutdown
    BY <2>2 DEF Shutdown, Successor, Server
  <2>3. CASE CloseClients \/ WaitGroup
    BY <2>3 DEF CloseClients, WaitGroup
  <2> QED
    BY <1>6, <2>1, <2>2, <2>3 DEF Main
<1>7. CASE ChildExits \/ ChildDeaf \/ Signal
  BY <1>7 DEF ChildExits, ChildDeaf, Signal
<1>8. CASE UNCHANGED vars
  BY <1>8 DEF vars
<1> QED
  BY <1>1, <1>2, <1>3, <1>4, <1>5, <1>6, <1>7, <1>8 DEF Next

LEMMA SupervisedKept == IInv /\ [Next]_vars => Supervised' /\ Waited'
<1> SUFFICES ASSUME IInv, [Next]_vars PROVE Supervised' /\ Waited'
  OBVIOUS
<1> USE DEF IInv, Supervised, Waited
<1>0. /\ "supervisor" \in Worker /\ "sweeper" \in Worker
      /\ "supervisor" # "sweeper"
      /\ \A s \in Server : s \in Worker /\ s # "supervisor"
  BY DEF Worker, Server
<1>1. ASSUME NEW s \in Server, Serve(s) PROVE Supervised' /\ Waited'
  BY <1>0, <1>1, GoKeeps DEF Serve
<1>2. ASSUME NEW s \in Server, ServerClosed(s) PROVE Supervised' /\ Waited'
  BY <1>0, <1>2, GoKeeps DEF ServerClosed
<1>3. CASE SweeperEnds
  BY <1>0, <1>3, GoKeeps DEF SweeperEnds
<1>4. CASE StartFails
  BY <1>0, <1>4, GoKeeps DEF StartFails, Go
<1>5. CASE StartChild
  BY <1>0, <1>5, GoKeeps DEF StartChild
<1>6. CASE WaitReturns
  BY <1>0, <1>6, GoKeeps DEF WaitReturns
<1>7. CASE Terminate
  BY <1>7 DEF Terminate
<1>8. ASSUME NEW w \in Worker, Report(w) PROVE Supervised' /\ Waited'
  BY <1>0, <1>8, GoKeeps DEF Report, Go
<1>9. CASE Main
  <2>1. CASE Select \/ Shutdown \/ CloseClients
    BY <2>1 DEF Select, Shutdown, CloseClients, Successor, Server
  <2>2. CASE WaitGroup
    BY <2>2 DEF WaitGroup
  <2> QED
    BY <1>9, <2>1, <2>2 DEF Main
<1>10. CASE ChildExits \/ ChildDeaf \/ Signal
  BY <1>10 DEF ChildExits, ChildDeaf, Signal, Alive
<1>11. CASE UNCHANGED vars
  BY <1>11 DEF vars
<1> QED
  BY <1>1, <1>2, <1>3, <1>4, <1>5, <1>6, <1>7, <1>8, <1>9, <1>10, <1>11
     DEF Next, Supervise

(* A goroutine that goes on owes no more than before, and one that ends    *)
(* owes one error less.                                                    *)
LEMMA OwedGo ==
  ASSUME IInv, NEW w \in Worker,
         NEW from \in {"starting", "running", "failing"},
         NEW to \in {"starting", "running", "failing", "done"},
         Go(w, from, to)
  PROVE  /\ Owed(w) = 1
         /\ Owed(w)' = IF to = "done" THEN 0 ELSE 1
         /\ \A v \in Worker : v # w => Owed(v)' = Owed(v)
<1>1. worker[w] = from
  BY DEF Go
<1> QED
  BY <1>1, GoKeeps DEF Owed

LEMMA RoomKept == IInv /\ [Next]_vars => Room'
<1> SUFFICES ASSUME IInv, [Next]_vars PROVE Room'
  OBVIOUS
<1>0. /\ Worker = {"admin", "metrics", "signal", "sweeper", "supervisor"}
      /\ Server = {"admin", "metrics", "signal"}
      /\ errs \in Nat /\ Room
      /\ \A v \in Worker : Owed(v) \in {0, 1}
  BY DEF Worker, Server, IInv, TypeOK, Owed, ErrCap
<1>1. ASSUME NEW w \in Worker \ {"sweeper"},
             NEW from \in {"starting", "running", "failing"},
             NEW to \in {"starting", "running", "failing", "done"},
             Go(w, from, to),
             \/ errs' = errs
             \/ errs' = errs + 1 /\ to = "done"
      PROVE  Room'
  <2>1. worker'["sweeper"] = worker["sweeper"]
    BY <1>0, <1>1, GoKeeps
  <2>2. /\ Owed(w) = 1
        /\ Owed(w)' = IF to = "done" THEN 0 ELSE 1
        /\ \A v \in Worker : v # w => Owed(v)' = Owed(v)
    BY <1>1, OwedGo
  <2>3. errs' + Owed("admin")' + Owed("metrics")' + Owed("signal")'
              + Owed("supervisor")' =< ErrCap
    BY <1>0, <1>1, <2>2 DEF Room, ErrCap
  <2> QED
    BY <1>0, <2>1, <2>3 DEF Room, ErrCap
<1>2. ASSUME NEW s \in Server, Serve(s) \/ ServerClosed(s) PROVE Room'
  BY <1>0, <1>1, <1>2 DEF Serve, ServerClosed
<1>3. CASE SweeperEnds
  <2>1. Go("sweeper", "running", "done") /\ errs' = errs
    BY <1>3 DEF SweeperEnds
  <2>2. worker'["sweeper"] = "done"
    BY <1>0, <2>1, GoKeeps
  <2>3. \A v \in Worker : v # "sweeper" => Owed(v)' = Owed(v)
    BY <1>0, <2>1, OwedGo
  <2> QED
    BY <1>0, <2>1, <2>2, <2>3 DEF Room, ErrCap
<1>4. CASE StartFails \/ StartChild \/ WaitReturns
  BY <1>0, <1>1, <1>4 DEF StartFails, StartChild, WaitReturns
<1>5. ASSUME NEW w \in Worker, Report(w) PROVE Room'
  <2>1. Go(w, "failing", "done") /\ errs' = errs + 1
    BY <1>5 DEF Report
  <2>2. w # "sweeper"
    BY <1>0, <2>1 DEF Room, Go
  <2> QED
    BY <1>1, <2>1, <2>2
<1>6. CASE Select
  BY <1>0, <1>6 DEF Select, Room, Owed, ErrCap
<1>7. CASE \/ Shutdown \/ CloseClients \/ WaitGroup \/ Terminate
           \/ ChildExits \/ ChildDeaf \/ Signal \/ UNCHANGED vars
  <2>1. worker' = worker /\ errs' = errs
    BY <1>7 DEF Shutdown, CloseClients, WaitGroup, Terminate, ChildExits,
                ChildDeaf, Signal, vars
  <2> QED
    BY <1>0, <2>1 DEF Room, Owed
<1> QED
  BY <1>2, <1>3, <1>4, <1>5, <1>6, <1>7 DEF Next, Main, Supervise

LEMMA Inductive == Spec => []IInv
<1>1. IInv /\ [Next]_vars => IInv'
  BY TypeKept, SupervisedKept, RoomKept DEF IInv
<1> QED
  BY <1>1, InitEstablishes, PTL DEF Spec

-----------------------------------------------------------------------------
(* run()'s variables keep their types: errCh never holds more errors than  *)
(* its capacity, nor fewer than none.                                      *)
THEOREM TypeCorrect == Spec => []TypeOK
<1>1. IInv => TypeOK
  BY DEF IInv
<1> QED
  BY <1>1, Inductive, PTL

(* When run() returns by itself every goroutine is done and no             *)
(* livekit-server is left without a supervisor, whatever failed before and *)
(* whenever signals came.                                                  *)
THEOREM NothingIsLeftBehind == Spec => []NothingLeftBehind
<1>1. IInv => NothingLeftBehind
  BY DEF IInv, Supervised, Waited, NothingLeftBehind, Worker
<1> QED
  BY <1>1, Inductive, PTL
(* errCh is deep enough: a goroutine that has an error to report never     *)
(* blocks in its send, also after main has read its one error and waits    *)
(* for the goroutines.                                                     *)
THEOREM ErrorsFit == Spec => []SendsNeverBlock
<1>1. ASSUME IInv, NEW w \in Worker, worker[w] = "failing"
      PROVE  errs < ErrCap
  <2>1. errs \in Nat /\ Room /\ w # "sweeper"
    BY <1>1 DEF IInv, TypeOK, Room, ErrCap
  <2>2. w \in {"admin", "metrics", "signal", "supervisor"}
    BY <2>1 DEF Worker, Server
  <2>3. Owed(w) = 1
    BY <1>1 DEF Owed
  <2> QED
    BY <2>1, <2>2, <2>3 DEF Room, Owed, ErrCap
<1>2. IInv => SendsNeverBlock
  BY <1>1 DEF SendsNeverBlock
<1> QED
  BY <1>2, Inductive, PTL
=============================================================================
