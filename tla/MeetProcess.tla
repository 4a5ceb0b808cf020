---------------------------- MODULE MeetProcess ----------------------------
(***************************************************************************)
(* run() once everything is wired: the goroutines that serve, sweep and    *)
(* supervise the livekit-server child, the channel on which they report an *)
(* error, the signal context, and main's way out of its select.            *)
(***************************************************************************)
EXTENDS Naturals

Server == {"admin", "metrics", "signal"}
Worker == Server \cup {"sweeper", "supervisor"}

(* Seeded fault: room for one error only.                                  *)
ErrCapOne == 1

(* The capacity of errCh.                                                  *)
ErrCap == 4

VARIABLES
  ctx,        \* "live", or "cancelled" by a signal or stop()
  notify,     \* whether signals still go to ctx
  pc,         \* where run() is
  worker,     \* where each goroutine is
  closed,     \* the servers whose Shutdown was called
  errs,       \* the number of errors in errCh
  child,      \* the process: none yet, up, exited with 0 or with an error
  termed,     \* SIGTERM was sent to it
  deaf        \* it does not leave on SIGTERM

vars == <<ctx, notify, pc, worker, closed, errs, child, termed, deaf>>

TypeOK ==
  /\ ctx \in {"live", "cancelled"}
  /\ notify \in BOOLEAN
  /\ pc \in {"select", "admin", "metrics", "signal", "close", "wait", "exited", "killed"}
  /\ worker \in [Worker -> {"starting", "running", "failing", "done"}]
  /\ closed \subseteq Server
  /\ errs \in 0 .. ErrCap
  /\ child \in {"none", "up", "zero", "nonzero"}
  /\ termed \in BOOLEAN /\ deaf \in BOOLEAN

(* The sweeper runs only with a retention rule.                            *)
Init ==
  /\ ctx = "live" /\ notify = TRUE
  /\ pc = "select"
  /\ worker \in {[w \in Worker |-> IF w = "sweeper" THEN s ELSE "starting"] :
                   s \in {"running", "done"}}
  /\ closed = {}
  /\ errs = 0
  /\ child = "none" /\ termed = FALSE /\ deaf = FALSE

Alive == pc \notin {"exited", "killed"}

Go(w, from, to) ==
  /\ Alive
  /\ worker[w] = from
  /\ worker' = [worker EXCEPT ![w] = to]

-----------------------------------------------------------------------------
(* A server's goroutine: ListenAndServe binds, or fails to, or fails later *)
Serve(s) ==
  /\ s \notin closed
  /\ \/ Go(s, "starting", "running")
     \/ \E from \in {"starting", "running"} : Go(s, from, "failing")
  /\ UNCHANGED <<ctx, notify, pc, closed, errs, child, termed, deaf>>

(* ... and returns ErrServerClosed once its Shutdown was called.           *)
ServerClosed(s) ==
  /\ s \in closed
  /\ \E from \in {"starting", "running"} : Go(s, from, "done")
  /\ UNCHANGED <<ctx, notify, pc, closed, errs, child, termed, deaf>>

(* RunLoop returns when the context is done.                               *)
SweeperEnds ==
  /\ ctx = "cancelled"
  /\ Go("sweeper", "running", "done")
  /\ UNCHANGED <<ctx, notify, pc, closed, errs, child, termed, deaf>>

(* SuperviseLiveKit: the binary, Redis or the config file is not there, or *)
(* Start fails, as it does when the context is done.                       *)
StartFails ==
  /\ Go("supervisor", "starting", "failing")
  /\ UNCHANGED <<ctx, notify, pc, closed, errs, child, termed, deaf>>

StartChild ==
  /\ ctx = "live"
  /\ Go("supervisor", "starting", "running")
  /\ child' = "up"
  /\ UNCHANGED <<ctx, notify, pc, closed, errs, termed, deaf>>

(* exec's watcher runs cmd.Cancel once the context is done.                *)
Terminate ==
  /\ Alive /\ ctx = "cancelled" /\ child = "up" /\ ~termed
  /\ termed' = TRUE
  /\ UNCHANGED <<ctx, notify, pc, worker, closed, errs, child, deaf>>

(* Seeded fault: any exit is taken for the one that was asked for.         *)
WaitReturnsQuiet ==
  /\ child \in {"zero", "nonzero"}
  /\ Go("supervisor", "running", "done")
  /\ UNCHANGED <<ctx, notify, pc, closed, errs, child, termed, deaf>>

(* cmd.Wait returns: an error unless the child left with 0 or the context  *)
(* is done.                                                                *)
WaitReturns ==
  /\ child \in {"zero", "nonzero"}
  /\ Go("supervisor", "running",
        IF child = "nonzero" /\ ctx = "live" THEN "failing" ELSE "done")
  /\ UNCHANGED <<ctx, notify, pc, closed, errs, child, termed, deaf>>

(* errCh <- err.                                                           *)
Report(w) ==
  /\ errs < ErrCap
  /\ Go(w, "failing", "done")
  /\ errs' = errs + 1
  /\ UNCHANGED <<ctx, notify, pc, closed, child, termed, deaf>>

-----------------------------------------------------------------------------
(* The child.  It may leave at any time, and may stop leaving on SIGTERM,  *)
(* because it hangs or waits for its rooms to empty.                       *)
ChildExits ==
  /\ child = "up"
  /\ child' \in {"zero", "nonzero"}
  /\ UNCHANGED <<ctx, notify, pc, worker, closed, errs, termed, deaf>>

ChildDeaf ==
  /\ child = "up" /\ ~deaf
  /\ deaf' = TRUE
  /\ UNCHANGED <<ctx, notify, pc, worker, closed, errs, child, termed>>

(* SIGINT or SIGTERM to the process.  After stop() nobody catches it and   *)
(* it kills the process.                                                   *)
Signal ==
  /\ Alive
  /\ ctx' = "cancelled"
  /\ pc' = IF notify THEN pc ELSE "killed"
  /\ UNCHANGED <<notify, worker, closed, errs, child, termed, deaf>>

-----------------------------------------------------------------------------
(* Seeded fault: the select does not block.                                *)
SelectPolls ==
  /\ pc = "select"
  /\ pc' = "admin"
  /\ errs' = errs - 1
  /\ ctx' = "cancelled" /\ notify' = FALSE
  /\ UNCHANGED <<worker, closed, child, termed, deaf>>

(* main's select: the signal, or the first error and stop().               *)
Select ==
  /\ pc = "select"
  /\ pc' = "admin"
  /\ \/ ctx = "cancelled" /\ UNCHANGED <<ctx, notify, errs>>
     \/ /\ errs > 0
        /\ errs' = errs - 1
        /\ ctx' = "cancelled" /\ notify' = FALSE
  /\ UNCHANGED <<worker, closed, child, termed, deaf>>

(* Seeded fault: the metrics server is left out.                           *)
SuccessorShort == [admin |-> "signal", metrics |-> "signal", signal |-> "close"]

Successor == [admin |-> "metrics", metrics |-> "signal", signal |-> "close"]

(* Shutdown of one server after the other.  Each returns when its          *)
(* connections are idle or the 10s they share are over.                    *)
Shutdown ==
  /\ pc \in Server
  /\ closed' = closed \cup {pc}
  /\ pc' = Successor[pc]
  /\ UNCHANGED <<ctx, notify, worker, errs, child, termed, deaf>>

(* rooms.Close and cpClient.Close.                                         *)
CloseClients ==
  /\ pc = "close"
  /\ pc' = "wait"
  /\ UNCHANGED <<ctx, notify, worker, closed, errs, child, termed, deaf>>

(* Seeded fault: the supervisor's goroutine is not in the wait group.      *)
WaitGroupShort ==
  /\ pc = "wait"
  /\ \A w \in Worker \ {"supervisor"} : worker[w] = "done"
  /\ pc' = "exited"
  /\ UNCHANGED <<ctx, notify, worker, closed, errs, child, termed, deaf>>

(* wg.Wait returns and run with it.                                        *)
WaitGroup ==
  /\ pc = "wait"
  /\ \A w \in Worker : worker[w] = "done"
  /\ pc' = "exited"
  /\ UNCHANGED <<ctx, notify, worker, closed, errs, child, termed, deaf>>

Main      == Select \/ Shutdown \/ CloseClients \/ WaitGroup
Supervise == StartFails \/ StartChild \/ Terminate \/ WaitReturns

Next ==
  \/ Main \/ Supervise \/ SweeperEnds
  \/ \E s \in Server : Serve(s) \/ ServerClosed(s)
  \/ \E w \in Worker : Report(w)
  \/ ChildExits \/ ChildDeaf \/ Signal

(* Goroutines are scheduled, the Shutdowns and Closes of main are bounded  *)
(* by their timeouts, and a child that heeds SIGTERM leaves on it.         *)
Fairness ==
  /\ WF_vars(Main)
  /\ WF_vars(Supervise)
  /\ WF_vars(SweeperEnds)
  /\ \A s \in Server : WF_vars(ServerClosed(s))
  /\ \A w \in Worker : WF_vars(Report(w))
  /\ WF_vars(ChildExits /\ termed /\ ~deaf)

Spec == Init /\ [][Next]_vars /\ Fairness

-----------------------------------------------------------------------------
(* Why main waits for its goroutines: when run() returns by itself nothing *)
(* is left behind, in particular no livekit-server that nobody supervises  *)
(* and that still holds the ports the next start needs.                    *)
NothingLeftBehind ==
  pc = "exited" => child # "up" /\ \A w \in Worker : worker[w] = "done"

(* Why errCh has its capacity: main reads it once at most and then waits   *)
(* for every goroutine, so one that blocked in its send would never end.   *)
(* A goroutine with an error to report always finds room, however many     *)
(* have failed and whether or not main still reads.                        *)
SendsNeverBlock ==
  \A w \in Worker : worker[w] = "failing" => errs < ErrCap

Failed == child = "nonzero" \/ \E w \in Worker : worker[w] = "failing"
Over   == pc \in {"exited", "killed"}

(* main(): "Wait for signal or first error".  A signal, an error of any    *)
(* subsystem at any point or a child that crashes ends the process, also   *)
(* while others fail and nobody reads errCh any more, except while a child *)
(* does not leave on SIGTERM: no SIGKILL follows.                          *)
ShutdownEnds ==
  (ctx = "cancelled" \/ Failed) ~> (Over \/ (deaf /\ child = "up"))

(* Even then the box stops serving: all three listeners are closed.        *)
ListenersClose ==
  (ctx = "cancelled" \/ Failed) ~> (Over \/ \A s \in Server : worker[s] = "done")
=============================================================================
