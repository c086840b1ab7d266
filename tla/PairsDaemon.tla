------------------------------ MODULE PairsDaemon ------------------------------
(***************************************************************************)
(* The process that keeps the pairs table of the data service up to date   *)
(* (apps/data-service): the loop of daemons/presets/daemon.ts, which runs  *)
(* one iteration after another, each one a transaction of                  *)
(* daemons/pairs/create.ts; and its end as daemons/pairs/index.ts sets it  *)
(* up with shutdown.ts: stop the loop, close the connection pool, exit, or *)
(* exit anyway after the grace period.                                     *)
(*                                                                         *)
(* A timeout interrupts the iteration, not the promise of its transaction, *)
(* so several transactions can be open at a time.  Time is not modelled:   *)
(* any timer that is set may fire.  The process is the first of its        *)
(* container: a signal without a handler does nothing.                     *)
(*                                                                         *)
(* The names every specification has carry a prefix here: ProcessProofs    *)
(* extends this module and Consumer.                                       *)
(***************************************************************************)
CONSTANTS
  Transactions,  \* bound: transactions that are open at a time
  None,
  Signals        \* SIGTERM and SIGINT

ASSUME DaemonAssumption == None \notin Transactions

VARIABLES
  loop,        \* an iteration, a pending timer, or neither
  current,     \* the transaction the iteration in flight waits for
  unsettled,   \* transactions whose promise is not settled
  stopping,    \* state.stopping, and shuttingDown
  awaited,     \* stop() waits for the iteration in flight
  shutdown,    \* how far the shutdown is
  grace,       \* the grace timer is set
  handlers,    \* signals that have a handler: process.once removes it
  exit         \* the exit code of the process

loopVars == <<loop, current, unsettled, awaited>>
daemonVars == <<loopVars, stopping, shutdown, grace, handlers, exit>>

DaemonTypeOK ==
  /\ loop \in {"iterating", "sleeping", "over"}
  /\ unsettled \subseteq Transactions
  /\ current \in unsettled \cup {None} /\ (current = None <=> loop # "iterating")
  /\ stopping \in BOOLEAN /\ awaited \in BOOLEAN /\ grace \in BOOLEAN
  /\ shutdown \in {"no", "draining", "closing", "finished"}
  /\ handlers \subseteq Signals
  /\ exit \in {"running", "0", "1"}

\* The pairs daemon has no init step: its first iteration is in flight when
\* the signal handlers are installed.
DaemonInit ==
  /\ loop = "iterating"
  /\ current \in Transactions /\ unsettled = {current}
  /\ stopping = FALSE /\ awaited = FALSE /\ grace = FALSE
  /\ shutdown = "no"
  /\ handlers = Signals
  /\ exit = "running"

Running == exit = "running"

-----------------------------------------------------------------------------
(* The loop.                                                               *)

\* The iteration was settled, one way or another.
ScheduleNext == IF stopping THEN "over" ELSE "sleeping"

Settle ==
  /\ loop' = ScheduleNext
  /\ current' = None
  /\ awaited' = FALSE

\* The timer between two iterations: the next one begins its transaction.
NextIteration ==
  /\ Running
  /\ loop = "sleeping"
  /\ \E t \in Transactions \ unsettled :
       /\ loop' = "iterating"
       /\ current' = t
       /\ unsettled' = unsettled \cup {t}
  /\ UNCHANGED <<awaited, stopping, shutdown, grace, handlers, exit>>

\* A transaction commits or fails; only the one of the iteration in flight is
\* waited for.
TransactionEnds(t) ==
  /\ Running
  /\ t \in unsettled
  /\ unsettled' = unsettled \ {t}
  /\ IF t = current THEN Settle ELSE UNCHANGED <<loop, current, awaited>>
  /\ UNCHANGED <<stopping, shutdown, grace, handlers, exit>>

TimeoutEndsLoop == loop' = "over" /\ current' = None /\ awaited' = FALSE   \* mutant

TimedOut == Settle

IterationTimeout ==
  /\ Running
  /\ loop = "iterating"
  /\ TimedOut
  /\ UNCHANGED <<unsettled, stopping, shutdown, grace, handlers, exit>>

-----------------------------------------------------------------------------
(* The shutdown.                                                           *)

LeaveTimer == UNCHANGED loop   \* mutant: the pending timer is not cleared

\* stop() clears the timer of the next iteration.
ClearTimer == loop' = IF loop = "sleeping" THEN "over" ELSE loop

WaitForNothing == FALSE   \* mutant

\* What stop() waits for: state.inFlight.
InFlight == loop = "iterating"

Signal(s) ==
  /\ Running
  /\ s \in handlers
  /\ handlers' = handlers \ {s}
  /\ IF stopping
     THEN UNCHANGED <<loop, stopping, awaited, shutdown, grace>>
     ELSE /\ stopping' = TRUE
          /\ ClearTimer
          /\ awaited' = InFlight
          /\ shutdown' = "draining"
          /\ grace' = TRUE
  /\ UNCHANGED <<current, unsettled, exit>>

\* stop() resolved: the pool is closed.
CloseResources ==
  /\ Running
  /\ shutdown = "draining" /\ ~awaited
  /\ shutdown' = "closing"
  /\ UNCHANGED <<loopVars, stopping, grace, handlers, exit>>

NotFinished(code) == UNCHANGED <<exit, shutdown, grace>>   \* mutant

Finish(code) ==
  /\ exit' = code
  /\ shutdown' = "finished"
  /\ grace' = FALSE

\* sql.end: the running queries are waited for, or their connections are
\* destroyed after five seconds, which fails them.
PoolEnds ==
  /\ Running
  /\ shutdown = "closing"
  /\ unsettled' = {}
  /\ Finish("0")
  /\ UNCHANGED <<loop, current, awaited, stopping, handlers>>

PoolEndFails ==
  /\ Running
  /\ shutdown = "closing"
  /\ Finish("1")
  /\ UNCHANGED <<loopVars, stopping, handlers>>

GraceExpires ==
  /\ Running
  /\ grace
  /\ Finish("1")
  /\ UNCHANGED <<loopVars, stopping, handlers>>

-----------------------------------------------------------------------------
DaemonNext ==
  \/ NextIteration \/ IterationTimeout
  \/ \E t \in Transactions : TransactionEnds(t)
  \/ \E s \in Signals : Signal(s)
  \/ CloseResources \/ PoolEnds \/ PoolEndFails \/ GraceExpires

\* Timers fire; the database settles every transaction (statement_timeout).
DaemonFairness ==
  /\ WF_daemonVars(NextIteration) /\ WF_daemonVars(IterationTimeout)
  /\ WF_daemonVars(GraceExpires)
  /\ \A t \in Transactions : WF_daemonVars(TransactionEnds(t))

DaemonSpec == DaemonInit /\ [][DaemonNext]_daemonVars /\ DaemonFairness

-----------------------------------------------------------------------------
(* The pool is closed only when the loop is over: no iteration, not one    *)
(* that began before the signal and not one whose timer was pending, meets *)
(* a pool that is being closed.                                            *)
PoolOutlivesLoop ==
  shutdown \in {"closing", "finished"} /\ exit # "1" => loop = "over"

(* "no further iterations are scheduled" after stop(), whatever is in      *)
(* flight then and however it ends.                                        *)
StopIsFinal == [][stopping /\ current # current' => current' = None]_daemonVars

(* "Stopping here would leave the process alive but never updating the     *)
(* pairs table again": until it is stopped the daemon begins another       *)
(* iteration after every one that committed, failed or timed out.          *)
KeepsGoing ==
  /\ loop = "iterating" ~> loop = "sleeping" \/ stopping
  /\ loop = "sleeping" ~> loop = "iterating" \/ stopping

(* A signal ends the process, even when a transaction hangs.               *)
Exits == stopping ~> ~Running
=============================================================================
