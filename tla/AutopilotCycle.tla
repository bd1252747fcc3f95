---------------------------- MODULE AutopilotCycle ----------------------------
(***************************************************************************)
(* Autopilot's cycles and the lock that keeps them apart                   *)
(* (src/app/autopilot.py run_cycle, the autopilot_state row and the        *)
(* autopilot_cycles table of src/app/crm.py).                              *)
(*                                                                         *)
(* A cycle runs in the worker, in a background job of the cabinet, or on   *)
(* the server's event loop (the tool autopilot_run_cycle).  The operator's *)
(* requests run on that event loop, one at a time, while the cycles of the *)
(* worker and of the jobs go on between any two transactions.              *)
(*                                                                         *)
(* Time is relative: lock and due count the ticks that lock_until and      *)
(* next_cycle_at still lie ahead, and stop at 0.                           *)
(***************************************************************************)
EXTENDS Integers, Sequences, FiniteSets

CONSTANTS
    Worker,          \* the worker's thread
    Loop,            \* the server's event loop
    Jobs,            \* background jobs of the cabinet
    NotSet,          \* NULL, in lock_until, next_cycle_at and current_cycle_id
    LockTicks,       \* how long a cycle holds the lock (120 minutes)
    Interval,        \* interval_minutes, in ticks
    NonSafeAllowed,  \* enough training leads, and both send flags are on
    MaxCycles,       \* bound: rows ever inserted in autopilot_cycles
    MaxStops         \* bound: stops and resets by the operator

Runners == {Worker, Loop} \cup Jobs

ASSUME CycleAssumption ==
    /\ Worker # Loop /\ {Worker, Loop} \cap Jobs = {}
    /\ NotSet \notin Nat
    /\ LockTicks \in Nat \ {0}
    /\ Interval \in Nat \ {0}
    /\ NonSafeAllowed \in BOOLEAN
    /\ MaxCycles \in Nat
    /\ MaxStops \in Nat

VARIABLES
    \* the row of autopilot_state
    running, mode, lock, current, due,
    cycles,   \* autopilot_cycles, in the order they began
    \* the threads
    pc,       \* where each runner is in run_cycle
    held,     \* the cycle it runs, with the mode it began in
    stopping, \* the SELECT of a stop that has not written yet
    \* what happened, for the bounds and the properties only
    stops,
    raced     \* a stop wrote over another current cycle than the one it had read

state == <<running, mode, lock, current, due>>
vars == <<state, cycles, pc, held, stopping, stops, raced>>

Modes == {"safe", "non_safe"}
CycleStatuses == {"running", "completed", "failed", "deleted"}
Labels == {"idle", "queued", "verticals", "work", "sending", "complete", "failing"}
CycleIds == 1 .. MaxCycles
NoCycle == [id |-> NotSet, mode |-> "safe"]
NoStop == [busy |-> FALSE, saw |-> NotSet]

TypeOK ==
    /\ running \in BOOLEAN
    /\ mode \in Modes
    /\ lock \in (0 .. LockTicks) \cup {NotSet}
    /\ current \in CycleIds \cup {NotSet}
    /\ due \in (0 .. Interval) \cup {NotSet}
    /\ cycles \in Seq([mode : Modes, status : CycleStatuses])
    /\ Len(cycles) <= MaxCycles
    /\ pc \in [Runners -> Labels]
    /\ held \in [Runners -> [id : CycleIds \cup {NotSet}, mode : Modes]]
    /\ stopping \in [busy : BOOLEAN, saw : CycleIds \cup {NotSet}]
    /\ stops \in 0 .. MaxStops
    /\ raced \in BOOLEAN

Init ==
    /\ running = FALSE
    /\ mode = "safe"
    /\ lock = NotSet
    /\ current = NotSet
    /\ due = NotSet
    /\ cycles = <<>>
    /\ pc = [r \in Runners |-> "idle"]
    /\ held = [r \in Runners |-> NoCycle]
    /\ stopping = NoStop
    /\ stops = 0
    /\ raced = FALSE

-----------------------------------------------------------------------------
IsRunning(c) == c \in DOMAIN cycles /\ cycles[c].status = "running"

\* Mutant of Settled: the UPDATE names the cycle by its id alone.
SettledAnyway(c, s) == IF c \in DOMAIN cycles THEN [cycles EXCEPT ![c].status = s] ELSE cycles

\* UPDATE autopilot_cycles SET status = s WHERE id = c AND status = 'running'.
Settled(c, s) == IF IsRunning(c) THEN [cycles EXCEPT ![c].status = s] ELSE cycles

\* The event loop takes its next request only when the last one is done.
LoopFree == pc[Loop] = "idle" /\ ~stopping.busy

Goto(r, label) ==
    /\ pc' = [pc EXCEPT ![r] = label]
    /\ UNCHANGED <<held, stopping, stops, raced>>

Leave(r) ==
    /\ pc' = [pc EXCEPT ![r] = "idle"]
    /\ held' = [held EXCEPT ![r] = NoCycle]
    /\ UNCHANGED <<stopping, stops, raced>>

Tick ==
    /\ lock' = IF lock \in 1 .. LockTicks THEN lock - 1 ELSE lock
    /\ due' = IF due \in 1 .. Interval THEN due - 1 ELSE due
    /\ UNCHANGED <<running, mode, current, cycles, pc, held, stopping, stops, raced>>

-----------------------------------------------------------------------------
(***************************************************************************)
(* The operator                                                            *)
(***************************************************************************)

\* AutopilotService.start and start_autopilot: one UPDATE that touches neither the lock
\* nor the cycle that runs.
Start(m) ==
    /\ LoopFree
    /\ m = "safe" \/ NonSafeAllowed
    /\ running' = TRUE
    /\ mode' = m
    /\ due' = 0
    /\ UNCHANGED <<lock, current, cycles, pc, held, stopping, stops, raced>>

\* stop_autopilot: the SELECT runs before the transaction begins ...
StopRead ==
    /\ LoopFree
    /\ stops < MaxStops
    /\ stopping' = [busy |-> TRUE, saw |-> current]
    /\ stops' = stops + 1
    /\ UNCHANGED <<state, cycles, pc, held, raced>>

\* Mutant of StopWrite: lock_until is left.
StopKeepsLock ==
    /\ stopping.busy
    /\ cycles' = Settled(stopping.saw, "failed")
    /\ running' = FALSE
    /\ due' = NotSet
    /\ current' = NotSet
    /\ stopping' = NoStop
    /\ raced' = (raced \/ current \notin {stopping.saw, NotSet})
    /\ UNCHANGED <<lock, mode, pc, held, stops>>

\* ... and the UPDATEs fail the cycle it saw and clear whatever is current by then.
StopWrite ==
    /\ stopping.busy
    /\ cycles' = Settled(stopping.saw, "failed")
    /\ running' = FALSE
    /\ due' = NotSet
    /\ lock' = NotSet
    /\ current' = NotSet
    /\ stopping' = NoStop
    /\ raced' = (raced \/ current \notin {stopping.saw, NotSet})
    /\ UNCHANGED <<mode, pc, held, stops>>

\* The commit of reset_prospecting_data: refused while Autopilot is on, but a forced cycle
\* may well be running.
Reset ==
    /\ LoopFree
    /\ stops < MaxStops
    /\ ~running
    /\ cycles' = [c \in DOMAIN cycles |-> [cycles[c] EXCEPT !.status = "deleted"]]
    /\ due' = NotSet
    /\ lock' = NotSet
    /\ current' = NotSet
    /\ stops' = stops + 1
    /\ UNCHANGED <<running, mode, pc, held, stopping, raced>>

\* api_autopilot_run: the mode is checked now, the job runs later.
QueueJob(j) ==
    /\ LoopFree
    /\ mode = "safe"
    /\ pc[j] = "idle"
    /\ Goto(j, "queued")
    /\ UNCHANGED <<state, cycles>>

-----------------------------------------------------------------------------
(***************************************************************************)
(* run_cycle                                                               *)
(***************************************************************************)

\* Mutant of LockFree: the lock is not compared with the clock.
LockNeverExpires == lock = NotSet

\* lock_until IS NULL or has passed.
LockFree == lock \in {NotSet, 0}

\* Mutant of Recovered: the cycle of the expired lock is forgotten, not failed.
NotRecovered == cycles

\* The UPDATE that fails the cycle of an expired lock.
Recovered == IF current = NotSet THEN cycles ELSE Settled(current, "failed")

\* begin_autopilot_cycle: one BEGIN IMMEDIATE that may recover the cycle of an expired
\* lock, may begin a new one, or both; a recovery is kept though nothing is due.
Begin(r, force) ==
    LET isDue == (force \/ due \in {NotSet, 0}) /\ Len(cycles) < MaxCycles
        new == Len(cycles) + 1 IN
    /\ IF (force \/ running) /\ LockFree
       THEN IF isDue
            THEN /\ cycles' = Append(Recovered, [mode |-> mode, status |-> "running"])
                 /\ current' = new
                 /\ lock' = LockTicks
                 /\ pc' = [pc EXCEPT ![r] = "verticals"]
                 /\ held' = [held EXCEPT ![r] = [id |-> new, mode |-> mode]]
                 /\ UNCHANGED <<stopping, stops, raced>>
            ELSE /\ cycles' = Recovered
                 /\ current' = NotSet
                 /\ lock' = IF current = NotSet THEN lock ELSE NotSet
                 /\ Leave(r)
       ELSE /\ UNCHANGED <<cycles, current, lock>>
            /\ Leave(r)
    /\ UNCHANGED <<running, mode, due>>

\* The worker's loop (which looks at running itself before it calls run_cycle).
WorkerBegin == pc[Worker] = "idle" /\ running /\ Begin(Worker, FALSE)

\* The tool autopilot_run_cycle, which holds the event loop from here to its end.
ToolBegin(force) == LoopFree /\ Begin(Loop, force)

JobBegin(j) == pc[j] = "queued" /\ Begin(j, TRUE)

\* set_cycle_verticals raises when the cycle is not running any more.
SetVerticals(r) ==
    /\ pc[r] = "verticals"
    /\ Goto(r, IF IsRunning(held[r].id) THEN "work" ELSE "failing")
    /\ UNCHANGED <<state, cycles>>

\* Discovery (none of it touches this state) and then _process_send_requests, in the mode
\* the cycle began in.
EnterSending(r) ==
    /\ pc[r] = "work"
    /\ Goto(r, IF held[r].mode = "safe" \/ ~NonSafeAllowed THEN "complete" ELSE "sending")
    /\ UNCHANGED <<state, cycles>>

SendingEnds(r) ==
    /\ pc[r] = "sending"
    /\ Goto(r, "complete")
    /\ UNCHANGED <<state, cycles>>

\* Any exception of the cycle's work.
WorkRaises(r) ==
    /\ pc[r] \in {"work", "sending"}
    /\ Goto(r, "failing")
    /\ UNCHANGED <<state, cycles>>

\* Mutant of Complete: a status the table does not know.
CompleteAsError(r) ==
    /\ pc[r] \in {"complete", "failing"}
    /\ IsRunning(held[r].id)
    /\ cycles' = Settled(held[r].id, IF pc[r] = "complete" THEN "completed" ELSE "error")
    /\ current' = NotSet
    /\ lock' = NotSet
    /\ due' = IF running THEN Interval ELSE NotSet
    /\ Leave(r)
    /\ UNCHANGED <<running, mode>>

\* complete_autopilot_cycle: demands that the cycle still runs, and then clears the state
\* whichever cycle is current.  Called inside the try block it is called once more by the
\* handler when it raises.
Complete(r) ==
    /\ pc[r] \in {"complete", "failing"}
    /\ \/ /\ IsRunning(held[r].id)
          /\ cycles' = Settled(held[r].id, IF pc[r] = "complete" THEN "completed" ELSE "failed")
          /\ current' = NotSet
          /\ lock' = NotSet
          /\ due' = IF running THEN Interval ELSE NotSet
          /\ Leave(r)
       \/ /\ ~IsRunning(held[r].id)
          /\ IF pc[r] = "complete" THEN Goto(r, "failing") ELSE Leave(r)
          /\ UNCHANGED <<cycles, current, lock, due>>
    /\ UNCHANGED <<running, mode>>

\* The process dies; the event loop takes a stop in progress with it.
Crash(r) ==
    /\ pc[r] # "idle" \/ (r = Loop /\ stopping.busy)
    /\ pc' = [pc EXCEPT ![r] = "idle"]
    /\ held' = [held EXCEPT ![r] = NoCycle]
    /\ stopping' = IF r = Loop THEN NoStop ELSE stopping
    /\ UNCHANGED <<state, cycles, stops, raced>>

-----------------------------------------------------------------------------
RunnerStep(r) ==
    \/ SetVerticals(r) \/ EnterSending(r) \/ SendingEnds(r) \/ WorkRaises(r) \/ Complete(r)

Next ==
    \/ Tick
    \/ \E m \in Modes : Start(m)
    \/ StopRead \/ StopWrite \/ Reset
    \/ WorkerBegin
    \/ \E force \in BOOLEAN : ToolBegin(force)
    \/ \E j \in Jobs : QueueJob(j) \/ JobBegin(j)
    \/ \E r \in Runners : RunnerStep(r) \/ Crash(r)

Spec == Init /\ [][Next]_vars

(***************************************************************************)
(* Time passes, a stop that has begun writes, and the worker, which docker *)
(* restarts when it dies, keeps coming back to run_cycle.  A cycle's work  *)
(* ends or raises: every request it makes has a timeout.                   *)
(***************************************************************************)
Fairness ==
    /\ WF_vars(Tick) /\ WF_vars(StopWrite) /\ WF_vars(WorkerBegin)
    /\ \A r \in Runners : WF_vars(RunnerStep(r))

FairSpec == Spec /\ Fairness

-----------------------------------------------------------------------------
(***************************************************************************)
(* Properties                                                              *)
(***************************************************************************)

\* The state row never names a cycle that has ended, and holds a lock exactly while it
\* names one: a lock without a cycle would block every cycle for two hours, a cycle
\* without a lock would be recovered under its runner (crm.py begin, complete, stop).
LockNamesARunningCycle ==
    /\ current # NotSet => IsRunning(current)
    /\ (lock = NotSet) <=> (current = NotSet)

\* Unless a stop raced with a cycle that was just beginning, at most one cycle is running
\* and it is the one whose lock a completion, a stop or the recovery releases.
OneRunningCycle ==
    ~raced => \A c \in DOMAIN cycles : IsRunning(c) => c = current

\* A cycle that has ended stays as it ended: the runner it was taken from when its lock
\* expired or the operator stopped it can neither complete it nor fail it again.
SettledCyclesStay ==
    [][\A c \in DOMAIN cycles : cycles[c].status # "running" =>
           cycles'[c].status \in {cycles[c].status, "deleted"}]_vars

\* "Autopilot ... recovers expired cycle locks instead of leaving a cycle running"
\* (README.md), while it is on and no stop has raced with a beginning cycle.
CyclesEnd ==
    \A c \in CycleIds : IsRunning(c) /\ running /\ ~raced ~> ~IsRunning(c) \/ ~running \/ raced

\* The same sentence for the safety half: a cycle that is still marked running can be
\* ended by its runner, or recovered because the state row names it.
EveryRunningCycleIsRecoverable ==
    \A c \in DOMAIN cycles :
        IsRunning(c) => c = current \/ \E r \in Runners : held[r].id = c

\* "SAFE mode never processes that queue" (README.md): no runner turns to the send
\* requests while the mode of Autopilot is SAFE.
SafeModeNeverSends ==
    [][\A r \in Runners : pc[r] # "sending" /\ pc'[r] = "sending" => mode # "safe"]_vars

=============================================================================
