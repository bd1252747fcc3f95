------------------------- MODULE AutopilotCycleProofs -------------------------
(***************************************************************************)
(* What TLAPS proves of AutopilotCycle, for any jobs, any length of the    *)
(* lock and the interval, and any number of cycles, stops and crashes:     *)
(* the lock names a running cycle, a settled cycle is settled for good,    *)
(* and at most one cycle runs, in one runner, while no stop has raced.     *)
(***************************************************************************)
EXTENDS AutopilotCycle, TLAPS

Row == [mode : Modes, status : CycleStatuses]
CycleRows == Seq(Row)

\* Where the cycles go in every step of the operator and of a runner: rows are only added
\* at the end, and a row that is not running is only ever deleted.
Grows ==
    /\ cycles' \in CycleRows
    /\ DOMAIN cycles \subseteq DOMAIN cycles'
    /\ \A c \in DOMAIN cycles : cycles[c].status # "running" =>
           cycles'[c].status \in {cycles[c].status, "deleted"}

\* The conditional UPDATE keeps every row but the one it names, and that one only when it
\* is running.
LEMMA SettledRows ==
  ASSUME NEW c, NEW s \in CycleStatuses, cycles \in CycleRows
  PROVE  /\ Settled(c, s) \in CycleRows
         /\ Len(Settled(c, s)) = Len(cycles)
         /\ DOMAIN Settled(c, s) = DOMAIN cycles
         /\ \A d \in DOMAIN cycles :
              /\ d # c => Settled(c, s)[d] = cycles[d]
              /\ cycles[d].status # "running" => Settled(c, s)[d] = cycles[d]
              /\ d = c /\ cycles[d].status = "running" => Settled(c, s)[d].status = s
  <1>1. CASE IsRunning(c)
    <2>1. c \in DOMAIN cycles /\ cycles[c] \in Row
      BY <1>1 DEF IsRunning, CycleRows
    <2>2. [cycles[c] EXCEPT !.status = s] \in Row
      BY <2>1 DEF Row
    <2>3. Settled(c, s) = [cycles EXCEPT ![c] = [cycles[c] EXCEPT !.status = s]]
      BY <1>1 DEF Settled
    <2>4. [cycles[c] EXCEPT !.status = s].status = s
      BY <2>1 DEF Row
    <2> QED
      BY <1>1, <2>1, <2>2, <2>3, <2>4 DEF IsRunning, CycleRows
  <1>2. CASE ~IsRunning(c)
    BY <1>2 DEF Settled, IsRunning, CycleRows
  <1> QED
    BY <1>1, <1>2

LEMMA RecoveredRows ==
  ASSUME cycles \in CycleRows
  PROVE  /\ Recovered \in CycleRows
         /\ Len(Recovered) = Len(cycles)
         /\ DOMAIN Recovered = DOMAIN cycles
         /\ \A d \in DOMAIN cycles :
              /\ d # current => Recovered[d] = cycles[d]
              /\ cycles[d].status # "running" => Recovered[d] = cycles[d]
              /\ d = current /\ current # NotSet => Recovered[d].status # "running"
  <1>1. "failed" \in CycleStatuses
    BY DEF CycleStatuses
  <1>2. CASE current = NotSet
    BY <1>2 DEF Recovered, CycleRows
  <1>3. CASE current # NotSet
    BY <1>1, <1>3, SettledRows DEF Recovered
  <1> QED
    BY <1>2, <1>3

\* What the steps that touch the cycles leave of them, one action after the other.
LEMMA StopRows ==
  ASSUME TypeOK, StopWrite
  PROVE  /\ Grows /\ Len(cycles') = Len(cycles) /\ DOMAIN cycles' = DOMAIN cycles
         /\ \A d \in DOMAIN cycles :
              cycles'[d].status = "running" => cycles[d].status = "running" /\ d # stopping.saw
  <1>1. cycles' = Settled(stopping.saw, "failed") /\ "failed" \in CycleStatuses
    BY DEF StopWrite, CycleStatuses
  <1>2. cycles \in CycleRows
    BY DEF TypeOK, Row, CycleRows
  <1> QED
    BY <1>1, <1>2, SettledRows DEF Grows

LEMMA ResetRows ==
  ASSUME TypeOK, Reset
  PROVE  /\ Grows /\ Len(cycles') = Len(cycles)
         /\ DOMAIN cycles' = DOMAIN cycles
         /\ \A d \in DOMAIN cycles' : cycles'[d].status = "deleted"
  <1>1. cycles \in CycleRows
    BY DEF TypeOK, Row, CycleRows
  <1>2. cycles' = [c \in 1 .. Len(cycles) |-> [cycles[c] EXCEPT !.status = "deleted"]]
    BY <1>1 DEF Reset, CycleRows
  <1>3. ASSUME NEW c \in 1 .. Len(cycles)
        PROVE  /\ [cycles[c] EXCEPT !.status = "deleted"] \in Row
               /\ [cycles[c] EXCEPT !.status = "deleted"].status = "deleted"
    <2>1. cycles[c] \in Row
      BY <1>1, <1>3 DEF CycleRows
    <2> QED
      BY <2>1 DEF Row, CycleStatuses
  <1>4. Len(cycles) \in Nat /\ DOMAIN cycles = 1 .. Len(cycles)
    BY <1>1 DEF CycleRows
  <1>5. cycles' \in CycleRows /\ Len(cycles') = Len(cycles) /\ DOMAIN cycles' = 1 .. Len(cycles)
    BY <1>2, <1>3, <1>4 DEF CycleRows
  <1>6. \A d \in DOMAIN cycles' : cycles'[d].status = "deleted"
    BY <1>2, <1>3, <1>5
  <1> QED
    BY <1>4, <1>5, <1>6 DEF Grows

\* begin_autopilot_cycle: nothing happens, an expired cycle is recovered, or a new one is
\* appended as well.
Began(r) ==
    LET new == Len(cycles) + 1 IN
    /\ lock \in {NotSet, 0}
    /\ new \in CycleIds /\ Len(cycles') = new
    /\ DOMAIN cycles' = DOMAIN cycles \cup {new} /\ new \notin DOMAIN cycles
    /\ cycles'[new].status = "running"
    /\ current' = new /\ lock' = LockTicks
    /\ pc' = [pc EXCEPT ![r] = "verticals"]
    /\ \E m \in Modes : held' = [held EXCEPT ![r] = [id |-> new, mode |-> m]]
    /\ UNCHANGED <<stopping, stops, raced>>

OnlyRecovered(r) ==
    /\ Len(cycles') = Len(cycles) /\ DOMAIN cycles' = DOMAIN cycles
    /\ current' = NotSet
    /\ lock' = IF current = NotSet THEN lock ELSE NotSet
    /\ Leave(r)

LEMMA BeginRows ==
  ASSUME TypeOK, NEW r \in Runners, NEW force \in BOOLEAN, Begin(r, force)
  PROVE  /\ Grows
         /\ UNCHANGED <<running, mode, due>>
         /\ \/ /\ Began(r) \/ OnlyRecovered(r)
               /\ \A d \in DOMAIN cycles :
                    cycles'[d].status = "running" => cycles[d].status = "running" /\ d # current
            \/ UNCHANGED <<cycles, current, lock>> /\ Leave(r)
  <1> DEFINE new == Len(cycles) + 1
             row == [mode |-> mode, status |-> "running"]
  <1>1. cycles \in CycleRows /\ MaxCycles \in Nat /\ mode \in Modes
    BY CycleAssumption DEF TypeOK, Row, CycleRows
  <1>2. Len(cycles) \in Nat /\ DOMAIN cycles = 1 .. Len(cycles)
    BY <1>1 DEF CycleRows
  <1>3. row \in Row /\ row.status = "running"
    BY <1>1 DEF Row, CycleStatuses
  <1>4. UNCHANGED <<running, mode, due>>
    BY DEF Begin
  <1>5. CASE LockFree /\ Len(cycles) < MaxCycles /\ cycles' = Append(Recovered, row)
             /\ current' = new /\ lock' = LockTicks
             /\ pc' = [pc EXCEPT ![r] = "verticals"]
             /\ held' = [held EXCEPT ![r] = [id |-> new, mode |-> mode]]
             /\ UNCHANGED <<stopping, stops, raced>>
    <2> HIDE DEF row
    <2>1. /\ cycles' \in CycleRows /\ Len(cycles') = new
          /\ DOMAIN cycles' = 1 .. new
          /\ cycles'[new] = row
          /\ \A d \in DOMAIN cycles : cycles'[d] = Recovered[d]
      BY <1>1, <1>2, <1>3, <1>5, RecoveredRows DEF CycleRows
    <2>2. new \in CycleIds
      BY <1>1, <1>2, <1>5 DEF CycleIds
    <2>3. DOMAIN cycles' = DOMAIN cycles \cup {new} /\ new \notin DOMAIN cycles
      BY <1>2, <2>1
    <2>4. Grows
      BY <1>1, <2>1, <2>3, RecoveredRows DEF Grows
    <2>5. \A d \in DOMAIN cycles :
             cycles'[d].status = "running" => cycles[d].status = "running" /\ d # current
      <3>1. \A d \in DOMAIN cycles : d # NotSet
        BY <1>2, CycleAssumption
      <3> QED
        BY <1>1, <2>1, <3>1, RecoveredRows
    <2>6. \E m \in Modes : held' = [held EXCEPT ![r] = [id |-> new, mode |-> m]]
      BY <1>1, <1>5
    <2>7. lock \in {NotSet, 0} /\ cycles'[new].status = "running"
      BY <1>3, <1>5, <2>1 DEF LockFree
    <2> QED
      BY <1>4, <1>5, <2>1, <2>2, <2>3, <2>4, <2>5, <2>6, <2>7 DEF Began
  <1>6. CASE cycles' = Recovered /\ current' = NotSet
             /\ lock' = (IF current = NotSet THEN lock ELSE NotSet) /\ Leave(r)
    <2>1. \A d \in DOMAIN cycles : d # NotSet
      BY <1>2, CycleAssumption
    <2>2. Grows /\ Len(cycles') = Len(cycles) /\ DOMAIN cycles' = DOMAIN cycles
      BY <1>1, <1>6, RecoveredRows DEF Grows
    <2>3. \A d \in DOMAIN cycles :
             cycles'[d].status = "running" => cycles[d].status = "running" /\ d # current
      BY <1>1, <1>6, <2>1, RecoveredRows
    <2> QED
      BY <1>4, <1>6, <2>2, <2>3 DEF OnlyRecovered
  <1>7. CASE UNCHANGED <<cycles, current, lock>> /\ Leave(r)
    BY <1>1, <1>4, <1>7 DEF Grows
  <1> QED
    BY <1>5, <1>6, <1>7 DEF Begin

\* complete_autopilot_cycle: it settles the cycle of the runner and clears the state, or
\* finds it settled and leaves everything.
LEMMA CompleteRows ==
  ASSUME TypeOK, NEW r \in Runners, Complete(r)
  PROVE  /\ Grows /\ Len(cycles') = Len(cycles) /\ DOMAIN cycles' = DOMAIN cycles
         /\ \/ /\ IsRunning(held[r].id) /\ current' = NotSet /\ lock' = NotSet
               /\ \A d \in DOMAIN cycles :
                    cycles'[d].status = "running" => cycles[d].status = "running" /\ d # held[r].id
            \/ UNCHANGED <<cycles, current, lock>>
  <1>1. cycles \in CycleRows
    BY DEF TypeOK, Row, CycleRows
  <1>2. CASE IsRunning(held[r].id) /\ current' = NotSet /\ lock' = NotSet
             /\ cycles' = Settled(held[r].id, IF pc[r] = "complete" THEN "completed" ELSE "failed")
    <2>1. PICK s \in CycleStatuses : s # "running" /\ cycles' = Settled(held[r].id, s)
      BY <1>2 DEF CycleStatuses
    <2> QED
      BY <1>1, <1>2, <2>1, SettledRows DEF Grows
  <1>3. CASE UNCHANGED <<cycles, current, lock>>
    BY <1>1, <1>3 DEF Grows
  <1> QED
    BY <1>2, <1>3 DEF Complete

-----------------------------------------------------------------------------
(***************************************************************************)
(* Types                                                                   *)
(***************************************************************************)

\* The variables of the state row and the threads, apart from the cycles.
RestTypes ==
    /\ running \in BOOLEAN
    /\ mode \in Modes
    /\ lock \in (0 .. LockTicks) \cup {NotSet}
    /\ current \in CycleIds \cup {NotSet}
    /\ due \in (0 .. Interval) \cup {NotSet}
    /\ pc \in [Runners -> Labels]
    /\ held \in [Runners -> [id : CycleIds \cup {NotSet}, mode : Modes]]
    /\ stopping \in [busy : BOOLEAN, saw : CycleIds \cup {NotSet}]
    /\ stops \in 0 .. MaxStops
    /\ raced \in BOOLEAN

LEMMA TypesCompose ==
  ASSUME RestTypes', cycles' \in CycleRows, Len(cycles') <= MaxCycles
  PROVE  TypeOK'
  BY DEF RestTypes, TypeOK, CycleRows, Row

LEMMA LeaveTypes ==
  ASSUME TypeOK, NEW r \in Runners, Leave(r)
  PROVE  /\ pc' \in [Runners -> Labels]
         /\ held' \in [Runners -> [id : CycleIds \cup {NotSet}, mode : Modes]]
         /\ UNCHANGED <<stopping, stops, raced>>
  <1>1. NoCycle \in [id : CycleIds \cup {NotSet}, mode : Modes] /\ "idle" \in Labels
    BY DEF NoCycle, Modes, Labels
  <1> QED
    BY <1>1 DEF Leave, TypeOK

LEMMA InitTypes == Init => TypeOK
  <1> SUFFICES ASSUME Init
               PROVE  TypeOK
    OBVIOUS
  <1>1. cycles \in Seq([mode : Modes, status : CycleStatuses]) /\ Len(cycles) <= MaxCycles
    BY CycleAssumption DEF Init
  <1>2. /\ NoCycle \in [id : CycleIds \cup {NotSet}, mode : Modes]
        /\ NoStop \in [busy : BOOLEAN, saw : CycleIds \cup {NotSet}]
    BY DEF NoCycle, NoStop, Modes
  <1>3. /\ pc \in [Runners -> Labels]
        /\ held \in [Runners -> [id : CycleIds \cup {NotSet}, mode : Modes]]
        /\ stopping \in [busy : BOOLEAN, saw : CycleIds \cup {NotSet}]
    <2>1. "idle" \in Labels
      BY DEF Labels
    <2> HIDE DEF NoCycle, NoStop
    <2> QED
      BY <1>2, <2>1 DEF Init
  <1>4. stops \in 0 .. MaxStops
    BY CycleAssumption DEF Init
  <1> QED
    BY <1>1, <1>3, <1>4 DEF Init, TypeOK, Modes

LEMMA NextTypes == TypeOK /\ [Next]_vars => TypeOK'
  <1> SUFFICES ASSUME TypeOK, [Next]_vars
               PROVE  TypeOK'
    OBVIOUS
  <1>0. /\ RestTypes /\ cycles \in CycleRows /\ Len(cycles) <= MaxCycles
        /\ MaxCycles \in Nat /\ MaxStops \in Nat /\ LockTicks \in Nat \ {0}
        /\ Interval \in Nat \ {0}
    BY CycleAssumption DEF TypeOK, RestTypes, CycleRows, Row
  <1>1. CASE Tick
    <2>1. lock' \in (0 .. LockTicks) \cup {NotSet}
      BY <1>0, <1>1 DEF Tick, RestTypes
    <2>2. due' \in (0 .. Interval) \cup {NotSet}
      BY <1>0, <1>1 DEF Tick, RestTypes
    <2>3. RestTypes'
      BY <1>0, <1>1, <2>1, <2>2 DEF Tick, RestTypes
    <2> QED
      BY <1>0, <1>1, <2>3, TypesCompose DEF Tick
  <1>2. ASSUME NEW m \in Modes, Start(m)
        PROVE  TypeOK'
    BY <1>0, <1>2, TypesCompose DEF Start, RestTypes
  <1>3. CASE StopRead
    <2>1. stopping' \in [busy : BOOLEAN, saw : CycleIds \cup {NotSet}]
      BY <1>0, <1>3 DEF StopRead, RestTypes
    <2>2. stops' \in 0 .. MaxStops
      BY <1>0, <1>3 DEF StopRead, RestTypes
    <2> QED
      BY <1>0, <1>3, <2>1, <2>2, TypesCompose DEF StopRead, state, RestTypes
  <1>4. CASE StopWrite
    <2>1. stopping' \in [busy : BOOLEAN, saw : CycleIds \cup {NotSet}] /\ raced' \in BOOLEAN
      BY <1>0, <1>4 DEF StopWrite, NoStop, RestTypes
    <2>2. RestTypes'
      BY <1>0, <1>4, <2>1 DEF StopWrite, RestTypes
    <2> QED
      BY <1>0, <1>4, <2>2, StopRows, TypesCompose DEF Grows
  <1>5. CASE Reset
    <2>1. RestTypes'
      BY <1>0, <1>5 DEF Reset, RestTypes
    <2> QED
      BY <1>0, <1>5, <2>1, ResetRows, TypesCompose DEF Grows
  <1>6. ASSUME NEW r \in Runners, NEW force \in BOOLEAN, Begin(r, force)
        PROVE  TypeOK'
    <2>1. Grows /\ UNCHANGED <<running, mode, due>>
      BY <1>6, BeginRows
    <2>2. CASE Began(r)
      <3>1. PICK m \in Modes : held' = [held EXCEPT ![r] = [id |-> Len(cycles) + 1, mode |-> m]]
        BY <2>2 DEF Began
      <3>2. held' \in [Runners -> [id : CycleIds \cup {NotSet}, mode : Modes]]
        BY <1>0, <2>2, <3>1 DEF Began, RestTypes
      <3>3. pc' \in [Runners -> Labels]
        BY <1>0, <2>2 DEF Began, RestTypes, Labels
      <3>4. Len(cycles') <= MaxCycles /\ RestTypes'
        BY <1>0, <2>1, <2>2, <3>2, <3>3 DEF Began, RestTypes, CycleIds
      <3> QED
        BY <2>1, <3>4, TypesCompose DEF Grows
    <2>3. CASE OnlyRecovered(r)
      BY <1>0, <2>1, <2>3, LeaveTypes, TypesCompose DEF OnlyRecovered, Grows, RestTypes
    <2>4. CASE UNCHANGED <<cycles, current, lock>> /\ Leave(r)
      BY <1>0, <2>1, <2>4, LeaveTypes, TypesCompose DEF RestTypes
    <2> QED
      BY <1>6, <2>2, <2>3, <2>4, BeginRows
  <1>7. ASSUME NEW j \in Jobs, QueueJob(j)
        PROVE  TypeOK'
    <2>1. pc' \in [Runners -> Labels]
      BY <1>0, <1>7 DEF QueueJob, Goto, RestTypes, Labels, Runners
    <2> QED
      BY <1>0, <1>7, <2>1, TypesCompose DEF QueueJob, Goto, state, RestTypes
  <1>8. ASSUME NEW r \in Runners,
               SetVerticals(r) \/ EnterSending(r) \/ SendingEnds(r) \/ WorkRaises(r)
        PROVE  TypeOK'
    <2>1. PICK label \in Labels : Goto(r, label)
      BY <1>8 DEF SetVerticals, EnterSending, SendingEnds, WorkRaises, Labels
    <2>2. UNCHANGED <<state, cycles>>
      BY <1>8 DEF SetVerticals, EnterSending, SendingEnds, WorkRaises
    <2> QED
      BY <1>0, <2>1, <2>2, TypesCompose DEF Goto, state, RestTypes
  <1>9. ASSUME NEW r \in Runners, Complete(r)
        PROVE  TypeOK'
    <2>1. /\ pc' \in [Runners -> Labels]
          /\ held' \in [Runners -> [id : CycleIds \cup {NotSet}, mode : Modes]]
          /\ UNCHANGED <<stopping, stops, raced>>
      BY <1>0, <1>9, LeaveTypes DEF Complete, Goto, RestTypes, Labels
    <2>2. UNCHANGED <<running, mode>> /\ due' \in {due, Interval, NotSet}
      BY <1>9 DEF Complete
    <2>3. Grows /\ Len(cycles') = Len(cycles) /\ current' \in {current, NotSet} /\ lock' \in {lock, NotSet}
      BY <1>9, CompleteRows
    <2> QED
      BY <1>0, <2>1, <2>2, <2>3, TypesCompose DEF Grows, RestTypes
  <1>10. ASSUME NEW r \in Runners, Crash(r)
         PROVE  TypeOK'
    <2>1. NoCycle \in [id : CycleIds \cup {NotSet}, mode : Modes] /\ "idle" \in Labels
      BY DEF NoCycle, Modes, Labels
    <2>2. NoStop \in [busy : BOOLEAN, saw : CycleIds \cup {NotSet}]
      BY DEF NoStop
    <2> QED
      BY <1>0, <1>10, <2>1, <2>2, TypesCompose DEF Crash, state, RestTypes
  <1>11. CASE UNCHANGED vars
    BY <1>0, <1>11, TypesCompose DEF vars, state, RestTypes
  <1> QED
    BY <1>1, <1>2, <1>3, <1>4, <1>5, <1>6, <1>7, <1>8, <1>9, <1>10, <1>11
       DEF Next, RunnerStep, WorkerBegin, ToolBegin, JobBegin, Runners

\* TypeOK of the run, for any jobs and any bounds.
THEOREM CycleTypes == Spec => []TypeOK
  BY InitTypes, NextTypes, PTL DEF Spec

-----------------------------------------------------------------------------
(***************************************************************************)
(* A settled cycle is settled for good                                     *)
(***************************************************************************)

LEMMA NextGrows == TypeOK /\ [Next]_vars => Grows
  <1> SUFFICES ASSUME TypeOK, [Next]_vars
               PROVE  Grows
    OBVIOUS
  <1>1. cycles \in CycleRows
    BY DEF TypeOK, CycleRows, Row
  <1>2. CASE StopWrite \/ Reset
    BY <1>2, StopRows, ResetRows
  <1>3. CASE \E r \in Runners, force \in BOOLEAN : Begin(r, force)
    BY <1>3, BeginRows
  <1>4. CASE \E r \in Runners : Complete(r)
    BY <1>4, CompleteRows
  <1>5. CASE UNCHANGED cycles
    BY <1>1, <1>5 DEF Grows
  <1> QED
    BY <1>2, <1>3, <1>4, <1>5
       DEF Next, RunnerStep, WorkerBegin, ToolBegin, JobBegin, Runners, Tick, Start, StopRead,
           QueueJob, SetVerticals, EnterSending, SendingEnds, WorkRaises, Crash, vars

\* SettledCyclesStay: a runner whose cycle was taken from it never changes how it ended.
THEOREM SettledForGood == Spec => SettledCyclesStay
  <1> DEFINE Stays == \A c \in DOMAIN cycles : cycles[c].status # "running" =>
                          cycles'[c].status \in {cycles[c].status, "deleted"}
  <1>1. TypeOK /\ [Next]_vars => [Stays]_vars
    BY NextGrows DEF Grows
  <1> QED
    BY <1>1, CycleTypes, PTL DEF Spec, SettledCyclesStay

-----------------------------------------------------------------------------
(***************************************************************************)
(* The lock and the cycle it names                                         *)
(*                                                                         *)
(* Every step that writes the cycles also writes the state row in the same *)
(* transaction; LockInv is inductive because each of them clears current   *)
(* or sets it to the row it has just inserted.                             *)
(***************************************************************************)
LockInv == LockNamesARunningCycle /\ OneRunningCycle

LEMMA InitLock == Init => LockInv
  BY DEF Init, LockInv, LockNamesARunningCycle, OneRunningCycle, IsRunning

\* A step that clears the state row, and leaves no cycle running unless a stop has raced.
LEMMA ClearedLock ==
  ASSUME current' = NotSet, lock' = NotSet,
         ~raced' => \A c \in DOMAIN cycles' : cycles'[c].status # "running"
  PROVE  LockInv'
  BY DEF LockInv, LockNamesARunningCycle, OneRunningCycle, IsRunning

\* A step that leaves the cycles and the current one, and neither takes nor drops the lock.
LEMMA SameLock ==
  ASSUME LockInv, UNCHANGED <<cycles, current, raced>>,
         (lock' = NotSet) <=> (lock = NotSet)
  PROVE  LockInv'
  BY DEF LockInv, LockNamesARunningCycle, OneRunningCycle, IsRunning

LEMMA NextLock == TypeOK /\ LockInv /\ [Next]_vars => LockInv'
  <1> SUFFICES ASSUME TypeOK, LockInv, [Next]_vars
               PROVE  LockInv'
    OBVIOUS
  <1>0. /\ current # NotSet => IsRunning(current)
        /\ (lock = NotSet) <=> (current = NotSet)
        /\ ~raced => \A c \in DOMAIN cycles : cycles[c].status = "running" => c = current
        /\ DOMAIN cycles \subseteq Nat /\ NotSet \notin Nat
    BY CycleAssumption
       DEF LockInv, LockNamesARunningCycle, OneRunningCycle, IsRunning, TypeOK
  <1>1. CASE Tick
    <2>1. (lock' = NotSet) <=> (lock = NotSet)
      BY <1>0, <1>1, CycleAssumption DEF Tick, TypeOK
    <2> QED
      BY <1>1, <2>1, SameLock DEF Tick
  <1>2. CASE StopWrite
    <2>1. current' = NotSet /\ lock' = NotSet
          /\ (~raced' => ~raced /\ current \in {stopping.saw, NotSet})
      BY <1>2 DEF StopWrite
    <2>2. ~raced' => \A c \in DOMAIN cycles' : cycles'[c].status # "running"
      BY <1>0, <1>2, <2>1, StopRows
    <2> QED
      BY <2>1, <2>2, ClearedLock
  <1>3. CASE Reset
    <2>1. current' = NotSet /\ lock' = NotSet
      BY <1>3 DEF Reset
    <2>2. \A c \in DOMAIN cycles' : cycles'[c].status # "running"
      BY <1>3, ResetRows
    <2> QED
      BY <2>1, <2>2, ClearedLock
  <1>4. ASSUME NEW r \in Runners, NEW force \in BOOLEAN, Begin(r, force)
        PROVE  LockInv'
    <2>1. CASE /\ Began(r)
               /\ \A d \in DOMAIN cycles :
                    cycles'[d].status = "running" => cycles[d].status = "running" /\ d # current
      <3>1. IsRunning(current)' /\ current' # NotSet /\ lock' # NotSet
        BY <1>0, <2>1, CycleAssumption DEF Began, IsRunning, CycleIds
      <3>2. ~raced' => \A c \in DOMAIN cycles' : cycles'[c].status = "running" => c = current'
        BY <1>0, <2>1 DEF Began
      <3> QED
        BY <3>1, <3>2 DEF LockInv, LockNamesARunningCycle, OneRunningCycle, IsRunning
    <2>2. CASE /\ OnlyRecovered(r)
               /\ \A d \in DOMAIN cycles :
                    cycles'[d].status = "running" => cycles[d].status = "running" /\ d # current
      <3>1. current' = NotSet /\ lock' = NotSet /\ raced' = raced
        BY <1>0, <2>2 DEF OnlyRecovered, Leave
      <3>2. ~raced' => \A c \in DOMAIN cycles' : cycles'[c].status # "running"
        BY <1>0, <2>2, <3>1 DEF OnlyRecovered
      <3> QED
        BY <3>1, <3>2, ClearedLock
    <2>3. CASE UNCHANGED <<cycles, current, lock>> /\ Leave(r)
      BY <2>3, SameLock DEF Leave
    <2> QED
      BY <1>4, <2>1, <2>2, <2>3, BeginRows
  <1>5. ASSUME NEW r \in Runners, Complete(r)
        PROVE  LockInv'
    <2>1. raced' = raced
      BY <1>5 DEF Complete, Goto, Leave
    <2>2. CASE /\ IsRunning(held[r].id) /\ current' = NotSet /\ lock' = NotSet
               /\ \A d \in DOMAIN cycles :
                    cycles'[d].status = "running" => cycles[d].status = "running" /\ d # held[r].id
      <3>1. DOMAIN cycles' = DOMAIN cycles
        BY <1>5, CompleteRows
      <3>2. ~raced => held[r].id = current
        BY <1>0, <2>2 DEF IsRunning
      <3>3. ~raced' => \A c \in DOMAIN cycles' : cycles'[c].status # "running"
        BY <1>0, <2>1, <2>2, <3>1, <3>2
      <3> QED
        BY <2>2, <3>3, ClearedLock
    <2>3. CASE UNCHANGED <<cycles, current, lock>>
      BY <2>1, <2>3, SameLock
    <2> QED
      BY <1>5, <2>2, <2>3, CompleteRows
  <1>6. CASE UNCHANGED <<cycles, current, lock, raced>>
    BY <1>6, SameLock
  <1> QED
    BY <1>1, <1>2, <1>3, <1>4, <1>5, <1>6
       DEF Next, RunnerStep, WorkerBegin, ToolBegin, JobBegin, Runners, Start, StopRead,
           QueueJob, SetVerticals, EnterSending, SendingEnds, WorkRaises, Crash, Goto, vars, state

\* LockNamesARunningCycle of the run: the state row names a cycle that runs, exactly while
\* it holds a lock, also when a stop has raced with a beginning cycle.
THEOREM LockIsNamed == Spec => []LockNamesARunningCycle
  <1>1. LockInv => LockNamesARunningCycle
    BY DEF LockInv
  <1> QED
    BY <1>1, InitTypes, NextTypes, InitLock, NextLock, PTL DEF Spec

\* OneRunningCycle of the run: without such a race, one cycle runs at most and the state
\* row names it.
THEOREM CyclesApart == Spec => []OneRunningCycle
  <1>1. LockInv => OneRunningCycle
    BY DEF LockInv
  <1> QED
    BY <1>1, InitTypes, NextTypes, InitLock, NextLock, PTL DEF Spec
-----------------------------------------------------------------------------
(***************************************************************************)
(* One runner at work                                                      *)
(*                                                                         *)
(* The lock is not given to a thread and no thread looks at it again: a    *)
(* runner whose lock has expired goes on beside its successor.  What keeps *)
(* them apart is the row of the cycle, which a new cycle never shares.     *)
(***************************************************************************)

\* A runner that holds a cycle which still counts is the only one that does, unless a stop
\* has raced: a successor begins only with the recovery of the cycle before
\* (begin_autopilot_cycle).
OneRunnerAtWork ==
    ~raced => \A r, s \in Runners : IsRunning(held[r].id) /\ IsRunning(held[s].id) => r = s

\* A completion releases no lock but that of the runner's own cycle, unless a stop has raced
\* (complete_autopilot_cycle, which clears the state without looking whose it is).
OwnLockReleased ==
    [][\A r \in Runners :
         Complete(r) /\ ~raced /\ current # NotSet /\ current' # current => held[r].id = current]_vars

\* Nobody shares a cycle, whatever has become of it.
HeldInv ==
    /\ \A r \in Runners : held[r].id # NotSet => held[r].id \in DOMAIN cycles
    /\ \A r, s \in Runners : held[r].id = held[s].id /\ held[r].id # NotSet => r = s

\* The steps that begin no cycle: a runner keeps the one it holds, or lets it go.
LetsGo == \A r \in Runners : held'[r] = held[r] \/ held'[r].id = NotSet

LEMMA LeaveLetsGo ==
  ASSUME TypeOK, NEW r \in Runners, held' = [held EXCEPT ![r] = NoCycle]
  PROVE  LetsGo
  BY DEF TypeOK, LetsGo, NoCycle

LEMMA LetsGoKeeps ==
  ASSUME HeldInv, LetsGo, DOMAIN cycles \subseteq DOMAIN cycles'
  PROVE  HeldInv'
  BY DEF HeldInv, LetsGo

LEMMA BeganKeeps ==
  ASSUME TypeOK, HeldInv, NEW r \in Runners, Began(r)
  PROVE  HeldInv'
  <1> DEFINE new == Len(cycles) + 1
  <1>1. new \notin DOMAIN cycles /\ DOMAIN cycles' = DOMAIN cycles \cup {new}
    BY DEF Began
  <1>2. PICK m \in Modes : held' = [held EXCEPT ![r] = [id |-> new, mode |-> m]]
    BY DEF Began
  <1> HIDE DEF new
  <1>3. held'[r].id = new /\ \A s \in Runners \ {r} : held'[s] = held[s]
    BY <1>2 DEF TypeOK
  <1> QED
    BY <1>1, <1>3 DEF HeldInv

LEMMA NextHeld == TypeOK /\ HeldInv /\ [Next]_vars => HeldInv'
  <1> SUFFICES ASSUME TypeOK, HeldInv, [Next]_vars
               PROVE  HeldInv'
    OBVIOUS
  <1>0. DOMAIN cycles \subseteq DOMAIN cycles'
    BY NextGrows DEF Grows
  <1>1. ASSUME NEW r \in Runners, NEW force \in BOOLEAN, Begin(r, force)
        PROVE  HeldInv'
    <2>1. CASE Began(r)
      BY <2>1, BeganKeeps
    <2>2. CASE Leave(r)
      BY <1>0, <2>2, LeaveLetsGo, LetsGoKeeps DEF Leave
    <2> QED
      BY <1>1, <2>1, <2>2, BeginRows DEF OnlyRecovered
  <1>2. ASSUME NEW r \in Runners, Complete(r) \/ Crash(r)
        PROVE  HeldInv'
    <2>1. CASE held' = [held EXCEPT ![r] = NoCycle]
      BY <1>0, <2>1, LeaveLetsGo, LetsGoKeeps
    <2>2. CASE held' = held
      BY <1>0, <2>2, LetsGoKeeps DEF LetsGo
    <2> QED
      BY <1>2, <2>1, <2>2 DEF Complete, Crash, Goto, Leave
  <1>3. CASE held' = held
    BY <1>0, <1>3, LetsGoKeeps DEF LetsGo
  <1> QED
    BY <1>1, <1>2, <1>3
       DEF Next, RunnerStep, WorkerBegin, ToolBegin, JobBegin, Runners, Tick, Start, StopRead,
           StopWrite, Reset, QueueJob, SetVerticals, EnterSending, SendingEnds, WorkRaises, Goto, vars

LEMMA CyclesHeld == Spec => [](TypeOK /\ LockInv /\ HeldInv)
  <1>1. Init => HeldInv
    BY DEF Init, HeldInv, NoCycle
  <1> QED
    BY <1>1, InitTypes, NextTypes, InitLock, NextLock, NextHeld, PTL DEF Spec

\* Two runners are never both at work on a cycle that counts, for any number of jobs, lengths
\* of the lock and crashes, unless a stop has overlapped the beginning of a cycle.
THEOREM RunnersApart == Spec => []OneRunnerAtWork
  <1>1. TypeOK /\ LockInv /\ HeldInv => OneRunnerAtWork
    <2> SUFFICES ASSUME TypeOK, LockInv, HeldInv, ~raced, NEW r \in Runners, NEW s \in Runners,
                        IsRunning(held[r].id), IsRunning(held[s].id)
                 PROVE  r = s
      BY DEF OneRunnerAtWork
    <2>1. held[r].id = current /\ held[s].id = current
      BY DEF LockInv, OneRunningCycle, IsRunning
    <2>2. current # NotSet
      BY <2>1, CycleAssumption DEF IsRunning, TypeOK
    <2> QED
      BY <2>1, <2>2 DEF HeldInv
  <1> QED
    BY <1>1, CyclesHeld, PTL

\* A slow runner never releases the lock of its successor, unless a stop has raced.
THEOREM LocksReleasedByOwner == Spec => OwnLockReleased
  <1> DEFINE Own == \A r \in Runners :
               Complete(r) /\ ~raced /\ current # NotSet /\ current' # current => held[r].id = current
  <1>1. TypeOK /\ LockInv /\ [Next]_vars => [Own]_vars
    <2> SUFFICES ASSUME TypeOK, LockInv, NEW r \in Runners, Complete(r), ~raced, current' # current
                 PROVE  held[r].id = current
      OBVIOUS
    <2>1. IsRunning(held[r].id)
      BY CompleteRows
    <2> QED
      BY <2>1 DEF LockInv, OneRunningCycle, IsRunning
  <1> QED
    BY <1>1, CyclesHeld, PTL DEF Spec, OwnLockReleased
=============================================================================
