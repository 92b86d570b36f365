---------------------------- MODULE Core_proofs -----------------------------
(***************************************************************************)
(* Proofs about Core, for every clock, cycle time, capacity and bound.     *)
(***************************************************************************)
EXTENDS Core, SequenceTheorems, TLAPS

LEMMA StopsInNat == Stops \in Nat
  BY DEF Stops

LEMMA StopsAreCommands ==
  /\ [i \in 1 .. Stops |-> "STOP"] \in Seq(Command)
  /\ Len([i \in 1 .. Stops |-> "STOP"]) = Stops
  <1>1. [i \in 1 .. Stops |-> "STOP"] \in [1 .. Stops -> Command]
    BY DEF Command
  <1>. QED
    BY <1>1, StopsInNat, SeqDef

LEMMA RemoteCommandIsCommand == RemoteCommand \in Seq(Command)
  <1>1. /\ <<>> \in Seq(Command)
        /\ <<"START">> \in Seq(Command)
        /\ <<"STOP">> \in Seq(Command)
    BY DEF Command
  <1>. QED
    BY <1>1 DEF RemoteCommand

LEMMA SendKeepsType ==
  ASSUME TypeOK, NEW sent \in Seq(Command), send_modbus_command(sent)
  PROVE  /\ commands' \in Seq(Command) /\ Len(commands') <= CommandCapacity
         /\ hampered' \in BOOLEAN
  <1>1. /\ commands \in Seq(Command) /\ Len(commands) <= CommandCapacity
        /\ hampered \in BOOLEAN /\ CommandCapacity \in Nat
    BY CoreAssumption DEF TypeOK
  <1> HIDE DEF TypeOK
  <1>2. CASE Len(sent) <= CommandCapacity - Len(commands)
    <2>1. commands' = commands \o sent /\ hampered' = hampered
      BY <1>2 DEF send_modbus_command
    <2>2. Len(commands \o sent) = Len(commands) + Len(sent)
      BY <1>1
    <2>. QED
      BY <1>1, <1>2, <2>1, <2>2
  <1>3. CASE ~(Len(sent) <= CommandCapacity - Len(commands))
    <2>1. PICK room \in Nat : room = CommandCapacity - Len(commands)
      <3>1. Len(commands) \in Nat
        BY <1>1
      <3>2. CommandCapacity - Len(commands) \in Nat
        BY <1>1, <3>1
      <3>. QED
        BY <3>2
    <2>2. commands' = commands \o SubSeq(sent, 1, room) /\ hampered' = TRUE
      BY <1>3, <2>1 DEF send_modbus_command
    <2>3. room <= Len(sent)
      BY <1>1, <1>3, <2>1
    <2>4. SubSeq(sent, 1, room) \in Seq(Command) /\ Len(SubSeq(sent, 1, room)) = room
      BY <2>1, <2>3
    <2>. QED
      BY <1>1, <2>1, <2>2, <2>4
  <1>. QED
    BY <1>2, <1>3

LEMMA TypeCore == TypeOK /\ CoreTask => TypeOK'
  <1> SUFFICES ASSUME TypeOK, CoreTask PROVE TypeOK'
    OBVIOUS
  <1>1. CASE Evaluate
    <2>1. /\ commands' \in Seq(Command) /\ Len(commands') <= CommandCapacity
          /\ hampered' \in BOOLEAN
      BY <1>1, SendKeepsType, StopsAreCommands DEF Evaluate
    <2>2. Evaluated \in State
      BY DEF Evaluated, State
    <2>3. /\ gState' \in State
          /\ gRegenStartTime' \in 0 .. ClockSize - 1
          /\ gRegenStopping' \in BOOLEAN
          /\ pc' = "commands"
      BY <1>1, <2>2, CoreAssumption
      DEF Evaluate, TypeOK, StartTime, RegenStopping, Expired
    <2>4. cycles' \in Seq({"STARTED", "COMPLETED", "FAILED"})
      <3>1. CycleEvent \in {"STARTED", "COMPLETED", "FAILED", "NONE"}
        BY DEF CycleEvent
      <3>2. cycles \in Seq({"STARTED", "COMPLETED", "FAILED"})
        BY DEF TypeOK
      <3>3. cycles' = IF CycleEvent = "NONE" THEN cycles ELSE Append(cycles, CycleEvent)
        BY <1>1 DEF Evaluate
      <3>. QED
        BY <3>1, <3>2, <3>3, AppendProperties
    <2>5. alarm' \in {"NONE", "DATA_LOSS", "LOW_PRESSURE", "LOW_SALT"}
      <3>1. Evaluated = "FAULT" => sensors \in {"LOW_PRESSURE", "LOW_SALT"}
        <4>1. sensors \in {"ok", "LOW_PRESSURE", "LOW_SALT", "invalid"}
          BY DEF TypeOK
        <4>. QED
          BY <4>1 DEF Evaluated
      <3>2. alarm \in {"NONE", "DATA_LOSS", "LOW_PRESSURE", "LOW_SALT"}
        BY DEF TypeOK
      <3>3. FaultEvent \in {"NONE", "DATA_LOSS", "LOW_PRESSURE", "LOW_SALT"}
        BY <3>1, <3>2 DEF FaultEvent
      <3>. QED
        BY <1>1, <3>3 DEF Evaluate
    <2>6. evaluation' \in [fault : BOOLEAN, seen : BOOLEAN, stopped : BOOLEAN]
      <3>1. SystemFault \in BOOLEAN /\ IsRegenerating \in BOOLEAN
        BY DEF SystemFault, IsRegenerating
      <3>2. (Stops > 0 \/ (IsRegenerating /\ evaluation.stopped)) \in BOOLEAN
        OBVIOUS
      <3>. QED
        BY <1>1, <3>1, <3>2 DEF Evaluate
    <2>7. cycleTime' \in 0 .. MaxRegenTime
      BY <1>1, CoreAssumption DEF Evaluate, TypeOK
    <2>8. UNCHANGED <<now, pendingVars, storeVars, machineVars>>
      BY <1>1 DEF Evaluate
    <2>. QED
      BY <2>1, <2>3, <2>4, <2>5, <2>6, <2>7, <2>8
      DEF TypeOK, pendingVars, storeVars, machineVars
  <1>2. CASE ProcessCommands
    <2>1. /\ commands' \in Seq(Command) /\ Len(commands') <= CommandCapacity
          /\ hampered' \in BOOLEAN
      BY <1>2, SendKeepsType, RemoteCommandIsCommand DEF ProcessCommands
    <2>2. now' \in 0 .. ClockSize - 1 /\ cycleTime' \in 0 .. MaxRegenTime
      BY <1>2, CoreAssumption DEF ProcessCommands, TypeOK, Later
    <2>3. /\ pc' = "evaluate" /\ gRegenPending' = FALSE /\ gAbortPending' = FALSE
          /\ UNCHANGED <<gState, gRegenStartTime, gRegenStopping, cycles, alarm,
                         evaluation, requests, storeVars, machineVars>>
      BY <1>2 DEF ProcessCommands
    <2>4. /\ UNCHANGED <<gState, gRegenStartTime, gRegenStopping, cycles, alarm,
                         evaluation, requests>>
          /\ UNCHANGED <<sensors, regenerating, sensorChanges, running, manualStarts>>
      BY <2>3 DEF storeVars, machineVars
    <2>. QED
      BY <2>1, <2>2, <2>3, <2>4 DEF TypeOK
  <1>. QED
    BY <1>1, <1>2 DEF CoreTask

LEMMA TypeOthers ==
  ASSUME TypeOK,
         \/ core_request_regen \/ core_abort_regen \/ SensorsChange \/ StatusSampled
         \/ Deliver \/ LoseCommand \/ MachineStops \/ StartedAtPanel
  PROVE  TypeOK'
  <1> USE CoreAssumption DEF TypeOK, coreVars, pendingVars, storeVars, machineVars
  <1>1. CASE core_request_regen
    BY <1>1 DEF core_request_regen
  <1>2. CASE core_abort_regen
    BY <1>2 DEF core_abort_regen
  <1>3. CASE SensorsChange
    BY <1>3 DEF SensorsChange
  <1>4. CASE StatusSampled
    BY <1>4 DEF StatusSampled
  <1>5. CASE Deliver
    <2>1. Tail(commands) \in Seq(Command) /\ Len(Tail(commands)) <= CommandCapacity
      BY <1>5 DEF Deliver
    <2>. QED
      BY <1>5, <2>1 DEF Deliver
  <1>6. CASE LoseCommand
    <2>1. Tail(commands) \in Seq(Command) /\ Len(Tail(commands)) <= CommandCapacity
      BY <1>6 DEF LoseCommand
    <2>. QED
      BY <1>6, <2>1 DEF LoseCommand
  <1>7. CASE MachineStops
    <2>1. running' \in BOOLEAN
      BY <1>7 DEF MachineStops
    <2>2. UNCHANGED <<gState, gRegenPending, gAbortPending, gRegenStartTime,
                      gRegenStopping, pc, now, sensors, regenerating, commands>>
      BY <1>7 DEF MachineStops
    <2>3. UNCHANGED <<cycles, alarm, evaluation, cycleTime, requests, manualStarts,
                      sensorChanges, hampered>>
      BY <1>7 DEF MachineStops
    <2> HIDE DEF coreVars, pendingVars, storeVars, machineVars
    <2>. QED
      BY <2>1, <2>2, <2>3
  <1>8. CASE StartedAtPanel
    BY <1>8 DEF StartedAtPanel
  <1>. QED
    BY <1>1, <1>2, <1>3, <1>4, <1>5, <1>6, <1>7, <1>8

LEMMA TypeInvariant == TypeOK /\ [Next]_vars => TypeOK'
  <1>1. TypeOK /\ UNCHANGED vars => TypeOK'
    BY DEF TypeOK, vars, coreVars, pendingVars, storeVars, machineVars
  <1>. QED
    BY <1>1, TypeCore, TypeOthers DEF Next

\* core.cpp as a whole: no state, flag or queue leaves its range.
THEOREM CoreTypeCorrect == SafeSpec => []TypeOK
  <1>1. ASSUME Init PROVE TypeOK
    <2>1. commands \in Seq(Command) /\ Len(commands) = 0
      BY <1>1 DEF Init
    <2>2. cycles \in Seq({"STARTED", "COMPLETED", "FAILED"})
      BY <1>1 DEF Init
    <2>3. evaluation \in [fault : BOOLEAN, seen : BOOLEAN, stopped : BOOLEAN]
      BY <1>1 DEF Init
    <2>4. /\ gRegenStartTime \in 0 .. ClockSize - 1
          /\ cycleTime \in 0 .. MaxRegenTime
          /\ requests \in 0 .. MaxRequests
          /\ manualStarts \in 0 .. MaxRequests
          /\ sensorChanges \in 0 .. MaxSensorChanges
          /\ 0 <= CommandCapacity
      BY <1>1, CoreAssumption DEF Init
    <2>. QED
      BY <1>1, <2>1, <2>2, <2>3, <2>4 DEF Init, TypeOK, State
  <1>. QED
    BY <1>1, TypeInvariant, PTL DEF SafeSpec

----------------------------------------------------------------------------
(* The cycle timer *)

\* How the age the code computes relates to the true one.
TimerInv ==
  gState = "REGEN_RUNNING" =>
    /\ gRegenStopping => cycleTime = MaxRegenTime
    /\ ~gRegenStopping /\ cycleTime < MaxRegenTime =>
         Since(now, gRegenStartTime) = cycleTime
    /\ ~gRegenStopping /\ cycleTime = MaxRegenTime =>
         pc = "evaluate" /\ Since(now, gRegenStartTime) >= MaxRegenTime

\* The difference of two readings is right as long as it is below the clock's
\* size, whether or not the clock has wrapped in between.
LEMMA LaterSince ==
  ASSUME NEW time \in 0 .. ClockSize - 1, NEW start \in 0 .. ClockSize - 1,
         NEW turn \in Nat, Since(time, start) + turn < ClockSize
  PROVE  Since(Later(time, turn), start) = Since(time, start) + turn
  BY CoreAssumption DEF Since, Later

LEMMA TimerEvaluate == TypeOK /\ TimerInv /\ Evaluate => TimerInv'
  <1> SUFFICES ASSUME TypeOK, TimerInv, Evaluate, Evaluated = "REGEN_RUNNING"
               PROVE  TimerInv'
    BY DEF Evaluate, TimerInv
  <1>0. /\ gState' = "REGEN_RUNNING" /\ pc' = "commands" /\ now' = now
        /\ ~Leaving
        /\ gRegenStartTime' = StartTime
        /\ gRegenStopping' = RegenStopping
        /\ cycleTime' = IF Evaluated = gState THEN cycleTime ELSE 0
    BY DEF Evaluate, Leaving
  <1>1. CASE Entering
    <2>1. StartTime = now /\ now \in 0 .. ClockSize - 1
      BY <1>1 DEF StartTime, TypeOK
    <2>2. Since(now, now) = 0
      BY <2>1 DEF Since
    <2>3. ~Expired
      BY <2>1, <2>2, CoreAssumption DEF Expired
    <2>4. ~RegenStopping
      BY <1>1, <2>3 DEF RegenStopping
    <2>5. cycleTime' = 0
      BY <1>0, <1>1 DEF Entering
    <2>. QED
      BY <1>0, <2>1, <2>2, <2>4, <2>5, CoreAssumption DEF TimerInv
  <1>2. CASE ~Entering
    <2>1. gState = "REGEN_RUNNING" /\ StartTime = gRegenStartTime
          /\ cycleTime' = cycleTime
      BY <1>0, <1>2 DEF Entering, StartTime
    <2>2. Expired <=> Since(now, gRegenStartTime) >= MaxRegenTime
      BY <2>1 DEF Expired
    <2>3. RegenStopping <=> gRegenStopping \/ Expired
      BY <1>0, <1>2 DEF RegenStopping
    <2>4. cycleTime \in 0 .. MaxRegenTime /\ MaxRegenTime \in Nat
      BY CoreAssumption DEF TypeOK
    <2>5. CASE gRegenStopping
      <3>1. RegenStopping /\ cycleTime = MaxRegenTime
        BY <2>1, <2>3, <2>5 DEF TimerInv
      <3>. QED
        BY <1>0, <2>1, <3>1 DEF TimerInv
    <2>6. CASE ~gRegenStopping /\ cycleTime < MaxRegenTime
      <3>1. Since(now, gRegenStartTime) = cycleTime
        BY <2>1, <2>6 DEF TimerInv
      <3>2. ~RegenStopping
        BY <2>2, <2>3, <2>4, <2>6, <3>1
      <3>. QED
        BY <1>0, <2>1, <2>4, <2>6, <3>1, <3>2 DEF TimerInv
    <2>7. CASE ~gRegenStopping /\ cycleTime = MaxRegenTime
      <3>1. RegenStopping
        BY <2>1, <2>2, <2>3, <2>7 DEF TimerInv
      <3>. QED
        BY <1>0, <2>1, <2>7, <3>1 DEF TimerInv
    <2>. QED
      BY <2>4, <2>5, <2>6, <2>7
  <1>. QED
    BY <1>1, <1>2

LEMMA TimerProcess == TypeOK /\ TimerInv /\ ProcessCommands => TimerInv'
  <1> SUFFICES ASSUME TypeOK, TimerInv, ProcessCommands, gState = "REGEN_RUNNING"
               PROVE  TimerInv'
    BY DEF ProcessCommands, TimerInv
  <1>1. PICK turn \in 1 .. MaxTurn :
          /\ now' = Later(now, turn)
          /\ cycleTime' = IF cycleTime + turn < MaxRegenTime THEN cycleTime + turn
                          ELSE MaxRegenTime
    BY DEF ProcessCommands
  <1>2. /\ pc = "commands" /\ pc' = "evaluate"
        /\ UNCHANGED <<gState, gRegenStartTime, gRegenStopping>>
    BY DEF ProcessCommands
  <1>3. /\ now \in 0 .. ClockSize - 1 /\ gRegenStartTime \in 0 .. ClockSize - 1
        /\ cycleTime \in 0 .. MaxRegenTime
        /\ ClockSize \in Nat /\ MaxRegenTime \in Nat /\ MaxTurn \in Nat
        /\ MaxRegenTime + MaxTurn <= ClockSize
    BY CoreAssumption DEF TypeOK
  <1>4. CASE gRegenStopping
    <2>1. cycleTime = MaxRegenTime
      BY <1>4 DEF TimerInv
    <2>2. cycleTime' = MaxRegenTime
      BY <1>1, <1>3, <2>1
    <2>. QED
      BY <1>2, <1>4, <2>2 DEF TimerInv
  <1>5. CASE ~gRegenStopping
    <2>1. cycleTime < MaxRegenTime /\ Since(now, gRegenStartTime) = cycleTime
      BY <1>2, <1>3, <1>5 DEF TimerInv
    <2>2. turn \in Nat /\ cycleTime + turn < ClockSize
      BY <1>3, <2>1
    <2>3. Since(now', gRegenStartTime) = cycleTime + turn
      BY <1>1, <1>3, <2>1, <2>2, LaterSince
    <2>4. ~gRegenStopping' /\ gRegenStartTime' = gRegenStartTime
      BY <1>2, <1>5
    <2>5. CASE cycleTime + turn < MaxRegenTime
      <3>1. cycleTime' = cycleTime + turn /\ cycleTime' < MaxRegenTime
        BY <1>1, <2>5
      <3>2. Since(now', gRegenStartTime') = cycleTime'
        BY <2>3, <2>4, <3>1
      <3>. QED
        BY <1>3, <2>2, <2>4, <3>1, <3>2 DEF TimerInv
    <2>6. CASE ~(cycleTime + turn < MaxRegenTime)
      <3>1. cycleTime' = MaxRegenTime
        BY <1>1, <2>6
      <3>2. Since(now', gRegenStartTime') >= MaxRegenTime
        BY <1>3, <2>2, <2>3, <2>4, <2>6
      <3>. QED
        BY <1>2, <1>3, <2>4, <3>1, <3>2 DEF TimerInv
    <2>. QED
      BY <2>5, <2>6
  <1>. QED
    BY <1>4, <1>5

LEMMA TimerInvariant == TypeOK /\ TimerInv /\ [Next]_vars => TimerInv'
  <1>1. TimerInv /\ UNCHANGED coreVars => TimerInv'
    BY DEF TimerInv, coreVars
  <1>2. [Next]_vars => CoreTask \/ UNCHANGED coreVars
    BY DEF Next, vars, core_request_regen, core_abort_regen, SensorsChange,
           StatusSampled, Deliver, LoseCommand, MachineStops, StartedAtPanel
  <1>. QED
    BY <1>1, <1>2, TimerEvaluate, TimerProcess DEF CoreTask

\* core.cpp:199-204: the stop is sent exactly when the cycle is old enough,
\* whatever millis() was when the cycle began.
THEOREM TimerStopsExactly == SafeSpec => []TimerExact
  <1>1. Init => TimerInv
    BY DEF Init, TimerInv
  <1>2. TypeOK /\ TimerInv => TimerExact
    BY DEF TypeOK, TimerInv, TimerExact
  <1>. QED
    BY <1>1, <1>2, TimerInvariant, CoreTypeCorrect, PTL DEF SafeSpec

----------------------------------------------------------------------------
(* The refinement *)

LEMMA EvaluateKeepsPromise ==
  ASSUME TypeOK, Evaluate
  PROVE  \/ Promise!Begin \/ Promise!Complete \/ Promise!Fail \/ Promise!Move
         \/ UNCHANGED <<gState, cycles, alarm>>
  <1>1. /\ sensors \in {"ok", "LOW_PRESSURE", "LOW_SALT", "invalid"}
        /\ gState \in State /\ regenerating \in BOOLEAN
    BY DEF TypeOK
  <1>2. /\ gState' = Evaluated
        /\ cycles' = IF CycleEvent = "NONE" THEN cycles ELSE Append(cycles, CycleEvent)
        /\ alarm' = FaultEvent
    BY DEF Evaluate
  <1>3. /\ Evaluated \in State
        /\ Evaluated = "FAULT" => sensors \in {"LOW_PRESSURE", "LOW_SALT"}
    BY <1>1 DEF Evaluated, State
  <1>4. alarm' \in Promise!Alarm(Evaluated)
    BY <1>2, <1>3 DEF FaultEvent, Promise!Alarm
  <1>5. Promise!MoveTo(Evaluated)
    BY <1>2, <1>4 DEF Promise!MoveTo
  <1> HIDE DEF Promise!MoveTo
  <1>6. CASE Entering
    <2>1. cycles' = Append(cycles, "STARTED")
      BY <1>2, <1>6 DEF CycleEvent, Entering, Leaving
    <2>. QED
      BY <1>5, <1>6, <2>1 DEF Entering, Promise!Begin
  <1>7. CASE Leaving /\ SystemFault
    <2>1. cycles' = Append(cycles, "FAILED")
      BY <1>2, <1>7 DEF CycleEvent, Entering, Leaving
    <2>. QED
      BY <1>5, <1>7, <2>1 DEF Leaving, SystemFault, Promise!Fail
  <1>8. CASE Leaving /\ ~SystemFault
    <2>1. cycles' = Append(cycles, "COMPLETED")
      BY <1>2, <1>8 DEF CycleEvent, Entering, Leaving
    <2>2. Evaluated = "MONITORING"
      BY <1>3, <1>8 DEF Leaving, SystemFault, State
    <2>. QED
      BY <1>5, <1>8, <2>1, <2>2 DEF Leaving, Promise!Complete
  <1>9. CASE ~Entering /\ ~Leaving
    <2>1. cycles' = cycles
      BY <1>2, <1>9 DEF CycleEvent
    <2>2. CASE gState = "REGEN_RUNNING"
      <3>1. Evaluated = gState
        BY <1>9, <2>2 DEF Leaving
      <3>2. alarm' = alarm
        BY <1>2, <2>2, <3>1 DEF FaultEvent
      <3>. QED
        BY <1>2, <2>1, <3>1, <3>2
    <2>3. CASE gState # "REGEN_RUNNING"
      <3>1. Evaluated \in {"IDLE", "MONITORING", "FAULT"}
        BY <1>3, <1>9, <2>3 DEF Entering, State
      <3>. QED
        BY <1>5, <2>1, <2>3, <3>1 DEF Promise!Move
    <2>. QED
      BY <2>2, <2>3
  <1>. QED
    BY <1>6, <1>7, <1>8, <1>9

\* core.cpp:162-231: whatever sensors, users and the machine do, each cycle
\* begins once and ends once, with the outcome and the alarm of its end.
THEOREM CoreKeepsPromise == SafeSpec => ImplementsRegenCycle
  <1>1. Init => Promise!Init
    BY DEF Init, Promise!Init
  <1>2. ASSUME TypeOK, [Next]_vars
        PROVE  [Promise!Begin \/ Promise!Complete \/ Promise!Fail \/ Promise!Move]_Promise!vars
    <2>1. Evaluate \/ UNCHANGED <<gState, cycles, alarm>>
      BY <1>2 DEF Next, CoreTask, ProcessCommands, vars, coreVars, core_request_regen,
                  core_abort_regen, SensorsChange, StatusSampled, Deliver,
                  LoseCommand, MachineStops, StartedAtPanel
    <2>. QED
      BY <1>2, <2>1, EvaluateKeepsPromise DEF Promise!vars
  <1>. QED
    BY <1>1, <1>2, CoreTypeCorrect, PTL DEF SafeSpec, ImplementsRegenCycle, Promise!Spec

\* What a listener can tell from the events alone (core.cpp:162-231): whether
\* a cycle is going on, and that the last alarm is the one of the fault or of
\* the loss of data the core is in.
EventsTellState ==
  /\ \A i \in 1 .. Len(cycles) - 1 :
       cycles[i] = "STARTED" <=> cycles[i + 1] # "STARTED"
  /\ cycles # <<>> => cycles[1] = "STARTED"
  /\ gState = "REGEN_RUNNING" <=>
       cycles # <<>> /\ cycles[Len(cycles)] = "STARTED"
  /\ gState = "FAULT" => alarm \in {"LOW_PRESSURE", "LOW_SALT"}
  /\ gState = "IDLE" => alarm \in {"NONE", "DATA_LOSS"}

Outcome == {"STARTED", "COMPLETED", "FAILED"}

\* A cycle's event added to those before it.
LEMMA AppendAlternates ==
  ASSUME EventsTellState, cycles \in Seq(Outcome), NEW event \in Outcome,
         event = "STARTED" <=> gState # "REGEN_RUNNING",
         cycles' = Append(cycles, event)
  PROVE  /\ \A i \in 1 .. Len(cycles') - 1 :
              cycles'[i] = "STARTED" <=> cycles'[i + 1] # "STARTED"
         /\ cycles' # <<>> /\ cycles'[1] = "STARTED"
         /\ cycles'[Len(cycles')] = event
  <1>1. /\ Len(cycles) \in Nat /\ Len(cycles') = Len(cycles) + 1
        /\ cycles'[Len(cycles) + 1] = event
        /\ \A i \in 1 .. Len(cycles) : cycles'[i] = cycles[i]
        /\ cycles' # <<>>
        /\ cycles = <<>> <=> Len(cycles) = 0
    BY AppendProperties
  <1>2. CASE cycles = <<>>
    <2>1. event = "STARTED"
      BY <1>2 DEF EventsTellState
    <2>. QED
      BY <1>1, <1>2, <2>1
  <1>3. CASE cycles # <<>>
    <2>1. /\ cycles[1] = "STARTED"
          /\ cycles[Len(cycles)] = "STARTED" <=> event # "STARTED"
      BY <1>3 DEF EventsTellState
    <2>2. ASSUME NEW i \in 1 .. Len(cycles') - 1
          PROVE  cycles'[i] = "STARTED" <=> cycles'[i + 1] # "STARTED"
      <3>1. CASE i = Len(cycles)
        BY <1>1, <1>3, <2>1, <3>1
      <3>2. CASE i # Len(cycles)
        <4>1. i \in 1 .. Len(cycles) - 1 /\ i + 1 \in 1 .. Len(cycles)
          BY <1>1, <3>2
        <4>. QED
          BY <1>1, <4>1 DEF EventsTellState
      <3>. QED
        BY <3>1, <3>2
    <2>. QED
      BY <1>1, <1>3, <2>1, <2>2
  <1>. QED
    BY <1>2, <1>3

\* Whoever keeps RegenCycle's promise, and so core.cpp, lets its listeners know.
THEOREM ListenersKnow == SafeSpec => []EventsTellState
  <1>. DEFINE Inv == EventsTellState /\ cycles \in Seq(Outcome)
              Abstract == \/ Promise!Begin \/ Promise!Complete
                          \/ Promise!Fail \/ Promise!Move
  <1>1. Promise!Init => Inv
    BY DEF Promise!Init, EventsTellState
  <1>2. Inv /\ [Abstract]_Promise!vars => Inv'
    <2>. SUFFICES ASSUME Inv, [Abstract]_Promise!vars PROVE Inv'
      OBVIOUS
    <2>1. CASE Promise!Begin
      <3>1. /\ gState # "REGEN_RUNNING" /\ gState' = "REGEN_RUNNING"
            /\ cycles' = Append(cycles, "STARTED")
        BY <2>1 DEF Promise!Begin, Promise!MoveTo
      <3>2. cycles' \in Seq(Outcome)
        BY <3>1 DEF Outcome
      <3>. QED
        BY <3>1, <3>2, AppendAlternates DEF EventsTellState, Outcome
    <2>2. CASE Promise!Complete \/ Promise!Fail
      <3>1. PICK event \in {"COMPLETED", "FAILED"} : cycles' = Append(cycles, event)
        BY <2>2 DEF Promise!Complete, Promise!Fail
      <3>2. /\ gState = "REGEN_RUNNING"
            /\ gState' \in {"IDLE", "MONITORING", "FAULT"}
            /\ gState' = "FAULT" => alarm' \in {"LOW_PRESSURE", "LOW_SALT"}
            /\ gState' = "IDLE" => alarm' \in {"NONE", "DATA_LOSS"}
        BY <2>2 DEF Promise!Complete, Promise!Fail, Promise!MoveTo, Promise!Alarm
      <3>3. cycles' \in Seq(Outcome)
        BY <3>1 DEF Outcome
      <3>. QED
        BY <3>1, <3>2, <3>3, AppendAlternates DEF EventsTellState, Outcome
    <2>3. CASE Promise!Move
      <3>1. /\ gState # "REGEN_RUNNING"
            /\ gState' \in {"IDLE", "MONITORING", "FAULT"}
            /\ cycles' = cycles
            /\ alarm' \in Promise!Alarm(gState')
        BY <2>3 DEF Promise!Move, Promise!MoveTo
      <3>2. /\ gState' = "FAULT" => alarm' \in {"LOW_PRESSURE", "LOW_SALT"}
            /\ gState' = "IDLE" => alarm' \in {"NONE", "DATA_LOSS"}
        BY <3>1 DEF EventsTellState, Promise!Alarm
      <3>. QED
        BY <3>1, <3>2 DEF EventsTellState
    <2>4. CASE UNCHANGED Promise!vars
      BY <2>4 DEF Promise!vars, EventsTellState
    <2>. QED
      BY <2>1, <2>2, <2>3, <2>4
  <1>3. ImplementsRegenCycle => []EventsTellState
    BY <1>1, <1>2, PTL DEF ImplementsRegenCycle, Promise!Spec
  <1>. QED
    BY <1>3, CoreKeepsPromise, PTL

----------------------------------------------------------------------------
(* The commands *)

LEMMA SentIsLast ==
  ASSUME TypeOK, NEW sent \in Seq(Command), send_modbus_command(sent),
         Len(commands') > Len(commands)
  PROVE  \E i \in 1 .. Len(sent) : commands'[Len(commands')] = sent[i]
  <1>1. /\ commands \in Seq(Command) /\ Len(commands) <= CommandCapacity
        /\ CommandCapacity \in Nat
    BY CoreAssumption DEF TypeOK
  <1> HIDE DEF TypeOK
  <1>2. CASE Len(sent) <= CommandCapacity - Len(commands)
    <2>1. commands' = commands \o sent
      BY <1>2 DEF send_modbus_command
    <2>2. Len(commands \o sent) = Len(commands) + Len(sent)
      BY <1>1
    <2>3. Len(sent) \in 1 .. Len(sent)
      BY <1>1, <2>1, <2>2
    <2>4. (commands \o sent)[Len(commands) + Len(sent)] = sent[Len(sent)]
      BY <1>1, <2>3
    <2>. QED
      BY <2>1, <2>2, <2>3, <2>4
  <1>3. CASE ~(Len(sent) <= CommandCapacity - Len(commands))
    <2>1. PICK room \in Nat : room = CommandCapacity - Len(commands)
      <3>1. Len(commands) \in Nat
        BY <1>1
      <3>2. CommandCapacity - Len(commands) \in Nat
        BY <1>1, <3>1
      <3>. QED
        BY <3>2
    <2>2. commands' = commands \o SubSeq(sent, 1, room)
      BY <1>3, <2>1 DEF send_modbus_command
    <2>3. room <= Len(sent)
      BY <1>1, <1>3, <2>1
    <2>4. PICK part \in Seq(Command) : part = SubSeq(sent, 1, room)
      <3>1. SubSeq(sent, 1, room) \in Seq(Command)
        BY <2>1, <2>3
      <3>. QED
        BY <3>1
    <2>5. Len(part) = room /\ \A i \in 1 .. room : part[i] = sent[i]
      BY <2>1, <2>3, <2>4
    <2>6. commands' = commands \o part /\ Len(commands \o part) = Len(commands) + room
      BY <1>1, <2>2, <2>4, <2>5
    <2>7. room \in 1 .. room /\ room \in 1 .. Len(sent)
      BY <1>1, <2>1, <2>3, <2>6
    <2>8. (commands \o part)[Len(commands) + room] = part[room]
      BY <1>1, <2>4, <2>5, <2>7
    <2>. QED
      BY <2>5, <2>6, <2>7, <2>8
  <1>. QED
    BY <1>2, <1>3

LEMMA TailIsShorter ==
  ASSUME TypeOK, commands # <<>>
  PROVE  Len(Tail(commands)) < Len(commands)
  <1>1. commands \in Seq(Command)
    BY DEF TypeOK
  <1>. QED
    BY <1>1, HeadTailProperties

\* Only the two halves of the core's turn send.
LEMMA SentByTheCore ==
  ASSUME TypeOK, [Next]_vars, Len(commands') > Len(commands)
  PROVE  \/ Evaluate /\ Stops > 0 /\ commands'[Len(commands')] = "STOP"
         \/ ProcessCommands /\ \E i \in 1 .. Len(RemoteCommand) :
                                 commands'[Len(commands')] = RemoteCommand[i]
  <1>1. CASE Evaluate
    <2>1. send_modbus_command([i \in 1 .. Stops |-> "STOP"])
      BY <1>1 DEF Evaluate
    <2>2. PICK i \in 1 .. Len([j \in 1 .. Stops |-> "STOP"]) :
            commands'[Len(commands')] = [j \in 1 .. Stops |-> "STOP"][i]
      BY <2>1, StopsAreCommands, SentIsLast
    <2>3. i \in 1 .. Stops /\ Stops \in Nat
      BY <2>2, StopsAreCommands, StopsInNat
    <2>4. commands'[Len(commands')] = "STOP" /\ Stops > 0
      BY <2>2, <2>3
    <2>. QED
      BY <1>1, <2>4
  <1>2. CASE ProcessCommands
    <2>1. send_modbus_command(RemoteCommand)
      BY <1>2 DEF ProcessCommands
    <2>2. \E i \in 1 .. Len(RemoteCommand) :
            commands'[Len(commands')] = RemoteCommand[i]
      BY <2>1, RemoteCommandIsCommand, SentIsLast
    <2>. QED
      BY <1>2, <2>2
  <1>3. CASE Deliver \/ LoseCommand
    <2>1. commands # <<>> /\ commands' = Tail(commands)
      BY <1>3 DEF Deliver, LoseCommand
    <2>2. Len(commands) \in Nat
      BY DEF TypeOK
    <2>. QED
      BY <2>1, <2>2, TailIsShorter
  <1>4. CASE UNCHANGED commands
    <2>1. Len(commands) \in Nat
      BY DEF TypeOK
    <2>. QED
      BY <1>4, <2>1
  <1>. QED
    BY <1>1, <1>2, <1>3, <1>4
    DEF Next, CoreTask, vars, core_request_regen, core_abort_regen, SensorsChange,
        StatusSampled, MachineStops, StartedAtPanel

\* core.cpp:245-276: a start reaches the bus's queue only from MONITORING and
\* never past an abort that was pending with it.
THEOREM StartsAreSafe == SafeSpec => StartInterlock
  <1>1. ASSUME TypeOK, [Next]_vars, Len(commands') > Len(commands),
               commands'[Len(commands')] = "START"
        PROVE  gState = "MONITORING" /\ ~gAbortPending
    <2>1. PICK i \in 1 .. Len(RemoteCommand) : RemoteCommand[i] = "START"
      BY <1>1, SentByTheCore
    <2>2. gAbortPending \in BOOLEAN /\ gRegenPending \in BOOLEAN
      BY <1>1 DEF TypeOK
    <2>. QED
      BY <2>1, <2>2 DEF RemoteCommand
  <1>2. TypeOK /\ [Next]_vars =>
          [Len(commands') > Len(commands) /\ commands'[Len(commands')] = "START"
             => gState = "MONITORING" /\ ~gAbortPending]_vars
    BY <1>1
  <1>. QED
    BY <1>2, CoreTypeCorrect, PTL DEF SafeSpec, StartInterlock

\* A stop is only sent to a machine the core takes to be regenerating: one
\* that it first sees running during a fault is left running (core.cpp:219
\* asks for the previous state, see FaultStopsMachine).
StopsOnlyCycles ==
  [][Len(commands') > Len(commands) /\ commands'[Len(commands')] = "STOP"
       => gState = "REGEN_RUNNING"]_vars

\* A cycle that a fault or a loss of data ends is ended with a stop, as long as
\* the write requests are taken (core.cpp:219-240).
FaultStopsCycle ==
  [][gState = "REGEN_RUNNING" /\ gState' \in {"IDLE", "FAULT"}
       => \/ hampered'
          \/ Len(commands') > Len(commands) /\ commands'[Len(commands')] = "STOP"]_vars

\* A cycle's timer cannot have expired at the turn the cycle begins with.
LEMMA NewCycleIsYoung == TypeOK /\ Entering => ~Expired
  <1>. SUFFICES ASSUME TypeOK, Entering PROVE ~Expired
    OBVIOUS
  <1>1. StartTime = now /\ now \in 0 .. ClockSize - 1
    BY DEF StartTime, TypeOK
  <1>2. Since(now, now) = 0
    BY <1>1 DEF Since
  <1>. QED
    BY <1>1, <1>2, CoreAssumption DEF Expired

\* core.cpp:199-240: no stop is sent outside a cycle.
THEOREM StopsAreSafe == SafeSpec => StopsOnlyCycles
  <1>1. ASSUME TypeOK, [Next]_vars, Len(commands') > Len(commands),
               commands'[Len(commands')] = "STOP"
        PROVE  gState = "REGEN_RUNNING"
    <2>1. CASE Evaluate /\ Stops > 0
      <3>1. (Expired /\ (Entering \/ ~gRegenStopping)) \/ Leaving
        BY <2>1 DEF Stops
      <3>2. CASE Leaving
        BY <3>2 DEF Leaving
      <3>3. CASE Expired
        <4>1. ~Entering /\ Evaluated = "REGEN_RUNNING"
          BY <1>1, <3>3, NewCycleIsYoung DEF Expired
        <4>. QED
          BY <4>1 DEF Entering
      <3>. QED
        BY <3>1, <3>2, <3>3
    <2>2. CASE \E i \in 1 .. Len(RemoteCommand) : RemoteCommand[i] = "STOP"
      <3>1. gAbortPending \in BOOLEAN /\ gRegenPending \in BOOLEAN
        BY <1>1 DEF TypeOK
      <3>. QED
        BY <2>2, <3>1 DEF RemoteCommand
    <2>. QED
      BY <1>1, <2>1, <2>2, SentByTheCore
  <1>2. TypeOK /\ [Next]_vars =>
          [Len(commands') > Len(commands) /\ commands'[Len(commands')] = "STOP"
             => gState = "REGEN_RUNNING"]_vars
    BY <1>1
  <1>. QED
    BY <1>2, CoreTypeCorrect, PTL DEF SafeSpec, StopsOnlyCycles

\* Sending something makes the queue longer, or something was lost.
LEMMA SendingShows ==
  ASSUME TypeOK, NEW sent \in Seq(Command), sent # <<>>, send_modbus_command(sent)
  PROVE  hampered' \/ Len(commands') > Len(commands)
  <1>1. commands \in Seq(Command)
    BY DEF TypeOK
  <1>2. CASE Len(sent) <= CommandCapacity - Len(commands)
    <2>1. commands' = commands \o sent
      BY <1>2 DEF send_modbus_command
    <2>2. Len(commands \o sent) = Len(commands) + Len(sent)
      BY <1>1
    <2>. QED
      BY <1>1, <2>1, <2>2
  <1>3. CASE ~(Len(sent) <= CommandCapacity - Len(commands))
    BY <1>3 DEF send_modbus_command
  <1>. QED
    BY <1>2, <1>3

\* core.cpp:219-240: a cycle never ends in a fault without a stop.
THEOREM FaultsStopTheCycle == SafeSpec => FaultStopsCycle
  <1>1. ASSUME TypeOK, [Next]_vars,
               gState = "REGEN_RUNNING", gState' \in {"IDLE", "FAULT"}, ~hampered'
        PROVE  Len(commands') > Len(commands) /\ commands'[Len(commands')] = "STOP"
    <2>1. Evaluate
      BY <1>1 DEF Next, CoreTask, ProcessCommands, vars, coreVars, core_request_regen,
                  core_abort_regen, SensorsChange, StatusSampled, Deliver,
                  LoseCommand, MachineStops, StartedAtPanel
    <2>2. Leaving /\ SystemFault
      BY <1>1, <2>1 DEF Evaluate, Leaving, SystemFault
    <2>3. Stops > 0
      BY <2>2 DEF Stops
    <2>4. /\ [i \in 1 .. Stops |-> "STOP"] # <<>>
          /\ send_modbus_command([i \in 1 .. Stops |-> "STOP"])
      BY <2>1, <2>3, StopsInNat, StopsAreCommands DEF Evaluate
    <2>5. Len(commands') > Len(commands)
      BY <1>1, <2>4, StopsAreCommands, SendingShows
    <2>6. pc = "evaluate"
      BY <2>1 DEF Evaluate
    <2>. QED
      BY <1>1, <2>5, <2>6, SentByTheCore DEF ProcessCommands
  <1>2. TypeOK /\ [Next]_vars =>
          [gState = "REGEN_RUNNING" /\ gState' \in {"IDLE", "FAULT"}
             => \/ hampered'
                \/ /\ Len(commands') > Len(commands)
                   /\ commands'[Len(commands')] = "STOP"]_vars
    BY <1>1
  <1>. QED
    BY <1>2, CoreTypeCorrect, PTL DEF SafeSpec, FaultStopsCycle
=============================================================================
