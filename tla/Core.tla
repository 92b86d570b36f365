-------------------------------- MODULE Core --------------------------------
(***************************************************************************)
(* core.cpp: the softener's state machine, the requests other tasks leave  *)
(* for it, and what it acts through: the store it reads and the write      *)
(* requests it posts (both modelled in DataPath, here as the environment)  *)
(* and the machine itself (external).  main.cpp does not start the core at *)
(* this commit; the model is of the core once core_start has been called   *)
(* with a registry that has the tags it names.                             *)
(***************************************************************************)
EXTENDS Integers, Sequences

CONSTANTS
  ClockSize,          \* 2^32, in evaluation periods
  MaxRegenTime,       \* MAX_REGEN_TIME_MS, in evaluation periods
  MaxTurn,            \* bound on the periods a turn can take
  CommandCapacity,    \* the write requests that can be on their way
  MaxRequests,        \* bound on remote and on manual starts, each
  MaxSensorChanges    \* bound on changes of what the sensors show

ASSUME CoreAssumption ==
  /\ ClockSize \in Nat
  /\ MaxRegenTime \in Nat \ {0}
  /\ MaxTurn \in Nat \ {0}
  /\ MaxRegenTime + MaxTurn <= ClockSize
  /\ CommandCapacity \in Nat \ {0}
  /\ MaxRequests \in Nat
  /\ MaxSensorChanges \in Nat

VARIABLES
  gState,
  gRegenPending,
  gAbortPending,
  gRegenStartTime,
  gRegenStopping,
  pc,              \* "evaluate" or "commands"
  now,             \* millis()
  sensors,         \* what the store shows: "ok", a fault, or "invalid"
  regenerating,    \* the machine's status as the store shows it
  running,         \* the machine is regenerating
  commands,        \* the commands posted and not yet carried out
  cycles,          \* the cycle events posted, oldest first
  alarm,           \* the fault event posted last, or "NONE"
  evaluation,      \* what the last evaluation saw and has done about it
  cycleTime,       \* periods since the cycle began, up to MaxRegenTime
  requests,        \* how often a remote start has been requested
  manualStarts,    \* how often the machine was started at its panel
  sensorChanges,   \* how often the sensors have changed
  hampered         \* a command was lost or contradicted at the panel

coreVars == <<gState, gRegenStartTime, gRegenStopping, pc, now, cycles, alarm,
              evaluation, cycleTime>>
pendingVars == <<gRegenPending, gAbortPending, requests>>
storeVars == <<sensors, regenerating, sensorChanges>>
machineVars == <<running, manualStarts>>
vars == <<coreVars, pendingVars, storeVars, machineVars, commands, hampered>>

Init ==
  /\ gState = "IDLE"
  /\ gRegenPending = FALSE
  /\ gAbortPending = FALSE
  /\ gRegenStartTime = 0
  /\ gRegenStopping = FALSE
  /\ pc = "evaluate"
  /\ now \in 0 .. ClockSize - 1
  /\ sensors = "invalid"
  /\ regenerating = FALSE
  /\ running \in BOOLEAN
  /\ commands = <<>>
  /\ cycles = <<>>
  /\ alarm = "NONE"
  /\ evaluation = [fault |-> FALSE, seen |-> FALSE, stopped |-> FALSE]
  /\ cycleTime = 0
  /\ requests = 0
  /\ manualStarts = 0
  /\ sensorChanges = 0
  /\ hampered = FALSE

----------------------------------------------------------------------------
(* uint32_t arithmetic: sum and difference modulo ClockSize *)

Later(time, periods) ==
  IF time + periods < ClockSize THEN time + periods
  ELSE time + periods - ClockSize

Since(time, start) ==
  IF time >= start THEN time - start ELSE time - start + ClockSize

----------------------------------------------------------------------------
(* Remote requests *)

core_request_regen ==
  /\ requests < MaxRequests
  /\ requests' = requests + 1
  /\ gRegenPending' = TRUE
  /\ UNCHANGED <<gAbortPending, coreVars, storeVars, machineVars, commands, hampered>>

core_abort_regen ==
  /\ ~gAbortPending
  /\ gAbortPending' = TRUE
  /\ UNCHANGED <<gRegenPending, requests, coreVars, storeVars, machineVars,
                 commands, hampered>>

----------------------------------------------------------------------------
(* core_task *)

\* Mutant: nothing is ever refused.
send_modbus_command_unlimited(sent) ==
  commands' = commands \o sent /\ UNCHANGED hampered

\* send_modbus_command: what the dispatcher does not take is only logged.
send_modbus_command(sent) ==
  LET room == CommandCapacity - Len(commands)
  IN IF Len(sent) <= room
     THEN commands' = commands \o sent /\ UNCHANGED hampered
     ELSE commands' = commands \o SubSeq(sent, 1, room) /\ hampered' = TRUE

\* The state the sensors call for, in the order of the priorities.
Evaluated ==
  CASE sensors = "invalid"             -> "IDLE"
    [] sensors \notin {"invalid", "ok"} -> "FAULT"
    [] sensors = "ok" /\ regenerating   -> "REGEN_RUNNING"
    [] sensors = "ok" /\ ~regenerating  -> "MONITORING"

Entering == Evaluated = "REGEN_RUNNING" /\ gState # "REGEN_RUNNING"
Leaving == Evaluated # "REGEN_RUNNING" /\ gState = "REGEN_RUNNING"
SystemFault == Evaluated \in {"IDLE", "FAULT"}
IsRegenerating == sensors # "invalid" /\ regenerating

StartTime == IF Entering THEN now ELSE gRegenStartTime

\* Mutant: the deadline is computed first, and wraps.
ExpiredByDeadline ==
  /\ Evaluated = "REGEN_RUNNING"
  /\ now >= Later(StartTime, MaxRegenTime)

Expired ==
  /\ Evaluated = "REGEN_RUNNING"
  /\ Since(now, StartTime) >= MaxRegenTime

\* Sent once: by the timer, by a fault that ends the cycle, and once more if
\* the machine is still seen running.
Stops ==
  (IF Expired /\ (Entering \/ ~gRegenStopping) THEN 1 ELSE 0) +
  (IF Leaving /\ SystemFault THEN 1 ELSE 0) +
  (IF Leaving /\ SystemFault /\ IsRegenerating THEN 1 ELSE 0)

\* Mutant: the flag survives into the next cycle.
RegenStoppingKept == gRegenStopping \/ Expired

RegenStopping == ~Leaving /\ ((gRegenStopping /\ ~Entering) \/ Expired)

\* Mutant: a cycle is completed only if its timer had expired.
CycleEventIfStopping ==
  CASE Entering                                  -> "STARTED"
    [] Leaving /\ SystemFault                    -> "FAILED"
    [] Leaving /\ ~SystemFault /\ gRegenStopping -> "COMPLETED"
    [] OTHER                                     -> "NONE"

\* A cycle the machine ended by itself counts as completed too.
CycleEvent ==
  CASE Entering                -> "STARTED"
    [] Leaving /\ SystemFault  -> "FAILED"
    [] Leaving /\ ~SystemFault -> "COMPLETED"
    [] OTHER                   -> "NONE"

FaultEvent ==
  CASE Evaluated = "IDLE" /\ gState # "IDLE"   -> "DATA_LOSS"
    [] Evaluated = "FAULT" /\ gState # "FAULT" -> sensors
    [] OTHER                                   -> alarm

\* One turn up to core_set_state, on one snapshot of the store.
Evaluate ==
  /\ pc = "evaluate"
  /\ pc' = "commands"
  /\ gState' = Evaluated
  /\ gRegenStartTime' = IF Leaving THEN 0 ELSE StartTime
  /\ gRegenStopping' = RegenStopping
  /\ cycles' = IF CycleEvent = "NONE" THEN cycles ELSE Append(cycles, CycleEvent)
  /\ alarm' = FaultEvent
  /\ send_modbus_command([i \in 1 .. Stops |-> "STOP"])
  /\ evaluation' = [fault |-> SystemFault,
                    seen |-> IsRegenerating,
                    stopped |-> Stops > 0 \/ (IsRegenerating /\ evaluation.stopped)]
  /\ cycleTime' = IF Evaluated = gState THEN cycleTime ELSE 0
  /\ UNCHANGED <<now, pendingVars, storeVars, machineVars>>

\* Mutant: an abort that finds nothing to abort lets the start through.
RemoteCommandEither ==
  CASE gState = "REGEN_RUNNING" /\ gAbortPending -> <<"STOP">>
    [] gState = "MONITORING" /\ gRegenPending    -> <<"START">>
    [] OTHER                                     -> <<>>

\* An abort is looked at first and discards a start requested with it.
RemoteCommand ==
  CASE gAbortPending -> IF gState = "REGEN_RUNNING" THEN <<"STOP">> ELSE <<>>
    [] ~gAbortPending /\ gRegenPending ->
         IF gState = "MONITORING" THEN <<"START">> ELSE <<>>
    [] OTHER -> <<>>

\* The rest of the turn, and the delay; a turn that waits for the dispatcher
\* takes longer.
ProcessCommands ==
  /\ pc = "commands"
  /\ pc' = "evaluate"
  /\ \E turn \in 1 .. MaxTurn :
       /\ now' = Later(now, turn)
       /\ cycleTime' = IF cycleTime + turn < MaxRegenTime THEN cycleTime + turn
                       ELSE MaxRegenTime
  /\ gRegenPending' = FALSE
  /\ gAbortPending' = FALSE
  /\ send_modbus_command(RemoteCommand)
  /\ UNCHANGED <<gState, gRegenStartTime, gRegenStopping, cycles, alarm,
                 evaluation, requests, storeVars, machineVars>>

CoreTask == Evaluate \/ ProcessCommands

----------------------------------------------------------------------------
(* The store and the machine *)

SensorsChange ==
  /\ sensorChanges < MaxSensorChanges
  /\ sensorChanges' = sensorChanges + 1
  /\ sensors' \in {"ok", "LOW_PRESSURE", "LOW_SALT", "invalid"} \ {sensors}
  /\ UNCHANGED <<regenerating, coreVars, pendingVars, machineVars, commands, hampered>>

StatusSampled ==
  /\ regenerating' = running
  /\ UNCHANGED <<sensors, sensorChanges, coreVars, pendingVars, machineVars,
                 commands, hampered>>

Deliver ==
  /\ commands # <<>>
  /\ running' = (Head(commands) = "START")
  /\ commands' = Tail(commands)
  /\ UNCHANGED <<manualStarts, coreVars, pendingVars, storeVars, hampered>>

LoseCommand ==
  /\ commands # <<>>
  /\ commands' = Tail(commands)
  /\ hampered' = TRUE
  /\ UNCHANGED <<coreVars, pendingVars, storeVars, machineVars>>

\* At the panel, or because the machine has finished.
MachineStops ==
  /\ running
  /\ running' = FALSE
  /\ UNCHANGED <<manualStarts, coreVars, pendingVars, storeVars, commands, hampered>>

\* During a cycle the core may never see that the machine was off.
StartedAtPanel ==
  /\ ~running
  /\ manualStarts < MaxRequests
  /\ manualStarts' = manualStarts + 1
  /\ running' = TRUE
  /\ hampered' = (hampered \/ gState = "REGEN_RUNNING")
  /\ UNCHANGED <<coreVars, pendingVars, storeVars, commands>>

Next ==
  \/ core_request_regen
  \/ core_abort_regen
  \/ CoreTask
  \/ SensorsChange
  \/ StatusSampled
  \/ Deliver
  \/ LoseCommand
  \/ MachineStops
  \/ StartedAtPanel

SafeSpec == Init /\ [][Next]_vars

\* The core's task runs, the status is polled and the bus works off its
\* queue; nothing is assumed of users or of the machine.
Spec ==
  /\ SafeSpec
  /\ WF_vars(CoreTask)
  /\ WF_vars(StatusSampled)
  /\ WF_vars(Deliver)

----------------------------------------------------------------------------
(* Properties *)

State == {"IDLE", "MONITORING", "REGEN_RUNNING", "FAULT"}
Command == {"START", "STOP"}

\* Every variable has its type and the commands their capacity.
TypeOK ==
  /\ gState \in State
  /\ gRegenPending \in BOOLEAN /\ gAbortPending \in BOOLEAN
  /\ gRegenStartTime \in 0 .. ClockSize - 1
  /\ gRegenStopping \in BOOLEAN
  /\ pc \in {"evaluate", "commands"}
  /\ now \in 0 .. ClockSize - 1
  /\ sensors \in {"ok", "LOW_PRESSURE", "LOW_SALT", "invalid"}
  /\ regenerating \in BOOLEAN /\ running \in BOOLEAN
  /\ commands \in Seq(Command) /\ Len(commands) <= CommandCapacity
  /\ cycles \in Seq({"STARTED", "COMPLETED", "FAILED"})
  /\ alarm \in {"NONE", "DATA_LOSS", "LOW_PRESSURE", "LOW_SALT"}
  /\ evaluation \in [fault : BOOLEAN, seen : BOOLEAN, stopped : BOOLEAN]
  /\ cycleTime \in 0 .. MaxRegenTime
  /\ requests \in 0 .. MaxRequests
  /\ manualStarts \in 0 .. MaxRequests
  /\ sensorChanges \in 0 .. MaxSensorChanges
  /\ hampered \in BOOLEAN

\* The stop for the end of the cycle is sent at the first evaluation at which
\* the cycle is old enough, also when millis() wraps on the way.
TimerExact ==
  gState = "REGEN_RUNNING" /\ pc = "commands" => (gRegenStopping <=> cycleTime = MaxRegenTime)

\* The core keeps its promise to those who listen to its events.
Promise == INSTANCE RegenCycle WITH state <- gState
ImplementsRegenCycle == Promise!Spec

\* No start is sent during a fault, without data, during a cycle or against an
\* abort, whenever the requests come.
StartInterlock ==
  [][Len(commands') > Len(commands) /\ commands'[Len(commands')] = "START"
       => gState = "MONITORING" /\ ~gAbortPending]_vars

\* A cycle the core has seen begin ends, if its commands arrive.
CycleEnds ==
  []~hampered =>
    (gState = "REGEN_RUNNING" ~> gState # "REGEN_RUNNING")

\* core.cpp:237 says "Mid-cycle fault protection: machine is still running
\* but we detected a fault": a machine seen running during a fault has been
\* sent a stop since it was last seen idle.
FaultStopsMachine ==
  evaluation.fault /\ evaluation.seen => evaluation.stopped
=============================================================================
