------------------------- MODULE WifiService_proofs -------------------------
(***************************************************************************)
(* Proofs about WifiService, for every length of its queues and every      *)
(* bound: type correctness, that RETRY_WAIT always has a retry scheduled,  *)
(* what the application is told, and that it and the machine follow the    *)
(* radio.                                                                  *)
(***************************************************************************)
EXTENDS WifiService, SequenceTheorems, TLAPS

\* WiFi.begin is only ever about to be called in these two states.
BeginPhase == fsmPc = "begin" => connectionState \in {"IDLE", "RETRY_WAIT"}

\* In RETRY_WAIT the last command to the timer was to start it.
ResetIsLast ==
  connectionState = "RETRY_WAIT" /\ timerCommands # <<>>
    => timerCommands[Len(timerCommands)] = "RESET"

----------------------------------------------------------------------------
(* Type correctness *)

\* A send keeps the event queue's type and bound.
LEMMA SendKeepsType ==
  ASSUME NEW event \in Event,
         wifiQueue \in Seq(Event), Len(wifiQueue) <= WifiCapacity,
         refused \subseteq {"event", "timer"},
         SendEvent(event)
  PROVE  /\ wifiQueue' \in Seq(Event) /\ Len(wifiQueue') <= WifiCapacity
         /\ refused' \subseteq {"event", "timer"}
  <1>1. CASE Len(wifiQueue) < WifiCapacity
    <2>1. Append(wifiQueue, event) \in Seq(Event)
      OBVIOUS
    <2>2. Len(Append(wifiQueue, event)) = Len(wifiQueue) + 1
      OBVIOUS
    <2>3. wifiQueue' = Append(wifiQueue, event) /\ refused' = refused
      BY <1>1 DEF SendEvent
    <2>4. Len(wifiQueue') <= WifiCapacity
      BY <1>1, <2>2, <2>3, WifiAssumption
    <2>. QED
      BY <2>1, <2>3, <2>4
  <1>2. CASE ~(Len(wifiQueue) < WifiCapacity)
    BY <1>2 DEF SendEvent
  <1>. QED
    BY <1>1, <1>2

\* So does a receive.
LEMMA ReceiveKeepsType ==
  ASSUME NEW state, NEW event,
         wifiQueue \in Seq(Event), Len(wifiQueue) <= WifiCapacity,
         Receive(state, event)
  PROVE  wifiQueue' \in Seq(Event) /\ Len(wifiQueue') <= WifiCapacity
  BY WifiAssumption DEF Receive

State == {"IDLE", "CONNECTING", "CONNECTED", "RETRY_WAIT", "GOT_IP"}

\* A command to the timer task keeps the types of what it touches.
LEMMA CommandKeepsType ==
  ASSUME NEW command \in {"RESET", "STOP"}, NEW state \in State,
         timerCommands \in Seq({"RESET", "STOP"}),
         Len(timerCommands) <= TimerQueueLength,
         connectionState \in State,
         refused \subseteq {"event", "timer"},
         CommandTimer(command, state)
  PROVE  /\ timerCommands' \in Seq({"RESET", "STOP"})
         /\ Len(timerCommands') <= TimerQueueLength
         /\ connectionState' \in State
         /\ refused' \subseteq {"event", "timer"}
  <1>1. CASE Len(timerCommands) < TimerQueueLength
    <2>1. Append(timerCommands, command) \in Seq({"RESET", "STOP"})
      OBVIOUS
    <2>2. Len(Append(timerCommands, command)) = Len(timerCommands) + 1
      OBVIOUS
    <2>3. /\ timerCommands' = Append(timerCommands, command)
          /\ connectionState' = state /\ refused' = refused
      BY <1>1 DEF CommandTimer
    <2>4. Len(timerCommands') <= TimerQueueLength
      BY <1>1, <2>2, <2>3, WifiAssumption
    <2>. QED
      BY <2>1, <2>3, <2>4
  <1>2. CASE ~(Len(timerCommands) < TimerQueueLength)
    BY <1>2 DEF CommandTimer
  <1>. QED
    BY <1>1, <1>2

LEMMA PostKeepsType ==
  ASSUME NEW event \in {"NETWORK_UP", "NETWORK_DOWN"},
         posted \in Seq({"NETWORK_UP", "NETWORK_DOWN"}), event_post(event)
  PROVE  posted' \in Seq({"NETWORK_UP", "NETWORK_DOWN"})
  BY DEF event_post

LEMMA TypeRadio == TypeOK /\ Radio => TypeOK'
  <1> SUFFICES ASSUME TypeOK, Radio PROVE TypeOK'
    OBVIOUS
  <1>1. /\ link' \in {"off", "trying", "associated", "ip"}
        /\ incoming' \in LinkEvent \cup {"NONE"}
        /\ troubles' \in 0 .. MaxTroubles
        /\ ownRetries' \in 0 .. MaxOwnRetries
    BY WifiAssumption
    DEF TypeOK, Radio, Associate, ObtainIp, LoseLink, LoseIp, ReportLostIp,
        RetryByItself, LinkMoves, Trouble, LinkEvent
  <1>. QED
    BY <1>1 DEF TypeOK, Radio, fsmVars, timerVars

LEMMA TypeHandler == TypeOK /\ wifiEventHandler => TypeOK'
  <1> SUFFICES ASSUME TypeOK, wifiEventHandler PROVE TypeOK'
    OBVIOUS
  <1>1. incoming \in Event /\ SendEvent(incoming)
    BY DEF TypeOK, wifiEventHandler, Event
  <1>2. /\ wifiQueue' \in Seq(Event) /\ Len(wifiQueue') <= WifiCapacity
        /\ refused' \subseteq {"event", "timer"}
    BY <1>1, SendKeepsType DEF TypeOK
  <1>. QED
    BY <1>2 DEF TypeOK, wifiEventHandler, fsmVars, timerVars

LEMMA TypeTimer == TypeOK /\ TimerTask => TypeOK'
  <1> SUFFICES ASSUME TypeOK, TimerTask PROVE TypeOK'
    OBVIOUS
  <1>1. CASE CarryOutCommand
    <2>1. /\ timerCommands' \in Seq({"RESET", "STOP"})
          /\ Len(timerCommands') <= TimerQueueLength
          /\ timerActive' \in BOOLEAN
      BY <1>1, WifiAssumption DEF TypeOK, CarryOutCommand
    <2>. QED
      BY <1>1, <2>1 DEF TypeOK, TimerTask, CarryOutCommand, fsmVars, linkVars
  <1>2. CASE vStaReconnectTimerCB
    <2>1. /\ wifiQueue' \in Seq(Event) /\ Len(wifiQueue') <= WifiCapacity
          /\ refused' \subseteq {"event", "timer"}
      BY <1>2, SendKeepsType DEF TypeOK, vStaReconnectTimerCB, Event
    <2>. QED
      BY <1>2, <2>1 DEF TypeOK, TimerTask, vStaReconnectTimerCB, fsmVars, linkVars
  <1>. QED
    BY <1>1, <1>2 DEF TimerTask

LEMMA TypeFsm == TypeOK /\ wifiFSTMTask => TypeOK'
  <1> SUFFICES ASSUME TypeOK, wifiFSTMTask PROVE TypeOK'
    OBVIOUS
  <1> DEFINE Rest == UNCHANGED <<timerActive, incoming, troubles, ownRetries>>
  <1>0. Rest
    BY DEF wifiFSTMTask
  <1>1. CASE Start
    BY <1>0, <1>1, ReceiveKeepsType DEF TypeOK, Start
  <1>2. CASE Begin
    BY <1>0, <1>2 DEF TypeOK, Begin
  <1>3. CASE Connected
    BY <1>0, <1>3, ReceiveKeepsType DEF TypeOK, Connected
  <1>4. CASE DisconnectedBeforeIp
    <2>1. wifiQueue' \in Seq(Event) /\ Len(wifiQueue') <= WifiCapacity
      BY <1>4, ReceiveKeepsType DEF TypeOK, DisconnectedBeforeIp
    <2>2. CommandTimer("RESET", "RETRY_WAIT")
      BY <1>4 DEF DisconnectedBeforeIp
    <2>3. /\ timerCommands' \in Seq({"RESET", "STOP"})
          /\ Len(timerCommands') <= TimerQueueLength
          /\ connectionState' \in State
          /\ refused' \subseteq {"event", "timer"}
      BY <2>2, CommandKeepsType DEF TypeOK, State
    <2>. QED
      BY <1>0, <1>4, <2>1, <2>3 DEF TypeOK, DisconnectedBeforeIp, State
  <1>5. CASE GotIp
    BY <1>0, <1>5, ReceiveKeepsType, PostKeepsType DEF TypeOK, GotIp
  <1>6. CASE Reconnected
    <2>1. wifiQueue' \in Seq(Event) /\ Len(wifiQueue') <= WifiCapacity
      BY <1>6, ReceiveKeepsType DEF TypeOK, Reconnected
    <2>2. /\ timerCommands' \in Seq({"RESET", "STOP"})
          /\ Len(timerCommands') <= TimerQueueLength
          /\ connectionState' \in State
          /\ refused' \subseteq {"event", "timer"}
      <3>1. CASE timerActive
        BY <1>6, <3>1, CommandKeepsType DEF TypeOK, Reconnected, State
      <3>2. CASE ~timerActive
        BY <1>6, <3>2 DEF TypeOK, Reconnected, State
      <3>. QED
        BY <3>1, <3>2
    <2>. QED
      BY <1>0, <1>6, <2>1, <2>2 DEF TypeOK, Reconnected, State
  <1>7. CASE RetryTimeout
    BY <1>0, <1>7, ReceiveKeepsType DEF TypeOK, RetryTimeout
  <1>8. CASE LostIp
    BY <1>0, <1>8, ReceiveKeepsType, PostKeepsType DEF TypeOK, LostIp
  <1>9. CASE Disconnected
    <2>1. /\ wifiQueue' \in Seq(Event) /\ Len(wifiQueue') <= WifiCapacity
          /\ posted' \in Seq({"NETWORK_UP", "NETWORK_DOWN"})
      BY <1>9, ReceiveKeepsType, PostKeepsType DEF TypeOK, Disconnected
    <2>2. /\ timerCommands' \in Seq({"RESET", "STOP"})
          /\ Len(timerCommands') <= TimerQueueLength
          /\ connectionState' \in State
          /\ refused' \subseteq {"event", "timer"}
      BY <1>9, CommandKeepsType DEF TypeOK, Disconnected, State
    <2>. QED
      BY <1>0, <1>9, <2>1, <2>2 DEF TypeOK, Disconnected, State
  <1>10. CASE Unhandled
    BY <1>0, <1>10, ReceiveKeepsType DEF TypeOK, Unhandled, fsmVars
  <1>. QED
    BY <1>1, <1>2, <1>3, <1>4, <1>5, <1>6, <1>7, <1>8, <1>9, <1>10
    DEF wifiFSTMTask

LEMMA TypeInvariant == TypeOK /\ [Next]_vars => TypeOK'
  <1>1. TypeOK /\ UNCHANGED vars => TypeOK'
    BY DEF TypeOK, vars, fsmVars, timerVars, linkVars
  <1>. QED
    BY <1>1, TypeRadio, TypeHandler, TypeTimer, TypeFsm DEF Next

\* wifi_service.cpp: every variable keeps its type and neither the event
\* queue nor the timer task's queue outgrows its length.
THEOREM WifiTypeCorrect == SafeSpec => []TypeOK
  <1>1. Init => TypeOK
    <2> SUFFICES ASSUME Init PROVE TypeOK
      OBVIOUS
    <2>1. wifiQueue \in Seq(Event) /\ Len(wifiQueue) = 1
      BY DEF Init, Event
    <2>2. /\ timerCommands \in Seq({"RESET", "STOP"})
          /\ posted \in Seq({"NETWORK_UP", "NETWORK_DOWN"})
          /\ Len(timerCommands) = 0
      BY DEF Init
    <2>3. refused \subseteq {"event", "timer"}
      BY DEF Init
    <2>4. Len(wifiQueue) <= WifiCapacity /\ Len(timerCommands) <= TimerQueueLength
      BY <2>1, <2>2, WifiAssumption
    <2>5. troubles \in 0 .. MaxTroubles /\ ownRetries \in 0 .. MaxOwnRetries
      BY WifiAssumption DEF Init
    <2>. QED
      BY <2>1, <2>2, <2>3, <2>4, <2>5 DEF Init, TypeOK
  <1>. QED
    BY <1>1, TypeInvariant, PTL DEF SafeSpec

----------------------------------------------------------------------------
(* A retry is always scheduled *)

RetryInv == BeginPhase /\ ResetIsLast /\ RetryScheduled

\* What RetryScheduled asks for.
Scheduled ==
  \/ timerActive
  \/ fsmPc = "begin"
  \/ \E i \in DOMAIN timerCommands : timerCommands[i] = "RESET"
  \/ \E i \in DOMAIN wifiQueue : wifiQueue[i] = "RETRY_TIMEOUT"

\* A send keeps every event already in the queue.
LEMMA SendKeepsEvents ==
  ASSUME NEW event, wifiQueue \in Seq(Event), event \in Event, SendEvent(event)
  PROVE  \A i \in DOMAIN wifiQueue : i \in DOMAIN wifiQueue' /\ wifiQueue'[i] = wifiQueue[i]
  BY DEF SendEvent

\* A receive takes nothing but the event it names.
LEMMA ReceiveKeepsOthers ==
  ASSUME NEW state, NEW event, wifiQueue \in Seq(Event), Receive(state, event),
         NEW i \in DOMAIN wifiQueue, wifiQueue[i] # event
  PROVE  \E j \in DOMAIN wifiQueue' : wifiQueue'[j] = wifiQueue[i]
  <1>1. /\ wifiQueue # <<>> /\ Head(wifiQueue) = event
        /\ wifiQueue' = Tail(wifiQueue)
    BY DEF Receive
  <1>2. i # 1
    BY <1>1
  <1>3. i - 1 \in DOMAIN Tail(wifiQueue) /\ Tail(wifiQueue)[i - 1] = wifiQueue[i]
    BY <1>1, <1>2
  <1>. QED
    BY <1>1, <1>3

\* A command that changes the state leaves itself last; one that is refused
\* changes neither the state nor the commands.
LEMMA CommandIsLast ==
  ASSUME NEW command \in {"RESET", "STOP"}, NEW state,
         timerCommands \in Seq({"RESET", "STOP"}), CommandTimer(command, state)
  PROVE  \/ /\ connectionState' = state
            /\ timerCommands' # <<>>
            /\ Len(timerCommands') \in DOMAIN timerCommands'
            /\ timerCommands'[Len(timerCommands')] = command
         \/ UNCHANGED <<timerCommands, connectionState>>
  <1>1. CASE Len(timerCommands) < TimerQueueLength
    <2>1. timerCommands' = Append(timerCommands, command) /\ connectionState' = state
      BY <1>1 DEF CommandTimer
    <2>. QED
      BY <2>1
  <1>2. CASE ~(Len(timerCommands) < TimerQueueLength)
    BY <1>2 DEF CommandTimer
  <1>. QED
    BY <1>1, <1>2

LEMMA RetryRadio == TypeOK /\ RetryInv /\ Radio => RetryInv'
  BY DEF RetryInv, BeginPhase, ResetIsLast, RetryScheduled, Radio, fsmVars, timerVars

LEMMA RetryHandler == TypeOK /\ RetryInv /\ wifiEventHandler => RetryInv'
  <1> SUFFICES ASSUME TypeOK, RetryInv, wifiEventHandler PROVE RetryInv'
    OBVIOUS
  <1>1. /\ wifiQueue \in Seq(Event) /\ incoming \in Event /\ SendEvent(incoming)
        /\ "event" \notin refused' => "event" \notin refused
    BY DEF TypeOK, wifiEventHandler, Event, SendEvent
  <1>2. \A i \in DOMAIN wifiQueue :
          i \in DOMAIN wifiQueue' /\ wifiQueue'[i] = wifiQueue[i]
    BY <1>1, SendKeepsEvents
  <1>3. UNCHANGED <<fsmPc, connectionState, timerActive, timerCommands>>
    BY DEF wifiEventHandler, fsmVars, timerVars
  <1>. QED
    BY <1>1, <1>2, <1>3 DEF RetryInv, BeginPhase, ResetIsLast, RetryScheduled

\* Taking the first command leaves the last one last.
LEMMA TailKeepsLast ==
  ASSUME NEW S, NEW s \in Seq(S), Len(s) > 1
  PROVE  /\ Len(Tail(s)) = Len(s) - 1
         /\ Len(Tail(s)) \in DOMAIN Tail(s)
         /\ Tail(s)[Len(Tail(s))] = s[Len(s)]
  <1>1. s # <<>> /\ Len(s) \in Nat
    OBVIOUS
  <1>2. Tail(s) \in Seq(S) /\ Len(Tail(s)) = Len(s) - 1
    BY <1>1
  <1>3. \A i \in 1 .. Len(s) - 1 : Tail(s)[i] = s[i + 1]
    BY <1>1
  <1>. QED
    BY <1>1, <1>2, <1>3

LEMMA RetryTimer == TypeOK /\ RetryInv /\ TimerTask => RetryInv'
  <1> SUFFICES ASSUME TypeOK, RetryInv, TimerTask PROVE RetryInv'
    OBVIOUS
  <1>0. UNCHANGED <<fsmPc, connectionState>>
    BY DEF TimerTask, fsmVars
  <1>1. BeginPhase'
    BY <1>0 DEF RetryInv, BeginPhase
  <1>2. CASE CarryOutCommand
    <2>1. /\ timerCommands \in Seq({"RESET", "STOP"}) /\ timerCommands # <<>>
          /\ timerActive' = (Head(timerCommands) = "RESET")
          /\ timerCommands' = Tail(timerCommands)
          /\ UNCHANGED <<wifiQueue, refused>>
      BY <1>2 DEF TypeOK, CarryOutCommand
    <2>2. CASE Len(timerCommands) = 1
      <3>1. timerCommands' = <<>>
        BY <2>1, <2>2
      <3>2. connectionState = "RETRY_WAIT" => timerCommands[1] = "RESET"
        BY <2>1, <2>2 DEF RetryInv, ResetIsLast
      <3>3. connectionState = "RETRY_WAIT" => Head(timerCommands) = "RESET"
        BY <2>1, <3>2
      <3>4. connectionState = "RETRY_WAIT" => timerActive'
        BY <2>1, <3>3, Zenon
      <3>. QED
        BY <1>0, <1>1, <3>1, <3>4 DEF RetryInv, ResetIsLast, RetryScheduled
    <2>3. CASE Len(timerCommands) # 1
      <3>1. /\ Len(timerCommands') = Len(timerCommands) - 1
            /\ Len(timerCommands') \in DOMAIN timerCommands'
            /\ timerCommands'[Len(timerCommands')] = timerCommands[Len(timerCommands)]
        <4>1. Len(timerCommands) \in Nat \ {0}
          BY <2>1, EmptySeq
        <4>2. \A n \in Nat \ {0} : n # 1 => n > 1
          OBVIOUS
        <4>3. Len(timerCommands) > 1
          BY <2>3, <4>1, <4>2, Zenon
        <4>. QED
          BY <2>1, <4>3, TailKeepsLast
      <3>2. connectionState = "RETRY_WAIT"
              => timerCommands[Len(timerCommands)] = "RESET"
        BY <2>1 DEF RetryInv, ResetIsLast
      <3>3. connectionState = "RETRY_WAIT"
              => timerCommands'[Len(timerCommands')] = "RESET"
        BY <3>1, <3>2
      <3>. QED
        BY <1>0, <1>1, <3>1, <3>3 DEF RetryInv, ResetIsLast, RetryScheduled
    <2>. QED
      BY <2>2, <2>3
  <1>3. CASE vStaReconnectTimerCB
    <2>1. /\ wifiQueue \in Seq(Event) /\ SendEvent("RETRY_TIMEOUT")
          /\ UNCHANGED timerCommands
      BY <1>3 DEF TypeOK, vStaReconnectTimerCB
    <2>2. \/ "event" \in refused'
          \/ /\ Len(wifiQueue') \in DOMAIN wifiQueue'
             /\ wifiQueue'[Len(wifiQueue')] = "RETRY_TIMEOUT"
      BY <2>1 DEF SendEvent, Event
    <2>. QED
      BY <1>0, <1>1, <2>1, <2>2 DEF RetryInv, ResetIsLast, RetryScheduled
  <1>. QED
    BY <1>2, <1>3 DEF TimerTask

LEMMA RetryFsm == TypeOK /\ RetryInv /\ wifiFSTMTask => RetryInv'
  <1> SUFFICES ASSUME TypeOK, RetryInv, wifiFSTMTask PROVE RetryInv'
    OBVIOUS
  <1>0. /\ wifiQueue \in Seq(Event)
        /\ timerCommands \in Seq({"RESET", "STOP"})
        /\ UNCHANGED timerActive
    BY DEF TypeOK, wifiFSTMTask
  <1>1. ASSUME connectionState' \notin {"IDLE", "RETRY_WAIT"}, fsmPc' = "receive"
        PROVE  RetryInv'
    BY <1>1 DEF RetryInv, BeginPhase, ResetIsLast, RetryScheduled
  <1>2. CASE Start
    BY <1>2 DEF Start, Receive, RetryInv, BeginPhase, ResetIsLast, RetryScheduled
  <1>3. CASE Begin \/ Connected \/ GotIp \/ LostIp
    BY <1>1, <1>3 DEF Begin, Connected, GotIp, LostIp, Receive
  <1>4. CASE DisconnectedBeforeIp
    <2>1. PICK state : Receive(state, "DISCONNECTED")
      BY <1>4 DEF DisconnectedBeforeIp
    <2>2. fsmPc = "receive" /\ fsmPc' = fsmPc /\ CommandTimer("RESET", "RETRY_WAIT")
      BY <1>4, <2>1 DEF DisconnectedBeforeIp, Receive
    <2>3. CASE UNCHANGED <<timerCommands, connectionState>>
      <3>1. "event" \notin refused' => "event" \notin refused
        BY <2>2 DEF CommandTimer
      <3>2. \A i \in DOMAIN wifiQueue : wifiQueue[i] = "RETRY_TIMEOUT" =>
              \E j \in DOMAIN wifiQueue' : wifiQueue'[j] = "RETRY_TIMEOUT"
        BY <1>0, <2>1, ReceiveKeepsOthers
      <3>. QED
        BY <1>0, <2>2, <2>3, <3>1, <3>2
        DEF RetryInv, BeginPhase, ResetIsLast, RetryScheduled
    <2>4. CASE /\ connectionState' = "RETRY_WAIT"
               /\ Len(timerCommands') \in DOMAIN timerCommands'
               /\ timerCommands'[Len(timerCommands')] = "RESET"
      BY <2>2, <2>4 DEF RetryInv, BeginPhase, ResetIsLast, RetryScheduled
    <2>. QED
      BY <1>0, <2>2, <2>3, <2>4, CommandIsLast
  <1>5. CASE Disconnected
    <2>1. /\ fsmPc' = "receive" /\ connectionState = "GOT_IP"
          /\ CommandTimer("RESET", "RETRY_WAIT")
      BY <1>5 DEF Disconnected, Receive
    <2>2. CASE UNCHANGED <<timerCommands, connectionState>>
      BY <1>1, <2>1, <2>2
    <2>3. CASE /\ connectionState' = "RETRY_WAIT"
               /\ Len(timerCommands') \in DOMAIN timerCommands'
               /\ timerCommands'[Len(timerCommands')] = "RESET"
      BY <2>1, <2>3 DEF RetryInv, BeginPhase, ResetIsLast, RetryScheduled
    <2>. QED
      BY <1>0, <2>1, <2>2, <2>3, CommandIsLast
  <1>6. CASE Reconnected
    <2>1. /\ fsmPc' = "receive" /\ connectionState = "RETRY_WAIT"
          /\ Receive("RETRY_WAIT", "STA_CONNECTED")
      BY <1>6 DEF Reconnected, Receive
    <2>2. CASE connectionState' = "CONNECTED"
      BY <1>1, <2>1, <2>2
    <2>3. CASE timerActive /\ UNCHANGED <<timerCommands, connectionState>>
      BY <1>0, <2>1, <2>3 DEF RetryInv, BeginPhase, ResetIsLast, RetryScheduled
    <2>. QED
      BY <1>0, <1>6, <2>2, <2>3, CommandIsLast DEF Reconnected
  <1>7. CASE RetryTimeout
    BY <1>0, <1>1, <1>7
    DEF RetryTimeout, Receive, RetryInv, BeginPhase, ResetIsLast, RetryScheduled
  <1>8. CASE Unhandled
    <2>1. PICK event \in Event :
            /\ Receive(connectionState, event)
            /\ <<connectionState, event>> \notin Handled
      BY <1>8 DEF Unhandled
    <2>2. UNCHANGED <<connectionState, fsmPc, timerCommands, refused>>
      BY <1>8 DEF Unhandled, fsmVars
    <2>3. ASSUME connectionState = "RETRY_WAIT",
                 NEW i \in DOMAIN wifiQueue, wifiQueue[i] = "RETRY_TIMEOUT"
          PROVE  \E j \in DOMAIN wifiQueue' : wifiQueue'[j] = "RETRY_TIMEOUT"
      <3>1. event # "RETRY_TIMEOUT"
        BY <2>1, <2>3 DEF Handled
      <3>. QED
        BY <1>0, <2>1, <2>3, <3>1, ReceiveKeepsOthers
    <2>. QED
      BY <1>0, <2>2, <2>3 DEF RetryInv, BeginPhase, ResetIsLast, RetryScheduled
  <1>. QED
    BY <1>2, <1>3, <1>4, <1>5, <1>6, <1>7, <1>8 DEF wifiFSTMTask

LEMMA RetryInvariant == TypeOK /\ RetryInv /\ [Next]_vars => RetryInv'
  <1>1. RetryInv /\ UNCHANGED vars => RetryInv'
    BY DEF RetryInv, BeginPhase, ResetIsLast, RetryScheduled,
           vars, fsmVars, timerVars, linkVars
  <1>. QED
    BY <1>1, RetryRadio, RetryHandler, RetryTimer, RetryFsm DEF Next

\* wifi_service.cpp:112-184: RETRY_WAIT is entered only with the timer
\* ordered, and is left before the timer is stopped.
THEOREM RetryAlwaysScheduled == SafeSpec => []RetryScheduled
  <1>1. Init => RetryInv
    BY DEF Init, RetryInv, BeginPhase, ResetIsLast, RetryScheduled
  <1>2. RetryInv => RetryScheduled
    BY DEF RetryInv
  <1>. QED
    BY <1>1, <1>2, RetryInvariant, WifiTypeCorrect, PTL DEF SafeSpec

----------------------------------------------------------------------------
(* Up and down alternate *)

UpDownInv == BeginPhase /\ NetworkEventsAlternate

\* A post tells the application its event and changes nothing told before.
LEMMA PostTells ==
  ASSUME posted \in Seq({"NETWORK_UP", "NETWORK_DOWN"}),
         NEW event \in {"NETWORK_UP", "NETWORK_DOWN"}, event_post(event)
  PROVE  /\ Told' = event
         /\ \A i \in DOMAIN posted' :
              \/ i \in DOMAIN posted /\ posted'[i] = posted[i]
                   /\ ToldAfter(i - 1)' = ToldAfter(i - 1)
              \/ posted'[i] = event /\ ToldAfter(i - 1)' = Told
  <1> DEFINE n == Len(posted)
  <1>1. n \in Nat /\ DOMAIN posted = 1 .. n
    OBVIOUS
  <1>2. /\ Len(posted') = n + 1
        /\ DOMAIN posted' = 1 .. n + 1
        /\ posted'[n + 1] = event
        /\ \A i \in 1 .. n : posted'[i] = posted[i]
    BY DEF event_post
  <1>. HIDE DEF n
  <1>3. \A i \in 0 .. n : ToldAfter(i)' = ToldAfter(i)
    BY <1>1, <1>2 DEF ToldAfter
  <1>4. Told' = event /\ Told = ToldAfter(n)
    BY <1>1, <1>2 DEF Told, ToldAfter, n
  <1>5. ASSUME NEW i \in 1 .. n + 1
        PROVE  i - 1 \in 0 .. n /\ (i \in 1 .. n \/ i = n + 1)
    BY <1>1
  <1>6. ASSUME NEW i \in 1 .. n + 1
        PROVE  \/ i \in DOMAIN posted /\ posted'[i] = posted[i]
                    /\ ToldAfter(i - 1)' = ToldAfter(i - 1)
               \/ posted'[i] = event /\ ToldAfter(i - 1)' = Told
    <2>1. i - 1 \in 0 .. n /\ ToldAfter(i - 1)' = ToldAfter(i - 1)
      BY <1>3, <1>5
    <2>2. CASE i \in 1 .. n
      BY <1>1, <1>2, <2>1, <2>2
    <2>3. CASE i = n + 1
      <3>1. i - 1 = n
        BY <1>1, <2>3
      <3>. QED
        BY <1>2, <1>4, <2>1, <2>3, <3>1
    <2>. QED
      BY <1>5, <2>2, <2>3
  <1>. QED
    BY <1>2, <1>4, <1>6

\* What leaves the posts and GOT_IP alone keeps the alternation.
LEMMA AlternationStutters ==
  ASSUME NetworkEventsAlternate, UNCHANGED posted, "timer" \in refused => "timer" \in refused',
         connectionState' = "GOT_IP" <=> connectionState = "GOT_IP"
  PROVE  NetworkEventsAlternate'
  BY DEF NetworkEventsAlternate, Told, ToldAfter

LEMMA UpDownFsm == TypeOK /\ UpDownInv /\ wifiFSTMTask => UpDownInv'
  <1> SUFFICES ASSUME TypeOK, UpDownInv, wifiFSTMTask PROVE UpDownInv'
    OBVIOUS
  <1>0. posted \in Seq({"NETWORK_UP", "NETWORK_DOWN"})
    BY DEF TypeOK
  <1>1. BeginPhase'
    BY DEF UpDownInv, BeginPhase, wifiFSTMTask, Start, Begin, Connected,
           DisconnectedBeforeIp, GotIp, Reconnected, RetryTimeout, LostIp,
           Disconnected, Unhandled, Receive, CommandTimer, fsmVars
  <1>2. "timer" \in refused => "timer" \in refused'
    BY DEF wifiFSTMTask, Start, Begin, Connected,
           DisconnectedBeforeIp, GotIp, Reconnected, RetryTimeout, LostIp,
           Disconnected, Unhandled, CommandTimer
  <1>3. ASSUME UNCHANGED posted,
               connectionState' = "GOT_IP" <=> connectionState = "GOT_IP"
        PROVE  UpDownInv'
    BY <1>1, <1>2, <1>3, AlternationStutters DEF UpDownInv
  <1>4. CASE GotIp
    <2>1. connectionState # "GOT_IP" /\ connectionState' = "GOT_IP"
      BY <1>4 DEF GotIp, Receive
    <2>2. event_post("NETWORK_UP")
      BY <1>4 DEF GotIp
    <2>3. /\ Told = "NETWORK_DOWN" /\ Told' = "NETWORK_UP"
          /\ \A i \in DOMAIN posted' :
               \/ i \in DOMAIN posted /\ posted'[i] = posted[i]
                    /\ ToldAfter(i - 1)' = ToldAfter(i - 1)
               \/ posted'[i] = "NETWORK_UP" /\ ToldAfter(i - 1)' = Told
      BY <1>0, <2>1, <2>2, PostTells DEF UpDownInv, NetworkEventsAlternate
    <2>. QED
      BY <1>1, <1>2, <2>1, <2>3 DEF UpDownInv, NetworkEventsAlternate
  <1>5. CASE LostIp \/ Disconnected
    <2>1. connectionState = "GOT_IP" /\ event_post("NETWORK_DOWN")
      BY <1>5 DEF LostIp, Disconnected, Receive
    <2>2. "timer" \in refused' \/ connectionState' # "GOT_IP"
      BY <1>5 DEF LostIp, Disconnected, CommandTimer
    <2>3. /\ Told' = "NETWORK_DOWN"
          /\ \A i \in DOMAIN posted' :
               \/ i \in DOMAIN posted /\ posted'[i] = posted[i]
                    /\ ToldAfter(i - 1)' = ToldAfter(i - 1)
               \/ posted'[i] = "NETWORK_DOWN" /\ ToldAfter(i - 1)' = Told
      BY <1>0, <2>1, PostTells
    <2>. QED
      BY <1>1, <1>2, <2>1, <2>2, <2>3 DEF UpDownInv, NetworkEventsAlternate
  <1>6. CASE Begin
    BY <1>3, <1>6 DEF Begin, UpDownInv, BeginPhase
  <1>7. CASE \/ Start \/ Connected \/ DisconnectedBeforeIp \/ Reconnected
             \/ RetryTimeout \/ Unhandled
    <2>1. /\ UNCHANGED posted
          /\ connectionState' = "GOT_IP" <=> connectionState = "GOT_IP"
      BY <1>7 DEF Start, Connected, DisconnectedBeforeIp, Reconnected,
                  RetryTimeout, Unhandled, Receive, CommandTimer, fsmVars
    <2>. QED
      BY <1>3, <2>1
  <1>. QED
    BY <1>4, <1>5, <1>6, <1>7 DEF wifiFSTMTask

LEMMA UpDownInvariant == TypeOK /\ UpDownInv /\ [Next]_vars => UpDownInv'
  <1> SUFFICES ASSUME TypeOK, UpDownInv, [Next]_vars PROVE UpDownInv'
    OBVIOUS
  <1>1. CASE Radio \/ wifiEventHandler \/ TimerTask \/ UNCHANGED vars
    <2>1. /\ UNCHANGED <<connectionState, fsmPc, posted>>
          /\ "timer" \in refused => "timer" \in refused'
      BY <1>1 DEF Radio, wifiEventHandler, TimerTask, CarryOutCommand,
                  vStaReconnectTimerCB, SendEvent, vars, fsmVars
    <2>. QED
      BY <2>1, AlternationStutters DEF UpDownInv, BeginPhase
  <1>. QED
    BY <1>1, UpDownFsm DEF Next

\* wifi_service.cpp:139-145 and 187-204: event_post is not given two ups in a
\* row, and the machine does not leave GOT_IP without a down; as long as no
\* timer command was refused the two alternate, starting with an up.
THEOREM UpAndDownAlternate == SafeSpec => []NetworkEventsAlternate
  <1>1. Init => UpDownInv
    BY DEF Init, UpDownInv, BeginPhase, NetworkEventsAlternate, Told, ToldAfter
  <1>2. UpDownInv => NetworkEventsAlternate
    BY DEF UpDownInv
  <1>. QED
    BY <1>1, <1>2, UpDownInvariant, WifiTypeCorrect, PTL DEF SafeSpec

----------------------------------------------------------------------------
(* The state machine follows the radio *)

\* Where the radio is, as the events tell it, and where the machine takes it to be.
Phase == {"down", "associated", "ip"}
LinkPhase == IF link \in {"associated", "ip"} THEN link ELSE "down"
StatePhase ==
  IF connectionState = "GOT_IP" THEN "ip"
  ELSE IF connectionState = "CONNECTED" THEN "associated" ELSE "down"

\* An event tells of the radio's move from one phase to another.
Tells(event, from, to) ==
  /\ event = "STA_CONNECTED" => from = "down" /\ to = "associated"
  /\ event = "GOT_IP" => from = "associated" /\ to = "ip"
  /\ event = "LOST_IP" => to = IF from = "ip" THEN "associated" ELSE from
  /\ event = "DISCONNECTED" => to = "down"
  /\ event \in {"START", "RETRY_TIMEOUT"} => to = from

\* The phases the radio had between the events of a queue.
Route(r, q) ==
  /\ r \in [0 .. Len(q) -> Phase]
  /\ \A i \in 1 .. Len(q) : Tells(q[i], r[i - 1], r[i])

\* The route ends where the radio is now, but for the event not yet handled.
EndPhases ==
  {phase \in Phase :
     IF incoming = "NONE" THEN phase = LinkPhase ELSE Tells(incoming, phase, LinkPhase)}

\* It begins where the machine is; a retry timeout that finds the radio up may
\* have put the machine ahead of the event that tells of it.
BeginsAtState(r) ==
  \/ r[0] = StatePhase
  \/ /\ connectionState = "CONNECTED" /\ r[0] = "down"
     /\ \E i \in DOMAIN r : r[i] # "down"

RouteKnown ==
  \E r : Route(r, wifiQueue) /\ r[Len(wifiQueue)] \in EndPhases /\ BeginsAtState(r)

\* The machine leaves IDLE by the event it was started with.
StartIsFirst ==
  connectionState = "IDLE" /\ fsmPc = "receive" =>
    wifiQueue # <<>> /\ Head(wifiQueue) = "START"

\* A radio that went off since WiFi.begin has said so.
OffIsTold ==
  connectionState = "CONNECTING" /\ link = "off" =>
    \/ incoming = "DISCONNECTED"
    \/ \E i \in DOMAIN wifiQueue : wifiQueue[i] = "DISCONNECTED"

FollowInv ==
  refused = {} => StartIsFirst /\ OffIsTold /\ RouteKnown

\* An event at the end of the queue lengthens the route.
LEMMA RouteAppend ==
  ASSUME NEW q \in Seq(Event), NEW r, Route(r, q), NEW event \in Event,
         NEW to \in Phase, Tells(event, r[Len(q)], to)
  PROVE  \E s : /\ Route(s, Append(q, event))
                /\ s[Len(Append(q, event))] = to
                /\ \A i \in DOMAIN r : i \in DOMAIN s /\ s[i] = r[i]
  <1> DEFINE n == Len(q)
             s == [i \in 0 .. n + 1 |-> IF i = n + 1 THEN to ELSE r[i]]
  <1>1. /\ n \in Nat /\ Len(Append(q, event)) = n + 1
        /\ \A i \in 1 .. n : Append(q, event)[i] = q[i]
        /\ Append(q, event)[n + 1] = event
    OBVIOUS
  <1>2. r \in [0 .. n -> Phase] /\ \A i \in 1 .. n : Tells(q[i], r[i - 1], r[i])
    BY DEF Route
  <1>3. Tells(event, r[n], to)
    OBVIOUS
  <1> HIDE DEF n
  <1>4. s \in [0 .. n + 1 -> Phase]
    BY <1>1, <1>2
  <1>5. \A i \in 1 .. n + 1 : Tells(Append(q, event)[i], s[i - 1], s[i])
    <2> SUFFICES ASSUME NEW i \in 1 .. n + 1
                 PROVE  Tells(Append(q, event)[i], s[i - 1], s[i])
      OBVIOUS
    <2>1. CASE i \in 1 .. n
      <3>1. s[i - 1] = r[i - 1] /\ s[i] = r[i]
        BY <1>1, <2>1
      <3> QED
        BY <1>1, <1>2, <2>1, <3>1
    <2>2. CASE i = n + 1
      <3>1. s[i - 1] = r[n] /\ s[i] = to
        BY <1>1, <2>2
      <3> QED
        BY <1>1, <1>3, <2>2, <3>1
    <2>. QED
      BY <1>1, <2>1, <2>2
  <1>6. s[n + 1] = to /\ \A i \in 0 .. n : i \in DOMAIN s /\ s[i] = r[i]
    BY <1>1
  <1>7. Route(s, Append(q, event))
    BY <1>1, <1>4, <1>5 DEF Route
  <1>. QED
    BY <1>1, <1>2, <1>6, <1>7

\* Taking the first event shortens it.
LEMMA RouteTail ==
  ASSUME NEW q \in Seq(Event), q # <<>>, NEW r, Route(r, q)
  PROVE  \E s : /\ Route(s, Tail(q))
                /\ s[Len(Tail(q))] = r[Len(q)]
                /\ s[0] = r[1] /\ 0 \in DOMAIN s
                /\ \A i \in DOMAIN r \ {0} : i - 1 \in DOMAIN s /\ s[i - 1] = r[i]
                /\ Tells(Head(q), r[0], r[1])
                /\ r[0] \in Phase /\ r[1] \in Phase
  <1> DEFINE n == Len(q)
             s == [i \in 0 .. n - 1 |-> r[i + 1]]
  <1>1. /\ n \in Nat \ {0} /\ Len(Tail(q)) = n - 1 /\ Head(q) = q[1]
        /\ \A i \in 1 .. n - 1 : Tail(q)[i] = q[i + 1]
    OBVIOUS
  <1>2. r \in [0 .. n -> Phase] /\ \A i \in 1 .. n : Tells(q[i], r[i - 1], r[i])
    BY DEF Route
  <1> HIDE DEF n
  <1>3. s \in [0 .. n - 1 -> Phase]
    BY <1>1, <1>2
  <1>4. \A i \in 1 .. n - 1 : Tells(Tail(q)[i], s[i - 1], s[i])
    <2> SUFFICES ASSUME NEW i \in 1 .. n - 1
                 PROVE  Tells(Tail(q)[i], s[i - 1], s[i])
      OBVIOUS
    <2>1. s[i - 1] = r[i] /\ s[i] = r[i + 1] /\ Tail(q)[i] = q[i + 1]
      BY <1>1
    <2>2. i + 1 \in 1 .. n /\ (i + 1) - 1 = i
      BY <1>1
    <2>3. Tells(q[i + 1], r[i], r[i + 1])
      BY <1>2, <2>2
    <2>. QED
      BY <2>1, <2>3
  <1>5. Route(s, Tail(q))
    BY <1>1, <1>3, <1>4 DEF Route
  <1>6. Tells(q[1], r[0], r[1]) /\ r[0] \in Phase /\ r[1] \in Phase
    <2>1. 1 \in 1 .. n /\ 1 - 1 = 0 /\ 0 \in 0 .. n /\ 1 \in 0 .. n
      BY <1>1
    <2>. QED
      BY <1>2, <2>1
  <1>7. /\ s[n - 1] = r[n] /\ s[0] = r[1] /\ 0 \in DOMAIN s
        /\ \A i \in 0 .. n : i # 0 => i - 1 \in DOMAIN s /\ s[i - 1] = r[i]
    BY <1>1
  <1>. QED
    BY <1>1, <1>2, <1>5, <1>6, <1>7

LEMMA FollowRadio == TypeOK /\ FollowInv /\ Radio => FollowInv'
  <1> SUFFICES ASSUME TypeOK, FollowInv, Radio, refused' = {}
               PROVE  (StartIsFirst /\ OffIsTold /\ RouteKnown)'
    BY DEF FollowInv
  <1>1. /\ UNCHANGED <<wifiQueue, connectionState, fsmPc, refused>>
        /\ StartIsFirst /\ OffIsTold /\ RouteKnown
    BY DEF Radio, fsmVars, FollowInv
  <1>2. link' = "off" => link = "off" \/ incoming' = "DISCONNECTED"
    BY DEF Radio, Associate, ObtainIp, LoseLink, LoseIp, ReportLostIp, RetryByItself,
       LinkMoves
  <1>3. incoming # "NONE" => incoming' = incoming
    BY DEF Radio, Associate, ObtainIp, LoseLink, LoseIp, ReportLostIp, RetryByItself,
       LinkMoves
  <1>4. (StartIsFirst /\ OffIsTold)'
    BY <1>1, <1>2, <1>3 DEF StartIsFirst, OffIsTold
  <1>5. \A phase \in Phase : phase \in EndPhases =>
          IF incoming' = "NONE" THEN phase = LinkPhase' ELSE Tells(incoming', phase, LinkPhase')
    <2>1. CASE RetryByItself
      BY <2>1 DEF RetryByItself, EndPhases, LinkPhase
    <2>2. CASE Associate \/ ObtainIp
      BY <2>2 DEF Associate, ObtainIp, LinkMoves, EndPhases, LinkPhase, Tells
    <2>3. CASE LoseLink \/ LoseIp \/ ReportLostIp
      BY <2>3 DEF LoseLink, LoseIp, ReportLostIp, LinkMoves, EndPhases, LinkPhase, Tells
    <2>. QED
      BY <2>1, <2>2, <2>3 DEF Radio
  <1>6. PICK r : Route(r, wifiQueue) /\ r[Len(wifiQueue)] \in EndPhases /\ BeginsAtState(r)
    BY <1>1 DEF RouteKnown
  <1>7. r[Len(wifiQueue)] \in Phase
    BY <1>6 DEF Route, TypeOK
  <1>8. RouteKnown'
    BY <1>1, <1>5, <1>6, <1>7 DEF RouteKnown, EndPhases, BeginsAtState, StatePhase, Route
  <1>. QED
    BY <1>4, <1>8

\* An event that is sent, the one from the radio or a retry timeout.
LEMMA FollowSend ==
  ASSUME TypeOK, FollowInv, refused' = {}, NEW event \in Event, SendEvent(event),
         UNCHANGED <<connectionState, fsmPc, link>>,
         \/ event = incoming /\ incoming' = "NONE"
         \/ event = "RETRY_TIMEOUT" /\ incoming' = incoming
  PROVE  FollowInv'
  <1>1. refused = {} /\ wifiQueue \in Seq(Event) /\ wifiQueue' = Append(wifiQueue, event)
    BY DEF SendEvent, TypeOK
  <1>2. StartIsFirst /\ OffIsTold /\ RouteKnown
    BY <1>1 DEF FollowInv
  <1>3. StartIsFirst'
    BY <1>1, <1>2 DEF StartIsFirst
  <1>4. /\ \A i \in DOMAIN wifiQueue : i \in DOMAIN wifiQueue' /\ wifiQueue'[i] = wifiQueue[i]
        /\ Len(wifiQueue') \in DOMAIN wifiQueue' /\ wifiQueue'[Len(wifiQueue')] = event
    BY <1>1
  <1>5. OffIsTold'
    BY <1>2, <1>4 DEF OffIsTold
  <1>6. PICK r : Route(r, wifiQueue) /\ r[Len(wifiQueue)] \in EndPhases /\ BeginsAtState(r)
    BY <1>2 DEF RouteKnown
  <1>7. r[Len(wifiQueue)] \in Phase /\ 0 \in DOMAIN r
    BY <1>1, <1>6 DEF Route
  <1>8. LinkPhase' = LinkPhase /\ StatePhase' = StatePhase /\ LinkPhase \in Phase
    BY DEF LinkPhase, StatePhase, Phase
  <1> DEFINE to == IF event = "RETRY_TIMEOUT" THEN r[Len(wifiQueue)] ELSE LinkPhase
  <1>9. to \in Phase /\ Tells(event, r[Len(wifiQueue)], to)
    BY <1>6, <1>7, <1>8 DEF EndPhases, Tells, Event, LinkEvent
  <1> HIDE DEF to
  <1>10. PICK s : /\ Route(s, wifiQueue') /\ s[Len(wifiQueue')] = to
                  /\ \A i \in DOMAIN r : i \in DOMAIN s /\ s[i] = r[i]
    BY <1>1, <1>6, <1>9, RouteAppend
  <1>11. s[Len(wifiQueue')] \in EndPhases'
    <2>1. CASE event = "RETRY_TIMEOUT" /\ incoming' = incoming
      BY <1>6, <1>8, <1>10, <2>1 DEF EndPhases, to
    <2>2. CASE event = incoming /\ incoming' = "NONE"
      <3>1. event # "RETRY_TIMEOUT"
        BY <2>2 DEF TypeOK, LinkEvent
      <3>. QED
        BY <1>8, <1>10, <2>2, <3>1 DEF EndPhases, to
    <2>. QED
      BY <2>1, <2>2
  <1>12. BeginsAtState(s)'
    BY <1>6, <1>7, <1>8, <1>10 DEF BeginsAtState
  <1>13. RouteKnown'
    BY <1>10, <1>11, <1>12 DEF RouteKnown, EndPhases, BeginsAtState
  <1>. QED
    BY <1>3, <1>5, <1>13 DEF FollowInv

\* What is known of the route when the machine has received an event.
LEMMA RouteReceived ==
  ASSUME TypeOK, RouteKnown, NEW state, NEW event, Receive(state, event),
         UNCHANGED <<link, incoming>>
  PROVE  \E s : \E x, y \in Phase :
           /\ Route(s, wifiQueue')
           /\ s[Len(wifiQueue')] \in EndPhases
           /\ Tells(event, x, y) /\ s[0] = y /\ 0 \in DOMAIN s
           /\ \/ x = StatePhase
              \/ /\ connectionState = "CONNECTED" /\ x = "down"
                 /\ \E i \in DOMAIN s : s[i] # "down"
  <1>1. PICK r : Route(r, wifiQueue) /\ r[Len(wifiQueue)] \in EndPhases /\ BeginsAtState(r)
    BY DEF RouteKnown
  <1>2. /\ wifiQueue \in Seq(Event) /\ wifiQueue # <<>> /\ Head(wifiQueue) = event
        /\ wifiQueue' = Tail(wifiQueue)
    BY DEF TypeOK, Receive
  <1>3. PICK s : /\ Route(s, Tail(wifiQueue))
                 /\ s[Len(Tail(wifiQueue))] = r[Len(wifiQueue)]
                 /\ s[0] = r[1] /\ 0 \in DOMAIN s
                 /\ \A i \in DOMAIN r \ {0} : i - 1 \in DOMAIN s /\ s[i - 1] = r[i]
                 /\ Tells(Head(wifiQueue), r[0], r[1])
                 /\ r[0] \in Phase /\ r[1] \in Phase
    BY <1>1, <1>2, RouteTail
  <1>4. r[0] = StatePhase
        \/ (/\ connectionState = "CONNECTED" /\ r[0] = "down"
            /\ \E i \in DOMAIN s : s[i] # "down")
    <2>1. ASSUME r[0] = "down", NEW i \in DOMAIN r, r[i] # "down"
          PROVE  \E j \in DOMAIN s : s[j] # "down"
      <3>1. i \in DOMAIN r \ {0}
        BY <2>1
      <3>2. i - 1 \in DOMAIN s /\ s[i - 1] # "down"
        BY <1>3, <2>1, <3>1
      <3>. QED
        BY <3>2
    <2>. QED
      BY <1>1, <2>1 DEF BeginsAtState
  <1>5. /\ Route(s, wifiQueue')
        /\ s[Len(wifiQueue')] \in EndPhases
        /\ Tells(event, r[0], r[1])
    BY <1>1, <1>2, <1>3
  <1>. QED
    BY <1>3, <1>4, <1>5

LEMMA FollowFsm == TypeOK /\ BeginPhase /\ FollowInv /\ wifiFSTMTask => FollowInv'
  <1> SUFFICES ASSUME TypeOK, BeginPhase, FollowInv, wifiFSTMTask, refused' = {}
               PROVE  (StartIsFirst /\ OffIsTold /\ RouteKnown)'
    BY DEF FollowInv
  <1>0. /\ refused = {} /\ UNCHANGED incoming
        /\ wifiQueue \in Seq(Event)
    BY DEF wifiFSTMTask, Start, Begin, Connected, DisconnectedBeforeIp, GotIp,
       Reconnected, RetryTimeout, LostIp, Disconnected, Unhandled, CommandTimer, TypeOK
  <1>1. StartIsFirst /\ OffIsTold /\ RouteKnown
    BY <1>0 DEF FollowInv
  <1>2. CASE Begin
    <2>1. /\ UNCHANGED wifiQueue
          /\ connectionState \in {"IDLE", "RETRY_WAIT"} /\ connectionState' = "CONNECTING"
          /\ link' # "off"
      BY <1>2 DEF Begin, BeginPhase
    <2>2. LinkPhase' = LinkPhase /\ StatePhase' = StatePhase
      BY <1>2, <2>1 DEF Begin, LinkPhase, StatePhase
    <2>3. PICK r : Route(r, wifiQueue) /\ r[Len(wifiQueue)] \in EndPhases /\ BeginsAtState(r)
      BY <1>1 DEF RouteKnown
    <2>4. r[0] = StatePhase'
      BY <2>1, <2>2, <2>3 DEF BeginsAtState
    <2>5. RouteKnown'
      BY <1>0, <2>1, <2>2, <2>3, <2>4 DEF RouteKnown, BeginsAtState, EndPhases
    <2>. QED
      BY <2>1, <2>5 DEF StartIsFirst, OffIsTold
  <1>3. CASE ~Begin
    <2>1. PICK event \in Event :
            /\ Receive(connectionState, event)
            /\ UNCHANGED link
            /\ \/ connectionState = "IDLE" /\ event = "START" /\ Start
               \/ connectionState = "CONNECTING" /\ event = "STA_CONNECTED"
                    /\ connectionState' = "CONNECTED"
               \/ event = "DISCONNECTED" /\ connectionState' = "RETRY_WAIT"
               \/ connectionState = "CONNECTED" /\ event = "GOT_IP"
                    /\ connectionState' = "GOT_IP"
               \/ connectionState = "RETRY_WAIT" /\ event = "STA_CONNECTED"
                    /\ connectionState' = "CONNECTED"
               \/ connectionState = "RETRY_WAIT" /\ event = "RETRY_TIMEOUT"
                    /\ connectionState' \in {"RETRY_WAIT", "CONNECTED"}
                    /\ (connectionState' = "CONNECTED" => link = "ip")
               \/ connectionState = "GOT_IP" /\ event = "LOST_IP"
                    /\ connectionState' = "CONNECTED"
               \/ <<connectionState, event>> \notin Handled
                    /\ connectionState' = connectionState
      <3>1. CASE Start
        BY <3>1 DEF Start, Receive, Event
      <3>2. CASE Connected \/ GotIp \/ LostIp
        BY <3>2 DEF Connected, GotIp, LostIp, Receive, Event, LinkEvent
      <3>3. CASE DisconnectedBeforeIp \/ Disconnected
        <4>1. connectionState' = "RETRY_WAIT" /\ UNCHANGED link
          BY <1>0, <3>3 DEF DisconnectedBeforeIp, Disconnected, CommandTimer
        <4>2. Receive(connectionState, "DISCONNECTED")
          BY <3>3 DEF DisconnectedBeforeIp, Disconnected, Receive
        <4>. QED
          BY <4>1, <4>2 DEF Event, LinkEvent
      <3>4. CASE Reconnected
        BY <1>0, <3>4 DEF Reconnected, CommandTimer, Receive, Event, LinkEvent
      <3>5. CASE RetryTimeout
        BY <3>5 DEF RetryTimeout, Receive, Event
      <3>6. CASE Unhandled
        BY <3>6 DEF Unhandled, fsmVars
      <3>. QED
        BY <1>3, <3>1, <3>2, <3>3, <3>4, <3>5, <3>6 DEF wifiFSTMTask
    <2>2. StartIsFirst'
      <3>1. CASE connectionState = "IDLE" /\ event = "START" /\ Start
        BY <3>1 DEF Start, StartIsFirst
      <3>2. CASE connectionState # "IDLE"
        BY <2>1, <3>2 DEF StartIsFirst
      <3>3. CASE connectionState = "IDLE" /\ ~(event = "START")
        BY <1>1, <2>1, <3>3 DEF Receive, StartIsFirst
      <3>4. CASE connectionState = "IDLE" /\ event = "START" /\ ~Start
        BY <2>1, <3>4 DEF Handled
      <3>. QED
        BY <3>1, <3>2, <3>3, <3>4
    <2>3. OffIsTold'
      <3>1. connectionState' = "CONNECTING" => connectionState = "CONNECTING" /\ event # "DISCONNECTED"
        BY <2>1 DEF Start, Handled
      <3>2. event # "DISCONNECTED" =>
              \A i \in DOMAIN wifiQueue : wifiQueue[i] = "DISCONNECTED" =>
                \E j \in DOMAIN wifiQueue' : wifiQueue'[j] = "DISCONNECTED"
        BY <1>0, <2>1, ReceiveKeepsOthers
      <3>. QED
        BY <1>0, <1>1, <2>1, <3>1, <3>2 DEF OffIsTold
    <2>4. RouteKnown'
      <3>1. PICK s : \E x, y \in Phase :
              /\ Route(s, wifiQueue')
              /\ s[Len(wifiQueue')] \in EndPhases
              /\ Tells(event, x, y) /\ s[0] = y /\ 0 \in DOMAIN s
              /\ \/ x = StatePhase
                 \/ /\ connectionState = "CONNECTED" /\ x = "down"
                    /\ \E i \in DOMAIN s : s[i] # "down"
        BY <1>0, <1>1, <2>1, RouteReceived
      <3>2. PICK x \in Phase, y \in Phase :
              /\ Tells(event, x, y) /\ s[0] = y /\ 0 \in DOMAIN s
              /\ \/ x = StatePhase
                 \/ /\ connectionState = "CONNECTED" /\ x = "down"
                    /\ \E i \in DOMAIN s : s[i] # "down"
        BY <3>1
      <3>3. s[Len(wifiQueue')] \in EndPhases'
        BY <1>0, <2>1, <3>1 DEF EndPhases, LinkPhase
      <3>4. link = "ip" => \E i \in DOMAIN s : s[i] # "down"
        <4>1. Len(wifiQueue') \in DOMAIN s
          <5>1. wifiQueue' \in Seq(Event)
            BY <1>0, <2>1 DEF Receive
          <5>. QED
            BY <3>1, <5>1 DEF Route
        <4>2. link = "ip" => "down" \notin EndPhases
          BY DEF EndPhases, LinkPhase, Tells, TypeOK, LinkEvent
        <4>. QED
          BY <3>1, <4>1, <4>2
      <3>5. connectionState \in State
        BY DEF TypeOK, State
      <3>6. BeginsAtState(s)'
        <4>1. CASE connectionState = "CONNECTED"
          BY <2>1, <3>2, <3>5, <4>1
          DEF BeginsAtState, StatePhase, Tells, Handled, Event, LinkEvent, Phase
        <4>2. CASE connectionState = "RETRY_WAIT"
          BY <2>1, <3>2, <3>4, <4>2
          DEF BeginsAtState, StatePhase, Tells, Handled, Event, LinkEvent, Phase
        <4>3. CASE connectionState = "CONNECTING"
          BY <2>1, <3>2, <4>3
          DEF BeginsAtState, StatePhase, Tells, Handled, Event, LinkEvent, Phase
        <4>4. CASE connectionState = "GOT_IP"
          BY <2>1, <3>2, <4>4
          DEF BeginsAtState, StatePhase, Tells, Handled, Event, LinkEvent, Phase
        <4>5. CASE connectionState = "IDLE"
          <5>1. event = "START" /\ connectionState' = "IDLE"
            <6>1. event = "START"
              BY <1>1, <2>1, <4>5 DEF Receive, StartIsFirst
            <6>. QED
              BY <2>1, <4>5, <6>1 DEF Start, Handled
          <5>. QED
            BY <3>2, <4>5, <5>1 DEF BeginsAtState, StatePhase, Tells
        <4>. QED
          BY <3>5, <4>1, <4>2, <4>3, <4>4, <4>5 DEF State
      <3>. QED
        BY <3>1, <3>3, <3>6 DEF RouteKnown, EndPhases, BeginsAtState
    <2>. QED
      BY <2>2, <2>3, <2>4
  <1>. QED
    BY <1>2, <1>3

LEMMA FollowInvariant == TypeOK /\ BeginPhase /\ FollowInv /\ [Next]_vars => FollowInv'
  <1> SUFFICES ASSUME TypeOK, BeginPhase, FollowInv, [Next]_vars PROVE FollowInv'
    OBVIOUS
  <1>1. CASE UNCHANGED vars \/ (TimerTask /\ CarryOutCommand)
    <2>1. UNCHANGED <<wifiQueue, connectionState, fsmPc, link, incoming, refused>>
      BY <1>1 DEF vars, fsmVars, linkVars, TimerTask, CarryOutCommand
    <2>. QED
      BY <2>1 DEF FollowInv, StartIsFirst, OffIsTold, RouteKnown, Route, EndPhases,
         BeginsAtState, LinkPhase, StatePhase
  <1>2. CASE wifiEventHandler
    <2>1. incoming \in Event /\ SendEvent(incoming) /\ incoming' = "NONE"
      BY <1>2 DEF wifiEventHandler, TypeOK, Event
    <2>2. UNCHANGED <<connectionState, fsmPc, link>>
      BY <1>2 DEF wifiEventHandler, fsmVars
    <2>. QED
      BY <2>1, <2>2, FollowSend DEF FollowInv
  <1>3. CASE TimerTask /\ vStaReconnectTimerCB
    <2>1. "RETRY_TIMEOUT" \in Event /\ SendEvent("RETRY_TIMEOUT") /\ incoming' = incoming
      BY <1>3 DEF TimerTask, vStaReconnectTimerCB, linkVars, Event
    <2>2. UNCHANGED <<connectionState, fsmPc, link>>
      BY <1>3 DEF TimerTask, fsmVars, linkVars
    <2>. QED
      BY <2>1, <2>2, FollowSend DEF FollowInv
  <1>. QED
    BY <1>1, <1>2, <1>3, FollowRadio, FollowFsm DEF Next, TimerTask

\* wifi_service.cpp:105-217: once every event is handled the machine is where
\* the radio is, and a radio that is off has a retry coming.
THEOREM MachineFollowsLink == SafeSpec => []FsmFollowsLink
  <1>1. Init => FollowInv
    <2> SUFFICES ASSUME Init PROVE StartIsFirst /\ OffIsTold /\ RouteKnown
      BY DEF FollowInv
    <2>1. StartIsFirst /\ OffIsTold
      BY DEF Init, StartIsFirst, OffIsTold
    <2>2. RouteKnown
      <3> DEFINE r == [i \in 0 .. 1 |-> "down"]
      <3>1. Len(wifiQueue) = 1 /\ wifiQueue[1] = "START"
        BY DEF Init
      <3>2. Route(r, wifiQueue)
        BY <3>1 DEF Route, Phase, Tells
      <3>3. r[Len(wifiQueue)] \in EndPhases /\ BeginsAtState(r)
        BY <3>1 DEF Init, EndPhases, BeginsAtState, LinkPhase, StatePhase, Phase
      <3>. QED
        BY <3>2, <3>3 DEF RouteKnown
    <2>. QED
      BY <2>1, <2>2
  <1>2. Init => RetryInv
    BY DEF Init, RetryInv, BeginPhase, ResetIsLast, RetryScheduled
  <1>3. RetryInv => BeginPhase
    BY DEF RetryInv
  <1>4. TypeOK /\ RetryInv /\ FollowInv => FsmFollowsLink
    <2> SUFFICES ASSUME TypeOK, RetryInv, FollowInv, Quiet, refused = {}
                 PROVE  /\ link = "ip" <=> connectionState = "GOT_IP"
                        /\ link = "associated" <=> connectionState = "CONNECTED"
                        /\ link = "off" => connectionState = "RETRY_WAIT" /\ timerActive
      BY DEF FsmFollowsLink
    <2>1. PICK r : Route(r, <<>>) /\ r[0] \in EndPhases /\ BeginsAtState(r)
      <3>1. wifiQueue = <<>> /\ Len(wifiQueue) = 0
        BY DEF Quiet
      <3>. QED
        BY <3>1 DEF FollowInv, RouteKnown
    <2>2. r[0] = LinkPhase /\ DOMAIN r = {0}
      BY <2>1 DEF Quiet, EndPhases, Route
    <2>3. LinkPhase = StatePhase
      BY <2>1, <2>2 DEF BeginsAtState
    <2>4. /\ link = "ip" <=> connectionState = "GOT_IP"
          /\ link = "associated" <=> connectionState = "CONNECTED"
      BY <2>3 DEF TypeOK, LinkPhase, StatePhase
    <2>5. link = "off" => connectionState = "RETRY_WAIT"
      BY <2>4 DEF TypeOK, FollowInv, StartIsFirst, OffIsTold, Quiet
    <2>6. connectionState = "RETRY_WAIT" => timerActive
      BY DEF RetryInv, RetryScheduled, Quiet
    <2>. QED
      BY <2>4, <2>5, <2>6
  <1>. QED
    BY <1>1, <1>2, <1>3, <1>4, FollowInvariant, RetryInvariant, WifiTypeCorrect, PTL
    DEF SafeSpec

\* wifi_service.cpp:105-217: once every event is handled the application was
\* last told what the link is, unless a queue has refused an entry.
THEOREM ApplicationIsTold == SafeSpec => []ApplicationKnowsLink
  <1>1. NetworkEventsAlternate /\ FsmFollowsLink => ApplicationKnowsLink
    BY DEF NetworkEventsAlternate, FsmFollowsLink, ApplicationKnowsLink
  <1>. QED
    BY <1>1, UpAndDownAlternate, MachineFollowsLink, PTL
=============================================================================
