---------------------------- MODULE WifiService ----------------------------
(***************************************************************************)
(* wifi_service.cpp: the state machine that keeps the station associated.  *)
(* Four parties run concurrently: the radio (external), the Arduino event  *)
(* task that calls wifiEventHandler, the FreeRTOS timer task with its own  *)
(* command queue (external), and wifiFSTMTask.  autoReconnect is true, as  *)
(* main.cpp configures it; wifi_stop has no caller.                        *)
(***************************************************************************)
EXTENDS Naturals, Sequences

CONSTANTS
  WifiCapacity,         \* xQueueCreate(30, ...)
  TimerQueueLength,     \* configTIMER_QUEUE_LENGTH
  MaxTroubles,          \* bound on what goes wrong with the link
  MaxOwnRetries         \* bound on the radio's own retries

ASSUME WifiAssumption ==
  /\ WifiCapacity \in Nat \ {0}
  /\ TimerQueueLength \in Nat \ {0}
  /\ MaxTroubles \in Nat
  /\ MaxOwnRetries \in Nat

VARIABLES
  wifiQueue,        \* xWifiQueueHandle
  connectionState,  \* wConnectionState
  fsmPc,            \* "begin": about to call WiFi.begin
  timerActive,      \* xStaReconnectTimer is running
  timerCommands,    \* the timer task's commands not yet carried out
  link,             \* what the radio has: nothing, an attempt, an AP, an IP
  incoming,         \* the event whose handler has not run, or "NONE"
  troubles,         \* how often the link has gone wrong
  ownRetries,       \* how often the radio has retried by itself
  posted,           \* the network events given to event_post, oldest first
  refused           \* which of the two queues has refused an entry so far

fsmVars == <<connectionState, fsmPc, posted>>
timerVars == <<timerActive, timerCommands>>
linkVars == <<link, incoming, troubles, ownRetries>>
vars == <<wifiQueue, fsmVars, timerVars, linkVars, refused>>

LinkEvent == {"STA_CONNECTED", "GOT_IP", "LOST_IP", "DISCONNECTED"}
Event == LinkEvent \cup {"START", "RETRY_TIMEOUT"}

\* wifi_start has posted its event and created the task.
Init ==
  /\ wifiQueue = <<"START">>
  /\ connectionState = "IDLE"
  /\ fsmPc = "receive"
  /\ timerActive = FALSE
  /\ timerCommands = <<>>
  /\ link = "off"
  /\ incoming = "NONE"
  /\ troubles = 0
  /\ ownRetries = 0
  /\ posted = <<>>
  /\ refused = {}

----------------------------------------------------------------------------
(* The queue *)

\* Mutant: the queue has no limit.
SendEventUnlimited(event) ==
  /\ wifiQueue' = Append(wifiQueue, event)
  /\ UNCHANGED refused

\* xQueueSend with no wait: a full queue loses the event.
SendEvent(event) ==
  IF Len(wifiQueue) < WifiCapacity
  THEN /\ wifiQueue' = Append(wifiQueue, event)
       /\ UNCHANGED refused
  ELSE /\ refused' = refused \cup {"event"}
       /\ UNCHANGED wifiQueue

\* The task receives this event in this state.
Receive(state, event) ==
  /\ fsmPc = "receive"
  /\ connectionState = state
  /\ wifiQueue # <<>>
  /\ Head(wifiQueue) = event
  /\ wifiQueue' = Tail(wifiQueue)

----------------------------------------------------------------------------
(* The radio and the event task *)

\* The radio moves and its event is on its way to wifiEventHandler.
LinkMoves(from, to, event) ==
  /\ incoming = "NONE"
  /\ link \in from
  /\ link' = to
  /\ incoming' = event

Trouble ==
  /\ troubles < MaxTroubles
  /\ troubles' = troubles + 1

Associate ==
  /\ LinkMoves({"trying"}, "associated", "STA_CONNECTED")
  /\ UNCHANGED <<troubles, ownRetries>>

ObtainIp ==
  /\ LinkMoves({"associated"}, "ip", "GOT_IP")
  /\ UNCHANGED <<troubles, ownRetries>>

\* An attempt fails, or the access point is lost.
LoseLink ==
  /\ LinkMoves({"trying", "associated", "ip"}, "off", "DISCONNECTED")
  /\ Trouble
  /\ UNCHANGED ownRetries

LoseIp ==
  /\ LinkMoves({"ip"}, "associated", "LOST_IP")
  /\ Trouble
  /\ UNCHANGED ownRetries

\* The stack reports the lost address only some time after the link is gone.
ReportLostIp ==
  /\ \E from \in {"off", "trying", "associated"} : LinkMoves({from}, from, "LOST_IP")
  /\ Trouble
  /\ UNCHANGED ownRetries

\* The radio tries again by itself, as the FSM allows for in RETRY_WAIT.
RetryByItself ==
  /\ link = "off"
  /\ troubles > 0
  /\ ownRetries < MaxOwnRetries
  /\ link' = "trying"
  /\ ownRetries' = ownRetries + 1
  /\ UNCHANGED <<incoming, troubles>>

Radio ==
  /\ \/ Associate \/ ObtainIp \/ LoseLink \/ LoseIp \/ ReportLostIp
     \/ RetryByItself
  /\ UNCHANGED <<wifiQueue, fsmVars, timerVars, refused>>

wifiEventHandler ==
  /\ incoming # "NONE"
  /\ SendEvent(incoming)
  /\ incoming' = "NONE"
  /\ UNCHANGED <<fsmVars, timerVars, link, troubles, ownRetries>>

----------------------------------------------------------------------------
(* The timer task *)

CarryOutCommand ==
  /\ timerCommands # <<>>
  /\ timerActive' = (Head(timerCommands) = "RESET")
  /\ timerCommands' = Tail(timerCommands)
  /\ UNCHANGED <<wifiQueue, refused>>

vStaReconnectTimerCB ==
  /\ timerActive
  /\ timerActive' = FALSE
  /\ SendEvent("RETRY_TIMEOUT")
  /\ UNCHANGED timerCommands

TimerTask ==
  (CarryOutCommand \/ vStaReconnectTimerCB) /\ UNCHANGED <<fsmVars, linkVars>>

----------------------------------------------------------------------------
(* wifiFSTMTask: one action per state and event it does something for *)

\* Mutant: the result of xTimerReset and xTimerStop is not looked at.
CommandTimerUnchecked(command, state) ==
  /\ connectionState' = state
  /\ timerCommands' = IF Len(timerCommands) < TimerQueueLength
                      THEN Append(timerCommands, command)
                      ELSE timerCommands
  /\ UNCHANGED refused

\* Give the timer task a command without waiting, then go to the state; when
\* its queue is full, the break leaves the state as it is.
CommandTimer(command, state) ==
  IF Len(timerCommands) < TimerQueueLength
  THEN /\ timerCommands' = Append(timerCommands, command)
       /\ connectionState' = state
       /\ UNCHANGED refused
  ELSE /\ refused' = refused \cup {"timer"}
       /\ UNCHANGED <<timerCommands, connectionState>>

\* event_post: whether the event loop has room belongs to the event service.
event_post(event) == posted' = Append(posted, event)

Start ==
  /\ Receive("IDLE", "START")
  /\ fsmPc' = "begin"
  /\ UNCHANGED <<connectionState, posted, timerCommands, link, refused>>

\* WiFi.begin: only a radio that is off has anything to do.
Begin ==
  /\ fsmPc = "begin"
  /\ link' = IF link = "off" THEN "trying" ELSE link
  /\ connectionState' = "CONNECTING"
  /\ fsmPc' = "receive"
  /\ UNCHANGED <<wifiQueue, posted, timerCommands, refused>>

Connected ==
  /\ Receive("CONNECTING", "STA_CONNECTED")
  /\ connectionState' = "CONNECTED"
  /\ UNCHANGED <<fsmPc, posted, timerCommands, link, refused>>

\* Before an address there is no one to tell.
DisconnectedBeforeIp ==
  /\ \E state \in {"CONNECTING", "CONNECTED", "RETRY_WAIT"} :
       Receive(state, "DISCONNECTED")
  /\ CommandTimer("RESET", "RETRY_WAIT")
  /\ UNCHANGED <<fsmPc, posted, link>>

GotIp ==
  /\ Receive("CONNECTED", "GOT_IP")
  /\ event_post("NETWORK_UP")
  /\ connectionState' = "GOT_IP"
  /\ UNCHANGED <<fsmPc, timerCommands, link, refused>>

\* Mutant: STA_CONNECTED is not expected in RETRY_WAIT.
ReconnectedUnexpected ==
  /\ Receive("RETRY_WAIT", "STA_CONNECTED")
  /\ UNCHANGED <<fsmVars, timerCommands, link, refused>>

\* The timer is stopped only if it is already running.
Reconnected ==
  /\ Receive("RETRY_WAIT", "STA_CONNECTED")
  /\ IF timerActive
     THEN CommandTimer("STOP", "CONNECTED")
     ELSE /\ connectionState' = "CONNECTED"
          /\ UNCHANGED <<timerCommands, refused>>
  /\ UNCHANGED <<fsmPc, posted, link>>

\* Mutant: the attempt is made only if the timer is still running.
RetryTimeoutNoAttempt ==
  /\ Receive("RETRY_WAIT", "RETRY_TIMEOUT")
  /\ IF timerActive
     THEN /\ fsmPc' = "begin"
          /\ UNCHANGED connectionState
     ELSE UNCHANGED <<connectionState, fsmPc>>
  /\ UNCHANGED <<posted, timerCommands, link, refused>>

\* wifi_is_connected() is asked here and WiFi.begin called later: the radio
\* may move in between.
RetryTimeout ==
  /\ Receive("RETRY_WAIT", "RETRY_TIMEOUT")
  /\ IF link = "ip"
     THEN /\ connectionState' = "CONNECTED"
          /\ UNCHANGED fsmPc
     ELSE /\ fsmPc' = "begin"
          /\ UNCHANGED connectionState
  /\ UNCHANGED <<posted, timerCommands, link, refused>>

\* Mutant: the network is not reported down.
LostIpSilently ==
  /\ Receive("GOT_IP", "LOST_IP")
  /\ connectionState' = "CONNECTED"
  /\ UNCHANGED <<fsmPc, posted, timerCommands, link, refused>>

LostIp ==
  /\ Receive("GOT_IP", "LOST_IP")
  /\ event_post("NETWORK_DOWN")
  /\ connectionState' = "CONNECTED"
  /\ UNCHANGED <<fsmPc, timerCommands, link, refused>>

Disconnected ==
  /\ Receive("GOT_IP", "DISCONNECTED")
  /\ event_post("NETWORK_DOWN")
  /\ CommandTimer("RESET", "RETRY_WAIT")
  /\ UNCHANGED <<fsmPc, link>>

\* Everything else is only logged; LOST_IP in RETRY_WAIT stays there.
Handled ==
  {<<"IDLE", "START">>, <<"CONNECTING", "STA_CONNECTED">>,
   <<"CONNECTED", "GOT_IP">>, <<"RETRY_WAIT", "STA_CONNECTED">>,
   <<"RETRY_WAIT", "RETRY_TIMEOUT">>, <<"GOT_IP", "LOST_IP">>} \cup
  ({"CONNECTING", "CONNECTED", "RETRY_WAIT", "GOT_IP"} \X {"DISCONNECTED"})

Unhandled ==
  /\ \E event \in Event :
       /\ Receive(connectionState, event)
       /\ <<connectionState, event>> \notin Handled
  /\ UNCHANGED <<fsmVars, timerCommands, link, refused>>

wifiFSTMTask ==
  /\ \/ Start \/ Begin \/ Connected \/ DisconnectedBeforeIp \/ GotIp
     \/ Reconnected \/ RetryTimeout \/ LostIp \/ Disconnected \/ Unhandled
  /\ UNCHANGED <<timerActive, incoming, troubles, ownRetries>>

----------------------------------------------------------------------------
Next == Radio \/ wifiEventHandler \/ TimerTask \/ wifiFSTMTask

SafeSpec == Init /\ [][Next]_vars

\* The three tasks are runnable whenever they have something to do, and a
\* running timer expires; nothing is assumed of the radio.
Spec ==
  /\ SafeSpec
  /\ WF_vars(wifiEventHandler)
  /\ WF_vars(CarryOutCommand /\ UNCHANGED <<fsmVars, linkVars>>)
  /\ WF_vars(vStaReconnectTimerCB /\ UNCHANGED <<fsmVars, linkVars>>)
  /\ WF_vars(wifiFSTMTask)

----------------------------------------------------------------------------
(* Properties *)

\* Every variable has its type and neither queue outgrows its length.
TypeOK ==
  /\ wifiQueue \in Seq(Event) /\ Len(wifiQueue) <= WifiCapacity
  /\ connectionState \in {"IDLE", "CONNECTING", "CONNECTED", "RETRY_WAIT", "GOT_IP"}
  /\ fsmPc \in {"receive", "begin"}
  /\ timerActive \in BOOLEAN
  /\ timerCommands \in Seq({"RESET", "STOP"})
  /\ Len(timerCommands) <= TimerQueueLength
  /\ link \in {"off", "trying", "associated", "ip"}
  /\ incoming \in LinkEvent \cup {"NONE"}
  /\ troubles \in 0 .. MaxTroubles
  /\ ownRetries \in 0 .. MaxOwnRetries
  /\ posted \in Seq({"NETWORK_UP", "NETWORK_DOWN"})
  /\ refused \subseteq {"event", "timer"}

\* What the application has been told with the first posts; before any it
\* takes the network to be down.
ToldAfter(posts) == IF posts = 0 THEN "NETWORK_DOWN" ELSE posted[posts]
Told == ToldAfter(Len(posted))

\* The network is never reported up twice in a row, nor left reported up by a
\* machine that has left GOT_IP, whichever order the link's events and a stale
\* timeout come in.  While the timer task takes its commands it is not reported
\* down twice either, and GOT_IP means it was last reported up: a command
\* refused in GOT_IP keeps the machine there with the network reported down.
NetworkEventsAlternate ==
  /\ \A i \in DOMAIN posted :
       posted[i] = "NETWORK_UP" => ToldAfter(i - 1) = "NETWORK_DOWN"
  /\ connectionState # "GOT_IP" => Told = "NETWORK_DOWN"
  /\ "timer" \notin refused =>
       /\ \A i \in DOMAIN posted :
            posted[i] = "NETWORK_DOWN" => ToldAfter(i - 1) = "NETWORK_UP"
       /\ connectionState = "GOT_IP" => Told = "NETWORK_UP"

\* RETRY_WAIT is never a dead end: a retry is running, ordered or delivered.
RetryScheduled ==
  connectionState = "RETRY_WAIT" /\ "event" \notin refused =>
    \/ timerActive
    \/ fsmPc = "begin"
    \/ \E i \in DOMAIN timerCommands : timerCommands[i] = "RESET"
    \/ \E i \in DOMAIN wifiQueue : wifiQueue[i] = "RETRY_TIMEOUT"

Quiet ==
  /\ wifiQueue = <<>> /\ incoming = "NONE"
  /\ fsmPc = "receive" /\ timerCommands = <<>>

\* Once every event is handled the FSM is where the radio is, and a radio
\* that is off has a retry coming.
FsmFollowsLink ==
  Quiet /\ refused = {} =>
    /\ link = "ip" <=> connectionState = "GOT_IP"
    /\ link = "associated" <=> connectionState = "CONNECTED"
    /\ link = "off" => connectionState = "RETRY_WAIT" /\ timerActive

\* Once every event is handled the application was last told what the link is;
\* a gain or a loss goes untold only through an entry that a queue refused.
ApplicationKnowsLink ==
  Quiet /\ refused = {} => (Told = "NETWORK_UP" <=> link = "ip")

\* A radio that is off does not stay off: the service tries again.
KeepsTrying == link = "off" ~> link # "off" \/ refused # {}

\* A link that stays up is noticed and reported for good.
UpIsNoticed ==
  <>[](link = "ip") /\ [](refused = {}) => <>[](connectionState = "GOT_IP")
=============================================================================
