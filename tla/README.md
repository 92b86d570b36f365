# X-IoT gateway: formal model

X-IoT is the firmware of an ESP32-S3 gateway for a water softener: an Arduino
program on FreeRTOS that polls Modbus devices, keeps the latest value of each
tag, publishes the values over MQTT, shows them on a display and takes commands
from the broker back to the devices. This directory holds TLA+ models of its
services, the TLC configurations that check them and TLAPS proofs about them.
Paths below are relative to the repository's root: `src/` and `include/`.

## 1. Inventory

Every service is a file pair `src/<name>.cpp`, `include/<name>.h`, with file
static state, an `_init/_start/_stop` life cycle and, mostly, one FreeRTOS task
of priority 5.

| Component | State it keeps | Operations | Talks to |
|---|---|---|---|
| tag registry | constant table of 19 tags | look up by id, name, topic, index | everyone |
| tag runtime | per tag value, valid, changed, timestamp; a mutex | init, lock, unlock, get | written by acquisition; read by publisher, display, core |
| acquisition | response queue (30), last scan time, run state | scan, apply an answer, post_response | posts to dispatcher; drivers post to it |
| protocol dispatcher | request queue (30) | post, route by the tag's source | Modbus, system service |
| Modbus service | communication health; the eModbus client's queue | read, write request; data and error handler | posts to acquisition, event loop |
| Modbus codec | none | encode/decode 16 and 32 bit words, word order | Modbus service |
| system service | none | answer a read of `core_state` | posts to acquisition |
| subscriber | message queue (30), run state | post, subscribe, check and forward a command | MQTT calls it; posts to dispatcher |
| publisher | run state | publish every valid tag each interval | reads the store; posts to MQTT |
| MQTT service | transmit queue (30), connection state | start, stop, publish, subscribe; client callbacks | event loop, subscriber |
| Wi-Fi service | event queue (30), connection state, retry timer | event handler, timer callback, state machine | event loop, radio |
| event service | the default event loop | register, post (waits 500 ms) | everyone |
| application (`main.cpp`) | none | init all, start all, react to network and broker events, handle faults | everyone |
| core | softener state, pending start/abort, cycle timer | evaluate every 2 s, request, abort | reads the store; posts to dispatcher, event loop |
| alert service | alert queue (15) | event handler, task | event loop, MQTT |
| logger | a mutex | log | called by every task |
| Nextion display | run state | write valid tags to the display | reads the store |

How they interact:

    broker -> onMessage -> subscriber queue -> subscriberTask --+
                                                                v
    acquisition_task -- scan -----------------------> dispatcher queue
         ^                                                      |
         |                                            protocolDispatcherTask
         |                                              |               |
    response queue <-- on_modbus_data/error <-- eModbus queue     system service
         |      ^-----------------------------------------------------  |
         v
    tag runtime store --> publisher --> MQTT queue --> broker ; display ; core

    radio -> wifiEventHandler -> Wi-Fi queue -> state machine -> event loop
    event loop -> app_event_handler: mqtt_start/stop, publisher/subscriber start/stop

What is hard about it. Seven tasks of one priority are time-sliced over two
cores and meet in bounded queues with three different policies: wait without
limit, wait 500 ticks and give up, or give up at once. Flags and states are
read in one step and acted on in a later one. Tasks are deleted by other tasks
wherever they happen to be. Answers cannot be told from echoes. Timers, driver
events and the program's own calls race. `PROJECT.json` lists each place.

What makes each component correct:

- acquisition and store: a tag shows only samples its source produced, in
  order; valid only on such a sample; a full queue loses samples, not order.
- dispatcher: requests in order of arrival, each to the driver of its source,
  each at most once, none for ever.
- subscriber: only well-formed commands for write-only subscribed tags go on.
- Modbus service: an answer reaches the tag it was asked for, as a sample only
  if it was a read.
- Wi-Fi: ends where the radio is, tells the application where that is, and never
  gives up retrying.
- MQTT, publisher, subscriber life cycle: connected means RUNNING with every
  subscription placed and one task of each; disconnected means none.
- core: one start and one end event per cycle, a stop is sent exactly
  when it is due, no start in a fault.
- store: what a reader copies is one sample with its own time, never half of
  one and half of the next, and a reader never goes back.
- alert: the MQTT service takes alerts in the order they were raised, none twice,
  and none stays in the queue.
- logger: its mutex comes back, unless a task is deleted with it in hand.
- boot: no task runs before what it calls is initialised; all services run or
  none; the device does not restart for ever.
- codec and frames: decoding what was encoded gives the value, for each type and
  word order; a device understands a command as it was meant, and a read gives
  what the device means.

## 2. Modules

| Module | Models | State and actions |
|---|---|---|
| `TagRegistry` | `tag_registry.cpp` | constants: the fields of each tag that the code tests, from its access to its function code; the lookups |
| `ProtocolDispatcher` | queue and receive of `protocol_dispatcher.cpp` | `dispQueue`, `dispHolding` (the task's local `request`) |
| `TagRuntime` | store of `tag_runtime.cpp` and the locked updates | `store` |
| `Acquisition` | `acquisition.cpp` | `acqPc`, `scanIdx`, `acqHolding`, `respQueue`; one action per turn of the scan, receive, timeout, apply |
| `ModbusService` | `modbus_service.cpp`; the eModbus client and devices are external | `modbusQueue`, `modbusReply`, `plant`, `executed` |
| `Subscriber` | `subscriber.cpp` while RUNNING | `subQueue`, `subHolding`, `arrived`; the constant `Arrivals` is what may come from the broker |
| `DataPath` | composition of the above, `dispatch_request` and `system_service.cpp` | no state of its own |
| `SampledStore` | abstract specification of the data path | `current`, `shown` |
| `MCDataPath` | registries for TLC | |
| `DataPath_proofs` | theorems about `DataPath` | |
| `Commands_proofs` | theorems about the commands in `DataPath` | |
| `WifiService` | `wifi_service.cpp`; radio and timer task are external | `wifiQueue`, `connectionState`, `fsmPc`, timer, radio, `posted` |
| `WifiService_proofs` | theorems about `WifiService` | |
| `EventService` | `event_post` of `event_service.cpp` on the default loop's bounded queue | `loop`, `refused` |
| `MqttService` | `mqtt_service.cpp`; the MQTT client is external | `mqttState`, `mqttTask`, `txQueue`, the client's connection and where it is in a callback, the broker's session |
| `Publisher` | `publisher.cpp`: flag and tasks | `publisherState`, `publishers` (every task ever created), `dismissed` |
| `Subscriptions` | `subscriber.cpp`: start, stop and the loop that subscribes | `subscriberState`, `subscriber`, `toSubscribe` |
| `Connectivity` | `app_event_handler` of `main.cpp`, composed with the four above | `network`, `loopPc`; `mqtt_start` and `mqtt_stop` in two steps each |
| `Connectivity_proofs` | theorems about `Connectivity` | |
| `RegenCycle` | abstract specification of the core's events | `state`, `cycles`, `alarm` |
| `Core` | `core.cpp`; store, write path and machine are its environment | the file's five statics, `now`, `sensors`, `regenerating`, `running`, `commands` and histories; `Evaluate` is a turn up to `core_set_state`, `ProcessCommands` the rest |
| `Core_proofs` | theorems about `Core` | |
| `Logger` | the mutex of `logger.cpp`, and its loss with a deleted task | `loggerOwner` |
| `StoreAccess` | the store's section taken apart: field by field writes of `acquisition.cpp`, copies of `publisher.cpp` and `nextion_service.cpp`, every task's log calls, deletion of tasks | `pc`, `storeOwner`, `store`, `commHealthy`, the answers on their way, each reader's copy and what it showed |
| `SnapshotStore` | abstract specification of the store for its readers | `tag`, `taken`, `shown` |
| `StoreAccess_proofs` | theorems about `StoreAccess` | |
| `AlertService` | `alert_service.cpp` | `alertQueue`, `clock`, `sent`; the handler and `alertTask` |
| `Boot` | `setup`, `app_init`, `app_start`, `fault_handler` of `main.cpp` and every `_init`, `_start` they call; composed with `AlertService` and `EventService` | `place`, `next`, `state` of each service |
| `Boot_proofs` | theorems about `Boot` | |
| `ModbusCodec` | `modbus_codec.cpp`, over words of any size | none |
| `RegistryTable` | `gTags[]` as it is | none |
| `Frames` | what `modbus_service.cpp` sends and reads out of frames; devices and the client's framing are external | `coils`, `registers`, `commanded`, `response` |
| `MCFrames` | tables and numbers for TLC | |
| `Frames_proofs` | theorems about `ModbusCodec` and `Frames` | |

Grain. An action of a task is what it does between two calls that may block or
that another task's step can come between: receive, then handle; check the
radio, then begin. A section under a mutex is one action. A send that waits is
the sender's action not yet taken; the loss after the wait is a branch of it.
Comments beginning with "Mutant:" mark variants of the definition below them,
each a mistake that code could have had; no specification uses them, and the
manifest says which property each one breaks.

Abstraction. Values are abstract: `plant[t]` numbers the successive values of a
source, so an order on samples is an order on numbers; a command's value is its
arrival number; a message is a topic and whether its payload parses. A request
has its tag's type, quantity and function code, and `modbus_request` the checks
the code makes of them. `executed`, `arrived`, `posted` and `refused` are
histories, for the properties only. The
table in `tag_registry.cpp` at this commit has Modbus tags alone; the system
and CAN branches of the dispatcher are exercised by a registry that has such
tags, which is configuration the code is written for.

`Connectivity` and the data path meet in two places only, and each is modelled
with the other as its environment: `Subscriber` takes messages as arrivals,
`Subscriptions` the data it forwards as nothing. The network events follow
`WifiService`, whose `NetworkEventsAlternate` is proved: up and down in turn as
long as the timer task takes commands. The second down it may report otherwise
would change nothing here: `mqtt_stop` refuses it. A start whose task cannot be
created fails as in the code, which for the publisher means that the flag is
RUNNING for a moment (`publisher_failed`).
The client is the one the code configures: it reconnects by itself
(`autoReconnect`) and its session is persistent (`cleanSession` is false), so the
broker may hold the subscriptions of an earlier connection or may have lost
them. It is assumed that a failed attempt calls onDisconnect as a lost connection
does, that callbacks come from one task one at a time, and that `disconnect()`
returns when that task is done. The loop's other events, the Modbus health ones,
are only logged by their handler and left out of it; the loop is short enough to
be full without them. What matters of them is that the Modbus handlers wait while
they post one, and that is in `StoreAccess`.

The data path is seen at three grains. `DataPath` has the whole of it, with the
store's section as one step and values as arrival numbers. `StoreAccess` takes
that section and the handlers' log calls apart for one tag, since between two of
their steps another task may run, or be deleted. `Frames` has one transaction as
one step and looks at numbers instead: a byte is `Byte`, a register `Word`, so
words, their order and the sign are as in the code for small sizes, and the
proofs are for every size. A float is its 32 bits. Holding and input registers
of a device share one map, which the tables keep apart. What `response.get`
leaves in its argument when the frame is too short is any value: the variable is
not initialised (`modbus_service.cpp`, the data handler). Besides the table of
the repository `MCFrames` has one table for each type, width and word order the
services accept. Which places a device has is the constant `Location`: in the run
slaves 1 and 2 with addresses 0 to 6, which holds every table there and `gTags[]`
at addresses 0 to 5. `BADC` and `DCBA` have no case of their own in the codec and are
taken for `ABCD`, and a BOOL with function 0x06 would always write 0; no tag has
either, so no table does.

In `StoreAccess` no tag of the present table has a display component, so the
display task shows nothing today; it is a reader like the publisher, without the
log call. In `Boot` a call fails with any of its own errors, or because its
service is not in the state it asks for, but for `wifi_start`'s failure to post
START: at boot its queue of 30 is new and the radio still off. Alerts carry their
severity and the number they were raised with, and a wait in `esp_restart` is
left out. The
`_stop` calls of alert, acquisition, dispatcher, display and Wi-Fi,
`event_unregister` and `tag_runtime_print` have no caller.

`Core` has a clock that counts evaluation periods and wraps at `ClockSize`, for
the 2^32 milliseconds of `millis()`. A turn takes one period or, when posting a
command has to wait, longer. `main.cpp` does not start the core at this commit
and the registry has no `cmd_regen` tag, so the model is of the core once it is
started with a registry that has the tags it names; `core_stop`, which has no
caller either, is left out. Sensor values are abstracted to what the priorities
tell apart: no data, low pressure, low salt, neither. Posting of its events is
taken to succeed: what the loop may lose is in `EventService`.

## 3. Runs

| Run | Configuration | Shows |
|---|---|---|
| data_path | an input, a coil, the core state; messages on the coil's topic; response queue 2, the others 1; two values per source; one command | `TypeOK`, `SamplesInOrder`, `SamplesNeverGoBack`, `ImplementsSampledStore` |
| commands | a coil, a CAN tag, a setpoint that is polled and has a command's topic, a write-only tag whose topic is published; messages on each of these topics and on one of no tag, and one that does not parse; request queue 2; two messages | `RoutesApart`, `OnlyCommandsExecuted`, `CommandsInOrder`, `LostOnlyWhenGivenUp`, and under fairness `CommandsSettle` |
| wifi | event queue 3, timer command queue 1, three troubles of the link, one retry by the radio itself | `TypeOK`, `NetworkEventsAlternate`, `RetryScheduled`, `FsmFollowsLink`, and under fairness `KeepsTrying`, `UpIsNoticed` |
| connectivity | loop 2, transmit queue 1, two command topics, two failures of client, network or task creation | `TypeOK`, `StartFindsNothingRunning`, `ServicesFollowClient`, and under fairness `ComesUp` |
| restart | the same with one topic | violated: `StartedOnceUp` |
| publishers | the same with one topic | violated: `DismissedPublishersEnd` |
| core | clock of 5 periods, cycle of 3, turns of 1 or 2; two commands on their way; one remote and one manual start; two changes of the sensors | `TypeOK`, `TimerExact`, `ImplementsRegenCycle`, `StartInterlock`, and under fairness `CycleEnds` |
| locks | a publisher, the MQTT task, which is deleted and created again once; response queue 1, two samples | `TypeOK`, `CopiesWhole`, `ShownForward`, `ImplementsSnapshotStore`, and under fairness `AnswersTaken`, `HandlersReturn` |
| lost_logger | the same | violated: `CallbackNeverBlocked` |
| boot | three failing calls, three events of the core, of two kinds; event loop and alert queue 2 | `TypeOK`, `RunningHasItsNeeds`, `AllOrNothing`, `AlertsInOrder`, and under fairness `SetupEnds`, `AlertsDrain` |
| frames | byte 4; the table of the repository, a table of refused tags, nine setpoint tables; numbers at the ends of their ranges; two pieces of equipment commanded | `TypeOK`, `CommandsUnderstood`, `ReadsTrue`, `StatusShowsCommand` |
| core_fault | the same | violated: `FaultStopsMachine` |

Run one with `tlc -config MCCommands.cfg MCDataPath`, or
`tlc -config MCCore.cfg Core`.

Bounds and why they suffice. Every queue of the code holds 30 (the timer
service's 10); here they hold one to three, so that full queues, drops and
refused commands are ordinary. Two entries are what it takes to swap two
messages, and the ordering mutants are caught at that size. Order is a relation
between two samples, so two values per source; two commands, likewise. The topics
of `commands` make each check of the subscriber fail at some message, and its two
messages may be of any two kinds. A command's tag of a type the subscriber does
not take (`STRING`) is in no registry of a run; the theorems cover it. The
theorems of section 5 hold for every capacity and registry. In `WifiService`
three troubles allow a loss, the loss of the retry, and a late LOST_IP; a run
with five troubles, two own retries and queues of 5 and 2 (800 894 states)
also passes, with `ApplicationKnowsLink` besides. MaxSample, MaxCommands, MaxTroubles and MaxOwnRetries bound the
environment only. `wifi` allows deadlock: when the queue has refused the retry
timeout the service really stops, and with the bound of troubles used up and the
address obtained there is nothing left to do.

In `Connectivity` two failures make a connection that is lost, found again and
lost again, a network that goes down during either, and three or more events for
a loop of two; a loop of three passes too. It allows deadlock because a lost
NETWORK_UP stops everything the event task has not started. In `Core` a clock of
five periods and a cycle of three wrap within a cycle from most starting points,
and every starting point is an initial state; two commands on their way is one
more than a turn posts in most states, so a post can fail. One remote and one
manual start allow two cycles, which is what a flag left over from the first
needs to spoil the second.

In `StoreAccess` one reader, a queue of one and two samples let a write come
between the unlocked check and the copy, and the queue be full when an answer
arrives; a run with a display as well (3.0 million states) passes for the safety
properties, and the inductive invariant of section 5 was checked with two
publishers and a queue of two (5.7 million). It allows deadlock: with the logger
lost every task really stops. In `Boot` three failures are one each in `app_init`,
`app_start` and after the restart they lead to, and three events overflow a queue
of two; the run allows deadlock, since at its bounds a device that is up has
nothing left to do. In `Frames` a byte of four makes words of sixteen and numbers
of 256: high and low word, sign bit and the two orders all differ there, and the
samples hold the ends of each range and numbers whose words differ.

Fairness. `DataPath!Spec` has weak fairness for each task and for the client's
worker: the tasks have one priority, FreeRTOS time-slices them, none of them
blocks while it has something to do, and a bus transaction ends by its timeout.
`WifiService!Spec` has it for the event handler, the timer task's two duties and
the state machine. Nothing is assumed of devices, broker or radio: `UpIsNoticed`
and `KeepsTrying` are conditional on what the radio does. `Connectivity!Spec`
has it for the event task, `mqttTask`, the subscriber's loop and the client's
steps other than failures: autoReconnect tries until it succeeds, and failures
are bounded. `ComesUp` asks besides that the network stays up and that nothing
but telemetry was turned away. `Core!Spec` has it for the core's task, the poll
of the machine's status and the bus; `CycleEnds` needs them all, and that no
command is lost (`hampered`). `StoreAccess!Spec` has weak fairness for what a
task does by itself, and strong fairness for the acquisition task and the worker
where they take a mutex: FreeRTOS wakes the waiters of a mutex in turn, and every
holder gives it back and then sleeps or waits for a queue, so it keeps coming
free. No other task and no deletion is assumed to happen. `Boot!Spec` has it for
`setup` and the two tasks; failures are bounded, events and the broker free.

Histories in preconditions. `refused`, `overtaken` and `hampered` record that a
full queue turned something away, that one task's change of the MQTT state
crossed another's, that a command was lost or contradicted at the panel;
`refused` also that a task could not be created or, in `WifiService`, that the
timer task took no command. They appear in the premises of
`ServicesFollowClient`, `ComesUp`, `CycleEnds` and the properties of the Wi-Fi
service, because the code makes no attempt to recover there; what then goes wrong
is in the manifest's hazards, and one of the crossings is run `restart`.

## 4. What the violations show

- lost_logger. `src/acquisition.cpp:22` posts a response "so the protocol
  callback is never blocked". The callback logs first, and waits for the logger's
  mutex without limit. `mqtt_stop` and `subscriber_stop` delete their tasks
  wherever they are, also between the take and the give of that mutex, which
  FreeRTOS does not give back; from then on every task stops in its next log call.
  `AnswersTaken` and `HandlersReturn` show that this is the only way.
- restart. `src/main.cpp:119` says NETWORK_UP starts the MQTT service. When the
  client's onDisconnect has read the state and `mqtt_stop` sets STOPPED before it
  sets CONNECTING, the state is CONNECTING with nothing running, and `mqtt_start`
  is refused when the network returns. It takes another loss of the network to
  get out: `mqtt_stop` accepts CONNECTING.
- publishers. `src/main.cpp:122` says that MQTT_DISCONNECTED stops the publisher.
  The task looks at its flag only after its delay; if the connection is back by
  then it finds RUNNING again and goes on, beside the task the reconnection has
  created.
- core_fault. `src/core.cpp:237` speaks of a machine that is still running when
  a fault is detected. The code stops it only if the previous evaluation was
  REGEN_RUNNING, so a machine whose status first shows running together with the
  fault is left running.

Other behaviour met while modelling, listed as hazards and not as findings
because no text of the repository says otherwise: onConnect's event may have the
subscriber started before the state is RUNNING, and its subscriptions are then
refused for that connection; a stop whose write is lost is not sent again; an
abort in the period after a start, before the machine's status has been polled,
is ignored and the machine starts. A Wi-Fi link that is lost from GOT_IP while the
timer task refuses the retry leaves the machine in GOT_IP, and the next
DISCONNECTED tells the application of the loss a second time
(`NetworkEventsAlternate` says when). SYSTEM_FAULT is posted only when one of the
first four calls of `app_init` fails without lack of memory; the alert service is
then not started, nor is anything after it, so that alert reaches no broker and
the device stays up with nothing running. A float of a device that sends the low
word first is written in that order and read back without it, so its words come
out exchanged (`ReadsTrue` says that nothing else is misread).

Two texts the code departs from with nothing lost by it. `include/protocol_dispatcher.h:34`
has a response's value "Only valid on successful OP_READ", but the echo of a
write is decoded as well, and the write-only coils become valid in the store with
bit 0 of their address as value; no tag that is read is affected (`RoutesApart`).
`src/wifi_service.cpp:83` says that CONNECTED stops the retry timer; it does not,
and a timeout in GOT_IP is ignored (`FsmFollowsLink`).

## 5. Proofs

`DataPath_proofs` proves, for every registry, capacity and bound that satisfies
the named assumptions of the modules, the safety properties the runs check of
routes and samples:

- `TypeCorrect`, by the inductive invariant `TypeOK` itself: it carries the
  program counter's link to the response in hand and the client's capacity.
- `RoutesStayApart`. `RoutesApart` is inductive given `TypeOK`: a write is born
  in `HandleMessage`, whatever topic the message came on, only for a tag that is
  write-only, so not polled, and routing puts a request on the bus only by its
  tag's source.
- `SamplesStayInOrder`. `SamplesInOrder` is inductive given `TypeOK` and
  `RoutesApart`: it orders, per polled tag, the sample shown, the one in the
  acquisition task's hands, those in the response queue, the one in the client's
  handler and the source's own. A step moves one sample one stage on or takes a
  new one at the end. `RoutesApart` is needed twice: an echo is not a sample of a
  polled tag, and a system tag has no answer on the bus, so the two producers of
  the response queue never answer for the same tag.
- The action property `SamplesMonotone` follows from it.
- `DataPathImplementsSampledStore`: applying an answer is a `Show` or an
  `Invalidate`, a change of a source is a `Produce`, all else stutters.

`Commands_proofs` proves the three about commands. A command's way from the broker
to a device has seven stages: the messages yet to come, the subscriber's queue
and hand, the dispatcher's queue and hand, the client's queue, and what has been
carried out. The inductive invariant `CommandsInv` says that every number at a
later stage is smaller than every number at an earlier one and that each queue
rises (`Moves` is the lemma for a command that goes one stage on), that a request
still has the tag and the number of a well-formed message (`AllAskedFor`), and
that only writes are ever carried out.

- `CommandsStayInOrder` and `OnlyWhatWasAskedFor` follow from it.
- `CommandsLostOnlyWhenGivenUp` looks at one step: what was in a queue is still
  in it or in the hand of the task that took it, and what a hand let go is in the
  next queue, unless the guards of `GivesUp` held (`KeptOnItsWay`); a message that
  arrives is in the subscriber's queue, unless that is full (`ArrivesOnItsWay`).

`WifiService_proofs` proves:

- `WifiTypeCorrect`: `TypeOK` is inductive.
- `RetryAlwaysScheduled`: `RetryScheduled` is inductive once strengthened by the
  facts that WiFi.begin is pending only in IDLE or RETRY_WAIT and that in
  RETRY_WAIT the last command waiting for the timer task, if any, is a reset.
- `UpAndDownAlternate`: `NetworkEventsAlternate` is inductive once it is known that
  WiFi.begin is pending only in IDLE or RETRY_WAIT. It says what of the alternation
  always holds: an up is posted only when the last event was none or a down, and
  out of GOT_IP the last event is a down. That no down follows a down is added as
  long as the timer task has taken every command. `PostTells` is its lemma about
  one more event. It speaks of what is posted; of the link's own changes the
  machine may miss some when the event queue is full.
- `MachineFollowsLink`: `FsmFollowsLink` speaks only of an empty queue, so the
  invariant `FollowInv` must say what a queue leads to. There is a `Route`, a
  phase of the radio between every two waiting events, such that each event tells
  of the move from one phase to the next; it begins where the machine is and ends
  where the radio is, but for the event not yet sent. `RouteAppend` and
  `RouteTail` are what sending and receiving do to it. A retry timeout that finds
  the radio up puts the machine ahead of the event that says so; `BeginsAtState`
  has that exception. START comes first (`StartIsFirst`), and a radio that went
  off since `WiFi.begin` has said so (`OffIsTold`).
- `ApplicationIsTold`: `ApplicationKnowsLink` follows from the two before. With
  nothing refused and nothing waiting, the last event posted is up exactly when
  the radio has an address.

`Core_proofs` proves every safety property of run `core`, for every clock size
that holds a cycle and a turn:

- `CoreTypeCorrect`: `TypeOK` is inductive; `SendKeepsType` is its lemma for a
  queue that takes only part of what is sent.
- `TimerStopsExactly`: `TimerExact` follows from the inductive `TimerInv`, which
  relates the difference of two clock readings to the cycle's true age: equal
  while the stop has not been sent and the cycle is too young, and between two
  turns at least the cycle's time once it is old enough. `LaterSince` is the fact
  about unsigned arithmetic it rests on: the difference is right as long as it
  stays below the clock's size, wherever the clock wraps. This is where
  `MaxRegenTime + MaxTurn <= ClockSize` is needed.
- `CoreKeepsPromise`: an evaluation is a `Begin`, `Complete`, `Fail` or `Move` of
  `RegenCycle` or changes nothing it shows; every other action stutters.
- `ListenersKnow` is drawn from `RegenCycle` alone and reaches `Core` by way of
  the refinement: started and ended alternate for ever, a cycle is going on
  exactly when the last event is a start, and the last alarm is the one of the
  fault or loss of data the core is in. `AppendAlternates` is its lemma about one
  more event.
- `StartsAreSafe`: the interlock needs no invariant beyond `TypeOK`; `SentIsLast`
  says that what appears at the end of the queue is something just sent, and
  `SentByTheCore` which half of the turn sent it.
- `StopsAreSafe` and `FaultsStopTheCycle` say how much of the protection of
  `core.cpp:237` there is, where run `core_fault` shows what there is not: a cycle
  ended by a fault or a loss of data is always ended with a stop, unless a write
  request was lost, and no stop is ever sent outside a cycle. The first
  needs `NewCycleIsYoung`: a timer cannot expire at the turn that starts it.

`Connectivity_proofs` proves, for every length of the two queues, every set of
topics and any number of failures:

- `ConnectivityTypeCorrect`: `TypeOK`, split by the service that owns the
  variables, so that a step is looked at only by the services it touches.
- `StartsFindNothingRunning`: `StartFindsNothingRunning` is not inductive, as it
  says nothing while `mqtt_stop` is waiting in `disconnect()`. `NothingRunning`
  adds that: from STOPPED on there is no task and no wish to connect, and the
  connection itself is gone when `mqtt_stop` returns. onDisconnect's late change
  of the state only takes the state out of its premise.
- `ServicesFollow`: `ServicesFollowClient` speaks only of an empty event loop. The
  invariant `FollowInv` says, as long as nothing was refused or overtaken, that
  the events waiting lead from what the services are to what the network and the
  connection are (`Leads`: the last event of a kind is the one that counts), that
  the client's events alternate (`Alternates`, so a new connection always meets a
  stopped subscriber), that the callbacks keep the state where the connection is,
  that the status message is on its way and that a topic is subscribed or still
  to come. `LeadsToLast`, `LeadsPastOthers` and `LeadsFromTail` are the lemmas
  about the loop's queue.

`StoreAccess_proofs` proves every safety property of run `locks`, for any number
of readers and deletable tasks, any queue and any number of samples:

- `CopiesWholeHolds`, `ShownForwardHolds`: the inductive invariant `IInv` is the
  place each task may be at (`Program`), that the mutex is held exactly in the
  sections (`Exclusion`), which fields of the entry agree (`Written`), what a
  reader has copied so far (`Copied`), and the order of samples from the queue to
  what is shown (`Ordered`). `WorkerMoves` says what a handler's step, which may
  wait in `event_post`, leaves alone. The unlocked check of `valid` is harmless because
  `value` never returns to 0: `Copied` carries that from the check to the copy.
- `Implementation`: with a half written sample counted from its first field on,
  and a half made copy taken at its first half, every step is one of
  `SnapshotStore` or a stutter.
- `NoCircularWaitHolds`: no three tasks wait for one another in a row, so none
  waits for itself through others. It follows from `Exclusion` and from `Logging`,
  that who holds the logger is logging: who is logging never asks for the store,
  so the two mutexes are always taken in the same order. A holder that was
  deleted is no task any more; what that means is run `lost_logger`. TLC checked
  it and `Logging` with a publisher and a display (3.0 million states).
- `TypeCorrect`: `TypeOK` is inductive.

`Boot_proofs` proves every safety property of run `boot`, for any number of
failing calls and of events and for queues of any length:

- `BootTypeCorrect`: `TypeOK` is inductive, split by who owns the variables.
- `NoTaskTooEarly`, `SetupAllOrNothing`. `RunningHasItsNeeds` is not inductive: it
  says what the running services need, but not that the next call of `app_start`
  will find what its own service needs. `InitOrder` and `StartOrder` give each
  service its place among the calls, read off the two tables (`InitCalls`,
  `StartCalls`). The invariant `IInv` says that during `app_init` the services
  before the next call are initialised and the rest are down (`Initialising`);
  that during `app_start` all are initialised and those before the next call run,
  or `app_init` gave up, the alert service is down and nothing runs (`Starting`,
  `Broken`); and that `setup()` ends in one of these two ways (`Settled`).
  `CallReady` is where it pays: in the first case every call of `app_start` finds
  its service in a state it accepts, so only a lack of memory can fail it, and
  that restarts the device; in the second the very first call is refused.
- `AlertsGoInOrder`. `AlertOrder` orders the alert sent last, those that wait in
  the alert queue, and the number the next one will get.

`Frames_proofs` proves the codec's round trips and every property of run
`frames`.

- `UnsignedRoundTrip`, `SignedRoundTrip`: for every size of a register, decoding
  the two words of a number in the order they were encoded gives the number. They
  rest on `Division`, that `a * n + b` has quotient a and remainder b, proved from
  the bounds of the quotient.
- `TypeCorrect` and `CommandsUnderstoodHolds`, for every size of a byte and every
  well addressed table (`PlantsAssumption`: commands have coils or registers of
  their own, and every tag has as many as its type takes). The inductive invariant
  `IInv` adds that a command the service refuses has never been carried out, and
  that whatever was commanded came from a command tag of that equipment.
  `ShortMeant` and `WideMeant` bring in the round trips, `Untouched` that no other
  command and no sensor reaches the same registers.
- `ReadsTrueHolds`. `ByteFrame`, `WordFrame` and `LongFrame` are what the data
  handler makes of a frame with one byte of coils, one word or two: the bytes are
  taken apart when the device answers and put together again by the client and
  the handler, each time by `Division`. `Exchange` is the float that is
  read without its word order.
- `StatusShowsCommandHolds` needs more of the table, that a status reads where the
  command of its equipment writes and in the same form (`StatusesMatch`). The code
  checks that nowhere, so it is a hypothesis of the theorem and not an assumption
  of the module.
- `RepositoryTableFits` discharges both for `gTags[]`, entry by entry, if devices
  have slaves 1 and 2 with addresses 0 to 5. The other
  tables of `MCFrames` are checked by TLC when it evaluates `PlantsAssumption`.

Only model-checked: the nine liveness properties (`CommandsSettle`, `KeepsTrying`,
`UpIsNoticed`, `ComesUp`, `CycleEnds`, `AnswersTaken`, `HandlersReturn`, `SetupEnds`,
`AlertsDrain`). Liveness under fairness needs ENABLED, which is out of the
prover's reach. Every safety invariant, action property and refinement that a
passing run checks has a theorem here; fairness plays no part in those, and they
are stated of the specifications without it.

## 6. Not modelled, and the plan

Not modelled: text and JSON formatting, topics and payload lengths, the
display's protocol, the text of log lines, memory use, error codes and build
files. Freshness in real time (a scan that takes longer than its interval because
every read times out, `src/acquisition.cpp:73`) needs the measured timeouts, and
the models have no common clock. The code does not recover from an event the
Wi-Fi queue refuses (`src/wifi_service.cpp:234`), so the properties are about the
runs without one.

In this order:

1. `Subscriber` composed with `Subscriptions`, for the command in the hands of a
   task that is deleted.
2. The network `Connectivity` assumes as an abstract specification of its own,
   and `WifiService` as its implementation: `UpAndDownAlternate` gives the events
   their order, not yet the step of the machine each goes with.
