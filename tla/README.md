# W5500 gateway: formal models

The program under `src/` runs on an STM32F103: it polls sensors and switches
coils on an RS485 (Modbus RTU) bus, and exchanges JSON messages with an MQTT
broker through a W5500 Ethernet chip. It has no operating system. One main loop
calls `mqtt_loop`, `Sensor_task` and `key_control` in turn; DMA, USART2 and TIM4
interrupts run between any two of its instructions. All interrupts have the same
preemption priority, so they do not nest.

This directory holds TLA+ models of that program, the TLC runs that check them,
and proofs checked by TLAPS.

## Inventory

| part | state | operations | talks to | hard behaviour |
|---|---|---|---|---|
| RS485 master (`BSP/RS485.c`, `usart.c`, `stm32f1xx_it.c`, HAL UART driver) | `tx_buffer`, `rs485_tx_busy`, transceiver pin, `huart2` states, `env` | `RS485_Poll_Slaves`, `Send_to_Slave_*`, TX-complete, IDLE and error interrupts | slaves on the bus; called by sensor task, keys, MQTT commands | interrupts between the steps of a call, receiver errors during a transmission, answers overtaken by new requests |
| MQTT application (`BSP/mqtt_app.c`) | `g_MQTTclient.isconnected`, `last_reconnect_tick` | `mqtt_init`, `mqtt_loop`, `messageArrived`, publishers | client library, control, sensors | reconnecting, half-done sessions |
| MQTT client (`MQTTClient.c`) | handler table, ping state, packet id, one buffer per direction | connect, subscribe, publish, yield, cycle, keepalive | network interface | late or missing answers, keep-alive, message during a wait |
| network interface (`mqtt_interface.c`) | `Timer.end_time` | timed read and write, `ConnectNetwork` | socket layer, `HAL_GetTick` | partial reads, tick wrap, waits inside waits |
| socket layer (`BSP/socket.c`) | `sock_io_mode`, `sock_is_sending`; in the chip Sn_SR, Sn_CR, buffers | `socket`, `connect`, `send`, `recv`, `close` | W5500 registers over SPI | unbounded polls of registers, chip restart, SPI dropout |
| key scanner (`BSP/control.c`) | `key` | `key_scan` (TIM4), `key_control` (main) | device state | flags shared with an interrupt, counter wrap |
| device state (`g_device`) | lamp, fan, spray, alarm | commands from keys and JSON, status publishing | RS485, MQTT | a command dropped on a busy bus while the state says it was done |
| sensor task (`BSP/sensor.c`) | three `last_*` ticks, `mock_co2`, `last_alert` | polling, fallback to DHT11 or a ramp, alarm | RS485, DHT11, MQTT | stale data, tick arithmetic, inconsistent documents |
| chip callbacks (`BSP/bsp_w5500.c`) | critical-section depth | nested enter and exit | SPI | nesting |
| UDP loopback, TCP server (`main.c`) | - | not called by the main loop | socket layer | - |

What makes each part correct: the RS485 master sends one whole frame at a time
and always listens again; the session is never believed when the broker refused
it, is set up in the right order, comes back after a loss, and hands a control
message on at most once; a key press causes its action exactly once; the device
state agrees with the bus; published values are fresh and consistent.

`PROJECT.json` lists the hazards line by line with the property that covers each,
or the reason why none does.

## Plan

Done: `Rs485` with `HalfDuplexLine`; `MqttSession` with `CommandDelivery`; `Keypad`;
`PacketReader`; `Station`; `SensorTask` and `TimedCalls` over `Ticks`; and a module of
proofs for each.

What could come next:

1. `Station` over a session: publishing and control messages tied to the state of
   `MqttSession` instead of an outcome chosen freely.
2. `Station` under receiver errors that hit a frame, which `rs485_noise` and
   `rs485_overlap` look at on the line alone.

Three behaviours are in the models without a run that shows each by itself. The
completion interrupt may clear `rs485_tx_busy` before the main program sets it
(`Mark` after `TxCpltIrq`), and then every later call is refused until a receiver
error clears the flag. It takes interrupts that keep the main program away for a
whole frame. `BusyCoversSending` therefore says that the flag covers every
transmission, and not that it is clear without one; `SharedLine` and `Station` have
the flag that was left up as `stuck`. An SPI dropout between the OPEN
command and the wait for its effect leaves `socket()` waiting for ever (fault `spi`).
A late SUBACK leaves the device connected without a handler (fault `slow`;
`SubscriptionAgreed` therefore speaks of a device that has one).

## Modules

| module | models |
|---|---|
| `HalfDuplexLine` | what the RS485 driver promises: drive, send one frame, listen again |
| `SharedLine` | the line as the driver's callers find it: taken or refused, whole or collided |
| `Rs485` | the driver, its interrupts, the HAL calls under them, one slave |
| `Rs485Proofs` | theorems about `Rs485` |
| `CommandDelivery` | what the device promises a publisher: at most once, in order |
| `MqttSession` | main loop, session, client library, TCP socket, chip, network, broker |
| `MqttSessionProofs` | theorems about `MqttSession` |
| `Keypad` | the TIM4 key scanner and the main loop that serves its flags |
| `KeypadProofs` | theorems about `Keypad` |
| `PacketReader` | `readPacket` over a byte stream that arrives in pieces under a timer |
| `PacketReaderProofs` | theorems about `PacketReader` |
| `Station` | `g_device`, key actions, control messages, published states and the coils |
| `StationProofs` | theorems about `Station` |
| `SensorTask` | where published values come from, the CO2 ramp and the alarm, on a tick that wraps |
| `SensorTaskProofs` | theorems about `SensorTask` |
| `TimedCalls` | the timer of a call of the MQTT client, and the reads and writes that measure by it |
| `TimedCallsProofs` | theorems about `TimedCalls` |
| `Ticks` | ages and timers on `HAL_GetTick` |
| `TicksProofs` | theorems about `Ticks` |
| `MC*` | instances for TLC, one `.cfg` per run |

Operators named after a mistake and commented "Mutant" (`AcceptAlways`,
`ClearForgotten`, ...) are variants of the operator that follows them. No
specification uses them; putting one in the place of its operator must break the
property `PROJECT.json` pairs it with, which shows that the property depends on
that code.

### Rs485

The main program is inside at most one call of `Send_to_Slave_read` or
`Send_to_Slave_write`; `pc` is its place, and one action is what happens between
two points where an interrupt makes a difference: the test of `rs485_tx_busy`
(`Refuse`, `Accept`), the eight bytes (`Fill`), `HAL_UART_AbortReceive` (`Abort`),
the pin (`TxMode`), `HAL_UART_Transmit_DMA` (`StartOk`, `StartBusy`), the flag
(`Mark`), and the two steps of the error path. The two functions differ only in the
bytes they write, so they share the actions. Each interrupt handler is one action,
since none can interrupt another. `TxCpltIrq` is the whole of
`USART2_IRQHandler` on TC, with the IDLE branch that runs first when its flag is
up. HAL rules that decide outcomes are kept: `Transmit_DMA` refuses when `gState`
is not ready, `Receive_DMA` when a reception is armed, `AbortReceive` leaves the
byte count alone. A frame is a model value. `intact` records whether the frame
that leaves the UART gets through whole: it is lost when its buffer is rewritten,
the transceiver turned, or the slave talks at the same time. Bytes and CRC are
abstracted to "whole answer or fragment" (`Part`); a fragment fails `Modbus_Parse`.
One interrupt is left out: the receive-complete interrupt of DMA1 channel 6, which
would end the reception until the next IDLE. The DMA is in normal mode with a buffer of
64 bytes, and the slave's answers have at most nine, so it cannot fire as long as
nothing on the bus talks for 64 bytes without a pause.

Receiver errors (`ErrorIrq`) come at any time with `NoiseOnSend`, and only on a
`Quiet` line without it: before a call has aborted the reception, or after its frame
is over. Two abstract specifications say what the driver keeps in the second case.
`HalfDuplexLine` is the promise to the wire, `SharedLine` the one to its callers: five
variables, in which a call is one step, refused exactly when the line is not `Free`;
`stuck` is the flag left up, which a receiver error takes down. `Shared` maps the
driver's state to it, and `SharesLine` says that the driver implements it.

### MqttSession

The client is one sequential program: `pc` goes through `socket()`, `connect()`
(names `tcp_*`), `MQTTConnect`, `MQTTSubscribe` and the main loop. A wait loop on a
chip register is the guard of an action, so a loop that would spin for ever is an
action that stays disabled. `waitfor` is `AwaitConnack`/`AwaitSuback`, each pass of
which runs `Cycle` (read a packet, deliver, keepalive). `due` holds the timers that
have expired, each by an action of its own, so a timer may run out between any two
steps. Sending fails when the socket is not open or the buffer is full, and may fail
while the link is down and data unacknowledged. The broker and the network are
external: they accept, refuse, answer, forward, close and vanish, and `Faults`
names the faults a run allows: `close` (the broker closes an established session),
`earlyclose` (it closes right after accepting), `vanish` (no segment passes for a
while), `slow` (an answer after the command timer), `refuse`, `spi` (all registers
read 0x00 or 0xFF for a while, writes are lost), `reset` (the chip restarts).

### Keypad

`Sample` and `Release` are the TIM4 interrupt (`key_scan`), `Test`, `Clear` and
`Act` the three steps of each branch of `key_control`, so an interrupt falls
between any two of them. `held`, `pending` and `owed` are history: how long the key
was really down, the presses since a flag was last cleared, the kinds of press that
no action has followed yet. Presses that find their flag up share one action, as
they do in the code.

### PacketReader

The stream of the broker is numbered byte by byte: packet `k` starts at `Start[k]`,
and `Digits[k]` is its remaining length as it is spelled. `pos` counts the bytes
read, `role` is what the client takes the next one for, `cur` the packet whose header
it read last. A length byte spells its digit if it is the one the client takes it
for; otherwise, out of step, it may spell anything. `rem` and `multiplier` are those
of `decodePacket`, which the mutant `ReadLengthOn` shows to be bounded at four bytes.
`looked` and `expired` decide when `w5x00_read` leaves its loop: it tests the time
after each look at the buffer, so it may give up with bytes just arrived.

### Station

`pc` goes through one pass of the main loop: control messages (`Message`), the poll
(`PollSlaves`), the status document (`Upload`), and `key_control`, one device at a
time. `dev` is `g_device`, `coil` the slave's coils, `pub` what was published last
for each device, and `missed` is history: the last command for the device was refused
or lost. A message gives states to any of the names 0..N, N being the alarm, and
has at most one `id`. `Execute` takes the loop of `Parse_JSON_Command` over the names in
one step: the ids of lamp, fan and spray differ, so the passes for other names than the
one with this `id` change nothing, and without an `id` it returns at the first name with
a state. The lamp, the fan and the spray differ only in their name and register, so
there are `N` of them.

`Message` allows more than the code can do: messages may follow one another within one
frame. In the code `messageArrived` and `Parse_JSON_Command` print by blocking output
for about 5 ms before the command, and an eight-byte frame takes 0.69 ms, so a control
message never meets the frame of an earlier one. A key press served right after a poll
does meet the poll's frame, and is refused (`missed`).

The bus is an instance of `SharedLine` (`Line`): `Control` and `PollSlaves` send by
`Line!Send` or are refused, `TxDone` is `Line!Sent`, and so on. That the driver
implements this bus is the theorem `ImplementsSharedLine` of `Rs485Proofs`. The busy
flag may be left up (`stuck`), and then every command is refused until `Noise`, a
receiver error, takes it down.

### SensorTask and Ticks

`Sensor_task` is at one of its periodic jobs; any pass may find one due. Each value
is read in two steps, since `RS485_GetEnv` reads the tick before it turns interrupts
off: `TakeTick`, and the copy with what the caller makes of it (`CheckCo2`,
`PublishTempHumi`, `StatusTempHumi`, `StatusCo2`). `Answer` (the receive interrupt)
and `Tick` fall between any two steps. An answer that arrives in between makes the
unsigned age `2^32 - 1` or nearly so; `UseBus` keeps the code's test against it.
`dht11_read_data` has three outcomes: a reading, a failure, and a checksum error that
is reported as success and leaves the caller's variables alone (`unset`, as after a
failure that the caller does not look at). The ramp of `mock_co2` moves in units of
ten. `silent`, `delay` and `basis` are history: the time since the slave last
answered, the time within the call, and whether the alarm was computed from the CO2
value that still stands.

`Ticks` holds the arithmetic: `Since`, the unsigned difference used everywhere, and
the `Timer` of `mqtt_interface.c`, whose deadline is compared with `>=`. `LeftMS`
includes the conversion of `TimerLeftMS` to `int` (`AsInt`): after a wrap of the tick it
is a negative number, which `w5x00_read` and `w5x00_write` turn back when they compare it
with an unsigned difference (`AsUnsigned`).

### TimedCalls

`MQTTConnect` and `MQTTSubscribe` (`command`), `MQTTPublish` and `MQTTYield` each set one
`Timer`. `pc` is where the call is: the test of the timer in `sendPacket` or `waitfor`
(`TimeUp`, `InTime`), a `TimerLeftMS` (`TakeLimit`), or the loop of a read or write,
which takes a `start_tick` of its own on entry (`Enter`) and leaves when more than its
limit has passed since (`Over`), with all it was asked for, or on an error. Which bytes
come is free, and so is whether a packet is the one waited for. `decodePacket` reads up
to four length bytes, all with the limit that was left before the first, and its result
is not looked at. `Tick` falls between any two steps. `waited` and `delay` are history:
the time since the call began and since its last step.

`MaxStep` bounds the time from one step to the next. What lies between is taken as part
of it: register access, a message handler with its printing and publishing, a ping of
`keepalive` with its own second. The model has no other bound on them, and a wait for
the chip that never ends (see the runs of `MqttSession`) is a step without end.

## Runs

| run | shows |
|---|---|
| `rs485_clean` | unless a receiver error hits a frame: types, the flag covers every transmission, the driver implements `HalfDuplexLine` with its liveness, and `SharedLine` |
| `rs485_noise` | with receiver errors at any time the driver is never deaf when idle and always gives the bus back |
| `rs485_overlap` | violation: a receiver error during a transmission clears the flag, and the next call rewrites the buffer under the DMA |
| `mqtt_safety` | up to three faults of every kind: types, a session and a subscription are believed only as the broker granted them, CONNECT first and once, one ping at a time, messages at most once and in order |
| `mqtt_recover` | closing, outages, late answers, refusals: a device that knows it is not connected connects, the loop goes on, messages in the buffer are handled |
| `mqtt_loss` | violation: the broker closes and the device, which ignores every error of `MQTTYield`, counts as connected for ever |
| `keypad_key` | presses are classified by their length modulo the width of the counter, served, never wiped out, never served twice |
| `reader_pieces` | packets in pieces are put together as sent, each is handed over, until a timer runs out after a header |
| `reader_stall` | violation: a timer that runs out inside a packet makes a packet of what has come, or a header of what follows |
| `station_devices` | whatever order keys, messages, polls, answers and collisions come in, a coil ends as `g_device` says unless its last command was refused or lost; a command that was taken reaches its coil; a published state that no longer holds is put right |
| `sensor_age` | a value from the bus is fresh, a made-up value means the slave was silent, the alarm of a status document agrees with its CO2 value, on a wrapping tick |
| `timed_wait` | a call of the MQTT client ends within four timeouts and its own delays, however packets dribble in and however many others come first, and not before its time; the exceptions are a tick that wraps under a running timer, and the last ticks before a wrap |

Each violation run checks one statement of the repository (quoted in the findings
of `PROJECT.json` with its place) that the code does not keep. The passing run of
the same module says what does hold: a busy flag that covers every transmission
holds unless a receiver error hits a frame, reconnection holds once `isconnected` is clear,
framing holds until the first read that is cut.

The model of the session has two more ways out of `Reconnects` and `KeepsTurning`,
outside the faults of `mqtt_recover`: with `reset` the address register is zero and
`socket()` fails at every retry, because only `main` calls `w5500_init`; with
`earlyclose` `connect()` polls a socket in `CLOSE_WAIT`, which none of its exits
expects.

## Bounds

- `Rs485`: two polls and one coil write. Calls differ only in their frame, so one
  write is enough to see a call of either kind overtake one of the other. Nothing
  else is bounded: the runs cover calls, interrupts and answers without end.
- `MqttSession`: buffers of two packets, so that full, half-full and empty occur; up
  to two control messages, one a command and one echoed (the fewest that can come
  out of order); three faults in the safety run (a fault, one during the recovery
  from it and one more), two in `mqtt_recover`, one in each violation run. Without
  faults left the environment still forwards, answers and acknowledges at its own
  pace. Connections are not counted: reconnecting goes on without end.
- `Keypad`: thresholds 2 and 4 for 1000 and 3000, wrap at 6 for 65536, presses up to
  nine samples, so that a press reaches both thresholds and goes past the wrap; at
  most two presses of a kind before a clear, one that raises the flag and one that
  finds it up.
- `PacketReader`: three packets, with a two-byte length, without a body and with a
  one-byte length, in every split into pieces. Digits are in radix 3 instead of 128.
- `Station`: two devices, so that one may be served while the other is not, and every
  message over their names and the alarm's. One frame at a time is what the driver
  takes; nothing else is bounded.
- `SensorTask`: a tick of 5 values, answers fresh for less than 2, up to 2 ticks between
  the two steps of `RS485_GetEnv`, so that an answer may become stale, wrap or be
  overtaken within one call; CO2
  answers of 0 (no value), below and above the threshold of 2; a ramp from 1 to 3, both
  ends of which are reached.

- `TimedCalls`: a timeout of 2, steps at most 1 apart and a tick of 32 values, so that
  calls begin before, at and away from the wrap. `WaitBound` is reached: it fails if it
  is lowered by one. `waited` stops counting one past it.

## Fairness

- `Rs485`: the called function goes on (the main program is never starved: a handler
  ends), the DMA and USART interrupts are taken once pending, an answer that began
  ends. No fairness for calls, answers or errors: none is promised. `HalfDuplex` and
  `BusReleased` need no more.
- `MqttSession`: the main program goes on; a pass of the main loop publishes finitely
  often; `HAL_GetTick` advances, so the command and the retry timers run out; an SPI
  or link outage ends; the W5500 ends retransmitting a dead connection by its retry
  limit (`TcpLost`); a broker that is reachable accepts and reads. The broker's
  closing and forwarding are not fair.
- `Keypad`: the main loop comes back to `key_control`. The key itself need not be
  released.
- `PacketReader`: `mqtt_loop` keeps yielding, TCP delivers every byte in the end. The
  timer need not run out.
- `Station`: the main loop turns, a frame ends, the slave answers and stops. A status
  falls due every two seconds and publishing succeeds again and again (strong
  fairness of `Upload(TRUE)`), as it does while there is a session. Keys, messages and
  polls are not fair, and neither is the receiver error that takes down a flag left
  up.
- `SensorTask`, `TimedCalls`: none; their properties are about safety. That a call takes
  its next step in time is `MaxStep`, not fairness.

`mqtt_safety` does not report deadlock: with an SPI dropout the program may really
stop in a wait loop of `socket()`.

## Proofs

`Rs485Proofs`, for any set of coil writes:

- `TypeCorrect`: `TypeOK`, with or without receiver errors.
- `ListensWhenQuiet`: `ListeningWhenQuiet`, with or without receiver errors. The
  property speaks of a call that has ended; the inductive `ListeningInv` says it of
  every step before the call touches the pin or the reception and after it has handed
  over to the interrupt, adds that the error path has turned the
  pin before it arms the reception, and that a ready UART is not transmitting.
- `BusyFlagCovers`: `BusyCoversSending`, unless a receiver error hits a frame.
  `Exclusive` adds what makes it inductive: a call that has passed the test has the
  UART to itself, so it is never refused by the HAL and the error path is never
  entered.
- `ImplementsHalfDuplexLine`: on the same condition every step is a step of
  `HalfDuplexLine` or a stutter. Besides the above it needs `BufferFilled`
  (the buffer holds the frame from `Fill` on) and `DriverInTurn` (the pin is up
  exactly between `TxMode` and the completion).
- `ImplementsSharedLine`: `SharesLine`, on the same condition. A call of six steps
  with interrupts between them is one step of `SharedLine` (`StartOk`), the rest
  stutters. Its invariant `SharedInv` adds `FlagInTurn`: a call past the test has the
  flag down, so a flag that is up with nothing sent is one left up, and only a frame
  on its way can reach the slave whole.

`KeypadProofs`, for any thresholds below the wrap, any `MaxHold` and `MaxPending`:

- `TypeCorrect`, and `PressesKept` and `ActionsMatched` from one invariant `KeyInv`.
  `Claims(k)` counts what is outstanding for a kind (its flag, its action under way);
  `pending[k]` is at least that. It also needs that the flag stays up between `Test`
  and `Clear`: the interrupt only raises flags.
- `PressesClassified`: `PressClassified`, from `TimeKept`, which says that the counter
  is the time the key was down less debouncing, modulo its width. It rests on
  `WrappedCount`: counting modulo the width is the count modulo the width.

`PacketReaderProofs`, for packets of any lengths in any radix:

- `TypeCorrect`: `TypeOK`.
- `ReaderInStep`: `InStepUntilCut`. The inductive `ReaderInv` adds `Stream` (every byte
  of the packets begun is still coming, has arrived or is read) and, until a read is
  cut, `InStep`: the place in the stream is the place in packet `cur` that the role,
  the digits read and the value left to read say it is.

`MqttSessionProofs`, for buffers, messages and faults of any number:

- `HandlesOnceInOrder`: `AtMostOnceInOrder`, the refinement of `CommandDelivery`. Its
  invariant `DeliveryInv` orders the control messages: those in the receive buffer are
  younger than the last one handled, older than the next one published, and in order
  among themselves (`RxOrdered`); `OneHandler` says that there is one handler at most,
  so one packet is handled once.
- `TypeCorrect`: `TypeOK`, which with `RxOrdered` is inductive: no handler is added to
  a full table and no packet to a full buffer.
- `SessionIsAgreed` and `ConnectComesFirst`: from `SessionInv`, which says at every
  place of the program what the broker may know of the connection. `Opening`: while
  the socket opens, both buffers are empty. `FirstTurn`: they still are when CONNECT is
  due. `Accepted`: until the broker has read it, CONNECT alone is sent and nothing has
  come back. `Answered`: once it has, no other is sent. `Denied`: after a refusal the
  device is not connected and no CONNACK in the buffer says otherwise. `PeerThere`: a
  broker that is there means an established socket. `Believed` ties `connected` to the
  place of the program.
- `SubscriptionIsAgreed`: adds `GrantsHold`, that a SUBACK in the buffer that grants
  the subscription means that the broker on this connection holds it.
- `PingsAccounted`: from `PingInv`, whose `Balanced` counts PINGREQs and PINGRESPs on
  their way: one in all while a ping is outstanding, none otherwise.

`StationProofs`, for any number of devices:

- `TypeCorrect` and `CoilsFollow`. `CoilFollows` is inductive together with `TypeOK`:
  `Destined` follows a command from the line through the slave to its coil.

`TicksProofs`, for every width of the tick: `SinceExact` (the unsigned difference is
the time passed, across the wrap too), `TimerExact` (a `Timer` is right while neither
its deadline nor the tick wraps), the two ways it fails otherwise: `TimerEarly` (a
deadline that wraps has expired when it is set) and `TimerLate` (a timer that still
runs when the tick wraps does not expire for a whole wrap), and `TimerAccounted`,
by which there are no others.

`TimedCallsProofs`, for every timeout, `MaxStep` and width of the tick that the bound
stays below: `TypeCorrect`, `CallsEnd` (`WaitEnds`) and `CallsNotCutShort`
(`NotCutShort`). The invariant `IInv` bounds, place by place, when the last step of the
call was (`Pace`). At a read or write it says what the limit still allows: `Limited`
that time plus limit stays below the place's bound, and on entry that the loop ends
within the limit; `ByteLimited` the same for the length bytes, which share a limit but
not a `start_tick`. `Clocked` ties the time waited to tick and deadline, from where
`TimerAccounted` gives what the timer says. The bound is four timeouts, since a limit
taken at once is used up by each of the four length bytes, and twelve late steps; with a
timeout shorter than the steps, one timeout and sixteen. A peer that sends length bytes
one timeout apart can so keep the main loop for 20 s, not 5, with no key served and no
sensor polled; `mqtt_app.c` sets 5 s.

`SensorTaskProofs`, for every width of the tick, limit and threshold: `TypeCorrect`,
`BusFresh`, `FallbackSilent` and `AlarmAgrees`, from one invariant with the parts
`AgesKept` (the unsigned age of an answer is the time the slave has been silent,
until that reaches a wrap), `NowHeld` (the tick read is `delay` behind the clock) and
`AlarmKept` (the alarm is that of the value it was computed from).

Assumptions: the constants' `ASSUME`s, named in the modules that declare them, and
`~NoiseOnSend` where said (no receiver error between the abort of a reception and the
end of its frame); without it `rs485_overlap` is the counterexample. One is
more than a range: `StartAssumption` says that the packets follow one another, and
that a later one starts at a later byte. The second follows from the first by
induction, which is beyond the prover, so it is assumed; TLC evaluates it.

Every safety property of the passing runs is proved. Only model-checked is liveness,
which is beyond the prover: `BusReleased`, the fairness part of `HalfDuplex`,
`PressServed`, `AllDelivered`, `Reconnects`, `KeepsTurning`, `HandledOrCut`,
`CommandSettles` and `PublishedInTheEnd`.

## Not modelled

- The TCP server and the UDP loopback task: compiled, but no line of the main loop
  calls them.
- The periods of `Sensor_task`: a job may fall due at any pass. The wrap of the
  session's timers: `MqttSession` lets them run out at any time, and what a wrap does
  to one is in `TimedCalls`. The ping timer's own wrap is left out there.
- The nesting counter of `bsp_w5500.c`: every caller pairs enter and exit around one
  register access and no interrupt handler accesses the chip, so it never nests.
- QoS 1 and 2, unsubscribe and disconnect of the client library: the application
  publishes and subscribes with QoS 0 and never disconnects.
- JSON text, MQTT encoders, CRC arithmetic: data that no property tells apart. Only
  whether a message spells a command or is echoed matters, and whether an answer is
  whole.
- Register access over SPI (`bsp_w5500.c`, `w5500.c`, `wizchip_conf.c`), the DHT11's
  bit timing, vendored protocols (DHCP, DNS, ...), cJSON, and files that the program
  does not call (MPU6050, Mahony filter, ESP8266).
- `printf`, in the main program and in the TIM4 interrupt: `fputc` blocks on
  USART1 and changes no state that is modelled; it only takes time, which the
  interleavings already allow.
