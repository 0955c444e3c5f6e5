# Smart lock firmware (ATSAML11 + SIM868): TLA+ models and proofs

The repository holds the firmware of an IoT smart lock: a SAML11 (Cortex-M23)
microcontroller talks over one UART to a SIM868 GSM/GPRS/Bluetooth modem.  The
two trees `src/ATSAML11_BT_SIM868` and `src/SmartLock_BT_SIM868` have the same
sources, byte for byte; line numbers below are those of `src/ATSAML11_BT_SIM868`, with

- *exec* = `Firmware/Source/yutu_fw_at_command_exec.c`,
- *gprs* = `Firmware/Source/yutu_fw_gsm_gprs.c`, *bt* = `Firmware/Source/yutu_fw_bt.c`,
- *uart* = `Firmware/Source/yutu_fw_uart.c`, *sched* = `Firmware/Source/yutu_fw_scheduler.c`,
- *main* = `Firmware_App/Source/main.c`, *JW* = `JSON/Source/JSONWriter.c`,
- *JP* = `JSON/Source/JSONParser.c`, *mqtt* = `Firmware/Source/MQTT_Packet_Writer.c`.

In `PROJECT.json` the statements of `AtExec` are mapped to the copy in
`src/SmartLock_BT_SIM868` and everything else to the first tree; each module holds for both.

## 1. The system

Three threads run under a pre-emptive round-robin scheduler with slices of 20 ms:

- the **tester** (task 0) calls the functions of *bt* and *gprs*.  Each of them
  fills the queue of AT commands and then spins until `commandCount` is 0;
- the **dispatcher** (task 1) takes the current command of the queue, sends it
  through the UART, starts the response timer and handles its time-out;
- the **response processor** (task 2) polls the UART.  A message is first offered
  to the table of unsolicited result codes (URC) and, when it is none of them, to
  the callback of the command under execution; the result decides whether the
  command is repeated, completed, given up with its whole list, or waited for again.

Everything the threads share is a plain global: the queue, `modemStatus`, the
flags `s_atExecute`, `modemRspWait` and `responseRecvd`, the timer's
`delayTimerStart`, `respTimeOut` and `timeOutFlag`, `responseRecvBuffer`, and the
Bluetooth state `machineState`, `btProfile` and `dataEvents`.  There are no locks.  `SysTick`
counts the timer, and the two UART interrupts fill the receive buffer.

### Components

| Component | State | Operations | What makes it correct | Modules |
|---|---|---|---|---|
| AT command queue (*exec* 43-184) | ring of slots, `firstCmd`, `currentCmd`, `lastCmd`, `commandCount`, all `uint8_t` | `queue_init`, `add_at_cmd`, `add_at_cmd_queue`, `del_at_cmd_head`, `del_at_command_head` | a bounded FIFO: no command lost, reordered, overwritten or executed twice, no counter below zero | `AtQueue`, `AtQueueApi`, `BoundedFifo`, `AtQueueProofs`, `AtQueueApiProofs` |
| AT command engine (*exec* 186-234, 844-955; callers in *gprs*, *bt*) | `modemStatus`, the three flags, the timer, the queue | one loop per thread, timer start and stop, `SysTick` | commands tried in order within their repeats; every wait is timed; a call returns, with the result of its last command | `AtEngine`, `CommandFifo`, `AtExec`, `AtEngineProofs`, `AtExecProofs` |
| Scheduler (*sched*, `yutu_fw_scheduler_Cooperative.s`) | task table, `osCurrentTask`, `osNextTask`, PendSV pending | `task_init`, `os_start`, `SysTick_Handler`, `PendSV_Handler` | each context is kept, each task gets its turn, the timer is exact | `Scheduler`, `InterruptProofs` |
| UART driver (*uart*) | receive buffer, byte count, silence counter, full flag | byte interrupt, 250 us timer interrupt, `yutu_fw_uart_recieve` | each message handed over whole, once, in order | `Uart`, `InterruptProofs` |
| Response callbacks, URC dispatch (*exec* 236-833) | `responseRecvBuffer`, URC table, `btProfile` | one function per expected answer or URC | the result they return is what the message says | `Responses`, in `ServerSession`; Bluetooth URCs in `BtSession` |
| Bluetooth session (*exec* 676-842, 958-1014; *bt*) | `machineState` bits, `btProfile.btStatus`, the data frame | pairing, connection, disconnection and data URCs; the tester's loop | no event lost between the two threads; the session can always be opened again; each frame of the phone handled once, whole | `BtSession`, `BtSessionProofs` |
| GSM/GPRS functions (*gprs*) | URC table, APN, server, data packet, three bits of `machineState` | `gsm_gprs_init`, `gprs_on`, `connect_server`, `send_gprs_data` | what the device believes of the network was told to it | `ServerSession`, on `AtEngine`; `ServerSessionProofs` |
| MQTT packet writer (*mqtt*) | one frame and a configuration | a writer per packet, the setters | what is sent reads as what was asked for | `MqttWriter`, in `ServerSession` |
| JSON writer (*JW*) | buffer, node stack, error latch | open, object, array, end, close | the text is balanced and stays in its buffer, the first error sticks | `JsonText`, `JsonWriter`, in `JsonDocument`; `JsonProofs` |
| JSON parser (*JP*) | token table, position, status | `JSONStructInit`, `JSONParseData`, `SearchToken` | what the writer wrote is read back | `JsonText`, `JsonParser`, in `JsonDocument`; `JsonProofs` |
| Mobile request handler (*main* 48-337, 506-1272) | registration, keys, the answer's buffer | one branch per opcode, the buttons, the reports | a request is answered; the lock opens only for a known phone; the answer tells what was done | `Packets`, `MobileHandler`; `JsonProofs` |
| String helpers (`Firmware/Source/common.c`) | none | conversions modulo 256 | | in `MobileHandler` |
| Application stubs (*main* 2003-2040) | none | constants, for the time being | | their results are constants of `MobileHandler` |
| Hardware initialisation | registers | written once | | not modelled |

### Not modelled

- Register initialisation, which is writes done once before the scheduler starts, and
  `main_test.c`, which is commented out as a whole.
- What nothing calls: `ReadConfigParam` and `WriteConfigParam` and the trip packets
  (*main* 338-498; line 492 writes the flash where it should read it), the canned handler
  (603-610), `yutu_fw_bt_power_off`, `delay_ms`, `scheduler_os_thread_yield`.
- Code that is commented out (*main* 1273-1668), and the acknowledge packet (570-589), which
  is made in a local buffer and dropped.
- What only makes wordings: `jwErrorToString`, `convert_integer_to_string`, the texts that
  `set_apn` and the setters of the server's address put together.  `tempStr[30]` of *gprs*
  130 is written by `sprintf`, so an APN that is long runs past it: no model has that
  array.
- `dup` and `retain` of the MQTT writer, which work on a byte that is not stored.

### What is hard here

- **Interleavings.** Statements of three threads and two interrupts, no locks,
  read-modify-write on shared bytes.
- **Time-outs and retries.** The modem may answer late, twice or never, and no
  answer names the command it belongs to.
- **Counters at their edge.** All of them are `uint8_t`; `0 - 1` is 255.
- **Messages that do not say what they are.** An answer names no command, several
  results come in one burst, a URC empties the buffer that an answer is read from.
- **Texts in fixed buffers.** The writer cuts, the parser reads on until it finds what it
  looks for, and tokens that were not found are read through `NULL`.
- **One frame for every packet.** Each MQTT writer starts from what the one before left.
- **Waiting without a bound of its own.** A calling function spins until the other two
  threads have emptied the queue.

`PROJECT.json` lists these hazards one by one, each at its line, with the
properties that cover it.

## 2. The modules

### `AtQueue`: the queue

The fields of `cmdQueue` are variables; the operations are actions on them, without
a `Next`, that the modules extending this one give to threads.  The text of a command is
a model value, a slot is a record, arithmetic on counters is modulo 256.
`QueueClear`, `OutcomeClear` and `QueueInit` are `queue_init`, whose order matters
(`commandCount` is 0 before the status is cleared); `AddAtCmd`, `DelAtCmdHead`
and `DelAtCommandHead` keep the C functions' names.

### `AtQueueApi` and `BoundedFifo`: the queue as an API

`AtQueueApi` calls the queue's operations in every order, with the engine completing
commands in between, also in the middle of a list.  The abstract specification
`BoundedFifo` is a sequence with `Put`, `Take` and `Erase`; the mapping
`waiting <- Pending` reads the ring from `currentCmd`.  The refinement needs two
conditions of use that the code does not test: `NotDrained` (nothing is added to a queue
that has drained without a `queue_init`) and `NotExecuted` (no list is added, and no
head deleted, while executed commands lie in front of `currentCmd`).  The firmware keeps
both, because every function starts with `queue_init`.  The constant `Waived` drops a
condition, to show that it is needed.

### `AtEngine` and `CommandFifo`: the engine, one pass of a loop per step

| Action | Code |
|---|---|
| `Call`, `Open`, `Refused`, `Add`, `Close`, `Return` | a function of *gprs*/*bt*, from `queue_init` to the loop on `commandCount` (e.g. *gprs* 67-109) |
| `ExecuteAt` | `case MODEM_EXECUTE_AT` with `send_at_command` (*exec* 910-920, 220-231) |
| `RspWaitTimeOut`, `RspWaitRecvd` | the two branches of `case MODEM_RSP_WAIT` (921-942) |
| `Idle` | `case MODEM_IDLE` (945-950) |
| `RspRetry`, `RspAbandon`, `RspAccept`, `RspWait` | the switch on the callback's result (863-897) |
| `TimerExpires` | `SysTick_Handler` when `respTimeOut` runs out (*sched* 142-149) |

The modem is unconstrained: a callback may return any result it has, at any time a
command is under execution.  Two history variables are added: `tried`, the sends of the
command under execution, and `accepted`, the commands of this call that were accepted.

`CommandFifo` is what the engine promises the caller: the commands of a call are tried in
the order they were queued, each at least once and at most `repCount + 1` times, none is
skipped, and the status belongs to the last one accepted.  `ImplementsFifo` is the
refinement; its mapping (`Todo`) reads the pending slots and adds the repeats already used
back to the first one.

### `AtExec`: the engine, one statement per step

The same three threads with a program counter each.  Only the thread `running` steps;
`SysTick` may end its slice after any statement, and then the next thread of the table
runs.  An update of a counter that two threads share is a load and a store
(`UseRepeat`, `AdvanceQueue`, `CountUp`).  The modem's answers travel through `air`
(on the line) and `inbox` (complete in the UART).  The threads' loops are written as
the list of their statements: `Step(t, a, b)` goes from statement `a` to `b`.

Three constants name assumptions, and the runs that violate a property are the ones that
drop them:

- `Whole`, the threads whose passes no tick cuts (a pass of the response processor takes
  microseconds of its 20 ms);
- `Prompt`, an answer never comes after its time-out;
- `RspOf`, what a callback may return for a message.  The third entry of the default
  callback's table is `NULL` (*exec* 378) and is handed to `strlen` and `strncmp`.  That is
  undefined, so `AnyBuild` lets it match everything or nothing; `LineBuild` is a build
  in which it matches nothing.

`ExecInv` says how queue, flags and program counters agree when the passes of the dispatcher and of
the response processor are whole, wherever the caller is cut.  `GrantInv` adds what holds when, besides, the modem is
`Faithful`: it answers `OK` or `ERROR` and in time, says nothing else, and callbacks take
`OK` alone for success.  Both are proved (section 4).  `at_exec_passes` checks the first; the second, which
holds trivially unless the modem is faithful, has a configuration beside the listed runs, `AtExecAnswers.cfg` of `MCAtExec`: two slots, four
lists, answers `OK` and `ERROR` in time or missing (4905 states).

### `Uart`

Bytes are pairs (message, position), so a byte out of place is seen.  `Byte` and `Tick` are
the two interrupts, and they fall between any two of the statements of
`yutu_fw_uart_recieve` (`Receive`, `Copy`, `Clear`, `Ready`, `Return`).  `strlen`, the
`memset` of `sizeof` a pointer and `strncpy` do what the C functions do.  Assumed of the
modem: it begins a message only when the last one is out of the buffer, pauses at most one
tick inside a message, and keeps messages shorter than the buffer.

### `Scheduler`

A context is the pair (thread, number of own steps modulo `Period`).  `SysTick` names the
task to save and the one to run, `PendSV` exchanges them later, and `Work` is the thread on
the processor going on, also in between.  One thread starts and stops the response timer
statement by statement while ticks fall anywhere.

### `BtSession`

What the tester and the response processor share beyond the queue.  A call of *bt* or
*gprs* is a wait for an `answer` here (`AtEngine` shows that it returns); around it, every
load and store of `machineState` and `dataEvents`, and every statement that reads or writes
`btStatus` or the frame's buffer, is a step.

| Action | Code |
|---|---|
| `BringUp`, `Session`, `Switch`, `Data` | the four conditions of the tester's loop, its `switch` and the handling of a frame (*exec* 962-1010) |
| `Return`, `Set`, `Record`, `Clear` | the end of a call, `machineState \|= ...`, the new status, `BT_DATA_RD_RDY = 0` (e.g. 717-733, 991-1000, 1011) |
| `Pairing`, `Connecting`, `Connected`, `ConnectedHFP`, `Disconnected`, `Frame`, `SendOk` | the URC handlers of Bluetooth (675-842) |
| `Prompt` | `send_bt_data_callback` (657-673) |
| `Refuse`, `Accept`, `Pair`, `Ask`, `HandsFree`, `Drop`, `Send` | the modem and the phone (external) |

`Upset` is what *exec* 428-447 does to a command under execution when a URC other than
`+BTSPPDATA` comes: the emptied buffer answers it.  Three assumptions about timing are
named, and a behaviour makes those in its `assumed`: `whole` (the tester does not run
while the response processor handles a message), `apart` (no URC about pairing or a
connection is taken while a call is under way, up to the recording of its result) and
`waits` (the phone sends a frame only when the one before has been replied to).  The code
enforces none of them.  Each property holds under what it names and fails with any of
it dropped:

| Property | Needs | Without |
|---|---|---|
| `ReadyIsConnected` | `apart` | `+BTDISCONN` between the answer to `AT+BTACPT` and line 724: `BT_RDY` is set for a link that is gone, and since line 987 asks for it clear, no later request is served |
| `RequestsAnswered` | `whole`, `apart` | the result of a call overwrites the status of a request that came in meanwhile (992, 998) |
| `ServedInOrder` | `whole`, `waits` | a frame overwrites the one being parsed; a store of `dataEvents` puts `BT_DATA_RD_RDY` back and a frame is handled twice |
| `EachServed` | `waits` | line 1011 clears the event of a frame that came during the handling |

### `JsonText`, `JsonWriter`, `JsonParser` and `JsonDocument`

`JsonWriter` has the control structure as a record and each function of the API as an
operator on it: `Open`, `Obj`, `Arr`, `End`, `Close`, and under them `Put` (`jwPutch`, which
cuts at `buflen`), `Push`, `Pop`, `Pretty`, `Placed` (what `_jwObj` and `_jwArr` do to the
innermost node) and the conversions `Itoa` and `Dtoa`.  A text (`JsonText`) is a sequence of
strings, its pieces; a bracket, a quote, a delimiter and a digit are pieces of their own, so cutting, counting
(`Width`) and searching mean what they mean in C.  A double is told apart in quarters of the last digit
the writer keeps, which is what its rounding looks at.

`JsonParser` is the machine of *JP*: `StructInit` finds the root, a call of `ParseData`
makes one token, `SearchToken` compares hashes first and keys of the first match only.  The
hash is a parameter, so that two keys can collide.  `lost` says that a call has read past
the text, or written a key past its array or anything past the structure.

A token has 30 bytes for its key and 30 for its value (`JSONParser.h` 12-18), and *JP* 277-279
copies a value into them without a bound and without a NUL.  `ValueAt`, `TypeAt` and `TokenSize`
are the layout of the structure, so the model has what such a copy does: a value of 30
characters or more has no end of its own (`ReadOn`: its characters and whatever follows),
one that reaches the type, which line 158-227 set before, leaves characters there (`Overwritten`),
and what runs over into the tokens behind (`spill`) stays in the value of a later one that ends inside it.
A key is copied with its NUL and after whatever ran over it, so keys, and hence searches, are right
until one has 28 characters or more.  The cuts at 512 characters and the 32 tokens are in the model too.
`JsonDocument` is a client of both: legal and illegal calls in any order, `jwClose`,
and the loop of the mobile request handler over what was written.

What the two libraries do not carry, and `ReadsWhatWasWritten` therefore leaves out (`Carried`):
strings with a delimiter of the parser, which does not look at quotes; a number whose rounding
is a tie that carries over (0.9999995 is written as `0.1`, *JW* 543); doubles above
2^31 - 1, for which the text of the conversion before is put; `NaN`.  An object without members
runs the parser past its text.  `jwOpen` of an array only changes the buffer; the structure
keeps what it had.  Within one call `BUF_FULL` may take the place of `NOT_OBJECT`.  Integers are
taken above INT_MIN.  Of a value without room in its token (`HasRoom`) the property says that its key and
the members around it are read, and nothing of its text: the run reaches nested values of 34 and 46
characters and a string of 75 that do not fit, beside ones that do.  `ParseElement`, for a root that
is an array, is translated with the rest, but no run reaches it: nothing in the repository writes such a root.

### `Packets` and `MobileHandler`

A packet is the sequence of writer calls that makes it (`Packet(<<O("deviceID", ...), ...>>)`), so
it is cut, counted and read back by the models of the two libraries.  The report packet is
longer than the 300 bytes it is given and is always cut.

| Action | Code |
|---|---|
| `Receive`, `ReceiveText`, `Parse` | a frame, a frame without its end or a text without a bracket; the parsing loop (*main* 506-633) |
| `NoJson`, `NoOpcode`, `BadDevice`, `NoType`, `BadOpcode` | the checks that end in an error packet |
| `Connect`, `UnlockRefused`, `LockRefused`, `LockDevice` | the branches of the switch |
| `AskServer`, `ReadKeys`, `OpenLock` | unlocking: the request to the server, its answer (a text in the program), the driver |
| `SendAnswer`, `LongPress`, `UnlockPress`, `Report` | the caller, the buttons, the packets for the server |

Reads through a token that was not found give any text of `Junk` (or byte of `JunkBytes`),
among them one longer than the buffer.  The stubs of the lock's driver return constants today;
`Results`, `Statuses` and `Shackles` let them return what their callers test for.  Packets
that are made and then written over are modelled by what is left of them, since the sends
between them are commented out.  A frame is one the parser's structure can hold (`Carries`,
`FramesAssumption`): at most 32 members, each name and value with room for a NUL in its 30 bytes.  The code
checks none of this.

### `Responses`, `MqttWriter` and `ServerSession`

`Responses` has a message as its lines and each callback as a function of them: which entry
of its table a line starts with, and the result that goes with it.  `UrcEntry`, `IsUrc` and
`LeftOf` are `global_urc_handler`: only the first line is looked at, and an entry other than the last
of the table empties the buffer and is then reported as no URC.  The third entry of the
default callback's table is `NULL`, so `DefaultRsp` is a set of results.

`MqttWriter` has each writer as a function from the frame (bytes, `totalSize`, `nextPos`,
`packetType`) and the configuration to the frame.  `Config` is `app_config_struct_t` with texts that fit in its
arrays (`TextSize`, one for all of them), `Word` its `unsigned short`.

`ServerSession` extends `AtEngine` and lets the steps of the engine run with the real lists of
commands, the real callbacks and a modem that has a state of its own (registered, address,
connection, text mode).  `Begin`, `Fill` and `Finish` are the functions of *gprs* with the
bits of `machineState`; `Request` and `Configure` are an application that uses the packet
writer; `Message` is the response processor with a message from the first byte of the URC table to
the callback; the actions of `Modem` are external.  The order of the calls is that of the
tester thread (*exec* 958-976), where those to the server are commented out for now, and the
application is the use that `MQTT_Packet_Writer.h` is made for.

What the code does there and the model has: after `OK` alone, or the prompt, the engine
waits in `MODEM_IDLE` for good; Ctrl-Z is stored behind a packet and not sent with it, so no
`SEND OK` comes; `mqtt_response_handler` sees the line end where it looks for a packet, so it
recognises none, and keeps four bytes (the size of a pointer); a connect packet is sent with one byte too
many, and its will message goes with `WILL_RETAIN`; `subscribe` leaves its QoS byte out of the length;
`publish` keeps the type byte of the packet before; `ping` and `disconn` write where the packet
before ended and send its first two bytes, so each goes one byte further on; a setter copies a text without its
NUL, so the tail of a longer one stays (`tu` set to `a` is `au`).  The firmware stores on behind the frame; the model has no bytes there, so it says nothing of what happens then, and
`STypeOK` says that it does not while there is room (`RoomAssumption`).

`SentReadsAsAsked` compares what is sent with what the application asked for, not with what the frame's
configuration has become: `wished` records each text as it was handed to its setter, `mixed` the texts
that were set over a longer one, and a connect request carries both.  The property is stated of the two packets that
can be right.  An unsubscribe packet reads whole.  A connect packet reads whole up to the end its length byte
gives, and exactly one byte follows, which is whatever the frame held there; with a text in `mixed`
it does not read as was wished, and the property leaves it out.  The other four are in the run for what they
leave in the frame.  After its first prompt `send_gprs_data` does not return, so a behaviour
sends one packet; what earlier ones do to it they do in the frame, before it is sent.

## 3. What the runs show

| Run | Bounds | Result |
|---|---|---|
| `at_engine` | 4 slots, 5 lists of 1-5 commands, 1-3 repeats | all invariants including the inductive `IInv` and `GoalInv`; the engine implements `CommandFifo`; a call returns true exactly when its last command was accepted during it; a call returns unless the dispatcher was told to wait for a second message |
| `at_exec_passes` | 2 slots, 4 lists, two answers on the line, one URC or stray line, `Whole = {D, R}`, late answers, `AnyBuild` | only the caller is cut: the inductive `ExecInv`; repeats never below zero, nothing is sent from a half-filled queue |
| `at_exec_prompt` | 2 slots, 3 lists, answers `OK` in time or missing, `Whole = {R}` | caller and dispatcher cut anywhere: success is only reported when it was granted, and every call returns |
| `at_exec_success` | one command, answer `ERROR` in time, no thread whole | **violation** of `SuccessIsGranted`: finding 1 |
| `at_queue_api` | 4 slots, 3 commands, lists of 1 and 2 | under both conditions of use the ring is a bounded FIFO |
| `uart` | buffer of 6, pointer of 2, 3 messages of 1, 3 or 5 bytes | each message is whole and each is processed |
| `scheduler` | 4 entries, 4 registrations (the last refused), timer of 1 or 3 ticks | contexts, turns and the timer are right with ticks anywhere |
| `bt_session` | 2 frames, any number of connections, the phone acts while at most 2 URCs are under way, four sets of assumptions | every property of the table above under its weakest assumptions |
| `json` | buffers of 12 and 200 characters, 4 calls, stack of 3, two keys with one hash, plain and pretty; tokens with the sizes of the code, enumerations of one byte; values up to 75 characters | the nodes on the stack are the brackets open in the text; what was written is read back, member by member, each value that has room in its token; a search finds the first, or none when another key has its hash; after an error nothing changes |
| `json_terminated` | the same | **violation** of `Terminated`: finding 2 |
| `mobile` | frames with each member right, wrong or missing in two orders, a member twice, a member in a nested object; cut frames; a driver that may fail | the lock opens only for the button or a whole frame of a known device and phone whose opcode is 112 modulo 256; the answer says what was done; every whole frame with a member is answered (frames as `FramesAssumption` has them) |
| `server` | 4 slots, 1 repeat, 1 message under way, bursts of 2 lines, 2 uses of the writer or the setters, 1 lost connection, frame of 32 bytes, texts of 2, one set that is shorter than what was there and one that is not | every byte is stored inside the frame; what `machineState` says of registration, address and connection was told by the modem; an unsubscribe packet that leaves reads as it was asked for, and so does a connect packet up to its length, unless a text was set over a longer one |

Why the bounds are enough.  The engine never has two commands under execution, and a list
starts in slot 0, so what slots add is a queue that is just full (4 commands in 4 slots), a
list that is refused (5) and a command that is not the last.  One repeat is needed for
"some left", two for "one used, one left", three is what the firmware uses.  `AtExec` has two
slots, because statement-level interleavings need a current command and a next one, and
one list that does not fit.  Four slots let the ring of `AtQueueApi` go round at every offset.
A buffer of six bytes has messages shorter than the pointer, between, and up to the
last byte that leaves room for the NUL; three messages are a long one, a shorter
one after it and one more.  Commands, callbacks and messages are model values: the code
compares them for nothing but what is modelled.

Two frames in `BtSession` are one being handled and one that comes too early;
two URCs under way are a request and what may overwrite it.

Four calls of the JSON writer open, fill and end a node and go on behind it, or end one too
often; with a stack of three the third level is the one refused.  The shorter buffer cuts
most documents somewhere, the longer one none.  In `MobileHandler` each check looks at
one member, so two values and its absence are all it tells apart.  In `ServerSession` a
session of four functions has ten commands; one repeat is a retry, one lost connection happens
anywhere and the second would meet the same states; two uses of the writer are a packet and what
was left in the frame by the one before.  Its `VIEW` leaves out what no guard and no checked property
reads: the slots of commands that are done with, the list of accepted commands, and the last data of
the server.

`ReadyIsTold` has two exceptions, kept in the history `unheard`: `CLOSED` behind other lines of a
burst is not looked at (`memchr` gets the length 0, so only the first line is dispatched), and one that comes
during `connect_server` is followed by `SERVER_RDY` being set.

Deadlock checking is off in five configurations: `AtEngine.cfg` has the call whose threads
all spin in place after a request to wait; `Uart.cfg` ends with the last message,
`JsonDocument.cfg` and `JsonTerminated.cfg` with the document; in `MobileHandler.cfg` a frame
without its end runs the parser past it (`lost`), where the model stops.

### Fairness

`AtEngine`: weak fairness of the calling function once it is in a call, of the dispatcher
and of `TimerExpires`; none of the response processor, since the modem owes no answer.
`AtExec`: weak fairness of each thread's statements and of ticks, which is what the
round-robin scheduler gives; a slice is taken to reach the head of the thread's loop at least
once (`turned`), true of 20 ms for every loop but a dispatcher sending a command of some 200
characters, which ticks may also cut.  What has been sent is received (`Deliver`).  Strong
fairness of `TimerExpires`: each tick takes one off `respTimeOut`, so the tick at
which it reaches 0 is not put off for ever; the model keeps the load, not the count.
`Scheduler`: `SysTick` and `PendSV` never stop.  `Uart`: a message that was begun ends, the
250 us timer ticks, and the response processor gets its slices.
`BtSession`: strong fairness of each thread, since both get their slices and `whole` and
`apart` only put one of them off; a call returns (`CallReturnsOrIdles`); strong fairness of
`Accept`: the modem carries out what it can when it is told again and again.
`MobileHandler`: weak fairness of the handler, which runs in the tester thread and gets its
slices; the formula has `Busy` where `WF_vars(Handler)` has `ENABLED`, since each step
from a busy state is one of the handler's.  `ServerSession`, `JsonDocument` and `AtQueueApi` have safety
properties only.

### Findings

1. *exec* 854 (`at_exec_success`): the flags that let the dispatcher go on are set before the
   callback has read the answer.  A slice that ends there has the dispatcher clear the buffer; the
   callback then finds no `ERROR` and the call reports success, where `yutu_fw_bt.h:38` promises "0
   for failure to initialize and 1 for success".
2. *JW* 362 (`json_terminated`): a character is stored in the last byte of the buffer, so a
   document that fills it, or is cut, has no NUL behind it; `JSONWriter.h:48` says "the buffer will
   always contain a valid '\0' terminated string".

### Known behaviours

An assumption named in brackets is the one that keeps a property from failing on it;
dropped from its configuration, TLC shows the behaviour.

- *exec* 889: after a callback returns `AT_RSP_WAIT` the dispatcher is in `MODEM_IDLE`,
  which nothing leaves, and `s_atExecute` is false: `connect_server`, and a send after its prompt, never
  return, whatever the modem sends (the second disjunct of `CallReturnsOrIdles`).  The calls are commented
  out in the tester thread.
- *exec* 926: an answer taken between `uart_send` and the start of the timer leaves a timer
  running for a command that is done with; its time-out takes `repCount` from 0 to 255
  (`Whole` without `D` in `AtExecPasses.cfg`).
- *exec* 885: two threads test `commandCount` and decrement it; together they take it
  to 255 (`Whole = {}` in `AtExecPasses.cfg`).
- *exec* 72: `add_at_cmd` on a drained queue stores the command where `currentCmd` no
  longer looks (`Waived = {"drained"}` in `AtQueueApi.cfg`).
- *main* 1004: the old key is compared to nothing that can refuse it, and the new one is
  stored before the lock has opened; `OpensOnlyForKnown` is what does guard the lock.
- *main* 622: a frame without its end, or `{}`, is parsed on into whatever lies behind it.
- *JP* 277: a value is copied with no bound: of 30 characters it has no NUL, a longer one is written over its
  type and into the tokens behind (`HasRoom` in `ReadsWhatWasWritten`).  The comments there say that the type is
  "marked" (171-175) and that the value is stored in "struct jsonValue variable" (277-281).  The test of the two libraries,
  `jWriteTest` (*main* 1934-2001), writes an array of 84 characters and an object of 56, reads them, and
  prints nothing of it; no run states the claim, since the test compares nothing.
- *mqtt* 77: `connect` counts one byte more than it wrote, so a byte of whatever was in the frame before is sent
  behind the packet, where a server takes it for the type of the next one.
- *mqtt* 210-248: a setter leaves the tail of a longer text, so a connect packet carries a text nobody set, where
  `MQTT_Packet_Writer.h` 144-152 says that the will topic is stored (`mixed` in `SentReadsAsAsked`).
- `yutu_fw_bt.h` 47, 64 and 74 say of `bt_power_on`, `disconnect_bt` and `bt_send_data` "1 to failure ... and 0 for success";
  the code returns true on success (*bt* 64-67, 126-127, 155-157), its callers in the tester take true for
  success (*exec* 991-1000), and line 38 of the same header has it so for `bt_init`.  `ResultIsLast` states what
  the code and its callers agree on; no run is spent on the three comments.

## 4. What is proved

The proofs are in modules of their own, beside the module they are about.  All theorems hold for
every value of the constants that satisfies the named assumptions; the runs show the same
properties on small instances.

| Module | Theorem | States |
|---|---|---|
| `AtEngineProofs` | `TypeCorrect` | `Spec => []TypeOK`: every `uint8_t` keeps its width |
| | `EngineInvariant` | `Spec => []IInv` |
| | `ExecutingCommandIsQueued` | `Spec => []ExecutingIsQueued` |
| | `ExecutingCommandIsTimed` | `Spec => []WaitIsTimed` |
| | `QueueDoesNotWrap` | `Spec => []WindowInArray` |
| | `EngineImplementsFifo` | `Spec => ImplementsFifo`, the refinement of `CommandFifo` |
| | `StatusTellsGoal` | `Spec => []GoalInv` |
| | `ResultTellsLast` | `Spec => ResultIsLast` |
| `AtExecProofs` | `ExecTypes` | `Spec => []TypeOK`, wherever ticks cut |
| | `ExecInvariant` | `Spec => []ExecInv` |
| | `RepeatsAreLeft` | `Spec => []RepeatsLeft`, with whole passes |
| | `OnlyQueuedAreSent` | `Spec => []SendsQueued`, with whole passes |
| | `GrantInvariant` | `Spec => []GrantInv` |
| | `SuccessGranted` | `Spec => []SuccessIsGranted`, with a faithful modem |
| `AtQueueApiProofs` | `QueueIsFifo` | `Spec => ImplementsQueue`, the refinement of `BoundedFifo`, when no condition of use is waived |
| `ServerSessionProofs` | `SessionIsEngine` | `SSpec => AtEngine!Spec`: each step of the session is one of the engine or leaves it alone |
| | `SessionImplementsFifo` | `SSpec => ImplementsFifo`, from the two refinements |
| | `SessionInvariant` | `SSpec => []SessionInv` |
| | `BitsAreTold` | `SSpec => []ReadyIsTold` |
| | `PacketsReadAsAsked` | `SSpec => []SentReadsAsAsked`: field by field and length, after any packets before it, for texts that were not set over longer ones, and with one byte behind a connect packet that is not of it |
| | `SessionTypes` | `SSpec => []STypeOK`: no byte is stored behind the frame |
| `BtSessionProofs` | `BtSessionInvariant`, `BtSessionTypes` | `Spec => []BtInv`, `Spec => []TypeOK` |
| | `ReadySaysConnected` | `Spec => []ReadyIsConnected` |
| | `FramesAreServedInOrder` | `Spec => []ServedInOrder` |
| `InterruptProofs` | `SchedulerInvariant`, `SchedulerTypes` | `SchedSpec => []SchedulerInv`, `SchedSpec => []SchedTypeOK` |
| | `ContextsAreKept` | `SchedSpec => []ContextsKept` |
| | `TimerIsExact` | `SchedSpec => []TimeOutIsExact` |
| | `UartInvariant`, `UartTypes` | `Spec => []UartInv`, `Spec => []TypeOK` |
| | `MessagesAreWhole` | `Spec => []MessageIsWhole` |
| `JsonProofs` | `DocumentInvariant`, `DocumentTypes` | `DSpec => []DocumentInv`, `DSpec => []DTypeOK`: `bufp` counts what is in the buffer and never passes its end, whatever is called in whatever order; of the parser, whose arrays can be overrun, only what is left of a token then |
| | `DocumentNesting` | `DSpec => []NestingIsText`: without an error, the nodes on the stack are the brackets open in the text |
| | `DocumentSearch` | `DSpec => []SearchFindsFirst` |
| | `DocumentFirstError` | `DSpec => FirstErrorStays` |
| | `HandlerOpensOnlyForKnown` | `Spec => []OpensOnlyForKnown` of `MobileHandler`, for any frames of at most 32 members whose names and values fit the arrays of a token, in any order, missing and repeated |

`AtQueueProofs` has the lemmas about the operators of the queue that the others cite: what
`QueueClear`, `AddAtCmd`, `DelAtCommandHead` and the index arithmetic modulo 256 do.

### Assumptions

| Assumption | Says | In the code |
|---|---|---|
| `QueueSizeAssumption` | 1 to 255 slots | an index is a `uint8_t` (the firmware has 10) |
| `{"D", "R"} \subseteq Whole` (hypothesis in `AtExecProofs`) | no tick cuts a pass of the dispatcher or of the response processor | not enforced: such a pass is short beside its slice of 20 ms, and `at_exec_success` and section 3 show what a cut one does; the caller is cut anywhere |
| `Faithful` (hypothesis of `SuccessGranted`) | besides, the answer is `OK` or `ERROR`, in time, nothing else comes, and a callback takes `ERROR` for no success | the modem's manual and the builds of `LineBuild`; a late answer or a stray line is credited to the wrong command (*exec* 852) |
| `RepeatsAssumption` | a command has the same repeats wherever it is queued | the lists of *gprs* and *bt* |
| `UnsolicitedAssumption` | the bound on unsolicited lines is a number | a bound for TLC |
| `NamesAssumption` | the erased text and the null callback are no command and no callback | `NULL`, `""` |
| `BatchesAssumption` | a list is one or more commands | each function adds at least one |
| `LastAssumption` | the last command of a list has a text and a status that no other of its commands has, and the status is not `NOK_OPER` | the lists of *gprs* and *bt*; a call compares the status with that of its last command (*gprs* 105-109) |
| `RspOfAssumption` | a callback returns one of the results the engine tests for | *exec* 863-897; none returns `AT_RSP_FUN_OVER` |
| `OfferedAssumption` | the same of the lists of `AtQueueApi` | |
| `SessionAssumption` | the four lists of *gprs* fit in the queue, and their callbacks are among those of the engine | |
| `FrameSizeAssumption` | a connect packet with all texts fits in the frame, and its length in one byte | `MQTT_BUFF_SIZE` is 400, the arrays of texts have at most 20 bytes with the NUL (`MQTT_Packet_Writer.h` 70-76): 134 bytes |
| `RequestsAssumption` | configurations have their types; a text that is set fits in its array; a topic leaves room for the rest of its packet and its length | assumed of the application: the setters and the writers look at no length |
| `RoomAssumption` | behind the longest packet there is a byte for every call of the writer | nothing bounds `ping` (section 2); with the sizes of the code, some 260 calls |
| `TimerAssumption`, `SchedulerAssumption` | a table of at least two tasks, at least one tick | *sched* 60 refuses the last entry |
| `SizesAssumption` | a message leaves room for its NUL, a pointer is no longer than the buffer | assumed of the modem (section 2) |
| `PauseAssumption` | at most one tick inside a message | `responseTimeDelay` is 2 after a byte |
| `BoundsAssumption`, `AssumptionsAssumption` | which assumptions on timing a behaviour of `BtSession` makes | section 2; each theorem is about the behaviours that make its own |
| `DepthAssumption`, `PacketsAssumption`, `ClientAssumption` | a stack of at least one node, buffers of at least one character | `JWRITE_STACK_DEPTH` is 32, `BUFF_SIZE` 300 |
| `PiecesAssumption`, `WordsAssumption` | the brackets, delimiters and digits are strings that have a length and can be cut | true of every string; the provers cannot read one that is written out |
| `ValuesAssumption` | keys and strings have no quote in them, raw texts neither quote nor bracket | the writer copies a text as it is (*JW* 374-390), so the balance of what is inside one is its caller's; the packets of *main* keep it |
| `ParserAssumption` | tokens have room for a character, values are cut no shorter than their array, an enumeration has 1 or 4 bytes | 30, 512 and 32 (`JSONParser.h` 4-6); the size of an enumeration is the compiler's (AAPCS has either) |
| `HandlerAssumption` | the driver's stubs return one of the two results their callers test for | *main* 2003-2040 |
| `FramesAssumption` | no name of a member is a quote or a colon, a value begins with what the parser takes for one and ends where its brackets do, the value of `op` is digits and quotes; there are at most 32 members, and names and values are shorter than 30 characters, quotes included | an object as the phone writes it; nothing in the code keeps a longer one out (section 3, known behaviours); a frame that is cut, or is no JSON, needs no assumption. What the parser does with a delimiter inside a string is in section 2 |

The length of a history (`MaxFrames`, `MaxAir`, `MaxMessages`, ...) is a bound for TLC
only: the theorems are for any of them, `MaxWrites` within `RoomAssumption`.

### The arguments

*Engine.*  None of the invariants is inductive alone.  That the command under execution is queued needs
that only a waiting caller has anything queued (`CallerInv`), which needs the window
(`WindowInArray`), which needs that a list that fits is the only thing that is added.  That a
repeat can be used needs that the repeats read at the send are still those of the
slot while the answer is out (`TriesInv`).  That the slot has a callback needs that
all pending slots have one (`SlotsInv`).  `IInv` is their conjunction; `at_engine` checks
it and the proofs show it inductive, one lemma per actor.

*Refinement of `CommandFifo`.*  With `IInv`, each action of the engine is a step of the FIFO or a
stutter under the mapping `Todo`.  The sequence of pending slots loses its head when a command
is accepted, loses everything when one is abandoned, and only its head changes when a repeat
is used; the three facts about windows of a ring are lemmas.  A use of the last repeat abandons in
the same pass, so the abstract step is chosen by `repeatCount`.

*Result of a call.*  `ResultIsLast` is an action property.  `GoalInv` says where the last
command of the call is: still to be added, or in the last slot of the window and nowhere else, or gone, and then
the status is its status exactly if it was accepted.  That no other command of the list has
its text or its status (`LastAssumption`) is what makes the status mean it.

*Statement by statement.*  `ExecTypes` needs no hypothesis: arithmetic is modulo 256 and a thread's statement
is in its own list whatever the other two did.  The rest does.  In `ExecInv`, `PassInv` says that at most one of the dispatcher and the response
processor is in a pass, and `CallInv`, `WorkInv` say that the caller then
waits (or has nothing queued): a caller that a tick has cut meets the same queue when it goes on.  `FlagsInv` has what
the flags and the repeats read at the send tell at each statement, `WindowInv` which slots wait while one
of the counters is a store behind (`Left`), and `LoadInv` that a loaded operand is still in memory when it is
stored.  No part is inductive alone: that a repeat is left when it is used needs
that `repeatCount` is that of the current slot, which needs that only one pass runs, which needs that
the flags let no second one begin.  A thread in a pass is followed statement by statement; for the others, each
lemma says which part of the state a group of statements leaves alone.
`GrantInv` rests on it.  A timer that runs is not due while an answer is out (`TimerInv`), so the dispatcher does not give a command up, or send it again, with its
answer under way, and the one answer that is out belongs to the command under execution
(`AnswerInv`).  `GoalInv` says that of the commands that wait only the last has the status of the call's last
command, so the status is set only when the answer to that one is taken.

*Queue.*  `QueueInv` says that the last slot is `commandCount - 1` places behind `currentCmd`
modulo the size, so `Pending` has its length, `AddAtCmd` appends to it and
`DelAtCmdHead` takes its head.  `Waived = {}` is a hypothesis of the theorem, because
each of the two conditions is needed (section 2).

*Session.*  `SessionIsEngine` gives the session every theorem of the engine.
`SessionInv` adds what the modem has told: each line under way is true or its refutation is behind it
in the same queue (`AirInv`); the last command of each function has the callback that reads its answer
(`CallInv`); what is accepted was told (`RegisteredInv`, `AddressInv`, `UpInv`); and a function runs only in the
states of the session the tester calls it in (`OrderInv`).  The table search of the callbacks
is unfolded once, in lemmas (`CregTold`, `AddressTold`, `ConnectTold`) that say what line must have been
in a message a callback accepts.

*Packets.*  `PacketInv` says that the frame reads, at any time, as the packet that was asked for last, so whatever leaves of it does,
and that the configuration is the one wished for but for the texts in `mixed` (`Wishes`);
setters keep both, and the configuration within its arrays (`TextWished`), and Ctrl-Z, a URC and the writers of other packets leave a frame.  What is left to show is that the
bytes that a writer stores read back.  `Holds` says that a text is at a place of the bytes, `Spells` that
fields follow one another from place to place; a field is put behind what is there (`SpellsMore`, `SpellsOptional`), and what is
spelled is what `Reads` finds (`SpelledIsRead`).  `BodyReads` follows a connect packet through its eight parts, each of which
may be absent or of any length.  `FlagBits` has the bits of the flag byte.  For `SessionTypes`, `RoomInv` bounds where the
frame ends by the longest packet and the calls since the start.

*Bluetooth.*  `BtInv` has three parts.  `TypeInv` adds to the types what a thread inside a call or
between a load and a store has loaded.  `LinkInv`, of behaviours with `apart`: `BT_RDY` is set, or about to
be, exactly when the link is up or its loss is still under way (`LiveInv`), at most one loss is under way and
nothing follows it (`CodesInv`), and no thread has loaded a byte that the other has changed since (`PlacesInv`).
`FrameInv`, of behaviours with `whole` and `waits`: the one frame that has not been answered is in exactly one
stage (`StageInv`), the buffer holds it from the time it is stored (`BufferInv`), and all others have been
read once and in order (`ReadInv`).

*Scheduler.*  `SwitchInv` says that `osCurrentTask` and `osNextTask` are the thread on the processor and
the one of the table exactly while PendSV is pending; a second tick in between
is what makes that delicate.  `TimerInv` says that a timer that runs has
`loaded - waited` ticks left, and that it does not run while the thread loads or clears it.

*UART.*  `PhaseInv` says where the next message is: not begun, being received, or held in the buffer; while it
is copied and cleared it is held, so no interrupt writes to the buffer.  `DelayInv` ties the silence
counter to the ticks since the last byte.  `CopyInv` follows the message through `strlen`, `strncpy` and
the two `memset`s.

*JSON writer.*  `DocumentInv` says of the control structure what is true after any calls, and more while
there is no error.  `Good` (types, `bufp` is the width of what is in the buffer, and not above `buflen`) is kept by each function of
the writer, from `Put` upwards.  What a text nests (`State`: inside a string or not, and the brackets
open) is defined over its prefixes; the lemmas say what one more piece does to it and that a
text without quotes and brackets does nothing (`Through`).  Then `Nested`: the text
begins with a bracket, is not inside a string, and has the brackets of the nodes on the stack open,
innermost last.  A node is only put where `Nested` holds, `jwEnd` takes one bracket off both, and `jwClose`
leaves no bracket open (`Shut`).  `Blank` is the exception, which `NestingIsText` has too: `jwOpen` of an
array makes no node.  An error ends all this, and the latch that it ends in is `FirstErrorStays`.

*JSON parser.*  `IsParser` is what is left of its structure in whatever way it stops, values that overrun their arrays
included; `Hashed`, that the
hash of a token is that of its key, makes the search by hash right up to collisions, which is what
`SearchFindsFirst` says.

*Mobile handler.*  `HandlerInv` says that the lock is not touched while a frame is read and checked, and that
what comes after the checks was asked for by a whole frame (`Authorised`).  This rests on what the parser makes of a frame:
`Layout` has the place of every member in its text, and `Standing` says that the tokens found so far are
those of the first members, each with its key and its value, that no value has run out of its token, and that the parser stands behind the last of them.
That a value which fits reaches neither the type nor the next token is `TokenRoom`, for every size of the arrays.  A search then finds the first
member of its name (the hash does not matter for a name that is there: whatever has the same hash and another name is not taken), and
the opcode is the number in the text modulo 256, since `convert_string_to_integer` works in a `uint8_t`.
A frame that is cut does not come to its end, so the checks are not reached.

*Recursive functions.*  The library's induction theorems cannot be used (they are about an operator that is a
parameter), so what a recursive function of the model gives is proved from a smallest
counterexample: the set of indices where the claim fails has a least element (`LeastNat`), which is neither 0 nor a successor.

### Only model-checked

- Liveness (`CallReturns`, `CallReturnsOrIdles`, `EachIsProcessed`, `EachRuns`, `RequestsAnswered`,
  `EachServed`, `RequestAnswered`): the prover has no rules for fairness.
- `SuccessIsGranted` with ticks that cut the dispatcher too (`at_exec_prompt`): `ExecInv` is about whole passes of
  both, and the proof with the response processor alone whole needs an invariant for each pair of statements.
- `ReadsWhatWasWritten` of `JsonDocument`: it needs the place of every key and value in what the writer has written,
  pretty or not, with doubles and nested nodes.  The proofs have it for the texts of frames (`Layout`), which the phone writes.
- `TypeOK` and `AnswerTellsOutcome` of `MobileHandler`: they are about fixed packets that are cut, counted and
  read back piece by piece, a computation TLC does and a proof could only repeat.

## 5. Plan

Every component with behaviour has its model.  What is left is to prove more, in this order:

1. `SuccessIsGranted` when ticks cut the dispatcher as well, for calls of whole answers (`Whole = {"R"}`).
2. `ReadsWhatWasWritten`, from an invariant like `Layout` that the writer's calls keep.
