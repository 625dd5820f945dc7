# A TLA+ model of the CPU2 firmware

The board (ESP32, FreeRTOS, project `ANAKUTU_CPU2`) is the device side of a home
controller. It reads buttons and sensors, drives relays (lamps, sockets, curtain
motors, valves, sirens), obeys commands and reports every change to CPU1, the
other processor of the main box, over a serial link. Further boards of the same
kind are reached over an RS485 bus or over UDP and TCP; their functions appear on this
board as shadows, which CPU1 sees and commands like its own.

These modules say what the firmware's parts do, step by step, and check and prove
what must hold when their tasks interleave. Paths below are relative to
`src/`; `library/` stands for `src/components/home/library/`.

Run a check with `tlc -workers 2 -config CurtainSafety.cfg MCCurtain`, a proof with
`tlapm CurtainProofs.tla`.

## 1. Inventory

### Who runs

| context | what it runs |
|---|---|
| `esp_timer` task | button and sensor callbacks (`Base_Function::func_callback`, polled by `button/iot_button.c` every 100 ms), expiry of every device timer, the ping timer. One at a time, at a high priority. |
| UART event, callback and sender tasks | `UART::_event_task` receives frames, `_callback_task` runs `uart_callback` (all commands of CPU1), `_sender_task` sends |
| RS485 event, callback and sender tasks | the same class again, plus addresses, broadcast and ping |
| thermostat task | `Termostat::at_read_task` reads temperature and set point over I2C |
| log task | `writelog_task` moves log lines from a queue to a file |
| TCP server task | one `select` loop for all client sockets |
| event loop task | Wi-Fi and Ethernet events, security events (`WATER_EVENT`, `HOME_DOOR_OPEN`) |
| one-shot tasks | `response_task`, `send_intro`, `send_names`, `refresh_device`, `device_control`, `register_all_task`, `full_status_read` |

No device object has a lock. A report to CPU1 blocks its caller: `function_callback`
polls `uart.is_busy()` and then waits in `UART::Sender` for up to two seconds.

### Components

| component | state | operations | talks to | hard behaviour | what makes it correct |
|---|---|---|---|---|---|
| UART link (`library/uart`) | `busy`, `send_queue`, `send_paket_sem`, `send_paket_error`, acknowledgement semaphore; at the other end `paket_buffer`, `paket_header`, `callback_sem`, `wait_sem` | `Sender`, sender task, event task, callback task | everything that reports; `uart_callback` | lost frames, late acknowledgements, callers that race for `busy`, time-outs of 500 ticks, 1 s and 2 s | messages arrive whole, in order, and RET_OK means arrived; no semaphore used after deletion; every call returns |
| CPU1 supervision (`UART::ping`, `pong`) | `ping_error_counter`, two timers | ping, pong, reset of CPU1 | UART link | a pong after its 200 ms leaves a token; ping skipped while busy | CPU1 is reset only when it is silent |
| RS485 bus | as UART, plus `device_id`, `paket_sender`, `paket_receiver`, `ack_ok` | as UART, plus `ping` | `coap_callback`, `broadcast_callback` | many senders into one `paket_buffer`; no repetition | a message is handled once, whole, for its sender; a call that is told "sent" was sent |
| TCP server, UDP broadcast | socket in each device entry, `Recv_Queue`, `wait_ack` | accept, receive, send, close; `sinfo` | device list | socket numbers are given out anew; the ARP answer is not looked at | a message counts as that of the board that sent it |
| device list (`library/cihazlar`) | linked list of boards | `cihaz_ekle`, `cihaz_sil`, `cihazbul`, `garbage` | all transports | no lock; entries freed under a reader; a board known by MAC, by id, or by neither | the search for an id finds the entry the board's socket is in |
| function registry (`main/lib/functions`) | linked list of local and remote functions, `Function_Counter`, `function.bin` | `add_function`, `remote_register`, `remote_re_register`, `find_register`, `register_all`, `refresh_device` | device list, CPU1 | two handlers at once, lost answers, restarts that renumber | every (board, id) maps to one function, and the number a board was told to its own |
| command dispatch (`uartcallback`, `coapcallback`, `globaltools`) | none of its own | one branch per command; paging of `intro` | devices, transports | order of replies; pages counted one way and filled another | every command reaches its device; every device is on a page |
| start-up (`main.cpp`) | `target`, `cnt`, `next`, `STATUS_ready` of `full_status_read`; the log's queue and files | ask every remote function for its state; log | boards, CPU1 | answers to another question, late answers | no function is passed unread; the log keeps its newest lines |
| shadows of remote functions (`virtual_device` in every class) | `status` of the function's object | `remote_set_status`, `set_status` that only passes on, `senaryo` | other boards, CPU1 | reports that say less than a status; commands that are lost | the shadow, and CPU1, show what the function does |
| curtain | `status`, `temp_status`, `Motor`, relays, timer | buttons, `set_status`, expiry | CPU1 | handlers that block in the middle; stale copies | never both relays; every run ends |
| alarm panel (`library/security`) | `status`, timer, per port `active`, `user_active`, alarm mark, outputs | sensors, `set_status`, countdown, cancellation, restart | CPU1, doors, valves | two tasks, two flags per port, restarts | no deaf sensor; armed only on request; alarms sound |
| lamp, sockets, contactor, gas, room valve, time relay | `status`, one or two timers | switches, sensors, `set_status`, `senaryo`, expiry | CPU1, event loop | two timers on one output; a status on flash that need not match the relay after a power cut | outputs agree with the status that is shown; what is on for some minutes goes off |
| lift, garage, door lock, main valve | `status` and a timer | `set_status`, expiry | CPU1, event loop | a command in the middle of a pulse; restart in the middle | no coil stays energised; never both coils of the valve |
| piston | `Motor`, `temp_status`, timer | buttons, `set_status`, expiry | CPU1 | a wait of two seconds inside the loop over the ports | never both valves; nothing runs for ever |
| thermostat, air conditioning | `status`, `send_gateway`, the dial | `set_status`, readings | CPU1 | the set point lives on both sides | the relay follows mode and temperatures; one set point |
| base classes (`library/classes`, `core`, `jsontool`) | port lists and flags | `inportscall`, `set_status` of a port, `json_to_status` | all devices | flags consulted in another task | see the devices |
| button driver | per button state, ticks, repeat | 100 ms tick | esp_timer | counters at their limits | one press, one event pair; nothing is missed but while disabled |
| outputs and port expander | the expander's byte | `pin_write` | I2C | read, modify, write by several tasks | no relay changed by another's write |
| storage and configuration | files on flash | `write_status`, `read_status`, lists | all | power failure | a record read is one that was written |
| clock, network, web server, update | configuration, time | drivers and I/O | | | |

The ESP-NOW radio (`library/wifi_now`) is complete code that nobody starts:
`EspNOW_init` has no caller.

Not built (no CMakeLists names them): `rs485_A.cpp`, `tcpserver_old.cpp`,
`tcpserver_ol0.cpp`, `uart0.cpp`, `uart1.cpp`, `list.cpp`, `enc28j60/*`.
`src/managed_components` is vendored.

## 2. Plan

In order of importance to the system:

1. **UartLink** with the abstract **OrderedLink** - done. Everything the board does
   is seen by CPU1 through it.
2. **Curtain**, **Security** - done. The devices where a wrong interleaving does harm.
3. **Registry** - done: which function a number means, across restarts.
4. **Lamp**, **Relay**, **Pulse**, **Piston**, **Button**, **Virtual**, put together as
   **Devices** - done: outputs against status, for every kind of output the board has,
   and the shadow of a function that is elsewhere.
5. **Rs485Link** implementing OrderedLink for each sender, **Boards** (device list and TCP
   server), **Supervisor** (pings to CPU1), **Climate**, **StatusSync** and **Intro** (the two
   walks over the functions), **LogFiles**, put together as **Services** - done.
6. Proofs of every safety property the passing runs check - done; of what holds beside
   each of the disagreements the other runs show - done for three of the four.
7. Open: numbers and acknowledgements of the registry on two transports; the devices
   composed with UartLink instead of a report that returns; the radio, should it ever be
   started.

Each module takes its bounds as CONSTANTS with named assumptions, has one action
per step of a task, and no RECURSIVE operator.

## 3. What is modelled

### UartLink (`library/uart/uart.cpp`)

The sending end is the object of this board, the receiving end the same class at
CPU1 (the two run the same source). Bytes are abstracted to the number of the
message they come from, frames to (message, packet, number of packets).

| in the code | in the model |
|---|---|
| `while(uart.is_busy())` before each report | `Poll` |
| `Sender`: test of `busy`; `busy = true` ... `xQueueSend` | `TestBusy`; `Claim` (two steps: the flag is no lock) |
| wait for `send_paket_sem` or 2000 ms, delete it, read the error | `Return` |
| `_sender_task`: receive, write a frame, wait for the acknowledgement, count, next packet, give the semaphore | `TxStart`, `TxSend`, `TxAcked` or `TxTimeout`, `TxNext`, `TxLoadSem`, `TxGive` |
| `_event_task` on a pattern: pulse ATX, `paket_decode`, hand over, wait 1000 ms | `RxTake`, `RxDecode`, `RxResume` |
| FIFO overflow: flush | `RxOverflow` |
| `_callback_task` | `CbTake`, `CbParse`, `CbDone` |

`paket_header` is modelled as written: it is overwritten with one bit, not or-ed, so
the last packet alone completes a message, and its width is a constant. The model
names its four timing assumptions: `ClaimIsAtomic` (nobody runs between the test
and the setting of `busy`), `PatientCallers` (the 2000 ms suffice), `TimelyAck` (an
answer, if there is one, comes within 500 ticks), `FastCallback` (the callback
returns within a second). None is guaranteed by the code; each run says which it
makes. With the default tick of 10 ms, 500 ticks are longer than the 2000 ms of the
caller, so a single lost packet is enough to break `PatientCallers`.

Left out: short writes of the driver, spurious edges on the acknowledgement line,
and the leak of `paket_buffer`; ping and pong are a module of their own, Supervisor. What FreeRTOS does with a deleted
semaphore is undefined; the model records it in `misused` and goes on.

**OrderedLink** is what remains true whatever is lost or late: the callback is run
only for accepted messages, never for one older than the last. `UartLink` implements it
(`InOrder`, same variables).

### Curtain (`library/curtain/curtain.cpp`)

One action for each part of a handler between two points where it can be
interrupted. `tpc` and `stat`, `dir` are the program counter and the locals of the
esp_timer task, `cpc` those of the tasks that call `set_status`; `look` and `i2c` say
where a task is in `motor_action`, which each of them may be in.

| in the code | in the model |
|---|---|
| `func_callback`, press, motor running | `PressStops`, the motor steps, `PressReports`, `PressStores` |
| press, motor at rest | `PressStarts`, `PressSets`, `PressArms`, the motor steps, `PressReports`, `PressStores` |
| long press, release | `Hold`, `Release` |
| `cur_tim_callback` | `Expire`, `ExpireStops`, the motor steps, `ExpireReports`, `ExpireSends` |
| `set_status` | `SetStores`, `SetHalts` or `SetTests` and `SetStarts`, the motor steps, `SetReports`, `SetSends` |
| `motor_action`: the loop over the ports and its tests of `Motor` | `MotorAction`, then `Look` for each test |
| `Base_Port::set_status`, `out_8574_set_level`, `pcf8574_pin_write` | `ReadByte`, `WriteByte`, `ReadBack`: three transfers, in each of which the task blocks |

`motor_action` reports from inside: the report is built from the status before
`func_callback` stores the new one, and sending it blocks. The variable `overlap`, chosen once
in `Init`, says how handlers may overlap: `never`; `reports`, only where
one is waiting in the UART or writing flash; `blocked`, in the transfers of
`motor_action` as well; `anywhere`, every preemption. The
properties name the overlap they need. What holds under `reports` and not under
`blocked` is what a press in the millisecond of the transfers breaks (section 6).

A curtain of another board is in Virtual. Left out: changes of configuration, `fire` (nothing
calls it), `counter` (the length of a run is data), the field `eskitip`, which
is never set, and other outputs on the same expander, which are Relay's subject.

### Security (`library/security/security.cpp`)

Sensors and the countdown run in the esp_timer task, commands in their own. Each has
its place `pc`, its port `at` in the list, and the transfer `wire` it waits for; every
statement that changes what another task may read is a step of its own.

| in the code | in the model |
|---|---|
| `func_callback`: test; `set_active_admin`; `set_alarm`; sirens; status | `SensorTests`, `SensorDeafens`, `SensorMarks`, the siren steps, `SensorAlarms`, `Save` |
| `tim_callback`, `alarm_open` port by port | `Expire`, `AlarmOpen`, `OpenUnmarks` and `OpenActivates` for each port, `EndWalk`, `Save` |
| a siren: `Base_Port::set_status` with its transfers | `CallSiren`, `Switch`, `ReadBack` |
| `set_status`, SEC_STOP; `alarm_stop` | `StopStores`, the siren steps, `EndWalk`, `Save` |
| `set_status`, another status: `local_set_status`, then the tests one by one | `SetStores`, `TestsClosed`, `TestsProcess`, `CancelCountdown`, `TestsOpened`, `ShowCountdown`, `TestsStop`, `StopsAgain`, `Save` |
| `alarm_close` port by port, `write_status`, `esp_event_post` | `CloseStores`, the siren steps, `CloseActivates`, `CloseUnmarks`, `EndWalk`, `Save`, `Posts` |
| `spevent_action` (`main/globaltools.cpp`) | `UserSets` |
| constructor and `read_status` after a reset | `Restart`: what `write_status` had written (`saved`), and nothing else |

`overlap` is as in Curtain: `blocked`, where a handler waits for a siren, the flash or
the event queue; `anywhere`. Four of the properties claim what the code keeps under
`blocked`, at moments when every task is at rest or waiting. `touched` and `asked`
are history, and so are two exemptions the properties name: `restored`, the status is
the one a restart found in flash, and `crossed`, a command switched sirens off while a
sensor's reaction was switching them on. A panel of another board is in Virtual. Left out:
what doors and valves do with the events posted to them, and the report at the
end of a handler, which changes nothing of the panel.

### Registry (`main/lib/functions/functions.cpp`, R_REQ in `main/coapcallback.cpp`)

A remote function is a key, (board, id on the board). The linked list is a set of
nodes: a node's `next` never changes, so what a handler links in front of is the list
as it saw it, and two handlers that overlap lose one node.

| in the code | in the model |
|---|---|
| `find_register` in `functions_remote_register` | `Find` |
| `add_function`: `++Function_Counter`; `next`; head | `ReadCounter`, `Count`; `Link`; `Publish` |
| `write_file` at the number; `reg_ok_task` | `Store`; `Ack` (may be lost, or cross a repeated R_REQ) |
| `register_all_task`: erase, then R_REG to each board | `RegisterAll`, `Ask` |
| `refresh_device` | `Refresh` |
| reset; `Read_functions` and the loop over the file in `config()` | `Restart`, `Boot` |

`line` (the transport of each board) and `calm` (restarts come only while the file
agrees with the list) are chosen once in `Init`. The local functions are the numbers
1 to `Locals`. How boards behave - they repeat R_REQ until R_ACK - is taken from the comment at
`coapcallback.cpp:139`. A boot is one step: the RS-485 task already runs then, and an
R_REQ served in the middle of it is not modelled. Nor are the state an R_REQ may carry,
the wait for R_REG_OK (it may end at any time), and a read error of the file.

### Devices: the functions that drive outputs, and their inputs

Six modules, each a component with its own variables, actions and properties.
They share no state, so **Devices** puts them side by side: `part`, chosen in `Init`,
says which one a behaviour is of, variables of the same name are shared, and a
property of Devices is the conjunction of what each part promises under that name.

In all of them a call is a beginning, one step for each transfer on the I2C bus, and
an end, because that is where another task may run; what a call reads and writes
between two transfers is one step. `clean` (in Relay a set of functions) is
observation: which calls have overlapped. The properties hold where none did, and
section 6 says what happens where some do.

| module | code | in the model |
|---|---|---|
| **Lamp** | `library/lamp/lamp.cpp` | `Press`, `Expire` (the sensor's timer), `Minute`, then `Drive` for each output and `Leave`; `SetBegin`, `SetDrive`, `SetEnd` of `set_status`; `Restart` with what `init` reads and sets, with or without power |
| **Relay** | `priz`, `contactor`, `onoff`, `water`, `gas`, `tmrole`; `out/iot_out.c`, `out_8574.c`, `pcf/ice_pcf8574.c` | `Set`, `Pulse`, `Press`, `Minute`; then `ReadLevel`, `ReadByte`, `WriteByte`, `ReadBack`, `End`. All relays are bits of one byte, which is read and written back in two transfers. `Restart` by class: some take the status from the relay, some set the relay from the file |
| **Pulse** | `asansor`, `garage`, `kapi`, `mwater` | `Set` and `Expire` with the list of coils still to be switched, `Drive`, `Mark`, `Start` or `StartValve` (the valve starts its timer without asking, which stops the chip if it is active) |
| **Piston** | `library/piston/piston.cpp` | `PressDown`, `PressLong`, `PressUp`, `Expire`, `Set`; `motor_action` port by port: `Release`, `Pump` (which begins the wait of two seconds), `Valve`; `Leave` |
| **Button** | `library/button/iot_button.c`, `classes.cpp` | `Tick` samples the level: debouncing and state machine with the real counters; `SetDisable` |
| **Virtual** | `remote_set_status`, `set_status` and `senaryo` of every class when `virtual_device` is set; `json_to_status`; S_SET, S_ACK, E_REQ in `coapcallback.cpp`; `functioncallback.cpp` | the classes fall into nine kinds by which fields of a status they send and compare, which have a `senaryo` that writes the shadow, and whether `set_status` passes a command on (a time relay's does not; no class reaches a board that is not on the RS485 bus). `unsent` records a shadow written by a scenario that was never ordered. The other board is external: `BoardReports`; loss of reports and orders; `Command`, `Scenario`; `Handle`, `Save`, `Send` of a report; `Restart` |

Left out of all: the report to CPU1 that ends a local call (it returns, by
`CallReturns` of the link), changes of configuration, and `fire`, which either does
nothing or has no caller.

### Services: what the board does besides

Built the same way, from seven modules:

| module | code | in the model |
|---|---|---|
| **Climate** | `library/air/air.cpp`, `library/termostat/termostat.cpp`, `functioncallback.cpp` | `Command` and `ReadThermostat` begin `set_status`; `Decide` and `Drive` are `temp_action`; `Report` takes `send_gateway` and `WriteDial` writes the set point to the thermostat, and nobody looks whether it came through; `Turn` (someone turns the dial); `Restart` |
| **Rs485Link** | `library/rs485/rs485.cpp` | `TestBusy` and `Send` (two steps, as in UartLink, so that two tasks of one board may both find `busy` false and share the semaphore), `Return`, `Take`, `Write`, `Acked` of each sending board; `Process`, `Waited` or `GiveUp`, `CallbackBegin`, `CallbackEnd` of the one that receives. It implements **OrderedLink** once for each sender (`accepted[n]`, `delivered[n]`) |
| **Boards** | `library/cihazlar/cihazlar.cpp`, `library/tcpserver/tcpserver.cpp`, `event.cpp`, `broadcastcallback.cpp`, I_ACK in `coapcallback.cpp` | `Join`, `Leave`, `Ack`, `Sinfo`, `Accept`, `Close`, `Reopen`, `Orphan`, `Refresh`: everything that adds, changes or removes an entry or a socket, each as one step |
| **Supervisor** | `ping` and `ping_timer_callback` in `library/uart/uart.cpp`, `CPU1_Ping_Reset` in `globaltools.cpp` | `Ping`, `Skip` (the link is busy), `Pong`, `Close` (the 200 ms pass), `Taken`, `Judge`, `Reset`, `Order` (T_ACK), `Send` |
| **StatusSync** | `full_status_read` in `main.cpp`, S_ACK in `coapcallback.cpp` | `Pass`, `Ask`, `Answered` or `Timeout`, `End`; `Answer`; `Known` (boards come and go) |
| **Intro** | `send_intro` in `globaltools.cpp` | `Begin` counts the pages, `Page` fills one, `End`; `Register` puts a function in front meanwhile |
| **LogFiles** | `vprintf_into_spiffs`, `writelog_task` in `main.cpp`, `config.cpp` | `Log`, then one step for each access of a file: `Take`, `Write`, `Turn` (the other file becomes current), `Empty`, and `Write` again; `Save` of the configuration by another task and `Restart`, between any two of them |

## 4. What the runs show

| run | question | bounds |
|---|---|---|
| `uart_guarantee` | With all four timing assumptions, whatever is lost: does the callback read whole messages (`CallbackReadsWhole`), do packets fit (`BufferFits`), does RET_OK mean received (`OkMeansReceived`), are semaphores sound (`SemaphoresSound`)? Yes. | 2 callers, 3 messages of up to 3 packets, header of 3 bits: a third message reuses everything the first left behind, three packets have a middle one, and three packets do not fit the header |
| `uart_in_order` | With no assumption: is OrderedLink implemented? Yes. | 2 callers, 2 messages of 2 packets, 2 attempts |
| `uart_liveness` | With callers that race for `busy` and a full queue: does every call return and every message leave? Yes. | 2 callers, queue of 1 |
| `uart_acked_error` | Is the error raised only for want of an acknowledgement, as uart.cpp:103 says? No: the last attempt fails even when it is answered. | 1 caller, 1 message |
| `curtain_safety` | Relays exclusive, runs supervised, status and reports true, motor stops? Yes, under the overlap each property names: the relays under `never` and `reports`, the timer of every run under `blocked` too, status and reports under `never`. | 2 buttons (one each way), 1 commander; `never`, `reports` and `blocked`. With a press, an expiry and a command every pair of handlers overlaps. About 517,000 distinct states |
| `curtain_report` | Does CPU1 know the status after an action? No: not after a press. | as above, `never` |
| `security_safety` | No deaf sensor, armed only on request, countdown timed and ending, alarm sounding? Yes, under `blocked`, across restarts at any step, with the exemptions each property names. | a door, a siren and a smoke detector in this order (ports before and behind the siren, a sensor that waits for arming and one that does not); 2 commanders, one that disarms and cancels and one that arms and stops, so that each pair of them overlaps; the user cancels the siren; `blocked` only. About 410,000 distinct states. `AlarmSounds` was also checked under `anywhere`, and is proved there |
| `security_rearm` | Can the countdown always be started? No: a second command to arm restarts the chip. | 1 commander with every status, nothing cancelled |
| `registry_safety` | One entry for each function (`OneEntryPerFunction`), one function for each number (`DistinctNumbers`), and is a function still listed under the number its board was told (`AckedFunctionIsListed`)? Yes; the second on one transport, the third on one transport and when no restart comes before the file is complete. | 2 boards, 3 functions, 1 local, 2 transports, `MAX_DEVICE` 4 so that the last function has no record, one `register_all` at a time; restarts with an incomplete file on one transport only |
| `registry_event` | Do events reach the function they are about, as coapcallback.cpp:204 says? No, after a restart with an incomplete file. | as above |
| `devices_safety` | Lamp and Relay: are the outputs as the status says (`OutputsFollowStatus`), and has what is on for some minutes its timer (`LimitedIsTimed`)? Pulse and Piston: is every coil released (`CoilReleased`), do the directions exclude each other (`DirectionsExclusive`)? Button: does the function know its button (`EventsTellButton`)? Virtual: do shadow and CPU1 agree with the function (`ShadowAgrees`)? Yes, for calls that do not overlap, and for a shadow as long as nothing was lost and no scenario wrote into it what was never sent. | 2 callers, a lamp of 2 outputs (the first is restored, the second is not), 2 relays on one expander with 1 calling task beside the esp_timer task, every pair of classes, 1 minute (the count passes through zero), 1 report on its way (with the one being handled two follow each other), 2 port lists (pump behind the valves, valves in either order), the button's real counters 5, 18 and 50 |
| `services_safety` | Climate: does the relay do what the status asks, within the limits of the configuration and in manual mode outside them, is there one set point (`OutputsFollowStatus`)? Rs485Link: `CallbackReadsWhole`, `GivenMeansSent`, `InOrder`. Boards: `SocketTellsBoard`. Supervisor: is CPU1 reset for silence only (`ErrorsAreSilence`)? StatusSync and Intro: `WalksMissNothing`. LogFiles: `RecentIsKept`. Yes, under what each names. | 1 calling task and the thermostat's, temperatures 0 (none yet) to 2 with the limits at 1, so each lies below, in and above; 2 boards of 2 tasks each that send 3 messages of up to 2 packets, so that one board's second message is behind another's and two tasks may share a semaphore; the boards are symmetric; queue of 2; 2 boards with 2 sockets, so that a number can be given to the other; a counter that wraps at 10, above the 8 of the reset; 3 functions to walk and the 4 vain waits of the code; pages of 2 with up to 12 functions: six pages announced, three filled; log files of 2 lines, a queue of 2, 9 lines: three changes of the file. About 1.6 million distinct states |

With three transports whose handlers overlap, `OneEntryPerFunction` fails too: a node lost by one
handler comes back with another's snapshot after it was registered anew.

Which assumptions are needed was found by dropping each of the four of `uart_guarantee` in
turn: any of them breaks `CallbackReadsWhole`; dropping the claim, the callers'
patience or the timely answer breaks `BufferFits` and `OkMeansReceived`; dropping the
claim or the patience breaks `SemaphoresSound`. Under `anywhere` TLC finds both
relays of a curtain on, an abort in `tim_start`, and a motor that runs for ever; under `blocked`,
`Interlock`, `MotorStops` and the agreement of relay and `Motor` fail (a press in
the transfers of a command); under `reports`, `StatusTellsMotor` and `CommandReported`
fail. Of the panel, `NoDeafSensor`, `ArmedOnRequest` and `CountdownIsTimed` fail under
`anywhere`; without `restored`, `CountdownIsTimed` and `AlarmSounds` fail
under `blocked`, and without `crossed`, `AlarmSounds` does.

`uart_*` and `services_safety` do not check for deadlock: `MaxMsgs` stops the link and the bus
when all messages were sent, and the walk of StatusSync comes to its end. The other
runs do.

**Fairness.** Each task gets weak fairness: FreeRTOS schedules by priority and every
task of high priority blocks on a queue, a semaphore or a delay. `MayRun` makes the
handlers of the curtain wait for each other, an assumption on timing which never
delays one for ever: hence strong fairness there, and for the expiry of
a timer, which another handler may stop and start. The panel needs less: as long as a
handler is on its way or its timer runs, some one of them goes on, which
is one weak fairness condition for all of them together. Callers, buttons, sensors, users,
power failures and the radio or wire owe nothing. That a report returns, which the
devices assume, is `CallReturns` of the link.

## 5. What is proved

Every safety property of every passing run, for all values of the constants; where the
property needs timing, under the assumptions the second column names.

| theorem | says | argument |
|---|---|---|
| `UartLinkProofs!TypeCorrect` | `Spec => []TypeOK` | `TypeOK` is inductive; it includes the queue's capacity and the retry limit |
| `UartLinkProofs!HandOverOrdered` | `Spec => InOrder`, under every timing, loss and schedule | Inductive invariant: the numbers of what is handed over, in the peer's decoder, on the wire, in the sender and in the queue never decrease from old to new, and none exceeds `accepted`. Every step then is an OrderedLink step or a stutter |
| `UartGuaranteeProofs!SemaphoresAreSound` | `SemaphoresSound`, under `ClaimIsAtomic` and `PatientCallers` | `CallInv`: one call at a time is past the test of `busy`, the semaphore is its own, and the sender task and the queue hold its message or nothing, and as long as they hold it no token was given |
| `UartGuaranteeProofs!CopiesFit`, `OkIsTrue` | `BufferFits`, `OkMeansReceived`, if the acknowledgement is timely too (`TimelyAck`) | `LinkInv` adds the packet in flight: there is one frame at most, it is of the packet the sender is at, and an answered packet is in the peer's buffer. So the buffer holds what came before the frame and was made by the first packet of the same message, and the sender that ends without an error has had the last packet taken |
| `UartGuaranteeProofs!CallbackIsWhole` | `CallbackReadsWhole`, if the callback ends within its second too (`FastCallback`) | `HandedOver`: while the callback has the buffer, the event task waits for it and the buffer is one whole message. These are the assumptions TLC found necessary, each promise with no more than it needs |
| `CurtainProofs!TypeCorrect`, `AlwaysSupervised` | `TypeOK`; `RunIsSupervised` for any buttons and commanders: the timer of every run wherever handlers overlap in blocking calls, `motor_action`'s transfers included; the relays where they overlap in the UART and the flash only | `Safe`: only one task is between two blocking calls (`Sections`), a handler past its test still finds what it tested, and a motor that is not at rest has its timer and `temp_status`, or a handler that is about to see to it |
| `CurtainProofs!NeverBothRelays` | `Interlock`, where handlers overlap in the UART and the flash only | not inductive: `RelayFollows` adds that one task at most is in `motor_action`, that `Motor` does not change while it is, and that the ports it has passed are as `Motor` says and the others as they were before |
| `CurtainProofs!StatusTrue`, `CommandTold` | `StatusTellsMotor`, `CommandReported` | Without overlap one task at most is not at rest; `Told` says for each of its places what the status and the motor are, `Reported` that what waits to be sent is the status |
| `CurtainProofs!OnlyPressesMislead` | without overlap every handler that ends has told CPU1 the status in force, but for a press: the disagreement `curtain_report` shows has no other cause | `Reported`, and `ExpiryTold` for the end of a run; every other step leaves a handler unfinished |
| `SecurityProofs!TypeCorrect` | `TypeOK` for any list of ports and any commanders, under every interleaving | `Places`: where in the list a task may be, and in front of which siren it waits |
| `SecurityProofs!SensorsHeard` | `NoDeafSensor`, where handlers overlap in blocking calls, across restarts | `Hearing`: a sensor's two flags differ only while a task is between the two statements that change them (`Midway`), and no other task runs then (`OneRuns`); `cancelled \subseteq touched` says that `alarm_open` and `alarm_close` give back what was never cancelled |
| `SecurityProofs!NeverArmsItself`, `ShownCountdownRuns` | `ArmedOnRequest`, `CountdownIsTimed`, under the same assumption | `Armed`, in three parts. `Tests`: what a command knows at each of its tests, although `alarm_close` before them lets others in. `Requested`: a timer that runs without a request has a command in front of its `tim_stop`, and what is in flash was asked for, or its command is still at work. `Counting`: the status PROCESS has its timer, the expiry or a command which has it still before it, or a restart found it |
| `SecurityProofs!SirensSound` | `AlarmSounds` under every interleaving | `Sounding`: a siren the user has let alone is active (`Awake`), so a reaction that no command has crossed has switched on every siren it has passed (`Passed`, `Written`), and a command that switches sirens off in front of an alarm has marked it (`Marked`) |
| `SecurityProofs!OnlyArmingTwiceAborts` | where handlers overlap in blocking calls, the assertion of `tim_start` fails only on a command to arm while the countdown's timer runs, restarts included: the disagreement `security_rearm` shows has no other cause | from `Armed`: the countdown that `set_status` starts after `alarm_close`, reading a status another command has set meanwhile, finds no timer active |
| `RegistryProofs!OneEntryEach` | `OneEntryPerFunction` on up to two transports whose handlers overlap at every step, across every restart | `PairInv`: a handler about to publish has read every listed node of its own transport and, of those of the other, none that the list has lost since. So a lost node can come back only from the list of its own transport's handler, and while that handler is at work no other entry is made for the function; a third transport's handler could bring it back later (section 4) |
| `RegistryProofs!TypeCorrect`, `NumbersDistinct` | `TypeOK` for any boards and transports; on one transport `DistinctNumbers`, across every restart, `calm` or not | `SerialInv`: numbers lie above `Locals` and up to the counter, and what the one handler at work has read still holds (`Fresh`). At boot a stored function's number is its rank among those kept, which grows with the index (`RankGrows`, from the library's facts on finite sets) |
| `RegistryProofs!AckIsKept` | `AckedFunctionIsListed` | `CalmInv`: in calm behaviours every number from `Locals + 1` to the counter has its record, so at boot a function's rank is the number its board was told |
| `RegistryProofs!EventsFindOwner` | on one transport and in calm behaviours an event reaches the function it is about, if the file has a record for every number told: the disagreement `registry_event` shows needs a restart with an incomplete file | from `NumbersDistinct` and `AckIsKept`: the number told is that of the board's own entry, and no other entry has it |
| `DevicesProofs!TypeCorrect` | `TypeOK` | each part's `TypeOK` is inductive |
| `DevicesProofs!OutputsAreTrue`, `LimitedHasTimer` | `OutputsFollowStatus`, `LimitedIsTimed` for any outputs, relays and callers | `LampInv`: while the lamp is clean one call runs, and the outputs it has passed are as it wants; a toggle, which reads each output, finds those before it as the status says. `RelayInv`: a clean relay is touched by at most one call, and the byte that call holds is the expander's, so its write changes one bit |
| `DevicesProofs!CoilsAreReleased`, `DirectionsExclude` | `CoilReleased`, `DirectionsExclusive` for any callers and port lists | `PulseInv`: for every coil that is on somebody answers, the timer, a call that will start it, or the callback which has it still before it; a door's callback answers for the coil of its status only; a valve's lonely call knows what it finds. `PistonInv`: without overlap the ports a stopping call has passed are released; in a starting one the valve asked for opens behind the pump, the other is shut, and the timer runs |
| `DevicesProofs!ButtonIsHeard` | `EventsTellButton` for any counters | `ButtonInv` ties the state of the machine to the level, to what was delivered and to the ticks |
| `DevicesProofs!ShadowIsTrue` | `ShadowAgrees` for any counter and any number of reports on their way | `RemoteInv`: if nothing was lost and no scenario went unsent, the last report on the wire is what the function did, or the shadow has taken it; `InStep`: what is stored and what CPU1 was told are the shadow, or the handler has them still before it |
| `ServicesTypeProofs!TypeCorrect` | `TypeOK` for any boards, messages, functions and counters | four parts have their types in the invariants below; of the others the bounds are the work. `AnswersBounded`: never more answers are on their way than waits that failed, and one. `PagesAreFew`: no more pages than functions. `OneMoreMessage`: what the boards have accepted, `Taken`, grows by one element with each call |
| `ServicesProofs!RelayIsTrue` | `OutputsFollowStatus` of Climate for any callers, limits and temperatures | `ClimateInv`: what a call that runs alone has read is what holds, and the set point is equal on both sides, on its way, or known to be apart |
| `ServicesProofs!GivenIsTrue` | `GivenMeansSent` for any boards and messages | `WaitInv`: as long as a board is not hasty (no call of it gave up or shared its semaphore) its one message is in the queue, in the sender, or written |
| `ServicesProofs!BusOrdered` | `InOrder` for each board, whatever is lost, late or mixed | `OrderInv`: for each board the numbers never decrease from what was handed over through what is ready, on the bus, in the sender and in the queue |
| `ServicesProofs!CallbackIsWhole` | `CallbackReadsWhole` on the bus for any boards, messages and packets | `WholeInv`: the packets of a message that is not spoiled follow each other, first in the buffer and then on the line, up to the one its sender is at; while no callback was late, at most one of the two semaphores and the callback holds the buffer, and the event task waits for it |
| `ServicesProofs!ResetMeansSilence` | `ErrorsAreSilence` for any width of the counter | `SupInv`: as long as no pong was late the semaphore is given to the ping that waits for it, and the counter is the pings missed, one less between the end of a wait and its judgement |
| `ServicesProofs!WalksAreComplete` | `WalksMissNothing` for any number of functions, any page and any patience | `SyncInv`: what is passed is read, and a token of `STATUS_ready` is the answer to the question asked. `IntroInv`: the pages sent are what lies between the first function and the next to be sent, and as many functions remain at most as the pages left can take |
| `ServicesProofs!LogIsKept` | `RecentIsKept` for any limit, queue and number of lines | `FilesKeep`: the file that was left holds more than the limit, the one in use never does, and no line in it is newer than one behind it; between the change of the file and its emptying, the file that is left is the one with the newest line (`Current`) |
| `ServicesProofs!MessagesHaveSenders` | `SocketTellsBoard` for any boards and sockets | `BoardsInv`: a socket booked soundly is kept by no entry but its board's; of two entries the one in front is another board's, or the one behind was made of an id; so the first entry found is the right one |

They assume only what the modules' ASSUMEs say of the constants: that bounds and
counters are natural numbers (`ConstantsAssumption` of UartLink; `CounterAssumption`,
`LampAssumption`, `WireAssumption` of Devices; `TemperatureAssumption`,
`LogAssumption`, `CounterAssumption`, `WalkAssumption`, `BusAssumption`,
`PageAssumption` of Services, the last with pages that are not empty), that the boards on
the bus are finitely many (`BusAssumption`), that the marks
of an empty id and socket are no board and no socket (`BoardAssumption`), that a
button debounces at all (`ButtonAssumption`), that a piston's port list has all three outputs
(`PistonAssumption`), and that tasks and ports are what their names say
(`SideAssumption`, `CommandersAssumption`, `OverlapsAssumption` of Curtain,
`PortsAssumption`, `ListAssumption`, `CancellableAssumption` and the like of Security, those of Registry on its file and its boards).

The four theorems of UartGuaranteeProofs have the timing as a hypothesis on the constants:
`CallsAlone` is `ClaimIsAtomic` and `PatientCallers`, `AcksInTime` adds `TimelyAck`, `OnTime`
adds `FastCallback`. `uart_guarantee` runs with all four. The code guarantees none of them
(section 3), so these theorems say what the link promises when the waits of the code do
not run out; `HandOverOrdered` is what it promises when they do.

Only model-checked: liveness (`CallReturns`, `MessageLeaves`, `MotorStops`,
`CountdownEnds`). Fairness and ENABLED are beyond the prover, and so is induction over
data: Intro's pages and Boards' list are therefore described by sets and positions,
never by a recursive definition. `DistinctNumbers` and `AckedFunctionIsListed` are claimed
on one transport only, because the code does not keep them on two: their handlers
increment `Function_Counter` and write the head of the list without a lock.

## 6. Observations for maintainers

Disagreements met while modelling that no run of the list repeats:

* `uart.cpp:130` says "wait until the packet is sent"; the wait ends after 2000 ms and
  `Sender` returns RET_OK with the message still queued.
* `uart.cpp:274` says "wait for the callback to finish"; after 1000 ms the receiver goes on
  and may free the buffer the callback reads.
* `curtain.cpp:38` says the motor is at rest; a command served between the test at
  line 28 and line 40 makes that false.
* `curtain.cpp:88`: `motor_action` blocks in the expander's transfers. A press that stops a command's run
  there is followed by the command's own write: a relay is on with `Motor` STOP and no timer, nothing will stop it
  but the next `motor_action` with STOP, and a run the other way turns on both relays.
* `curtain.cpp:39`: a run by button remembers the status before it, so after a full run the
  status is the end the curtain came from.
* `security.cpp:142` says "make it passive" and calls `set_active(true)`.
* `security.cpp:26`: "the only condition is that the user has not cancelled the port"; a port
  that was cancelled at disarming and given back stays inactive until the next countdown.
* `security.cpp:169`: SEC_STOP changes the status and reports nothing, against
  `classes.h:110-112`.
* `security.cpp:172`: the request is stored before `tim_stop`. When the countdown ends between the two,
  `tim_callback` stores OPENED, and the command's tests see that: the panel arms after a request to disarm.
* `security.cpp:137`: `alarm_close` stores CLOSED and then waits for each siren. A sensor that fires
  there sets ALARM and its siren; `alarm_close` goes on to switch the siren off, clears the mark and writes ALARM to
  flash. `alarm_stop` does the same to an alarm of an emergency sensor.
* `security.cpp:129`, `156`: a power failure during the transfers of `alarm_close` brings back the armed
  status, and one during a countdown brings back a countdown that never ends.
* `security.cpp:79`: an emergency during the countdown is overwritten by `alarm_open`; the siren goes on.
* `coapcallback.cpp:192` reads the status of the function before line 193 asks whether there is one;
  a registration of an unknown kind returns 255 and has none.
* `main.cpp:446`: with the button held for five seconds the board restarts while `register_all`, which it
  has just started, is still waiting for boards whose records are erased already.
* `rs485.cpp:71` says a packet is tried three times; `break` at line 84 leaves the loop at the first
  missing acknowledgement and no error is reported.

Overlapping calls, excluded by `clean` in Devices and Services:

* `lamp.cpp`: after a restart with minutes left no timer runs, and only the first output is
  restored. A lamp (or a socket, `priz.cpp`) switched on without minutes while the timer
  of the minutes runs goes off within a minute.
* `ice_pcf8574.c:84-101`: two tasks that switch different relays of one expander at once
  undo each other's bit.
* `kapi.cpp:13-41`: a command for the other direction within a pulse leaves the first coil
  energised, and so does a restart in the middle of any pulse: `init` sets no output.
* `mwater.cpp:33-64`: a command, the water alarm included, that comes while the valve moves is stored
  and reported, and never carried out. Two that overlap both find the timer inactive; the
  second start aborts.
* `piston.cpp`: a stop within the two seconds of the pump is undone, for `Motor` is not read again
  after the wait. A press on a closed piston ends with the status closed, wherever the piston is.
* `air.cpp`: a command and a report of the thermostat leave the relay as the older of the
  two decided.

Boards and services:

* `air.cpp:302` says that a temperature outside the limits stops the system ("ölçülen ısı minimum/maximum degerler dışına
  çıkarsa sistem durdurulur"). `temp_action` looks at the limits in manual mode only: in automatic mode the relay goes on
  following the set point. `OutputsFollowStatus` says nothing of an automatic relay outside the limits, neither what the code does
  nor what the comment says. The constructor's
  26 and 25 degrees are overwritten with zeros. `gateway_write`'s result is ignored.
* `tcpserver.cpp:170`: a closed socket's number stays in its entry; line 182 reads `device_id` of NULL for a
  socket no entry has. The answer of the ARP table (line 132) is not looked at.
* `uart.cpp:461`: one pong after its 200 ms leaves a token, and from then on every ping is
  judged by the one before; after eight of them "CPU1 Cevap vermiyor" (`globaltools.cpp:44`) is said of a CPU1 that
  answers each. A busy link clears the counter, a reset of CPU1 does not.
* `rs485.cpp:143`: two tasks that both see `busy` false replace each other's semaphore: the end of the first message is
  told to the caller of the second, whose message is still queued.
* `rs485.cpp`: ping clears `ping_ok` after the write; a semaphore is deleted while the sender task
  may still give it.
* `main.cpp:204`: the change of the log file is not saved. When another task saves the configuration between lines 204 and 205
  and the board restarts there, the file with the oldest lines stands as the current one, and the next change empties the
  newest.
* `main.cpp:310`: `full_status_read` ends when one board is not in the list, and `cnt` is never
  cleared, so five vain waits over all functions end it.
* `globaltools.cpp:154`: the last pages of `intro` may be empty.
* `uartcallback.cpp:57-60` passes the address of a local variable to a task it creates.
* `storage.cpp:107`: the status file grows with the numbers of remote functions and is formatted anew at the next
  boot when it holds more than 100 records.

Functions of other boards:

* `lamp.cpp:123` and `priz.cpp` send the counter only when it is not zero, and `json_to_status` keeps
  the old one when none is sent: the counter of a shadow never returns to zero.
* `remote_set_status` of curtain, gas, piston, socket, panel and valve compares the old `status.active`
  with `genel.active`.
* `tmrole.cpp:73-93`: `senaryo` of a remote time relay writes the shadow, and `set_status` sends nothing (line 32 is
  commented out): the shadow shows a state the relay was never ordered, until it next reports.
* `senaryo` on a shadow changes the status before it passes the command on; the board's event then is no
  change, and CPU1 is not told. A restart between storing and telling has the same effect.
* `functioncallback.cpp:149` always sends over the RS485 bus, although lines 128-134 say to
  wherever the function is.
* `functions.cpp:265`: the object of a newly registered function has number 0 when its constructor
  reads the status file, and so reads record 0.

## 7. Not modelled

Each with its reason in `PROJECT.json`. Whole components: the ESP-NOW radio (not started by anything), the
clock chip (conversion and a driver), joining the network (done by the ESP-IDF stack),
the web server and the update (request handlers without a state of their own), and code no
CMakeLists names. Of modelled components:

* a walk of the device list that another task changes meanwhile: Boards takes each as one
  step, so the use of a freed entry is not there to see;
* short writes of the UART driver, broadcasts and pings on the RS485 bus;
* the reports of local devices in Devices: the run of a report is modelled in Curtain and Security,
  and what it carries in Virtual;
* changes of configuration while a device runs, `send_names`, `refresh_device` of the device
  list's entries in the middle of other walks, and the wording of answers;
* an R_REQ served in the middle of a boot, and the events a panel posts to doors and valves.

Most of the repository's lines are vendored libraries, drivers, parsing and the web
server's files; the models cover the lines that decide what the board does.
