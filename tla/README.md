# A verification of the Pokemaze design

Pokemaze is a maze game on an FPGA. A Nios II soft processor runs a small USB
host that reads a keyboard through a MAX3421E chip and writes the current key
code to a parallel port; everything else is SystemVerilog: a state machine
steps the game through title screen, menu, mazes and end screen, sprites move
once a frame and bounce off the walls of a bitmap, collisions count against the
player, and a VGA controller draws the result. The firmware stands on a board
support package: a JTAG UART for its printing, a timer that drives alarms and
the millisecond clock, and a pool of file descriptors. This directory models
the parts with state in TLA+, checks them with TLC and proves the core with
TLAPS.

## 1. The system

| Part | Source | State | Operations | Interacts with |
|---|---|---|---|---|
| Game state machine | `FSM.sv`, glue in `top.sv` | `curr_State`, two choices, `inc` (Clk); `clr`, `score_CU` (frame clock) | one transition per edge | reads key code, `coll_CU`, `my_end`, `sprite_coll`, `F_LAG`, `E_SIGNAL`; drives everything below |
| Level counter | `counter.sv` | `count`, 3 bits | reset, increment | `inc` in, `E_SIGNAL` and the map out |
| Score | `scoretrack.sv`, `my_ScoreDisplay.sv` | `bounce`, `ones`, `tens` (frame clock) | add, clear; `F_LAG` from `ones` | `score_CU`, `clr` in, `F_LAG` out |
| Sprites | `pokemon.sv`, `pokeball.sv` | positions, speeds, direction and bounce flags, frame edge detector | home, move | key code, walls, `inc` in; positions, `my_end` out |
| Collisions and maps | `bouncing.sv`, `spritecolliding.sv`, `bitmap.sv` | none | corner tests, overlap test, map by level | positions in, `coll_CU`, `sprite_coll`, bounces out |
| VGA timing | `VGA_controller.sv` | `hc`, `vc`, `vs` | count pixels | the frame clock of all the above |
| USB main loop | `main.c` | `runningdebugflag`, `device`, key code port | poll, report, restart | calls the four below |
| USB interrupt and probe | `MAX3421E.c` | none of its own | `MAX3421E_init`, `MAX_busprobe`, `MaxIntHandler` | chip registers; writes `usb_task_state` |
| USB state machine | `transfer.c` | `usb_task_state`, `devtable`, `usb_delay`, `tmp_addr` | `USB_Task`, `USB_init` | chip, drivers |
| USB transfers | `transfer.c`, `project_config.h`, `MAX3421E.h` | counters of a transfer, `rcvToggle` | `XferCtrlReq`, `XferDispatchPkt`, `XferInTransfer` | chip, device |
| HID drivers | `HID.c` | `hid_device`, `hid_ep`, `bigbuf` | probe, poll | transfers |
| JTAG UART driver | `altera_avalon_jtag_uart_*.c` | two rings, `irq_enable`, `host_inactive`, `timeout` | `write`, `read`, `close`, `ioctl`, interrupt, alarm | standard output and input; alarms |
| System clock | `alt_tick.c`, `alt_alarm_start.c`, `alt_llist.h`, timer | tick counter, list of alarms | start, stop, tick | timer interrupt; UART, millisecond clock |
| File descriptors | `alt_open.c` and its neighbours | `alt_fd_list`, `alt_max_fd` | redirect, open, close, lock, unlock, fcntl | drivers |
| SPI, interrupt dispatch, cache, profiling, logging; colour mapper, ROMs, HEX, PLL, SoC | several | none, unused or generated | | not modelled (section 6) |

What makes it hard:

* Two clocks. The state machine runs at 50 MHz, `clr`, `score_CU` and the score
  on VGA_VS. A wire that is true for one Clk cycle is usually not seen by the
  frame domain, and a condition of the frame domain lasts 840000 Clk cycles.
* Registered signals overlap. `inc` is one cycle late, so the counter, the homing
  of the sprites and the state machine move in three consecutive cycles.
* The key code is a level, not an event: each key acts at every edge while held.
* Old positions. Nothing homes the sprites but `inc` and Reset.
* Unsigned arithmetic: positions of ten bits, differences of twenty, indices of
  twelve, all of which wrap.
* In the firmware, devices come and go between any two accesses of the chip; the
  interrupt handler changes the state variable of the state machine by `++`;
  interrupts stay pending until another one drives the pin.
* Packets and acknowledgements are lost, deadlines pass while the chip is still
  busy, the clock they are compared with wraps, and a transfer takes the flag of
  another one for its own.
* The probes of two drivers share a buffer and an endpoint record that nobody
  clears.
* The UART's rings are shared with an interrupt handler and no lock, and its
  interrupts are turned on and off from both sides.
* Callbacks of `alt_tick` change the list it walks.

What makes each part correct:

* game: no maze is skipped or counted twice; the level counter cannot wrap; the
  game ends when it must;
* score: both displays count the same collisions; a new game starts from zero;
* sprites: no hit is reported that is none, no ball passes through a player who
  stays in its way, and the game sees no more of them than it is built for;
* firmware: a device is enumerated afresh after each change of the bus that is noticed, what runs
  is driven by its own descriptors, each transfer takes its own result, reports
  come once and in order, and the key code comes from a keyboard;
* support package: the rings are queues, nothing stays in them unsent, alarms go
  off in their tick, no descriptor is lost, and a lock keeps others out.

## 2. The modules

### The game

`MazeControl` is the game. Its variables are the registers, by the names of the
source; wires are operators over unprimed variables, so all registers of an edge
change together as in the hardware. Its actions are the edges:

* `ClkEdge` is one edge of Clk: `FSM`, `Counter`, `Sprites`, the edge detectors,
  and the synchroniser of the push button;
* `FrameEdge` is one edge of VGA_VS: `clr`, `score_CU` and `ScoreTrack`;
* `SetKeycode` is the firmware writing the port.

`Arena`, which it extends, is what the sprites are to the state machine: `place`
(clear, on a ball, past the finish line), `wall` (a corner test fires), `travel`
(moves since homed, up to 2), and one step `ArenaStep`. A move is one or two pixels
and the finish line (y > 416) is far from the balls' rows (192 and 256), so no move
goes from the one to the other; the first move after homing only loads the speed, so
the sprites leave home on the second. On the menu screen the bitmap is all ones. All
else about positions is left open, so what is shown of the game holds for every maze.

`Sprites` is the geometry: the registers of `pokemon.sv` and both `pokeball.sv`,
the corner tests with their index arithmetic (`Index`, `Turn`, `Bounces`), the overlap
test with its twenty-bit differences (`Wide`, `InRow`, `Hit`), and the moves. Of the
game it sees which map is shown. It implements `Arena`, with `place` and `wall` as
computed from positions and bits: this is what allows `MazeControl` to play there.
The wires `bounce` are a variable only so that an index past the map, which reads an
undefined bit, is one choice for all who use it. `MCSprites` gives a small screen;
`SpritesProofs` proves the refinement for screens and mazes of every size.

`MazeHistory` extends `MazeControl` with what the registers forget: mazes finished,
moves in the level, whether a reset cut in, frames of title screen. `HNext` adds no
constraint. `MazeProofs` extends it with the theorems.

### The USB host

`UsbAttach` is the abstract promise of the host firmware: attachment phases, one
driver per attachment, reports only of that driver's class.

`UsbHost` is the main loop and the enumeration. `pc` cuts the loop of `main` where it
reads or acknowledges the chip: `reset`, `sample`, `ready` (MAX3421E_init and
USB_init), `top` (interrupt pin and HIRQ), `probe`, `ack` (MaxIntHandler), `task`
(USB_Task, one action per case), `main` (the rest). `usb_task_state` is the byte
itself because of `usb_task_state++`. The chip and the bus are external: pending
interrupts `hirq`, the bus reset, the device plugged in and the address it answers
to. A transfer is one step that succeeds or fails, and succeeds only if the device
answers at that address. Its `phase`, `driver` and `polled` are the refinement mapping
under which it implements `UsbAttach`; `UsbHostProofs` proves that and the invariants.

`UsbTransfer` opens that one step: `Request` is the call (`call`: a poll, the first
descriptor request, a descriptor, a request with no data, an OUT packet), `stage` the
packet of it, and `Launch`, `Wait`, `Expire`, `Done`, `Again`, `GiveUp`, `StageDone`,
`ReadPacket` and `InDone` the steps of `XferDispatchPkt`, `XferInTransfer` and
`XferCtrlReq`. The chip and the device are external: packets and handshakes are lost,
the device may refuse or be busy, and the chip may raise HXFRDNIRQ after the firmware
has given up. Lengths count packets of the largest size; `MaxPktSize` is that of the
device as the first descriptor request has read it, or failed to. `UsbTransferProofs` proves the
safety properties for every limit and every clock.

`HidProbe` opens the other: `HIDMProbe` and `HIDKProbe` walk the configuration
descriptor item by item in `bigbuf`, which keeps what earlier devices have left there,
bind class, interface and endpoint, switch the endpoint records in the middle, and
configure the device. A descriptor is a sequence of fields, and lengths count the fields
that the probes look at instead of bytes. As in the code the buffer may end inside an item;
a field behind its end (`Reads`) is any of `Stray`. `MCHidProbe` names eleven
shapes of descriptors; `HidProbeProofs` proves the safety properties for every
descriptor, every size of the buffer and whatever lies behind it.

Between the three: `UsbHost` has the whole bus and an atomic transfer and probe;
`UsbTransfer` shows that a transfer that succeeds is this transfer, and `HidProbe` that
a probe that succeeds is this device's. They are not composed into one state space,
which would be far too large.

### The board support package

`JtagUart` is the fast driver: the program is cut where it touches an index or a mask
the handler also touches (`Sample`, `Copy`, `Publish`, `Kick`, `Wait`, `Check` in
`write`; the same in `read`), the handler's two halves are `IsrReceive` and
`IsrTransmit`, the timeout alarm is `Alarm`, the host `HostTake`, `HostType`, `HostPoll`.
`CharPipe` is a bounded queue of consecutive characters; both rings implement it. The
package is built with -O0, so the compiler moves no access to the shared indices, most
of which are not volatile. `JtagUartProofs` proves the invariants and the refinement.

`HalAlarm` is the clock: `Tick` to `TickDone` is `alt_tick` called by the timer, its walk
cut before and after each callback, in which alarms are started and stopped;
`left` counts what each alarm still has to wait, in numbers that do not wrap. That the
list is whole is said of the least set that holds the first alarm and what follows it
(`Ahead`). `HalAlarmProofs` proves its properties.

`HalFiles` is the pool: `Redirect` (three times, before `main`), `Open`, `Close`,
`Lock`, `Unlock`, `SetFlags`. There is one thread and no handler touches the pool, so a
call is one action. `held` records what the program was given. `HalFilesProofs`
extends it with the theorems.

### Left out of these

The device's speed: both branches of `MAX_busprobe` for J and K differ only in the
speed bit they write. LEDs, hex digits and printing, `usb_error` and
`last_usb_task_state`, which nothing reads, the GPX interrupt and SNDBAVIRQ, whose
handlers change no state. JSTATUS and KSTATUS are taken to be current when read. The
drawing outputs of the sprites and `my_start`, which nothing reads. The digits' images.
The `lseek`, `isatty`, `fstat` calls, which change no state.

## 3. What is checked

| Run | Shows |
|---|---|
| `control` | `HTypeOK`; `LevelBound`: the counter never leaves 0..LastLevel+1, so never wraps to the title in a game; `LevelCountsExits`: unless reset, level = 1 + mazes finished, counting the increment on its way; `NoLevelSkipped`: between two changes of level the sprites are homed and move twice; `TitleClearsScore`: two frames of title clear the score; `ScoresAgree`: `bounce` and `ones`/`tens` show the same count through every carry; `DoomEndsGame`: on a ball or out of lives, the game ends, or the player gets off, or is in a wall for ever; `FinishingEndsGame`: finishing mazes leads to the end screen |
| `sprites` | `TypeOK`; `HitsAreReal`: a ball that is reported touches the player; `RowIsSwept`: a player on the screen who stays in the row of a ball is hit; `ArenaSpec`: refinement of `Arena` |
| `usb_safety` | `TypeOK`; `NoNullEndpoint`; `KeysComeFromKeyboard`: no mouse is read as a keyboard however fast they are swapped; `AttachSpec`: refinement of `UsbAttach` |
| `usb_liveness` | `AttachEnds`: every enumeration ends, unless the chip keeps reporting changes or the settle delay lies beyond the wrap of the clock |
| `usb_transfer` | `TypeOK`; `OwnResult`: a transfer takes its own result, until a deadline is missed; `RequestDone`: success means that the device did it, and the data is whole; `ReportsInOrder`: none lost, none twice; `TransferEnds`: no transfer lasts for ever if the chip answers, unless the packet size came out as 0, and no wait if the clock runs |
| `hid_probe` | `TypeOK`; `RunsItself`: what runs is driven by its own class, interface, endpoint, configuration, unless its descriptor is cut before the endpoint; `BootDeviceRuns`: no device is given up because of what the other driver left behind; `OwnPacketSize`; `TogglesAgree`; `WalkEnds`: a probe ends, for a device that states its lengths, none of them zero |
| `jtag_uart` | `TypeOK`; `NothingStuck`: no character is left with its interrupt off, in either ring; `RingsAreQueues`: both rings implement `CharPipe` |
| `jtag_uart_ends` | `CallEnds`: write and close end if the host takes what is sent, or is gone for good and the timeout is finite |
| `hal_alarm` | `TypeOK`; `ListWhole`; `OnTime`: called in the tick an alarm is due in, and in no other |
| `hal_files` | `TypeOK`; `DescriptorsKept`; `StdioStays`; `LockUnique`; `LockKeepsOut` |

Two runs show where the code does not do what its text says:

| Run | The code |
|---|---|
| `usb_detach` | a device that fails to enumerate leaves its address taken after it is unplugged: the pending bus event makes 0x01 into 0x02, which has no case, so `USB_init` does not run. Seven times, and the host refuses every device. |
| `sprites_overlap` | the horizontal difference is unsigned and, other than the vertical one, not shifted by the size of a sprite: a ball that comes from the right is seen only when its left edge is left of the player's, some twenty pixels late. |

### Bounds

* `control`: `LastLevel = 3` and eight counter values: three mazes, as many as fit the
  width of the counter in the source with room above, so that a maze follows a maze and
  the counter could overflow. `OnesWrap`, `LivesLimit`, `TensMod`, `BounceMod` are a few
  units, so that the carry, the wraps and the end of lives all happen. `FrameGap = 7` Clk
  edges at least between two frame edges: enough for a move to be over (2) and for the
  FSM to go round a score (5), as `FrameAssumption` asks (the source has 840000). Keys: one for
  each kind that `goto_state` tells apart. The keys that choose a pokemon or a pokeball are left
  out: the choices are made by state machines of their own and read by nothing modelled.
* `sprites`: positions of four bits, sprites of four pixels, tiles of two, eight by nine
  tiles in two rooms with a gap to the edge, so that both columns and rows wrap, corners
  fall in two walls at once and the player gets out. The step of ball and player
  together (3) is less than the width of the window in which a hit counts (5), as in
  the source (3 and 21). The bit map of the end screen has bits of its own. In the
  instance both balls are in one row and cross in opposite directions, which gives more
  meetings than two rows.
* `usb_safety`, `usb_detach`: `NumDevices = 3`, so two addresses: enough to leak one and
  use the other, and to run out; 2 in the liveness run, where the table is full after
  one leak. Two key codes. `ClockMod = 3`, `SettleTime = 1`: the clock passes the delay, or
  wraps before it does.
* `usb_transfer`: two NAKs, two retries, a deadline of one tick on a clock of two: each
  limit may be the one that ends a transfer, and the deadline may lie beyond the wrap. Two
  data packets and two reports: a repeated packet can be told from the next one, since a
  toggle has two values. Packets are of one unit; the size read may also be 0, after a first
  request without data. `MaxLate = 1`: one more request after a missed deadline.
* `hid_probe`: `BufLen = 13` and eleven shapes, any of them after any other, in two packet
  sizes: keyboard and mouse, not a boot device, no endpoint, an item of length zero; longer than
  the buffer, which ends behind the endpoint, in its type, in its size, and in the protocol of
  the interface; one that states more than it sends, one that does not send all of its
  configuration. `Stray`: the type of an interface, that of an endpoint, and the protocol of a
  keyboard.
* `jtag_uart`: rings of three (two characters), FIFOs of two and one, so each of them
  fills before another; calls of two characters, so a call is split. Characters are
  numbered modulo 3, more than a ring holds. `jtag_uart_ends` leaves out reads.
* `hal_alarm`: three alarms, so that one goes before and one behind the one being called;
  a counter of seven ticks, with delays up to five and periods up to six, so that each may
  lie beyond the wrap, and an alarm may go off twice before another one does. What a
  restarted alarm still waits and what its callback returns stay together below the wrap.
* `hal_files`: six descriptors, three of them standard, so that two are open, one is free
  or none; a file system beside the two devices; flag words with and without O_EXCL's bit.

`CHECK_DEADLOCK FALSE` stands where the program may stop: a call that nobody makes, a
callback that would stop the next alarm (below), a last device.

### Clocks, and fairness

The project has no timing constraints and VGA_VS is a register in the derived pixel
clock, so the skew between the two domains is not bounded by the build: any Clk edge
from `FrameGap` on may come before the frame edge. Fairness:

* game: weak, on `ClkEdge` and `FrameEdge`: oscillators run. Nothing is asked of the player.
  `Sprites`: weak on `Move` with any key, the same oscillator.
* `UsbHost`: weak on the processor's steps and the end of a bus reset; nothing of the bus, and
  transfers may fail for ever. Strong on the clock, whose ticks are counted only in the two
  cases of `USB_Task` that read it, and on leaving SETTLE once the delay is over: the loop
  takes milliseconds, the clock 71 minutes to wrap, so the program does not miss the time
  in between.
* `UsbTransfer`: weak on the firmware; strong on looking at a wait that is over, or past its
  deadline, for the same reason. The chip or the clock is assumed to go on only in the
  property that needs it, as a premise.
* `HidProbe`: weak on the probe, which is a synchronous call.
* `JtagUart`: weak on each part of the program, on both halves of the handler and on the
  alarm: interrupts are on. Nothing of the host, but as a premise of `CallEnds`.
* `HalAlarm` needs none: `OnTime` is a safety property, of ticks that have happened.

## 4. Known behaviours

What the models and the reading of the code brought out, and the properties either
except or do not concern. Some are harmless.

Game:

* After a death on a pokeball, Esc and space lose again at once: the FSM reads
  `sprite_coll` before `inc` has homed the sprites.
* On the menu a chosen pokeball is unchosen by the next edge.
* A collision is scored if the frame edge meets the one state in five in which `score_CUI`
  is high. With the domains in phase lock (840000 is a multiple of five) a lasting
  contact may never score. The game ends at 28 collisions, the report says ten.
  While the contact lasts the lives are not looked at, and with the 31st collision they start
  again: `DoomEndsGame` excepts a game in which `F_LAG` has fallen.
* `NoLevelSkipped` holds for players who stay two frames on the title screen (`patient`). One
  who does not keeps the old score, may die of it while he moves over the finish line,
  and starts the next game past it.
* With space held during Reset the game starts on level 2, as `inc` has no reset;
  `LevelCountsExits` leaves out games into which a reset cut.
* On the menu screen the player drifts by flags the last game left, and Enter does not home
  him: the first maze may start somewhere else, even past the finish. Only with M held through a
  Reset does `inc`, still high on the menu, home him, and count the first maze at once.
* Walls are porous. Where two corners are in walls, the first decides, and its inner
  conditions may not fire. From the home position of the real maps one can get out of the
  free tiles, walk to every column, and finish a maze by leaving at the top, where row 0
  goes to row 1023, past the finish line. There is therefore no property that keeps the
  player in the maze. A player half off the right edge can evade the balls, for which
  reason `RowIsSwept` is about players on the screen.

USB:

* The millisecond clock has 32 bits before the division by 1000 and wraps every 71 minutes;
  a device attached in the last 200 ms before is never enumerated.
* `HIRQ | bmFRAMEIRQ` is always true: no start of frame is awaited.
* A device plugged in between probe and acknowledgement is not noticed. No property forbids it:
  `UsbAttach` is about the changes that are.
* After a missed deadline each result is that of the transfer before, until the chip is
  reset.
* The first descriptor request (in packets of 8) also succeeds if the device ends it without
  data. `MaxPktSize` is then taken from an uninitialised local; if that is 0, empty packets never
  end the next requests. `TransferEnds` excepts those (`Unsized`).
* A descriptor whose walk meets a zero length (an item's own, or what lies behind the end of
  one that states more than it sends) is walked for ever.
* A descriptor of more than 256 bytes is cut, perhaps in the middle of an item. The walk looks at
  each item that begins in `bigbuf` and reads fields of the last one behind it. An interface or an
  endpoint found there is an accident; `RunsItself` excepts a device cut before its endpoint.
* Waiting for the oscillator in `MAX3421E_reset` never gives up.
* A key held when the keyboard is pulled stays pressed: a failed poll writes nothing.
* The case of `USB_Task` for `USB_STATE_ERROR` (0xff) is never reached, since the switch is on
  the value masked with 0xf0; case and default both do nothing.

Support package:

* `alt_fd_lock.c:61` scans to one short of the highest descriptor, so a lock is granted while
  that one is open on the device, against `alt_fd_lock.c:43-45`. `LockUnique` holds all the
  same, because `alt_open.c:79` keeps later descriptors out.
* Closing descriptors 0 to 2 releases nothing, also not their lock. The UART, on which
  they always stand, is therefore never lockable.
* Writes to the standard output before it is redirected fail; `alt_dev.c:84` calls them safe.
* `write` returns EIO when the buffer is full and the host gone, and also at other times;
  its comment names only the first.
* A callback that stops the alarm which comes next leaves `alt_tick` on an entry linked to
  itself, for ever. `HalAlarm` forbids it; no callback of this firmware stops an alarm. All
  other starts and stops are allowed, also a callback that stops its own alarm and starts it
  again: the return value is then added to the new time.
  A delay of 2^32 - 1 goes off at once; it is excluded by `AlarmAssumption`.
* A UART initialised before the timer has no alarm and its timeout is infinite. Both
  orders are initial states of `JtagUart`.

## 5. What is proved

TLAPS checks every theorem below, for all values of the constants that the named
assumptions of its module admit (`LevelAssumption`, `FilesAssumption`, `UartAssumption` and
so on: ranges and sizes, as weak as the code justifies). A property named in the third column is
also checked by a run, so that TLC evaluates the assumptions and the statement on an instance.

| Module | Theorem | Property | Argument |
|---|---|---|---|
| `MazeProofs` | `TypeCorrect` | `HTypeOK` | inductive by itself |
| | `LevelBounded` | `LevelBound` | `LevelInv` |
| | `LevelsCountExits` | `LevelsCountExits` | `ExitsInv` |
| | `TitleClears` | `TitleClearsScore` | `ClearInv` |
| | `DisplaysAgree` | `ScoresAgree` | inductive by itself, with `AgreeStep` |
| | `LevelsNotSkipped` | `NoLevelSkipped` | `SkipInv` |
| `HalFilesProofs` | `TypeCorrect`, `NoneLost`, `StdioKept`, `OneLock`, `LockedOut` | `TypeOK`, `DescriptorsKept`, `StdioStays`, `LockUnique`, `LockKeepsOut` | `IInv` there |
| `HalAlarmProofs` | `TypeCorrect`, `StaysWhole`, `CalledOnTime` | `TypeOK`, `ListWhole`, `OnTime` | `IInv` there |
| | `WalksShorten` | | the same `IInv`, and `NotAgain` |
| `JtagUartProofs` | `TypeCorrect`, `NoneStuck` | `TypeOK`, `NothingStuck` | `IInv` there |
| | `Implements` | `RingsAreQueues` | the same `IInv`, and one lemma per step |
| `UsbHostProofs` | `TypeCorrect`, `EndpointsThere`, `KeyboardOnly` | `TypeOK`, `NoNullEndpoint`, `KeysComeFromKeyboard` | `IInv` there |
| | `Implements` | `AttachSpec` | the same `IInv`, and `AttachStep` |
| `UsbTransferProofs` | `TypeCorrect`, `OwnResults`, `RequestsDone`, `ReportsOrdered` | `TypeOK`, `OwnResult`, `RequestDone`, `ReportsInOrder` | `IInv` there |
| | `CallsShorten` | | the same `IInv`, and one lemma per step |
| `HidProbeProofs` | `TypeCorrect`, `OnlyItself`, `BootDevicesRun`, `OwnSize`, `TogglesKept` | `TypeOK`, `RunsItself`, `BootDeviceRuns`, `OwnPacketSize`, `TogglesAgree` | `IInv` there |
| | `OwnReads` | | the same `IInv`, and `ItemIs` |
| | `ProbesShorten` | | the same `IInv`, and what is left of a probe |
| `SpritesProofs` | `TypeCorrect`, `RealHits` | `TypeOK`, `HitsAreReal` | `IInv` there, `HitIs` |
| | `Implements` | `ArenaSpec` | the same `IInv`, and one lemma per action |

* `LevelInv`: `LevelBound` is not inductive alone, since `inc` reaches the counter a cycle
  late, and a reset may leave an increment behind. The invariant gives, for each state of
  the state machine, the values the counter may have and whether an increment may be on its
  way: up to `LastLevel` in `increment1` and `increment2`, at most one on the title screen.
  `ExitsInv` adds to `LevelCountsExits` that a game without a reset starts from zero with
  nothing on its way. `ClearInv` says that a frame of title screen has put `clr` up and
  `score_CU` down, so that the next one clears.
* `AgreeStep`: a carry stands for `OnesWrap + 1` collisions, and the wraps bring both displays
  round together because the widths divide (`WidthAssumption`: 512 is a multiple of 256).
* `SkipInv` follows a game over the finish line. `TravelInv`: past the line the sprites have
  moved twice since they were homed, and `moved` has counted those moves. `StartInv`: no game
  starts past the line. That holds because no game ends there: the edge that ends it either
  finds the player off the line and unmoved, or homes him (`EndInv`), and a death out of lives
  comes right after a score, whose wall he has not left in the meantime (`WallInv`,
  `LivesInv`: the FSM goes round a score in fewer edges than there are between frames,
  `FrameAssumption`; on the menu there are lives, `LivesLimit >= 1`).
* `HalFilesProofs!IInv` = `TypeOK`, `DescriptorsKept`, `BelowMark` (nothing in use lies above
  `alt_max_fd`), `Channels` (what the standard channels stand on, as far as boot
  has come), `Marks` (flags and locks only on devices, locks only after boot), and
  `LockOrder`: other descriptors of a locked device lie above the locked one. `LockUnique`
  needs it: the scan itself does not see every descriptor, but what it overlooks is the
  highest.
* `HalAlarmProofs!IInv` = `TypeOK`, `ListWhole`, `OffInv` (an alarm that is off is
  linked to itself, or was never linked), `TimeInv` (the time and the flag of a running alarm say, in
  numbers that wrap, what `left` says in numbers that do not) and `WalkInv`: what is due in this
  tick and not yet called is still ahead of the walk. `ListWhole` alone does not survive a
  callback: that nothing due is lost when alarms are started at the head, or taken off behind
  the walk, is a fact about `Ahead` of where the walk stands. An induction over the list is
  avoided by stating it of every set that is closed under `next`. `WalksShorten`: what is ahead of
  the walk only gets less, by each alarm looked at, whatever callbacks start and stop. It needs
  that no walk comes back to where it has been (`NotAgain`), which follows from `ListWhole`.
* `JtagUartProofs!IInv` = `TypeOK`, `NothingStuck`, and what the locals of a call still know
  after any number of interrupts: `TxLocal` (the places that `write` sampled are still
  free, and do not go round the end), `Copied` (they hold the next characters), `RxLocal`
  (the characters `read` sampled are still there). The handler only makes more room, and
  more characters, than what was sampled: this is why no lock is needed.
  For the refinement, `PutContent` and `TakeContent` say what an index that moves does
  to the content of a ring, `CopyStep` that `write` copies where the content is not, and
  `Implements` puts together `TxStep` and `RxStep`.

* `UsbHostProofs!IInv` = `TypeOK` and what the program knows at each point of an
  enumeration. `LoopInv`: where the loop stands tells what it has seen. `TableInv`: addresses
  are taken from below and entry 0 stays filled. `ConfiguringInv`: the address on its way is
  the last one taken, so the entry that the driver fills is not that of another device.
  `RunningInv`: the same of the device that runs, and if what is plugged in answers there, it
  is bound to its own class; a device swapped in answers to 0, so no report comes from it.
  `FlagInv`: `runningdebugflag`, which outlives the state it was set in, is only acted on
  while the device it was set for runs, or after the loop has found the change of the bus.
* `UsbTransferProofs!IInv` = `TypeOK`, `StageInv` (which packets belong to which call, and that
  the buffer has room for the next), and, as long as no deadline has been missed: `ChipInv`
  (the chip is busy with the packet launched last, and its flag is up only when that is
  answered), `SuccessInv` (a success is that of the device), `FifoInv` (the chip holds at most
  one packet, the next one), `DeviceInv` and `WholeInv` (the data of a request), and `PollInv`: the
  device is at the report after the last one received, with the toggle expected, or at that
  one, with the other toggle. This is the alternating bit protocol, with `rcvToggle` carrying
  the bit from poll to poll; the invariant needs no bound on reports or retries.
  `CallsShorten`: the packets left to a call, the attempts left to a packet and the steps left
  to an attempt, in this order, get fewer with every step of the firmware. This is what
  `TransferEnds` needs beside fairness. Left out of both is a GET_DESCRIPTOR with a packet size
  of 0 (`Unsized`), to which a device may send empty packets for ever.
* `HidProbeProofs!IInv` = `TypeOK`, the properties `RunsItself` and `TogglesAgree`, and what a probe
  knows at each step. `StateInv`: the address in use has an endpoint record, of this device's
  size. `ReadInv`: as far as the walk looks, the buffer holds what this device sent. `FoundInv`:
  the walk goes from item to item, no interface before `ptr`, once bound no endpoint between it
  and `ptr`, and what was taken is of the first of each, unless the descriptor is cut before it
  (`Clear`). `OwnReads`: of an honest device that fits, nothing is read behind the buffer, and
  nothing that another one left in it; `TypeCorrect` claims only that items begin in the buffer.
  `BoundInv`: records and toggles of a device that is bound. `BootInv`: as long as nothing was refused, the driver of a boot device is still to come: no probe for
  another kind takes the device over, or passes it by. `FirstIs` stands for the search for the
  least; no induction is needed, as the walk itself bounds it from below. `ProbesShorten` bounds
  the steps of a probe for a device none of whose items has length zero (`NoZero`): the walk
  does not pass a zero, in the code as in the model.
* `SpritesProofs!IInv` = `TypeOK`, `HomeInv` (until the second move the player is where he was
  homed) and `WireInv`. `WideIs` and `SmallIs` say what a difference of twice the width reads
  as: itself, or more than any sprite; so a hit is a real overlap (`HitIs`). `NoShortcut`: no
  move leads from a ball past the finish line. `HomeFree` rests on `HomeAssumption`: the four
  corners of the home position are free in every map but the menu's, which holds for the
  bitmaps of `bitmap.sv`, and for which a maze with another shape must be looked at again.

Every invariant and every action property that a passing run checks is proved. Only
model-checked are the liveness properties: `DoomEndsGame`, `FinishingEndsGame`, `AttachEnds`,
`TransferEnds`, `WalkEnds`, `CallEnds` and `RowIsSwept`. Liveness under fairness, ENABLED,
induction over data and recursive operators are out of the prover's reach; the modules
use no recursive operator. Of `TransferEnds` and `WalkEnds` the safety half is proved
(`CallsShorten`, `ProbesShorten`); `WalksShorten` says the same of a tick, for which no run states
a liveness property.

## 6. Not modelled

* SPI access (`altera_avalon_spi.c`, the register functions of `MAX3421E.c`): one synchronous
  call per access; no interrupt handler touches the bus, so nothing interleaves.
* Interrupt dispatch, caches, exceptions, `alt_gmon.c`, `alt_log_printf.c`, the DMA and flash
  interfaces: the internal controller dispatches, the rest is not linked or does
  nothing in this configuration; most of the package's lines are of this kind, and
  headers of constants.
* `VGA_controller.sv` but for the period of VGA_VS; `Color_Mapper.sv`, ROMs, palettes,
  `HexDriver.sv`, the PLL: combinational lookup, images, a generated clock.
* `lab8_soc.qsys` and what Platform Designer generates from it.
* `printf` and the C library; the mouse's display in `main.c`.

## 7. What could follow

* `VgaTiming`: the pixel counters, and that sync and blanking never overlap the picture.
* A composition of `UsbHost` and `MazeControl` over the key code port, for what a player
  can expect of a key that is held while the keyboard is pulled.
* An abstract life of a game (title, menu, mazes, end) that `MazeControl` implements.
* Bounds like `CallsShorten` for the other liveness properties: a call of `write`, a game that is
  over.
