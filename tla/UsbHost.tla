------------------------------ MODULE UsbHost ------------------------------
(***************************************************************************)
(* The USB host firmware: the endless loop of main.c, the interrupt        *)
(* handler and bus probe of MAX3421E.c, the state machine of transfer.c    *)
(* and the HID drivers of HID.c, above a MAX3421E chip and a bus on which   *)
(* devices come and go at any time.                                        *)
(*                                                                         *)
(* The firmware is one thread, cut where it reads or acknowledges the      *)
(* chip, since the bus may change in between.  usb_task_state is the byte   *)
(* the code holds, because the interrupt handler increments it.            *)
(***************************************************************************)
EXTENDS Integers

CONSTANTS
    NumDevices,  \* USB_NUMDEVICES: addresses 1 .. NumDevices-1 (8)
    Keys,        \* key codes a keyboard reports
    Devices,     \* kinds of device that are plugged in
    ClockMod,    \* the clock in ms wraps here: 2^32 \div 1000 + 1 (4294968)
    SettleTime   \* initial settle (200)

ASSUME NumDevicesAssumption == NumDevices \in Nat /\ NumDevices >= 2
ASSUME UsbKeysAssumption == 0 \in Keys
ASSUME DevicesAssumption == Devices \subseteq {"keyboard", "mouse", "other"}
ASSUME ClockAssumption == ClockMod \in Nat \ {0} /\ SettleTime \in Nat

VARIABLES
    pc,              \* where the loop stands
    seen,            \* HIRQ as MaxIntHandler read it
    usb_task_state,
    clock,           \* (alt_nticks()*1000)/alt_ticks_per_second()
    usb_delay,
    devtable, tmp_addr, hid_addr,
    runningdebugflag, device,
    keycode,         \* the keycode PIO, input of the game
    plugged,         \* external: the device on the bus
    devaddr,         \* external: the address the device answers to
    hirq,            \* external: pending interrupts of the chip
    resetting,       \* external: BUSRST, a bus reset is running
    sofOn            \* external: bit SOFKAENAB of MODE

loopVars == <<seen, clock, usb_delay, tmp_addr, hid_addr>>
fwVars   == <<pc, usb_task_state, devtable, runningdebugflag, device, keycode, loopVars>>
busVars  == <<plugged, devaddr>>
chipVars == <<hirq, resetting, sofOn>>
vars     == <<fwVars, busVars, chipVars>>

-----------------------------------------------------------------------------
(* The values of usb_task_state (USB.h). *)

INITIALIZE          == 1
WAIT_FOR_DEVICE     == 3
ILLEGAL             == 4
ATTACHED            == 16
SETTLE              == 17
RESET_DEVICE        == 18
WAIT_RESET_COMPLETE == 19
WAIT_SOF            == 20
GET_DEVICE_DESCRIPTOR_SIZE == 21
ADDRESSING          == 32
CONFIGURING         == 48
RUNNING             == 64
ERROR               == 255

DETACHED == 0
Major(s) == 16 * (s \div 16)      \* s & USB_STATE_MASK

HID_K == 1
HID_M == 2

DriverOf  == [keyboard |-> HID_K, mouse |-> HID_M, other |-> 0]
Addresses == 1..NumDevices-1
Entry     == [epinfo : {"NULL", "dev0ep", "hid_ep"}, devclass : {0, HID_K, HID_M}]

States == {INITIALIZE, INITIALIZE + 1, WAIT_FOR_DEVICE, ILLEGAL, ILLEGAL + 1}
          \cup ATTACHED..GET_DEVICE_DESCRIPTOR_SIZE
          \cup {ADDRESSING, CONFIGURING, RUNNING, ERROR}

TaskOK ==
    /\ pc \in {"reset", "sample", "ready", "top", "probe", "ack", "task", "main"}
    /\ usb_task_state \in States
    /\ clock \in 0..ClockMod-1 /\ usb_delay \in 0..ClockMod-1+SettleTime

TableOK ==
    /\ devtable \in [0..NumDevices -> Entry]
    /\ tmp_addr \in 0..NumDevices-1 /\ hid_addr \in 0..NumDevices-1
    /\ device \in {0, HID_K, HID_M, 255} /\ keycode \in Keys

BusOK ==
    /\ seen \subseteq {"CONDET", "BUSEVENT", "FRAME"}
    /\ hirq \subseteq {"CONDET", "BUSEVENT", "FRAME"}
    /\ plugged \in {"none", "fault"} \cup Devices
    /\ devaddr \in 0..NumDevices-1

FlagsOK == runningdebugflag \in BOOLEAN /\ resetting \in BOOLEAN /\ sofOn \in BOOLEAN

TypeOK == TaskOK /\ TableOK /\ BusOK /\ FlagsOK

(* The device on the bus answers to address a. *)
Answers(a) == plugged \in Devices /\ devaddr = a /\ ~resetting

USB_init == devtable' = [i \in 0..NumDevices |->
                [epinfo |-> IF i = 0 THEN "dev0ep" ELSE "NULL", devclass |-> 0]]

Init ==
    /\ pc = "reset" /\ seen = {}
    /\ usb_task_state = INITIALIZE
    /\ clock \in 0..ClockMod-1 /\ usb_delay = 0
    /\ devtable = [i \in 0..NumDevices |-> [epinfo |-> "NULL", devclass |-> 0]]
    /\ tmp_addr = 0 /\ hid_addr = 0
    /\ runningdebugflag = FALSE
    /\ device \in {0, HID_K, HID_M, 255}      \* uninitialised in main
    /\ keycode = 0
    /\ plugged \in {"none", "fault"} \cup Devices
    /\ devaddr = 0
    /\ hirq = {} /\ resetting = FALSE /\ sofOn = FALSE

-----------------------------------------------------------------------------
(* The chip and the bus. *)

Plug(d) == /\ plugged = "none"
           /\ plugged' = d /\ devaddr' = 0
           /\ hirq' = hirq \cup {"CONDET"}
           /\ UNCHANGED <<fwVars, resetting, sofOn>>

Unplug == /\ plugged # "none"
          /\ plugged' = "none" /\ devaddr' = 0
          /\ hirq' = hirq \cup {"CONDET"}
          /\ UNCHANGED <<fwVars, resetting, sofOn>>

(* A bus reset may look like a new connection to the chip. *)
ResetDone == /\ resetting
             /\ resetting' = FALSE /\ devaddr' = 0
             /\ \E more \in SUBSET {"CONDET"} :
                    hirq' = hirq \cup {"BUSEVENT"} \cup more
             /\ UNCHANGED <<fwVars, plugged, sofOn>>

StartOfFrame == /\ sofOn /\ ~resetting
                /\ hirq' = hirq \cup {"FRAME"}
                /\ UNCHANGED <<fwVars, busVars, resetting, sofOn>>

(* Time passes.  The clock is read by these two cases of USB_Task only, so
   the ticks of the rest of the loop are counted here.  It wraps because
   alt_nticks()*1000 has 32 bits. *)
Tick == /\ pc = "task" /\ usb_task_state \in {ATTACHED, SETTLE}
        /\ clock' = (clock + 1) % ClockMod
        /\ UNCHANGED <<pc, seen, usb_task_state, usb_delay, devtable, tmp_addr, hid_addr,
                       runningdebugflag, device, keycode, busVars, chipVars>>

-----------------------------------------------------------------------------
(* MAX_busprobe: its new state, and its write of MODE. *)

Probed_KeepsPastReset(s) ==
    IF plugged \in Devices THEN IF s >= WAIT_RESET_COMPLETE THEN s ELSE ATTACHED
    ELSE IF plugged = "fault" THEN ILLEGAL
    ELSE IF Major(s) # DETACHED THEN INITIALIZE
    ELSE WAIT_FOR_DEVICE

Probed(s) ==
    IF plugged \in Devices THEN IF s = WAIT_RESET_COMPLETE THEN s ELSE ATTACHED
    ELSE IF plugged = "fault" THEN ILLEGAL
    ELSE IF Major(s) # DETACHED THEN INITIALIZE
    ELSE WAIT_FOR_DEVICE

ProbeMode == sofOn' = \/ sofOn
                      \/ plugged \in Devices /\ usb_task_state # WAIT_RESET_COMPLETE
                      \/ plugged = "none" /\ Major(usb_task_state) = DETACHED

(* MAX3421E_init and the USB_init that follows each of its two calls. *)
ChipReset ==
    /\ pc = "reset" /\ pc' = "sample"
    /\ hirq' = {} /\ resetting' = FALSE /\ sofOn' = FALSE
    /\ UNCHANGED <<usb_task_state, devtable, runningdebugflag, device, keycode,
                   loopVars, busVars>>

InitProbe ==
    /\ pc = "sample" /\ pc' = "ready"
    /\ usb_task_state' = Probed(usb_task_state) /\ ProbeMode
    /\ UNCHANGED <<devtable, runningdebugflag, device, keycode, loopVars, busVars,
                   hirq, resetting>>

InitDone ==
    /\ pc = "ready" /\ pc' = "top"
    /\ hirq' = hirq \ {"CONDET"}
    /\ USB_init
    /\ UNCHANGED <<usb_task_state, runningdebugflag, device, keycode, loopVars, busVars,
                   resetting, sofOn>>

(* MAX3421E_Task and MaxIntHandler.  Only CONDET drives the pin. *)
IrqPin == "CONDET" \in hirq

ReadIrq ==
    /\ pc = "top"
    /\ IF IrqPin THEN pc' = "probe" /\ seen' = hirq
                 ELSE pc' = "task"  /\ UNCHANGED seen
    /\ UNCHANGED <<usb_task_state, devtable, runningdebugflag, device, keycode,
                   clock, usb_delay, tmp_addr, hid_addr, busVars, chipVars>>

ServeIrq ==
    /\ pc = "probe" /\ pc' = "ack"
    /\ LET s == IF "CONDET" \in seen THEN Probed(usb_task_state) ELSE usb_task_state
       IN usb_task_state' = IF "BUSEVENT" \in seen THEN (s + 1) % 256 ELSE s
    /\ IF "CONDET" \in seen THEN ProbeMode ELSE UNCHANGED sofOn
    /\ UNCHANGED <<devtable, runningdebugflag, device, keycode, loopVars, busVars,
                   hirq, resetting>>

AckIrq ==
    /\ pc = "ack" /\ pc' = "task"
    /\ hirq' = hirq \ seen /\ seen' = {}
    /\ UNCHANGED <<usb_task_state, devtable, runningdebugflag, device, keycode,
                   clock, usb_delay, tmp_addr, hid_addr, busVars, resetting, sofOn>>

-----------------------------------------------------------------------------
(* USB_Task: one step of the state machine each time round the loop. *)

Task(s) == pc = "task" /\ pc' = "main" /\ usb_task_state = s

Initialize ==
    /\ Task(INITIALIZE)
    /\ USB_init
    /\ usb_task_state' = WAIT_FOR_DEVICE
    /\ UNCHANGED <<runningdebugflag, device, keycode, loopVars, busVars, chipVars>>

Attached ==
    /\ Task(ATTACHED)
    /\ usb_delay' = clock + SettleTime
    /\ usb_task_state' = SETTLE
    /\ UNCHANGED <<devtable, runningdebugflag, device, keycode, seen, clock, tmp_addr,
                   hid_addr, busVars, chipVars>>

Settle ==
    /\ Task(SETTLE)
    /\ usb_task_state' = IF clock > usb_delay THEN RESET_DEVICE ELSE SETTLE
    /\ UNCHANGED <<devtable, runningdebugflag, device, keycode, loopVars, busVars, chipVars>>

ResetDevice ==
    /\ Task(RESET_DEVICE)
    /\ hirq' = hirq \ {"BUSEVENT"}
    /\ resetting' = TRUE
    /\ usb_task_state' = WAIT_RESET_COMPLETE
    /\ UNCHANGED <<devtable, runningdebugflag, device, keycode, loopVars, busVars, sofOn>>

WaitReset ==
    /\ Task(WAIT_RESET_COMPLETE)
    /\ usb_task_state' = IF resetting THEN WAIT_RESET_COMPLETE ELSE WAIT_SOF
    /\ sofOn' = (sofOn \/ ~resetting)
    /\ UNCHANGED <<devtable, runningdebugflag, device, keycode, loopVars, busVars,
                   hirq, resetting>>

(* HIRQ | bmFRAMEIRQ is never zero. *)
WaitSof ==
    /\ Task(WAIT_SOF)
    /\ usb_task_state' = GET_DEVICE_DESCRIPTOR_SIZE
    /\ UNCHANGED <<devtable, runningdebugflag, device, keycode, loopVars, busVars, chipVars>>

(* The transfers of a step succeed only if the device answers. *)
GetDescriptor ==
    /\ Task(GET_DEVICE_DESCRIPTOR_SIZE)
    /\ \/ Answers(0) /\ usb_task_state' = ADDRESSING
       \/ usb_task_state' = ERROR
    /\ UNCHANGED <<devtable, runningdebugflag, device, keycode, loopVars, busVars, chipVars>>

Free == {i \in Addresses : devtable[i].epinfo = "NULL"}

NextAddress_Highest(i) == \A j \in Free : j <= i
NextAddress(i)         == \A j \in Free : i <= j

Addressing_NoFullCheck ==
    /\ Task(ADDRESSING)
    /\ IF Free = {}
       THEN UNCHANGED <<usb_task_state, devtable, tmp_addr, devaddr>>
       ELSE \E i \in Free :
            /\ NextAddress(i)
            /\ devtable' = [devtable EXCEPT ![i].epinfo = devtable[0].epinfo]
            /\ \/ /\ Answers(0)
                  /\ tmp_addr' = i /\ devaddr' = i
                  /\ usb_task_state' = CONFIGURING
               \/ usb_task_state' = ERROR /\ UNCHANGED <<tmp_addr, devaddr>>
    /\ UNCHANGED <<runningdebugflag, device, keycode, seen, clock, usb_delay, hid_addr,
                   plugged, chipVars>>

(* A device may have taken the address although the transfer failed. *)
Addressing ==
    /\ Task(ADDRESSING)
    /\ IF Free = {}
       THEN /\ usb_task_state' = ERROR
            /\ UNCHANGED <<devtable, tmp_addr, devaddr>>
       ELSE \E i \in Free :
            /\ NextAddress(i)
            /\ devtable' = [devtable EXCEPT ![i].epinfo = devtable[0].epinfo]
            /\ \/ /\ Answers(0)
                  /\ tmp_addr' = i /\ devaddr' = i
                  /\ usb_task_state' = CONFIGURING
               \/ /\ devaddr' \in {devaddr} \cup (IF Answers(0) THEN {i} ELSE {})
                  /\ usb_task_state' = ERROR
                  /\ UNCHANGED tmp_addr
    /\ UNCHANGED <<runningdebugflag, device, keycode, seen, clock, usb_delay, hid_addr,
                   plugged, chipVars>>

(* HIDMProbe and HIDKProbe bind the driver before they configure the device,
   and leave it bound if that fails.  A device of another class, or one that
   does not answer, changes nothing. *)
Configuring ==
    /\ Task(CONFIGURING)
    /\ \/ /\ Answers(tmp_addr) /\ DriverOf[plugged] # 0
          /\ devtable' = [devtable EXCEPT ![tmp_addr] =
                             [epinfo |-> "hid_ep", devclass |-> DriverOf[plugged]]]
          /\ hid_addr' = tmp_addr
          /\ usb_task_state' \in {RUNNING, ERROR}
       \/ /\ usb_task_state' = ERROR
          /\ UNCHANGED <<devtable, hid_addr>>
    /\ UNCHANGED <<runningdebugflag, device, keycode, seen, clock, usb_delay, tmp_addr,
                   busVars, chipVars>>

(* The cases that do nothing, and the values that have no case. *)
Idle ==
    /\ pc = "task" /\ pc' = "main"
    /\ usb_task_state \notin {INITIALIZE, ADDRESSING, CONFIGURING}
                                \cup ATTACHED..GET_DEVICE_DESCRIPTOR_SIZE
    /\ UNCHANGED <<usb_task_state, devtable, runningdebugflag, device, keycode, loopVars,
                   busVars, chipVars>>

USB_Task == \/ Initialize \/ Attached \/ Settle \/ ResetDevice \/ WaitReset \/ WaitSof
            \/ GetDescriptor \/ Addressing \/ Configuring \/ Idle

-----------------------------------------------------------------------------
(* The rest of the loop in main. *)

Main == pc = "main"
        /\ UNCHANGED <<usb_task_state, devtable, loopVars, busVars, chipVars>>

InUse == {i \in Addresses : devtable[i].epinfo # "NULL"}

(* GetDriverandReport: the class of the last device in the table. *)
ClassFound_First ==
    IF InUse = {} THEN 255
    ELSE devtable[CHOOSE i \in InUse : \A j \in InUse : i <= j].devclass

ClassFound ==
    IF InUse = {} THEN 255
    ELSE devtable[CHOOSE i \in InUse : \A j \in InUse : j <= i].devclass

Report ==
    /\ Main /\ pc' = "top"
    /\ usb_task_state = RUNNING /\ ~runningdebugflag
    /\ runningdebugflag' = TRUE
    /\ device' = ClassFound
    /\ UNCHANGED keycode

(* kbdPoll with a report: its first key becomes the game's key code. *)
Polling == Main /\ usb_task_state = RUNNING /\ runningdebugflag
KbdReport ==
    /\ Polling /\ pc' = "top"
    /\ device = HID_K /\ Answers(hid_addr)
    /\ keycode' \in Keys
    /\ UNCHANGED <<runningdebugflag, device>>

(* A poll without a report or of the mouse, or nothing to poll. *)
NoReport ==
    /\ Polling /\ pc' = "top"
    /\ UNCHANGED <<runningdebugflag, device, keycode>>

Failed ==
    /\ Main /\ pc' = "top"
    /\ usb_task_state = ERROR
    /\ UNCHANGED <<runningdebugflag, device, keycode>>

(* Not running any more: start the chip again, once. *)
NotRunning_KeepsFlag ==
    /\ Main /\ usb_task_state \notin {RUNNING, ERROR}
    /\ pc' = "top"
    /\ UNCHANGED <<runningdebugflag, device, keycode>>

NotRunning ==
    /\ Main /\ usb_task_state \notin {RUNNING, ERROR}
    /\ pc' = IF runningdebugflag THEN "reset" ELSE "top"
    /\ runningdebugflag' = FALSE
    /\ UNCHANGED <<device, keycode>>

-----------------------------------------------------------------------------
Firmware == \/ ChipReset \/ InitProbe \/ InitDone
            \/ ReadIrq \/ ServeIrq \/ AckIrq
            \/ USB_Task
            \/ Report \/ KbdReport \/ NoReport \/ Failed \/ NotRunning

Bus == (\E d \in Devices \cup {"fault"} : Plug(d)) \/ Unplug

Next == Firmware \/ Bus \/ ResetDone \/ StartOfFrame \/ Tick

Spec == Init /\ [][Next]_vars

(* The processor, the chip and the clock keep running, and a wait that is over
   is looked at before the clock wraps (71 minutes); the bus owes nothing. *)
Fairness == /\ WF_vars(Firmware) /\ WF_vars(ResetDone)
            /\ SF_vars(Tick) /\ SF_vars(Settle /\ clock > usb_delay)

FairSpec == Spec /\ Fairness

-----------------------------------------------------------------------------
(* Properties. *)

\* Every transfer finds an endpoint record: the entry of devtable it goes
\* through was filled in this enumeration and not wiped in between.  main's
\* GetDriverandReport goes through entry 1, whatever address was assigned.
NoNullEndpoint ==
    /\ pc = "task" /\ usb_task_state \in {GET_DEVICE_DESCRIPTOR_SIZE, ADDRESSING}
           => devtable[0].epinfo = "dev0ep"
    /\ pc = "task" /\ usb_task_state = CONFIGURING
           => tmp_addr # 0 /\ devtable[tmp_addr].epinfo # "NULL"
    /\ pc = "main" /\ usb_task_state = RUNNING
           => /\ devtable[1].epinfo # "NULL"
              /\ devtable[hid_addr].epinfo = "hid_ep"

\* The key code of the game only ever changes by a report of a keyboard: a
\* mouse that takes the keyboard's place on the bus is never read as one,
\* however the change falls between the steps of the loop.
KeysComeFromKeyboard ==
    [][keycode' # keycode => plugged = "keyboard"]_vars

\* The firmware does what UsbAttach promises.
phase == IF Major(usb_task_state) = DETACHED THEN "detached"
         ELSE IF usb_task_state = RUNNING THEN "running"
         ELSE IF usb_task_state = ERROR THEN "failed"
         ELSE "attaching"
driver == IF phase = "running" THEN devtable[hid_addr].devclass ELSE 0
polled == IF phase = "running" /\ runningdebugflag THEN device ELSE 0

Attach == INSTANCE UsbAttach WITH Classes <- {HID_K, HID_M}, None <- 0
AttachSpec == Attach!ASpec

\* An enumeration comes to an end, unless the chip keeps reporting changes of
\* the bus, or usb_delay lies beyond the wrap of the clock: nothing else in it
\* waits for an answer that need not come.
AttachEnds ==
    phase = "attaching"
        ~> (phase # "attaching" \/ []<>(pc = "probe") \/ usb_delay >= ClockMod - 1)

\* MAX_busprobe sends a disconnected device to INITIALIZE to clear the device
\* data structures: once the firmware has seen the disconnection and gone
\* round the loop, no address is left taken.
DetachClearsDevtable ==
    pc = "top" /\ plugged = "none" /\ phase = "detached" /\ "CONDET" \notin hirq
        => InUse = {}
=============================================================================
