---------------------------- MODULE UsbHostProofs ----------------------------
(***************************************************************************)
(* Theorems about the USB host firmware, for every number of devices, every *)
(* set of key codes and every clock. The invariant behind them follows one  *)
(* enumeration: what each value of usb_task_state still knows of the table   *)
(* of devices, of the address on its way, and of the device on the bus.     *)
(***************************************************************************)
EXTENDS UsbHost, TLAPS

USE NumDevicesAssumption, UsbKeysAssumption, DevicesAssumption, ClockAssumption
    DEF NumDevicesAssumption, UsbKeysAssumption, DevicesAssumption, ClockAssumption,
        INITIALIZE, WAIT_FOR_DEVICE, ILLEGAL, ATTACHED, SETTLE, RESET_DEVICE,
        WAIT_RESET_COMPLETE, WAIT_SOF, GET_DEVICE_DESCRIPTOR_SIZE, ADDRESSING,
        CONFIGURING, RUNNING, ERROR, DETACHED, HID_K, HID_M, Addresses

Epinfo(i) == devtable[i].epinfo

(* What MAX_busprobe leaves, and the interrupt handler's increment. *)
Probes == {INITIALIZE, WAIT_FOR_DEVICE, ILLEGAL, ATTACHED, WAIT_RESET_COMPLETE}
Served == {INITIALIZE, INITIALIZE + 1, WAIT_FOR_DEVICE, ILLEGAL, ILLEGAL + 1,
           ATTACHED, SETTLE, WAIT_RESET_COMPLETE, WAIT_SOF}
Restart == {"reset", "sample", "ready"}

(* Where the loop stands tells what it has seen and done. *)
LoopInv ==
    /\ pc \in {"probe", "ack"} => "CONDET" \in seen
    /\ pc = "ready" => usb_task_state \in Probes
    /\ pc \in {"reset", "sample"} => usb_task_state \notin {RUNNING, ERROR}

(* Addresses are taken from below, and entry 0 stays filled. *)
TableInv ==
    /\ pc \notin Restart => Epinfo(0) = "dev0ep"
    /\ \A i, j \in Addresses : i < j /\ Epinfo(j) # "NULL" => Epinfo(i) # "NULL"

(* The device being configured has the last address taken. *)
ConfiguringInv ==
    usb_task_state = CONFIGURING =>
        /\ tmp_addr # 0 /\ Epinfo(tmp_addr) # "NULL"
        /\ \A j \in Addresses : j > tmp_addr => Epinfo(j) = "NULL"

(* So has the one that runs, and it is bound to its own class as long as it
   answers. *)
RunningInv ==
    usb_task_state = RUNNING =>
        /\ hid_addr # 0 /\ Epinfo(hid_addr) = "hid_ep"
        /\ devtable[hid_addr].devclass \in {HID_K, HID_M}
        /\ \A j \in Addresses : j > hid_addr => Epinfo(j) = "NULL"
        /\ plugged \in Devices /\ devaddr = hid_addr
               => DriverOf[plugged] = devtable[hid_addr].devclass

(* Reports are read with the driver of the device that runs; when the bus has
   changed, the loop finds out before another device runs. *)
FlagInv ==
    runningdebugflag =>
        \/ /\ usb_task_state = RUNNING /\ pc \notin Restart
           /\ device = devtable[hid_addr].devclass
        \/ pc \in {"ack", "task"} /\ usb_task_state \in Served
        \/ pc = "main" /\ usb_task_state \notin {RUNNING, ERROR}

IInv == TypeOK /\ LoopInv /\ TableInv /\ ConfiguringInv /\ RunningInv /\ FlagInv

-----------------------------------------------------------------------------
\* The upper half of a byte is zero below 16.
LEMMA MajorIs == ASSUME NEW s \in 0..255 PROVE Major(s) = 0 <=> s < 16
<1>1. s \div 16 \in Int /\ s % 16 \in 0..15 /\ s = 16 * (s \div 16) + (s % 16)
  OBVIOUS
<1> QED BY <1>1 DEF Major

\* The clock goes round.
LEMMA ClockIs == ASSUME clock \in 0..ClockMod-1 PROVE (clock + 1) % ClockMod \in 0..ClockMod-1
<1>1. PICK y \in Int : y = clock + 1
  OBVIOUS
<1>2. y % ClockMod \in 0..ClockMod-1
  BY <1>1
<1> QED BY <1>1, <1>2

\* The states that a probe and the handler leave.
LEMMA ProbedIs == ASSUME NEW s PROVE Probed(s) \in Probes
  BY DEF Probed, Probes

LEMMA ServedIs == ASSUME NEW s \in Probes PROVE s \in Served /\ (s + 1) % 256 \in Served
<1>1. PICK y \in Int : y = s + 1 /\ 0 <= y /\ y < 256
  BY DEF Probes
<1>2. y % 256 = y
  BY <1>1
<1>3. y \in Served
  BY <1>1 DEF Probes, Served
<1> QED BY <1>1, <1>2, <1>3 DEF Probes, Served

\* USB_init clears the table.
LEMMA InitTable ==
    ASSUME USB_init
    PROVE  /\ devtable' \in [0..NumDevices -> Entry]
           /\ Epinfo(0)' = "dev0ep" /\ \A i \in Addresses : Epinfo(i)' = "NULL"
<1>1. devtable' = [i \in 0..NumDevices |->
                      [epinfo |-> IF i = 0 THEN "dev0ep" ELSE "NULL", devclass |-> 0]]
  BY DEF USB_init
<1>2. \A i \in 0..NumDevices :
          [epinfo |-> IF i = 0 THEN "dev0ep" ELSE "NULL", devclass |-> 0] \in Entry
  BY DEF Entry
<1>3. 0 \in 0..NumDevices /\ Addresses \subseteq 0..NumDevices
  OBVIOUS
<1> QED BY <1>1, <1>2, <1>3 DEF Epinfo

-----------------------------------------------------------------------------
\* The firmware starts with an empty table.
LEMMA InitInv == Init => IInv
<1> SUFFICES ASSUME Init PROVE IInv
  OBVIOUS
<1>1. TaskOK
  BY DEF Init, TaskOK, States
<1>2. TableOK
  <2>1. [epinfo |-> "NULL", devclass |-> 0] \in Entry
    BY DEF Entry
  <2> QED BY <2>1 DEF Init, TableOK
<1>3. BusOK
  BY DEF Init, BusOK
<1>4. FlagsOK
  BY DEF Init, FlagsOK
<1>5. LoopInv
  BY DEF Init, LoopInv
<1>6. TableInv
  <2>1. \A i \in Addresses : Epinfo(i) = "NULL"
    BY DEF Init, Epinfo
  <2> QED BY <2>1 DEF Init, TableInv, Restart
<1>7. ConfiguringInv /\ RunningInv /\ FlagInv
  BY DEF Init, ConfiguringInv, RunningInv, FlagInv
<1> QED BY <1>1, <1>2, <1>3, <1>4, <1>5, <1>6, <1>7 DEF IInv, TypeOK

\* Devices come and go, resets end and time passes: the firmware keeps what it
\* knows, and a device that is new answers to no address that is in use.
LEMMA BusInv ==
    ASSUME IInv, Bus \/ ResetDone \/ StartOfFrame \/ Tick PROVE IInv'
<1> USE DEF IInv, TypeOK
<1>1. UNCHANGED <<pc, seen, usb_task_state, usb_delay, devtable, tmp_addr, hid_addr,
                  runningdebugflag, device, keycode>>
  BY DEF Bus, Plug, Unplug, ResetDone, StartOfFrame, Tick, fwVars, loopVars
<1>2. TaskOK'
  <2>1. clock' \in 0..ClockMod-1
    BY ClockIs DEF Bus, Plug, Unplug, ResetDone, StartOfFrame, Tick, fwVars, loopVars, TaskOK
  <2> QED BY <2>1, <1>1 DEF TaskOK
<1>3. TableOK'
  BY <1>1 DEF TableOK
<1>4. BusOK'
  <2>1. hirq' \subseteq {"CONDET", "BUSEVENT", "FRAME"}
    BY DEF BusOK, Bus, Plug, Unplug, ResetDone, StartOfFrame, Tick, chipVars
  <2>2. plugged' \in {"none", "fault"} \cup Devices
    BY DEF BusOK, Bus, Plug, Unplug, ResetDone, StartOfFrame, Tick, busVars
  <2>3. devaddr' \in 0..NumDevices-1
    BY DEF BusOK, Bus, Plug, Unplug, ResetDone, StartOfFrame, Tick, busVars
  <2> QED BY <2>1, <2>2, <2>3, <1>1 DEF BusOK
<1>5. FlagsOK'
  BY <1>1 DEF FlagsOK, Bus, Plug, Unplug, ResetDone, StartOfFrame, Tick, chipVars
<1>6. LoopInv' /\ ConfiguringInv' /\ FlagInv'
  BY <1>1 DEF LoopInv, ConfiguringInv, FlagInv, Epinfo
<1>7. TableInv'
  BY <1>1 DEF TableInv, Epinfo
<1>8. RunningInv'
  <2>1. devaddr' = 0 \/ (devaddr' = devaddr /\ plugged' = plugged)
    BY DEF Bus, Plug, Unplug, ResetDone, StartOfFrame, Tick, busVars
  <2> QED BY <2>1, <1>1 DEF RunningInv, Epinfo
<1> QED BY <1>2, <1>3, <1>4, <1>5, <1>6, <1>7, <1>8

\* The chip is reset, the bus probed, the table cleared.
LEMMA RestartInv ==
    ASSUME IInv, ChipReset \/ InitProbe \/ InitDone PROVE IInv'
<1> USE DEF IInv, TypeOK
<1>1. /\ pc \in Restart /\ pc' \in {"sample", "ready", "top"}
      /\ UNCHANGED <<runningdebugflag, device, keycode, seen, clock, usb_delay, tmp_addr, hid_addr,
                     plugged, devaddr>>
      /\ pc' = "top" <=> pc = "ready"
      /\ pc' = "ready" <=> pc = "sample"
  BY DEF ChipReset, InitProbe, InitDone, Restart, loopVars, busVars
<1>2. ~runningdebugflag
  BY <1>1 DEF FlagInv, Restart
<1>3. /\ usb_task_state' \in States
      /\ pc' # "sample" => usb_task_state' \in Probes
      /\ pc' = "sample" => usb_task_state' = usb_task_state
  BY ProbedIs DEF ChipReset, InitProbe, InitDone, LoopInv, TaskOK, Probes, States
<1>4. usb_task_state' \notin {RUNNING, ERROR} /\ (usb_task_state' = CONFIGURING => pc' = "sample")
  BY <1>1, <1>3 DEF LoopInv, Probes, ChipReset, InitProbe, InitDone
<1>5. \/ devtable' = devtable /\ pc' # "top"
      \/ USB_init
  BY DEF ChipReset, InitProbe, InitDone
<1>6. TaskOK'
  BY <1>1, <1>3 DEF TaskOK
<1>7. TableOK'
  BY <1>1, <1>5, InitTable DEF TableOK
<1>8. BusOK'
  BY <1>1 DEF BusOK, ChipReset, InitProbe, InitDone
<1>9. FlagsOK'
  BY <1>1 DEF FlagsOK, ChipReset, InitProbe, InitDone, ProbeMode
<1>10. LoopInv'
  BY <1>1, <1>3, <1>4 DEF LoopInv
<1>11. TableInv'
  <2>1. CASE devtable' = devtable /\ pc' # "top"
    <3>1. pc' \in Restart
      BY <2>1, <1>1 DEF Restart
    <3> QED BY <2>1, <3>1 DEF TableInv, Epinfo
  <2>2. CASE USB_init
    BY <2>2, InitTable DEF TableInv
  <2> QED BY <2>1, <2>2, <1>5
<1>12. ConfiguringInv'
  <2>1. SUFFICES ASSUME usb_task_state' = CONFIGURING PROVE ConfiguringInv'
    BY DEF ConfiguringInv
  <2>2. devtable' = devtable /\ usb_task_state = CONFIGURING
    BY <2>1, <1>3, <1>4 DEF ChipReset, InitProbe, InitDone
  <2> QED BY <2>2, <1>1 DEF ConfiguringInv, Epinfo
<1>13. RunningInv' /\ FlagInv'
  BY <1>1, <1>2, <1>4 DEF RunningInv, FlagInv
<1> QED BY <1>6, <1>7, <1>8, <1>9, <1>10, <1>11, <1>12, <1>13

\* The interrupt pin is looked at, and the handler acknowledges.
LEMMA IrqInv == ASSUME IInv, ReadIrq \/ AckIrq PROVE IInv'
<1> USE DEF IInv, TypeOK
<1>1. /\ pc \in {"top", "ack"} /\ pc' \in {"probe", "task"} /\ (pc = "ack" => pc' = "task")
      /\ UNCHANGED <<usb_task_state, devtable, runningdebugflag, device, keycode, clock, usb_delay,
                     tmp_addr, hid_addr, plugged, devaddr, resetting, sofOn>>
  BY DEF ReadIrq, AckIrq, busVars, chipVars
<1>2. TaskOK' /\ TableOK'
  BY <1>1 DEF TaskOK, TableOK
<1>3. BusOK'
  BY <1>1 DEF BusOK, ReadIrq, AckIrq, chipVars
<1>4. FlagsOK'
  BY <1>1 DEF FlagsOK
<1>5. LoopInv'
  BY <1>1 DEF LoopInv, ReadIrq, AckIrq, IrqPin
<1>6. TableInv' /\ ConfiguringInv' /\ RunningInv'
  BY <1>1 DEF TableInv, ConfiguringInv, RunningInv, Epinfo, Restart
<1>7. FlagInv'
  BY <1>1 DEF FlagInv, Restart
<1> QED BY <1>2, <1>3, <1>4, <1>5, <1>6, <1>7

\* The probe and the handler leave nothing running.
LEMMA ServedStep == ASSUME IInv, InitProbe \/ ServeIrq PROVE usb_task_state' \in Served
<1>1. CASE InitProbe
  BY <1>1, ProbedIs, ServedIs DEF InitProbe
<1>2. CASE ServeIrq
  <2>1. PICK s \in Probes : s = Probed(usb_task_state)
    BY ProbedIs
  <2>2. usb_task_state' \in {s, (s + 1) % 256}
    BY <1>2, <2>1 DEF ServeIrq, IInv, LoopInv
  <2> QED BY <2>2, ServedIs
<1> QED BY <1>1, <1>2

\* The handler probes the bus.
LEMMA ServeInv == ASSUME IInv, ServeIrq PROVE IInv'
<1> USE DEF IInv, TypeOK
<1>1. /\ pc = "probe" /\ pc' = "ack" /\ "CONDET" \in seen
      /\ UNCHANGED <<devtable, runningdebugflag, device, keycode, seen, clock, usb_delay, tmp_addr,
                     hid_addr, plugged, devaddr, hirq, resetting>>
  BY DEF ServeIrq, loopVars, busVars, LoopInv
<1>2. usb_task_state' \in Served
  BY ServedStep
<1>3. TaskOK' /\ TableOK'
  BY <1>1, <1>2 DEF TaskOK, TableOK, Served, States
<1>4. BusOK'
  BY <1>1 DEF BusOK
<1>5. FlagsOK'
  BY <1>1 DEF FlagsOK, ServeIrq, ProbeMode
<1>6. LoopInv' /\ FlagInv'
  BY <1>1, <1>2 DEF LoopInv, FlagInv
<1>7. TableInv'
  BY <1>1 DEF TableInv, Epinfo, Restart
<1>8. ConfiguringInv' /\ RunningInv'
  BY <1>2 DEF ConfiguringInv, RunningInv, Served
<1> QED BY <1>3, <1>4, <1>5, <1>6, <1>7, <1>8

-----------------------------------------------------------------------------
\* The cases of USB_Task that leave the table alone.
LEMMA PlainInv ==
    ASSUME IInv, Attached \/ Settle \/ ResetDevice \/ WaitReset \/ WaitSof \/ GetDescriptor \/ Idle
    PROVE  IInv'
<1> USE DEF IInv, TypeOK
<1>1. /\ pc = "task" /\ pc' = "main"
      /\ UNCHANGED <<devtable, runningdebugflag, device, keycode, seen, clock, tmp_addr, hid_addr,
                     plugged, devaddr>>
  BY DEF Task, Attached, Settle, ResetDevice, WaitReset, WaitSof, GetDescriptor, Idle,
         loopVars, busVars
<1>2. /\ usb_task_state' \in States
      /\ usb_task_state' = usb_task_state \/ usb_task_state' \notin {CONFIGURING, RUNNING}
      /\ usb_task_state = RUNNING => usb_task_state' = RUNNING
      /\ usb_task_state \in Served => usb_task_state' \notin {RUNNING, ERROR}
  BY DEF Task, Attached, Settle, ResetDevice, WaitReset, WaitSof, GetDescriptor, Idle,
         States, Served, TaskOK
<1>3. usb_delay' \in 0..ClockMod-1+SettleTime
  BY DEF Attached, Settle, ResetDevice, WaitReset, WaitSof, GetDescriptor, Idle, loopVars, TaskOK
<1>4. TaskOK'
  BY <1>1, <1>2, <1>3 DEF TaskOK
<1>5. TableOK'
  BY <1>1 DEF TableOK
<1>6. BusOK'
  BY <1>1 DEF BusOK, Attached, Settle, ResetDevice, WaitReset, WaitSof, GetDescriptor, Idle, chipVars
<1>7. FlagsOK'
  BY <1>1 DEF FlagsOK, Attached, Settle, ResetDevice, WaitReset, WaitSof, GetDescriptor, Idle, chipVars
<1>8. LoopInv'
  BY <1>1 DEF LoopInv
<1>9. TableInv'
  BY <1>1 DEF TableInv, Epinfo, Restart
<1>10. ConfiguringInv' /\ RunningInv'
  BY <1>1, <1>2 DEF ConfiguringInv, RunningInv, Epinfo
<1>11. FlagInv'
  BY <1>1, <1>2 DEF FlagInv, Restart
<1> QED BY <1>4, <1>5, <1>6, <1>7, <1>8, <1>9, <1>10, <1>11

\* INITIALIZE clears the table.
LEMMA InitializeInv == ASSUME IInv, Initialize PROVE IInv'
<1> USE DEF IInv, TypeOK
<1>1. /\ pc = "task" /\ pc' = "main" /\ usb_task_state = INITIALIZE
      /\ usb_task_state' = WAIT_FOR_DEVICE /\ USB_init
      /\ UNCHANGED <<runningdebugflag, device, keycode, seen, clock, usb_delay, tmp_addr, hid_addr,
                     plugged, devaddr, hirq, resetting, sofOn>>
  BY DEF Initialize, Task, loopVars, busVars, chipVars
<1>2. TaskOK'
  BY <1>1 DEF TaskOK, States
<1>3. TableOK'
  BY <1>1, InitTable DEF TableOK
<1>4. BusOK'
  BY <1>1 DEF BusOK
<1>5. FlagsOK'
  BY <1>1 DEF FlagsOK
<1>6. LoopInv' /\ ConfiguringInv' /\ RunningInv' /\ FlagInv'
  BY <1>1 DEF LoopInv, ConfiguringInv, RunningInv, FlagInv
<1>7. TableInv'
  BY <1>1, InitTable DEF TableInv
<1> QED BY <1>2, <1>3, <1>4, <1>5, <1>6, <1>7

\* One entry of the table changes.
LEMMA EntryIs ==
    ASSUME TableOK, NEW a \in Addresses, NEW e \in Entry, devtable' = [devtable EXCEPT ![a] = e]
    PROVE  /\ devtable' \in [0..NumDevices -> Entry]
           /\ devtable'[a] = e
           /\ \A i \in 0..NumDevices : i # a => devtable'[i] = devtable[i]
<1>1. a \in 0..NumDevices
  OBVIOUS
<1> QED BY <1>1 DEF TableOK

\* An address is taken: the lowest that is free.
LEMMA AddressingInv == ASSUME IInv, Addressing PROVE IInv'
<1> USE DEF IInv, TypeOK
<1>1. /\ pc = "task" /\ pc' = "main" /\ usb_task_state = ADDRESSING
      /\ UNCHANGED <<runningdebugflag, device, keycode, seen, clock, usb_delay, hid_addr,
                     plugged, hirq, resetting, sofOn>>
  BY DEF Addressing, Task, chipVars
<1>2. ~runningdebugflag
  BY <1>1 DEF FlagInv, Served
<1>3. BusOK'
  <2>1. devaddr' \in 0..NumDevices-1
    BY DEF Addressing, Free, BusOK
  <2> QED BY <2>1, <1>1 DEF BusOK
<1>4. FlagsOK'
  BY <1>1 DEF FlagsOK
<1>5. usb_task_state' \in {CONFIGURING, ERROR} /\ TaskOK' /\ LoopInv' /\ RunningInv' /\ FlagInv'
  <2>1. usb_task_state' \in {CONFIGURING, ERROR}
    BY DEF Addressing
  <2> QED BY <2>1, <1>1, <1>2 DEF TaskOK, States, LoopInv, RunningInv, FlagInv
<1>6. CASE Free = {}
  <2>1. usb_task_state' = ERROR /\ UNCHANGED <<devtable, tmp_addr>>
    BY <1>6 DEF Addressing
  <2>2. TableOK' /\ ConfiguringInv'
    BY <2>1, <1>1 DEF TableOK, ConfiguringInv
  <2>3. TableInv'
    BY <2>1, <1>1 DEF TableInv, Epinfo, Restart
  <2> QED BY <2>2, <2>3, <1>3, <1>4, <1>5
<1>7. CASE Free # {}
  <2>1. PICK i \in Free : /\ NextAddress(i)
                          /\ devtable' = [devtable EXCEPT ![i].epinfo = devtable[0].epinfo]
                          /\ usb_task_state' = CONFIGURING => tmp_addr' = i
                          /\ tmp_addr' \in {i, tmp_addr}
    BY <1>7 DEF Addressing
  <2>2. i \in Addresses /\ Epinfo(i) = "NULL" /\ Epinfo(0) = "dev0ep"
    BY <1>1 DEF Free, Epinfo, TableInv, Restart
  <2>3. PICK e \in Entry : e = [devtable[i] EXCEPT !.epinfo = devtable[0].epinfo]
    <3>1. devtable[i] \in Entry /\ devtable[0] \in Entry
      BY <2>2 DEF TableOK
    <3> QED BY <3>1 DEF Entry
  <2>4. e.epinfo = "dev0ep"
    BY <2>2, <2>3 DEF Epinfo, TableOK, Entry
  <2>5. devtable' = [devtable EXCEPT ![i] = e]
    BY <2>1, <2>3
  <2>6. /\ devtable' \in [0..NumDevices -> Entry]
        /\ devtable'[i] = e
        /\ \A j \in 0..NumDevices : j # i => devtable'[j] = devtable[j]
    BY <2>2, <2>5, EntryIs
  <2>7. Epinfo(i)' = "dev0ep" /\ \A j \in 0..NumDevices : j # i => Epinfo(j)' = Epinfo(j)
    BY <2>4, <2>6 DEF Epinfo
  <2>8. \A j \in Addresses : j > i => Epinfo(j) = "NULL"
    BY <2>2 DEF TableInv
  <2>9. \A j \in Addresses : j < i => Epinfo(j) # "NULL"
    BY <2>1, <2>2 DEF NextAddress, Free, Epinfo
  <2>10. TableInv'
    <3>1. Epinfo(0)' = "dev0ep"
      BY <2>2, <2>7
    <3>2. ASSUME NEW a \in Addresses, NEW b \in Addresses, a < b, Epinfo(b)' # "NULL"
          PROVE  Epinfo(a)' # "NULL"
      <4>1. CASE a = i
        BY <4>1, <2>7
      <4>2. CASE a < i
        BY <4>2, <2>7, <2>9
      <4>3. CASE a > i
        <5>1. b > i /\ b \in 0..NumDevices /\ b # i /\ b \in Addresses
          BY <4>3, <3>2, <2>2
        <5>2. Epinfo(b)' = Epinfo(b) /\ Epinfo(b) = "NULL"
          BY <5>1, <2>7, <2>8
        <5> QED BY <5>2, <3>2
      <4> QED BY <4>1, <4>2, <4>3, <2>2
    <3> QED BY <3>1, <3>2 DEF TableInv
  <2>11. ConfiguringInv'
    <3>1. SUFFICES ASSUME usb_task_state' = CONFIGURING PROVE ConfiguringInv'
      BY DEF ConfiguringInv
    <3>2. tmp_addr' = i
      BY <3>1, <2>1
    <3>3. \A j \in Addresses : j > i => Epinfo(j)' = "NULL"
      BY <2>2, <2>7, <2>8
    <3> QED BY <3>2, <3>3, <2>2, <2>7 DEF ConfiguringInv, Epinfo
  <2>12. TableOK'
    BY <1>1, <2>1, <2>2, <2>6 DEF TableOK
  <2> QED BY <2>10, <2>11, <2>12, <1>3, <1>4, <1>5
<1> QED BY <1>6, <1>7

\* A driver is bound, and the device runs if it takes its configuration.
LEMMA ConfiguringStepInv == ASSUME IInv, Configuring PROVE IInv'
<1> USE DEF IInv, TypeOK
<1>1. /\ pc = "task" /\ pc' = "main" /\ usb_task_state = CONFIGURING
      /\ usb_task_state' \in {RUNNING, ERROR}
      /\ UNCHANGED <<runningdebugflag, device, keycode, seen, clock, usb_delay, tmp_addr,
                     plugged, devaddr, hirq, resetting, sofOn>>
  BY DEF Configuring, Task, busVars, chipVars
<1>2. ~runningdebugflag
  BY <1>1 DEF FlagInv, Served
<1>3. /\ tmp_addr \in Addresses /\ Epinfo(tmp_addr) # "NULL"
      /\ \A j \in Addresses : j > tmp_addr => Epinfo(j) = "NULL"
      /\ Epinfo(0) = "dev0ep"
  BY <1>1 DEF ConfiguringInv, TableOK, TableInv, Restart
<1>4. BusOK'
  BY <1>1 DEF BusOK
<1>5. FlagsOK'
  BY <1>1 DEF FlagsOK
<1>6. TaskOK' /\ LoopInv' /\ ConfiguringInv' /\ FlagInv'
  BY <1>1, <1>2 DEF TaskOK, States, LoopInv, ConfiguringInv, FlagInv
<1>7. CASE usb_task_state' = ERROR /\ UNCHANGED <<devtable, hid_addr>>
  <2>1. TableOK' /\ RunningInv'
    BY <1>1, <1>7 DEF TableOK, RunningInv
  <2>2. TableInv'
    BY <1>1, <1>7 DEF TableInv, Epinfo, Restart
  <2> QED BY <2>1, <2>2, <1>4, <1>5, <1>6
<1>8. CASE /\ plugged \in Devices /\ DriverOf[plugged] # 0
           /\ devtable' = [devtable EXCEPT ![tmp_addr] =
                              [epinfo |-> "hid_ep", devclass |-> DriverOf[plugged]]]
           /\ hid_addr' = tmp_addr
  <2>1. DriverOf[plugged] \in {HID_K, HID_M}
    BY <1>8 DEF DriverOf
  <2>2. PICK e \in Entry : e = [epinfo |-> "hid_ep", devclass |-> DriverOf[plugged]]
    BY <2>1 DEF Entry
  <2>3. devtable' = [devtable EXCEPT ![tmp_addr] = e]
    BY <1>8, <2>2
  <2>4. /\ devtable' \in [0..NumDevices -> Entry]
        /\ devtable'[tmp_addr] = e
        /\ \A i \in 0..NumDevices : i # tmp_addr => devtable'[i] = devtable[i]
    BY <1>3, <2>3, EntryIs
  <2>5. /\ devtable'[tmp_addr].epinfo = "hid_ep" /\ devtable'[tmp_addr].devclass = DriverOf[plugged]
        /\ \A i \in 0..NumDevices : i # tmp_addr => Epinfo(i)' = Epinfo(i)
        /\ Epinfo(tmp_addr)' = "hid_ep"
    <3>1. e.epinfo = "hid_ep" /\ e.devclass = DriverOf[plugged]
      BY <2>2
    <3>2. devtable'[tmp_addr].epinfo = "hid_ep" /\ devtable'[tmp_addr].devclass = DriverOf[plugged]
      BY <3>1, <2>4
    <3>3. Epinfo(tmp_addr)' = devtable'[tmp_addr].epinfo
      BY <1>1 DEF Epinfo
    <3>4. ASSUME NEW i \in 0..NumDevices, i # tmp_addr PROVE Epinfo(i)' = Epinfo(i)
      BY <3>4, <2>4 DEF Epinfo
    <3> QED BY <3>2, <3>3, <3>4
  <2>6. TableOK'
    BY <1>1, <1>3, <1>8, <2>4 DEF TableOK
  <2>7. TableInv'
    <3>1. Epinfo(0)' = "dev0ep"
      BY <1>3, <2>5
    <3>2. ASSUME NEW a \in Addresses, NEW b \in Addresses, a < b, Epinfo(b)' # "NULL"
          PROVE  Epinfo(a)' # "NULL"
      <4>1. Epinfo(b) # "NULL"
        BY <3>2, <2>5, <1>3
      <4>2. Epinfo(a) # "NULL"
        BY <4>1, <3>2 DEF TableInv
      <4>3. CASE a = tmp_addr
        BY <4>3, <2>5, <1>1
      <4>4. CASE a # tmp_addr
        <5>1. Epinfo(a)' = Epinfo(a)
          BY <4>4, <2>5, a \in 0..NumDevices
        <5> QED BY <5>1, <4>2
      <4> QED BY <4>3, <4>4
    <3> QED BY <3>1, <3>2 DEF TableInv
  <2>8. RunningInv'
    <3>1. \A j \in Addresses : j > tmp_addr => Epinfo(j)' = "NULL"
      BY <1>3, <2>5
    <3>2. tmp_addr # 0
      BY <1>3
    <3> QED BY <3>1, <3>2, <1>1, <1>8, <2>1, <2>5 DEF RunningInv
  <2> QED BY <2>6, <2>7, <2>8, <1>4, <1>5, <1>6
<1> QED BY <1>7, <1>8 DEF Configuring, Answers

-----------------------------------------------------------------------------
\* The class that main reads by is that of the device that runs: its entry is
\* the last in the table.
LEMMA ClassIs ==
    ASSUME TableOK, RunningInv, usb_task_state = RUNNING
    PROVE  ClassFound = devtable[hid_addr].devclass
<1>1. hid_addr \in Addresses /\ Epinfo(hid_addr) # "NULL"
      /\ \A j \in Addresses : j > hid_addr => Epinfo(j) = "NULL"
  BY DEF TableOK, RunningInv
<1>2. hid_addr \in InUse /\ \A j \in InUse : j <= hid_addr
  BY <1>1 DEF InUse, Epinfo
<1>3. (CHOOSE i \in InUse : \A j \in InUse : j <= i) = hid_addr
  <2>1. ASSUME NEW i \in InUse, \A j \in InUse : j <= i PROVE i = hid_addr
    <3>1. i \in Int /\ hid_addr \in Int /\ i <= hid_addr /\ hid_addr <= i
      BY <2>1, <1>2 DEF InUse
    <3> QED BY <3>1
  <2> QED BY <2>1, <1>2
<1> QED BY <1>2, <1>3 DEF ClassFound

\* The loop in main reports, polls, and restarts the chip.
LEMMA MainInv ==
    ASSUME IInv, Report \/ KbdReport \/ NoReport \/ Failed \/ NotRunning PROVE IInv'
<1> USE DEF IInv, TypeOK
<1>1. /\ pc = "main" /\ pc' \in {"top", "reset"}
      /\ UNCHANGED <<usb_task_state, devtable, seen, clock, usb_delay, tmp_addr, hid_addr,
                     plugged, devaddr, hirq, resetting, sofOn>>
  BY DEF Report, KbdReport, NoReport, Failed, NotRunning, Polling, Main, loopVars, busVars, chipVars
<1>2. TaskOK'
  BY <1>1 DEF TaskOK
<1>3. TableOK'
  <2>1. keycode' \in Keys
    BY DEF Report, KbdReport, NoReport, Failed, NotRunning, TableOK
  <2>2. device' \in {0, HID_K, HID_M, 255}
    <3>1. CASE Report
      <4>1. device' = devtable[hid_addr].devclass /\ usb_task_state = RUNNING
        BY <3>1, ClassIs DEF Report
      <4> QED BY <4>1 DEF RunningInv
    <3>2. CASE ~Report
      BY <3>2 DEF KbdReport, NoReport, Failed, NotRunning, TableOK
    <3> QED BY <3>1, <3>2
  <2> QED BY <2>1, <2>2, <1>1 DEF TableOK
<1>4. BusOK'
  BY <1>1 DEF BusOK
<1>5. FlagsOK'
  BY <1>1 DEF FlagsOK, Report, KbdReport, NoReport, Failed, NotRunning
<1>6. LoopInv'
  BY <1>1 DEF LoopInv, Report, KbdReport, NoReport, Failed, NotRunning
<1>7. TableInv' /\ ConfiguringInv' /\ RunningInv'
  BY <1>1 DEF TableInv, ConfiguringInv, RunningInv, Epinfo, Restart
<1>8. FlagInv'
  <2>1. CASE Report
    <3>1. device' = devtable[hid_addr].devclass /\ usb_task_state = RUNNING /\ pc' = "top"
      BY <2>1, ClassIs DEF Report
    <3> QED BY <3>1, <1>1 DEF FlagInv, Restart
  <2>2. CASE KbdReport \/ NoReport
    BY <2>2, <1>1 DEF KbdReport, NoReport, Polling, FlagInv, Restart
  <2>3. CASE Failed
    BY <2>3, <1>1 DEF Failed, FlagInv, Restart
  <2>4. CASE NotRunning
    BY <2>4 DEF NotRunning, FlagInv
  <2> QED BY <2>1, <2>2, <2>3, <2>4
<1> QED BY <1>2, <1>3, <1>4, <1>5, <1>6, <1>7, <1>8

-----------------------------------------------------------------------------
\* Every step keeps the invariant.
LEMMA NextInv == ASSUME IInv, [Next]_vars PROVE IInv'
<1>1. CASE Bus \/ ResetDone \/ StartOfFrame \/ Tick
  BY <1>1, BusInv
<1>2. CASE Firmware
  BY <1>2, RestartInv, IrqInv, ServeInv, PlainInv, InitializeInv, AddressingInv, ConfiguringStepInv,
     MainInv DEF Firmware, USB_Task
<1>3. CASE UNCHANGED vars
  <2>1. UNCHANGED <<pc, usb_task_state, devtable, runningdebugflag, device, keycode, seen, clock,
                    usb_delay, tmp_addr, hid_addr, plugged, devaddr, hirq, resetting, sofOn>>
    BY <1>3 DEF vars, fwVars, loopVars, busVars, chipVars
  <2>2. TaskOK' /\ TableOK' /\ BusOK'
    BY <2>1 DEF IInv, TypeOK, TaskOK, TableOK, BusOK
  <2>3. FlagsOK'
    BY <2>1 DEF IInv, TypeOK, FlagsOK
  <2>4. LoopInv' /\ TableInv' /\ ConfiguringInv' /\ RunningInv'
    BY <2>1 DEF IInv, LoopInv, TableInv, ConfiguringInv, RunningInv, Epinfo, Restart
  <2>5. FlagInv'
    BY <2>1 DEF IInv, FlagInv, Restart
  <2> QED BY <2>2, <2>3, <2>4, <2>5 DEF IInv, TypeOK
<1> QED BY <1>1, <1>2, <1>3 DEF Next

\* The invariant holds for ever.
LEMMA Inductive == Spec => []IInv
<1>1. Init => IInv
  BY InitInv
<1>2. IInv /\ [Next]_vars => IInv'
  BY NextInv
<1> QED BY <1>1, <1>2, PTL DEF Spec

\* usb_task_state is always a value of USB.h or one beside it, although the
\* handler increments it; addresses and table entries stay in range.
THEOREM TypeCorrect == Spec => []TypeOK
<1>1. IInv => TypeOK
  BY DEF IInv
<1> QED BY <1>1, Inductive, PTL

\* Every transfer finds an endpoint record, also GetDriverandReport, which goes
\* through entry 1 whatever address was assigned.
THEOREM EndpointsThere == Spec => []NoNullEndpoint
<1>1. ASSUME IInv PROVE NoNullEndpoint
  <2>1. pc \in {"task", "main"} => Epinfo(0) = "dev0ep"
    BY <1>1 DEF IInv, TableInv, Restart
  <2>2. usb_task_state = CONFIGURING => tmp_addr # 0 /\ Epinfo(tmp_addr) # "NULL"
    BY <1>1 DEF IInv, ConfiguringInv
  <2>3. usb_task_state = RUNNING => Epinfo(1) # "NULL" /\ Epinfo(hid_addr) = "hid_ep"
    <3>1. SUFFICES ASSUME usb_task_state = RUNNING
                   PROVE  Epinfo(1) # "NULL" /\ Epinfo(hid_addr) = "hid_ep"
      OBVIOUS
    <3>2. hid_addr \in Addresses /\ Epinfo(hid_addr) = "hid_ep"
      BY <1>1, <3>1 DEF IInv, TypeOK, TableOK, RunningInv
    <3>3. 1 \in Addresses /\ (1 < hid_addr \/ 1 = hid_addr)
      BY <3>2
    <3>4. Epinfo(1) # "NULL"
      BY <1>1, <3>2, <3>3 DEF IInv, TableInv
    <3> QED BY <3>2, <3>4
  <2> QED BY <2>1, <2>2, <2>3 DEF NoNullEndpoint, Epinfo
<1> QED BY <1>1, Inductive, PTL

\* The key code of the game changes only by a report of a keyboard: a mouse that
\* takes the keyboard's place is never read as one, however the change falls.
THEOREM KeyboardOnly == Spec => KeysComeFromKeyboard
<1>1. ASSUME IInv, [Next]_vars, keycode' # keycode PROVE plugged = "keyboard"
  <2>1. KbdReport
    BY <1>1 DEF Next, vars, fwVars, Firmware, USB_Task, Bus, Plug, Unplug, ResetDone, StartOfFrame, Tick,
           ChipReset, InitProbe, InitDone, ReadIrq, ServeIrq, AckIrq, Initialize, Attached, Settle,
           ResetDevice, WaitReset, WaitSof, GetDescriptor, Addressing, Configuring, Idle,
           Report, NoReport, Failed, NotRunning
  <2>2. /\ usb_task_state = RUNNING /\ runningdebugflag /\ pc = "main" /\ device = HID_K
        /\ plugged \in Devices /\ devaddr = hid_addr
    BY <2>1 DEF KbdReport, Polling, Main, Answers
  <2>3. device = devtable[hid_addr].devclass
    BY <1>1, <2>2 DEF IInv, FlagInv
  <2>4. DriverOf[plugged] = HID_K
    BY <1>1, <2>2, <2>3 DEF IInv, RunningInv
  <2> QED BY <2>2, <2>4 DEF DriverOf
<1> QED BY <1>1, Inductive, PTL DEF Spec, KeysComeFromKeyboard

-----------------------------------------------------------------------------
\* The phases, by the value of usb_task_state: before a step, and after it.
LEMMA PhaseIs ==
    ASSUME NEW s \in States
    PROVE  (Major(s) = DETACHED <=> s < 16) /\ s \in 0..255
<1>1. s \in 0..255
  BY DEF States
<1> QED BY <1>1, MajorIs

\* Every step of the firmware and of the bus is a step of an attachment.
LEMMA AttachStep ==
    ASSUME IInv, IInv', [Next]_vars PROVE [Attach!ANext]_<<phase, driver, polled>>
<1>1. usb_task_state \in States /\ usb_task_state' \in States
  BY DEF IInv, TypeOK, TaskOK
<1>2. /\ Major(usb_task_state) = DETACHED <=> usb_task_state < 16
      /\ Major(usb_task_state') = DETACHED <=> usb_task_state' < 16
      /\ usb_task_state \in 0..255 /\ usb_task_state' \in 0..255
  BY <1>1, PhaseIs
<1>3. usb_task_state # RUNNING => phase # "running" /\ driver = 0 /\ polled = 0
  BY <1>2 DEF phase, driver, polled
<1>4. usb_task_state' # RUNNING => phase' # "running" /\ driver' = 0 /\ polled' = 0
  BY <1>2 DEF phase, driver, polled
<1>5. CASE usb_task_state' \notin {RUNNING, ERROR}
  <2>1. phase' \in {"attaching", "detached"}
    BY <1>2, <1>5 DEF phase
  <2> QED BY <2>1, <1>4, <1>5 DEF Attach!ANext, Attach!Change
<1>6. CASE usb_task_state' = usb_task_state /\ usb_task_state = ERROR
  <2>1. phase' = phase
    BY <1>6 DEF phase
  <2> QED BY <2>1, <1>3, <1>4, <1>6
<1>7. CASE usb_task_state' = ERROR /\ usb_task_state # ERROR
  <2>1. usb_task_state \in {GET_DEVICE_DESCRIPTOR_SIZE, ADDRESSING, CONFIGURING}
    <3>1. CASE Firmware
      <4>1. ~InitProbe /\ ~ServeIrq
        BY <1>7, ServedStep DEF Served
      <4> QED BY <3>1, <1>7, <4>1 DEF Firmware, USB_Task, ChipReset, InitDone, ReadIrq, AckIrq, Task,
                 Initialize, Attached, Settle, ResetDevice, WaitReset, WaitSof, GetDescriptor, Addressing,
                 Configuring, Idle, Report, KbdReport, NoReport, Failed, NotRunning, Polling, Main
    <3>2. CASE ~Firmware
      BY <3>2, <1>7 DEF Next, vars, fwVars, Bus, Plug, Unplug, ResetDone, StartOfFrame, Tick
    <3> QED BY <3>1, <3>2
  <2>2. phase = "attaching" /\ phase' = "failed"
    BY <2>1, <1>2, <1>7 DEF phase
  <2> QED BY <2>1, <2>2, <1>3, <1>4, <1>7 DEF Attach!ANext, Attach!Fail
<1>8. CASE usb_task_state' = RUNNING /\ usb_task_state # RUNNING
  <2>1. Configuring
    <3>1. CASE Firmware
      <4>1. ~InitProbe /\ ~ServeIrq
        BY <1>8, ServedStep DEF Served
      <4> QED BY <3>1, <1>8, <4>1 DEF Firmware, USB_Task, ChipReset, InitDone, ReadIrq, AckIrq, Task,
                 Initialize, Attached, Settle, ResetDevice, WaitReset, WaitSof, GetDescriptor, Addressing,
                 Idle, Report, KbdReport, NoReport, Failed, NotRunning, Polling, Main
    <3>2. CASE ~Firmware
      BY <3>2, <1>8 DEF Next, vars, fwVars, Bus, Plug, Unplug, ResetDone, StartOfFrame, Tick
    <3> QED BY <3>1, <3>2
  <2>2. usb_task_state = CONFIGURING /\ ~runningdebugflag'
    BY <2>1 DEF Configuring, Task, IInv, FlagInv, Served
  <2>3. phase = "attaching" /\ phase' = "running"
    BY <2>2, <1>2, <1>8 DEF phase
  <2>4. driver' \in {HID_K, HID_M}
    BY <2>3, <1>8 DEF driver, IInv, RunningInv
  <2>5. polled' = 0
    BY <2>2 DEF polled
  <2> QED BY <2>2, <2>3, <2>4, <2>5, <1>3 DEF Attach!ANext, Attach!Bind
<1>9. CASE usb_task_state' = RUNNING /\ usb_task_state = RUNNING
  <2>1. /\ phase = "running" /\ phase' = "running"
        /\ driver = devtable[hid_addr].devclass /\ driver' = devtable'[hid_addr'].devclass
        /\ polled = (IF runningdebugflag THEN device ELSE 0)
        /\ polled' = (IF runningdebugflag' THEN device' ELSE 0)
    BY <1>2, <1>9 DEF phase, driver, polled
  <2>2. pc # "ready"
    BY <1>9 DEF IInv, LoopInv, Probes
  <2>3. UNCHANGED <<devtable, hid_addr>>
    <3>1. CASE Firmware
      <4>1. ~InitDone /\ ~Initialize /\ ~Addressing /\ ~Configuring
        BY <2>2, <1>9 DEF InitDone, Initialize, Addressing, Configuring, Task
      <4>2. devtable' = devtable
        BY <3>1, <4>1 DEF Firmware, USB_Task, ChipReset, InitProbe, ReadIrq, ServeIrq, AckIrq, Attached,
               Settle, ResetDevice, WaitReset, WaitSof, GetDescriptor, Idle, Report, KbdReport, NoReport,
               Failed, NotRunning, Polling, Main
      <4>3. hid_addr' = hid_addr
        BY <3>1, <4>1 DEF Firmware, USB_Task, ChipReset, InitProbe, ReadIrq, ServeIrq, AckIrq, Attached,
               Settle, ResetDevice, WaitReset, WaitSof, GetDescriptor, Idle, Report, KbdReport, NoReport,
               Failed, NotRunning, Polling, Main, loopVars
      <4> QED BY <4>2, <4>3
    <3>2. CASE ~Firmware
      BY <3>2 DEF Next, vars, fwVars, loopVars, Bus, Plug, Unplug, ResetDone, StartOfFrame, Tick
    <3> QED BY <3>1, <3>2
  <2>4. CASE Report
    <3>1. device' = devtable[hid_addr].devclass
      BY <2>4, <1>9, ClassIs DEF Report, IInv, TypeOK
    <3>2. runningdebugflag'
      BY <2>4 DEF Report
    <3> QED BY <2>1, <2>3, <3>1, <3>2 DEF Attach!ANext, Attach!Poll
  <2>5. CASE ~Report
    <3>1. UNCHANGED <<runningdebugflag, device>>
      BY <2>5, <1>9 DEF Next, vars, fwVars, loopVars, Firmware, USB_Task, Bus, Plug, Unplug, ResetDone,
             StartOfFrame, Tick, ChipReset, InitProbe, InitDone, ReadIrq, ServeIrq, AckIrq, Initialize,
             Attached, Settle, ResetDevice, WaitReset, WaitSof, GetDescriptor, Addressing, Configuring, Idle,
             KbdReport, NoReport, Failed, NotRunning, Main
    <3> QED BY <2>1, <2>3, <3>1
  <2> QED BY <2>4, <2>5
<1> QED BY <1>5, <1>6, <1>7, <1>8, <1>9

\* The firmware does what UsbAttach promises: a device is enumerated afresh after
\* each change of the bus, is bound to one driver, and is read by that one.
THEOREM Implements == Spec => AttachSpec
<1>1. Init => Attach!AInit
  <2>1. ASSUME Init PROVE phase = "detached"
    <3>1. usb_task_state = INITIALIZE /\ usb_task_state \in States
      BY <2>1 DEF Init, States
    <3>2. Major(usb_task_state) = DETACHED
      BY <3>1, PhaseIs
    <3> QED BY <3>2 DEF phase
  <2> QED BY <2>1 DEF Attach!AInit, driver, polled
<1>2. IInv /\ IInv' /\ [Next]_vars => [Attach!ANext]_<<phase, driver, polled>>
  BY AttachStep
<1> QED BY <1>1, <1>2, Inductive, PTL DEF Spec, AttachSpec, Attach!ASpec, Attach!avars
=============================================================================
