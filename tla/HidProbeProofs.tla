--------------------------- MODULE HidProbeProofs ---------------------------
(***************************************************************************)
(* Theorems about the probes, for every set of devices that the assumption    *)
(* of HidProbe admits, every size of the buffer and whatever lies behind it.    *)
(***************************************************************************)
EXTENDS HidProbe, SequenceTheorems, TLAPS

USE DEF bDescriptorType, wTotalLength, bConfigurationValue, bInterfaceNumber,
        bInterfaceProtocol, wMaxPacketSize, CONF_DESCR_LEN, INTF_DESCR_LEN, EP_DESCR_LEN,
        CONFIG, INTERFACE, ENDPOINT

\* Outside the probes the next search starts at the first driver; in them requests
\* go out in packets of the size of the device.
StateInv ==
    /\ step = "idle" => driver = 1
    /\ step \in Probing => Drivers[driver] \in DOMAIN ClassOf
    /\ usb_task_state = "ADDRESSING" => dev0ep = dev.pktSize
    /\ usb_task_state = "CONFIGURING" => devtable.epinfo # "NULL" /\ Ep0Size = dev.pktSize

\* The steps of a probe that has the whole configuration, and that is bound.
Read  == {"walk", "endpoint", "setconf", "setproto"}
Bound == {"endpoint", "setconf", "setproto"}

\* The walk begins at the start; in the buffer, as far as a probe looks, is what an
\* honest device sent.
ReadInv ==
    /\ step \notin Read => ptr = 1
    /\ Honest => /\ step \in {"whole"} \cup Read => total_length = Held(dev)
                 /\ step \in Read => /\ \A i \in 1..Held(dev) : bigbuf[i] = dev.fields[i]
                                     /\ confvalue = dev.fields[4]

\* The walk goes from item to item.  What the probe has walked over was not what it
\* looks for, and what it has taken is of the first interface of the device, and of
\* its first endpoint: unless the descriptor is cut before them.
Clear == Honest /\ (Fits \/ Boot)
FoundInv ==
    /\ Honest /\ step \in {"walk", "endpoint"} /\ ptr <= Held(dev) => ptr \in dev.items
    /\ Honest /\ step = "walk" => \A i \in Faces(dev) : i >= ptr
    /\ Clear /\ step \in Bound =>
          /\ Faces(dev) # {} /\ Face(dev) \in Nat /\ Face(dev) < ptr
          /\ dev.fields[Face(dev) + 3] = ProtocolOf[Drivers[driver]]
          /\ hid_interface = dev.fields[Face(dev) + 2]
    /\ Clear /\ step = "endpoint" => \A i \in Pipes(dev, Face(dev)) : i >= ptr
    /\ Clear /\ step \in {"setconf", "setproto"} =>
          /\ Pipes(dev, Face(dev)) # {}
          /\ hid_ep.in = dev.fields[Pipe(dev) + 2]

\* A probe that is bound has switched the address to its own records, with both
\* ends of the endpoint at DATA0 once the device is configured.
BoundInv ==
    /\ step \in Bound => /\ devtable = [epinfo |-> "hid_ep", devclass |-> ClassOf[Drivers[driver]]]
                         /\ hid_ep.rcvToggle = 0
    /\ step = "setproto" => conf = confvalue /\ toggle = 0

\* As long as nothing was refused, the driver of a boot device is still to come.
Driven(k) == \E d \in 1..Len(Drivers) :
                k <= d /\ Drivers[d] \in DOMAIN ClassOf /\ IsBoot(dev, Drivers[d])
BootInv ==
    Honest /\ Boot /\ ~refused =>
        /\ usb_task_state # "ERROR"
        /\ usb_task_state = "CONFIGURING" => Driven(driver)

IInv == /\ TypeOK /\ StateInv /\ ReadInv /\ FoundInv /\ BoundInv /\ BootInv
        /\ RunsItself /\ TogglesAgree

-----------------------------------------------------------------------------
(* Devices and drivers. *)

\* The least of a set is its first.
LEMMA FirstIs ==
    ASSUME NEW S \in SUBSET Nat, NEW p \in S, \A j \in S : p <= j
    PROVE  First(S) = p
<1>1. \A i \in S : (\A j \in S : i <= j) => i = p
  OBVIOUS
<1> QED BY <1>1 DEF First

\* The fields of a device, and how many of them bigbuf holds.
LEMMA DeviceIs ==
    ASSUME ProbeAssumption, dev \in Devices
    PROVE  /\ BufLen \in Nat /\ BufLen >= 4 /\ MaxField \in Nat
           /\ dev.pktSize \in Nat /\ Len(dev.fields) \in Nat
           /\ \A i \in 1..Len(dev.fields) : dev.fields[i] \in Field
           /\ Held(dev) \in 0..BufLen /\ Held(dev) <= Len(dev.fields)
           /\ (Fits => Held(dev) = Len(dev.fields)) /\ (Honest => Held(dev) >= 4)
           /\ dev.items \in SUBSET (Nat \ {0})
           /\ Faces(dev) \in SUBSET Nat /\ \A f : Pipes(dev, f) \in SUBSET Nat
<1>1. /\ BufLen \in Nat /\ BufLen >= 4 /\ MaxField \in Nat
      /\ dev.fields \in Seq(Field) /\ dev.items \in SUBSET (Nat \ {0}) /\ dev.pktSize \in Nat
  BY DEF ProbeAssumption, Device
<1>2. Len(dev.fields) \in Nat /\ \A i \in 1..Len(dev.fields) : dev.fields[i] \in Field
  BY <1>1, LenProperties, ElementOfSeq
<1>3. /\ Held(dev) \in 0..BufLen /\ Held(dev) <= Len(dev.fields)
      /\ (Fits => Held(dev) = Len(dev.fields)) /\ (Honest => Held(dev) >= 4)
  BY <1>1, <1>2 DEF Held, Least, Honest, Fits
<1>4. Faces(dev) \in SUBSET Nat /\ \A f : Pipes(dev, f) \in SUBSET Nat
  BY <1>1 DEF Faces, Pipes
<1> QED BY <1>1, <1>2, <1>3, <1>4

\* An item of an honest device ends where the next one begins.
LEMMA ItemIs ==
    ASSUME ProbeAssumption, dev \in Devices, Honest, NEW i \in dev.items
    PROVE  /\ i \in Nat /\ i >= 1 /\ i < Len(dev.fields) /\ dev.fields[i] \in Nat
           /\ i + dev.fields[i] \in dev.items \/ i + dev.fields[i] = Len(dev.fields) + 1
           /\ i + dev.fields[i] <= Len(dev.fields) + 1
           /\ \A k \in dev.items : k <= i \/ k >= i + dev.fields[i]
           /\ TypeAt(dev, i) = INTERFACE => dev.fields[i] >= 4
           /\ TypeAt(dev, i) = ENDPOINT  => dev.fields[i] >= 3
<1>1. dev.items \in SUBSET (Nat \ {0}) /\ Len(dev.fields) \in Nat
      /\ \A k \in 1..Len(dev.fields) : dev.fields[k] \in Nat
  BY DeviceIs DEF Field
<1>2. Chained(dev)
  BY DEF Honest
<1>3. /\ i + 1 <= Len(dev.fields) /\ i + dev.fields[i] \in dev.items \cup {Len(dev.fields) + 1}
      /\ \A k \in dev.items : k <= i \/ k >= i + dev.fields[i]
      /\ TypeAt(dev, i) = INTERFACE => dev.fields[i] >= 4
      /\ TypeAt(dev, i) = ENDPOINT  => dev.fields[i] >= 3
  BY <1>2 DEF Chained
<1>4. i \in Nat /\ i >= 1 /\ i < Len(dev.fields) /\ dev.fields[i] \in Nat
  BY <1>1, <1>3
<1>5. i + dev.fields[i] \in dev.items => i + dev.fields[i] + 1 <= Len(dev.fields)
  BY <1>2 DEF Chained
<1>6. i + dev.fields[i] <= Len(dev.fields) + 1
  BY <1>1, <1>3, <1>4, <1>5
<1> QED BY <1>3, <1>4, <1>6

\* The four drivers, of which two probe.
LEMMA DriversAre ==
    /\ Len(Drivers) = 4 /\ DOMAIN ClassOf = {"mouse", "kbd"}
    /\ Drivers[1] = "msd" /\ Drivers[2] = "mouse" /\ Drivers[3] = "kbd" /\ Drivers[4] = "dummy"
    /\ \A k \in DOMAIN ClassOf : ClassOf[k] \in {HID_M, HID_K}
    /\ ProtocolOf["mouse"] = 2 /\ ProtocolOf["kbd"] = 1
  BY DEF Drivers, ClassOf, HID_M, HID_K, ProtocolOf

\* A search that has not passed the driver goes on to it, unless it is this one.
LEMMA DrivenNext ==
    ASSUME NEW k \in 1..4, Driven(k),
           ~(Drivers[k] \in DOMAIN ClassOf /\ IsBoot(dev, Drivers[k]))
    PROVE  Driven(k + 1)
<1>1. PICK d \in 1..4 : k <= d /\ Drivers[d] \in DOMAIN ClassOf /\ IsBoot(dev, Drivers[d])
  BY DriversAre DEF Driven
<1>2. k + 1 <= d
  BY <1>1
<1> QED BY <1>1, <1>2, DriversAre DEF Driven

\* What the device should be found to be depends on it alone.
LEMMA SameDevice ==
    ASSUME dev' = dev
    PROVE  /\ (Honest' <=> Honest) /\ (Boot' <=> Boot) /\ (Clear' <=> Clear)
           /\ \A k : (Driven(k))' <=> Driven(k)
  BY DEF Honest, Boot, Clear, Fits, Driven

\* Outside a probe that has read anything, and before the device runs, most of the
\* invariant asks for nothing.
LEMMA NothingRead ==
    ASSUME step' \in {"idle", "start", "first"}, usb_task_state' # "RUNNING", ptr' = 1
    PROVE  ReadInv' /\ FoundInv' /\ BoundInv' /\ RunsItself' /\ TogglesAgree'
<1>1. ReadInv' /\ BoundInv' /\ FoundInv'
  BY DEF ReadInv, FoundInv, BoundInv, Read, Bound
<1>2. RunsItself' /\ TogglesAgree'
  BY DEF RunsItself, TogglesAgree
<1> QED BY <1>1, <1>2

-----------------------------------------------------------------------------
(* The steps. *)

\* Power-up.
LEMMA InitInv == ASSUME ProbeAssumption, Init PROVE IInv
<1>1. 0 \in Field /\ BufLen \in Nat \ {0} /\ MaxField \in Nat
  BY DEF ProbeAssumption, Field
<1>2. TypeOK
  <2>1. refused \in BOOLEAN
    BY DEF Init
  <2> QED BY <1>1, <2>1, DriversAre DEF Init, TypeOK
<1>3. ReadInv /\ FoundInv /\ BoundInv /\ RunsItself /\ TogglesAgree
  BY DEF Init, ReadInv, FoundInv, BoundInv, RunsItself, TogglesAgree, Read, Bound
<1>4. StateInv /\ BootInv
  BY DEF Init, StateInv, BootInv, Probing
<1> QED BY <1>2, <1>3, <1>4 DEF IInv

\* Another device.
LEMMA ReplugStep == ASSUME ProbeAssumption, IInv, Replug PROVE IInv'
<1>1. TypeOK /\ BufLen \in Nat \ {0} /\ MaxField \in Nat /\ 0 \in Field
  BY DEF IInv, ProbeAssumption, Field
<1>2. /\ usb_task_state' = "GET_DEVICE_DESCRIPTOR_SIZE" /\ step' = "idle" /\ driver' = 1
      /\ devtable' = [epinfo |-> "NULL", devclass |-> 0] /\ dev0ep' = 0
      /\ dev' \in Devices /\ conf' = 0 /\ proto' = 0 /\ toggle' = 0 /\ refused' = FALSE
      /\ UNCHANGED <<ptr, total_length, confvalue, bigbuf, hid_ep, hid_interface>>
      /\ step \in {"idle", "start"} /\ ptr' = 1
  BY DEF Replug, Forgotten, locals, IInv, ReadInv, Read
<1>3. TypeOK'
  <2>1. refused' \in BOOLEAN
    BY <1>2
  <2> QED BY <1>1, <1>2, <2>1, DriversAre DEF TypeOK
<1>4. StateInv' /\ BootInv'
  BY <1>2 DEF StateInv, BootInv, Probing
<1> QED BY <1>2, <1>3, <1>4, NothingRead DEF IInv

\* The first request tells the size of packets.
LEMMA DescriptorStep == ASSUME ProbeAssumption, IInv, GetDescriptor PROVE IInv'
<1>1. TypeOK /\ StateInv /\ BootInv /\ BufLen \in Nat \ {0} /\ dev.pktSize \in Nat
      /\ MaxField \in Nat /\ 0 \in Field
  BY DeviceIs DEF IInv, TypeOK, ProbeAssumption, Field
<1>2. /\ usb_task_state = "GET_DEVICE_DESCRIPTOR_SIZE"
      /\ UNCHANGED <<bigbuf, devtable, hid_ep, hid_interface, dev, conf, proto, toggle>>
      /\ \/ /\ dev0ep' = dev.pktSize /\ usb_task_state' = "ADDRESSING"
            /\ UNCHANGED <<step, driver, ptr, total_length, confvalue, refused>>
         \/ /\ dev0ep' = 8 /\ usb_task_state' = "ERROR" /\ step' = "idle" /\ driver' = 1
            /\ ptr' = 1 /\ total_length' = 0 /\ confvalue' = 0 /\ refused' = TRUE
  BY DEF GetDescriptor, Fails, Returned, external, locals
<1>3. step = "idle" /\ step' = "idle" /\ driver' = 1 /\ ptr' = 1
  BY <1>1, <1>2 DEF TypeOK, StateInv, IInv, ReadInv, Read
<1>4. TypeOK'
  <2>1. refused' \in BOOLEAN
    BY <1>1, <1>2 DEF TypeOK
  <2> QED BY <1>1, <1>2, <1>3, <2>1, DriversAre DEF TypeOK
<1>5. StateInv' /\ BootInv'
  BY <1>1, <1>2, <1>3 DEF StateInv, BootInv, Probing
<1> QED BY <1>2, <1>3, <1>4, <1>5, NothingRead DEF IInv

\* The search begins with the first driver, before that of any boot device.
LEMMA AddressStep == ASSUME ProbeAssumption, IInv, Address PROVE IInv'
<1>1. TypeOK /\ StateInv /\ BootInv /\ BufLen \in Nat \ {0} /\ dev.pktSize \in Nat
      /\ MaxField \in Nat /\ 0 \in Field
  BY DeviceIs DEF IInv, TypeOK, ProbeAssumption, Field
<1>2. /\ usb_task_state = "ADDRESSING" /\ devtable' = [devtable EXCEPT !.epinfo = "dev0ep"]
      /\ UNCHANGED <<bigbuf, dev0ep, hid_ep, hid_interface, dev, conf, proto, toggle>>
      /\ \/ /\ usb_task_state' = "CONFIGURING" /\ step' = "start"
            /\ UNCHANGED <<driver, ptr, total_length, confvalue, refused>>
         \/ /\ usb_task_state' = "ERROR" /\ step' = "idle" /\ driver' = 1
            /\ ptr' = 1 /\ total_length' = 0 /\ confvalue' = 0 /\ refused' = TRUE
  BY DEF Address, Fails, Returned, external, locals
<1>3. step = "idle" /\ driver = 1 /\ driver' = 1 /\ dev0ep = dev.pktSize /\ ptr' = 1
  BY <1>1, <1>2 DEF TypeOK, StateInv, IInv, ReadInv, Read
<1>4. TypeOK'
  <2>1. refused' \in BOOLEAN
    BY <1>1, <1>2 DEF TypeOK
  <2>2. devtable' \in [epinfo : {"NULL", "dev0ep", "hid_ep"}, devclass : {0, HID_M, HID_K}]
    BY <1>1, <1>2 DEF TypeOK
  <2> QED BY <1>1, <1>2, <1>3, <2>1, <2>2, DriversAre DEF TypeOK
<1>5. StateInv'
  <2>1. devtable'.epinfo = "dev0ep"
    BY <1>1, <1>2 DEF TypeOK
  <2> QED BY <1>2, <1>3, <2>1 DEF StateInv, Ep0Size, Probing
<1>6. BootInv'
  <2>1. Boot => Driven(1)
    BY DriversAre DEF Boot, Driven
  <2>2. (Driven(driver))' <=> Driven(1)
    BY <1>2, <1>3 DEF Driven
  <2> QED BY <1>2, <2>1, <2>2, SameDevice DEF BootInv
<1> QED BY <1>2, <1>3, <1>4, <1>5, <1>6, NothingRead DEF IInv

\* A probe that gives up leaves the search to the drivers after it.
LEMMA NotMineStep ==
    ASSUME ProbeAssumption, IInv, step # "idle", NotMine, UNCHANGED <<fw, external, dev>>,
           refused' \in BOOLEAN, refused => refused',
           Honest /\ Boot /\ ~refused' => Driven(driver + 1)
    PROVE  IInv'
<1>1. TypeOK /\ StateInv /\ BootInv /\ BufLen \in Nat \ {0} /\ usb_task_state = "CONFIGURING"
      /\ MaxField \in Nat /\ 0 \in Field
  BY DEF IInv, TypeOK, ProbeAssumption, Field
<1>2. /\ UNCHANGED <<bigbuf, devtable, dev0ep, hid_ep, hid_interface, dev, conf, proto, toggle>>
      /\ ptr' = 1 /\ total_length' = 0 /\ confvalue' = 0
      /\ \/ /\ driver < 4 /\ driver' = driver + 1 /\ step' = "start"
            /\ usb_task_state' = usb_task_state
         \/ /\ driver >= 4 /\ driver' = 1 /\ step' = "idle" /\ usb_task_state' = "ERROR"
  BY <1>1, DriversAre DEF NotMine, Fails, Returned, fw, external, TypeOK
<1>3. TypeOK'
  BY <1>1, <1>2, DriversAre DEF TypeOK
<1>4. StateInv'
  BY <1>1, <1>2 DEF StateInv, Ep0Size, Probing
<1>5. BootInv'
  <2>1. (Honest /\ Boot)' <=> Honest /\ Boot
    BY <1>2, SameDevice
  <2>2. driver >= 4 => ~Driven(driver + 1)
    BY <1>1, DriversAre DEF Driven, TypeOK
  <2>3. driver' = driver + 1 => ((Driven(driver))' <=> Driven(driver + 1))
    BY <1>2 DEF Driven
  <2> QED BY <1>1, <1>2, <2>1, <2>2, <2>3 DEF BootInv
<1> QED BY <1>1, <1>2, <1>3, <1>4, <1>5, NothingRead DEF IInv

\* A request that is refused.
LEMMA RefusedStep ==
    ASSUME ProbeAssumption, IInv, step # "idle", Refused, dev' = dev
    PROVE  IInv'
<1>1. NotMine /\ refused' = TRUE /\ UNCHANGED <<fw, external, dev>>
  BY DEF Refused
<1> QED BY <1>1, NotMineStep

\* Within a probe the search stays where it is.
LEMMA ProbeOn ==
    ASSUME IInv, step # "idle", step' # "idle", UNCHANGED <<usb_task_state, driver, dev, refused>>,
           devtable'.epinfo # "NULL", Ep0Size' = Ep0Size,
           step' \in Probing => Drivers[driver] \in DOMAIN ClassOf
    PROVE  StateInv' /\ BootInv' /\ RunsItself' /\ TogglesAgree' /\ usb_task_state' = "CONFIGURING"
<1>1. TypeOK /\ StateInv /\ BootInv /\ usb_task_state = "CONFIGURING"
  BY DEF IInv, TypeOK
<1>2. StateInv'
  BY <1>1 DEF StateInv
<1>3. BootInv'
  <2>1. (Driven(driver))' <=> Driven(driver)
    BY DEF Driven
  <2> QED BY <1>1, <2>1, SameDevice DEF BootInv
<1> QED BY <1>1, <1>2, <1>3 DEF RunsItself, TogglesAgree

\* A driver without a probe is passed over; it is not that of a boot device.
LEMMA StartStep == ASSUME ProbeAssumption, IInv, Start PROVE IInv'
<1>1. TypeOK /\ BootInv /\ StateInv /\ usb_task_state = "CONFIGURING" /\ step = "start" /\ ptr = 1
  BY DEF IInv, TypeOK, Start, ReadInv, Read
<1>2. CASE Drivers[driver] \in DOMAIN ClassOf
  <2>1. /\ step' = "first" /\ UNCHANGED <<usb_task_state, driver, dev, refused, ptr, total_length, confvalue>>
        /\ UNCHANGED <<bigbuf, devtable, dev0ep, hid_ep, hid_interface, conf, proto, toggle>>
    BY <1>2 DEF Start, Goto, locals, fw, external
  <2>2. devtable'.epinfo # "NULL" /\ Ep0Size' = Ep0Size
    BY <1>1, <2>1 DEF StateInv, Ep0Size
  <2>3. StateInv' /\ BootInv'
    BY <1>1, <1>2, <2>1, <2>2, ProbeOn
  <2>4. TypeOK'
    BY <1>1, <2>1 DEF TypeOK, Probing
  <2> QED BY <1>1, <2>1, <2>3, <2>4, NothingRead DEF IInv
<1>3. CASE Drivers[driver] \notin DOMAIN ClassOf
  <2>1. NotMine /\ UNCHANGED <<fw, dev, external, refused>>
    BY <1>3 DEF Start
  <2>2. Honest /\ Boot /\ ~refused => Driven(driver + 1)
    <3>1. driver \in 1..4
      BY <1>1, DriversAre DEF TypeOK
    <3> QED BY <1>1, <1>3, <3>1, DrivenNext DEF BootInv
  <2>3. refused \in BOOLEAN
    BY <1>1 DEF TypeOK
  <2> QED BY <1>1, <2>1, <2>2, <2>3, NotMineStep
<1> QED BY <1>2, <1>3

\* Within a probe the driver is one that has a probe.
LEMMA Asking ==
    ASSUME IInv, step \in Probing, NEW e, devtable' = e, e.epinfo # "NULL", Ep0Size' = Ep0Size,
           step' # "idle", UNCHANGED <<usb_task_state, driver, dev, refused>>
    PROVE  StateInv' /\ BootInv' /\ RunsItself' /\ TogglesAgree'
<1>1. step # "idle" /\ Drivers[driver] \in DOMAIN ClassOf
  BY DEF IInv, StateInv, Probing
<1> QED BY <1>1, ProbeOn

\* The first request brings the length of the configuration.
LEMMA LengthStep == ASSUME ProbeAssumption, IInv, ConfLength PROVE IInv'
<1>1. /\ TypeOK /\ StateInv /\ usb_task_state = "CONFIGURING" /\ step = "first" /\ ptr = 1
      /\ dev' = dev /\ step \in Probing
  BY DEF IInv, TypeOK, ConfLength, ReadInv, Read, Probing
<1>2. CASE Refused
  BY <1>1, <1>2, RefusedStep
<1>3. CASE ~Refused
  <2>1. /\ step' = "whole" /\ bigbuf' = Received(4) /\ total_length' = Capped(bigbuf'[3])
        /\ UNCHANGED <<usb_task_state, driver, dev, refused, ptr, confvalue>>
        /\ UNCHANGED <<devtable, dev0ep, hid_ep, hid_interface, conf, proto, toggle>>
    BY <1>3 DEF ConfLength, Goto, external
  <2>2. devtable'.epinfo # "NULL" /\ Ep0Size' = Ep0Size
    BY <1>1, <2>1 DEF StateInv, Ep0Size
  <2>3. StateInv' /\ BootInv' /\ RunsItself' /\ TogglesAgree'
    BY <1>1, <2>1, <2>2, Asking
  <2>4. bigbuf' \in [1..BufLen -> Field]
    BY <1>1, <2>1, DeviceIs DEF TypeOK, Received
  <2>5. TypeOK'
    <3>1. BufLen \in Nat /\ bigbuf'[3] \in Nat
      BY SMTT(30), <1>1, <2>4, DeviceIs DEF TypeOK, Field
    <3>2. total_length' \in 0..BufLen
      BY <2>1, <3>1 DEF Capped, Least
    <3> QED BY <1>1, <2>1, <2>4, <3>2 DEF TypeOK, Probing
  <2>6. Honest => total_length' = Held(dev)
    <3>1. SUFFICES ASSUME Honest PROVE total_length' = Held(dev)
      OBVIOUS
    <3>2. bigbuf'[3] = Len(dev.fields)
      BY <1>1, <2>1, <3>1, DeviceIs DEF TypeOK, Honest, Received
    <3> QED BY <2>1, <3>2 DEF Capped, Held
  <2>7. ReadInv' /\ FoundInv' /\ BoundInv'
    BY <1>1, <2>1, <2>6, SameDevice DEF ReadInv, FoundInv, BoundInv, Read, Bound
  <2> QED BY <2>3, <2>5, <2>7 DEF IInv
<1> QED BY <1>2, <1>3

\* The second brings all of it that fits.
LEMMA WholeStep == ASSUME ProbeAssumption, IInv, WholeConf PROVE IInv'
<1>1. /\ TypeOK /\ StateInv /\ usb_task_state = "CONFIGURING" /\ step = "whole" /\ ptr = 1
      /\ dev' = dev /\ step \in Probing /\ (Honest => total_length = Held(dev))
  BY DEF IInv, TypeOK, WholeConf, ReadInv, Read, Probing
<1>2. CASE Refused
  BY <1>1, <1>2, RefusedStep
<1>3. CASE ~Refused
  <2>1. /\ step' = "walk" /\ bigbuf' = Received(total_length) /\ confvalue' = bigbuf'[4]
        /\ UNCHANGED <<usb_task_state, driver, dev, refused, ptr, total_length>>
        /\ UNCHANGED <<devtable, dev0ep, hid_ep, hid_interface, conf, proto, toggle>>
    BY <1>3 DEF WholeConf, Goto, external
  <2>2. devtable'.epinfo # "NULL" /\ Ep0Size' = Ep0Size
    BY <1>1, <2>1 DEF StateInv, Ep0Size
  <2>3. StateInv' /\ BootInv' /\ RunsItself' /\ TogglesAgree'
    BY <1>1, <2>1, <2>2, Asking
  <2>4. bigbuf' \in [1..BufLen -> Field] /\ confvalue' \in Field
    BY SMTT(30), <1>1, <2>1, DeviceIs DEF TypeOK, Received
  <2>5. TypeOK'
    BY <1>1, <2>1, <2>4 DEF TypeOK, Probing
  <2>6. Honest => /\ \A i \in 1..Held(dev) : bigbuf'[i] = dev.fields[i]
                  /\ confvalue' = dev.fields[4]
    <3>1. SUFFICES ASSUME Honest
                   PROVE  /\ \A i \in 1..Held(dev) : bigbuf'[i] = dev.fields[i]
                          /\ confvalue' = dev.fields[4]
      OBVIOUS
    <3>2. Held(dev) \in 4..BufLen /\ Held(dev) <= Len(dev.fields) /\ BufLen \in Nat
          /\ Len(dev.fields) \in Nat
      BY <1>1, <3>1, DeviceIs DEF TypeOK
    <3>3. \A i \in 1..Held(dev) : bigbuf'[i] = dev.fields[i]
      BY <1>1, <2>1, <3>1, <3>2 DEF Received
    <3> QED BY <2>1, <3>2, <3>3
  <2>7. ReadInv'
    BY <1>1, <2>1, <2>6, SameDevice DEF ReadInv, Read
  <2>8. FoundInv' /\ BoundInv'
    <3>1. \A i \in Faces(dev) : i >= 1
      BY <1>1, DeviceIs DEF Faces, TypeOK
    <3>2. Honest => 1 \in dev.items
      BY DEF Honest, Chained
    <3> QED BY <1>1, <2>1, <3>1, <3>2, SameDevice DEF FoundInv, BoundInv, Bound
  <2> QED BY <2>3, <2>5, <2>7, <2>8 DEF IInv
<1> QED BY <1>2, <1>3

\* In a walk data_ptr stands in bigbuf, though what it reads may lie behind; with an
\* honest device it stands at an item, and reads what the device has sent.
LEMMA HereIs ==
    ASSUME ProbeAssumption, IInv, step \in {"walk", "endpoint"}, Within
    PROVE  /\ usb_task_state = "CONFIGURING" /\ ptr \in 1..BufLen /\ bigbuf[ptr] \in Nat
           /\ Skipped \in 1..BufLen+MaxField /\ Skipped >= ptr
           /\ Reads(2) \subseteq Field /\ Reads(3) \subseteq Field
           /\ Honest => /\ ptr \in dev.items /\ bigbuf[ptr] = dev.fields[ptr]
                        /\ \A f \in 1..3 : ptr + f <= Held(dev)
                                              => Reads(f) = {dev.fields[ptr + f]}
<1>1. /\ TypeOK /\ BufLen \in Nat /\ MaxField \in Nat /\ Stray \subseteq Field
      /\ (Honest => Held(dev) <= BufLen /\ Held(dev) \in Nat)
  BY DeviceIs DEF IInv, TypeOK, ProbeAssumption
<1>2. usb_task_state = "CONFIGURING" /\ ptr \in 1..BufLen
  BY <1>1 DEF TypeOK, Within
<1>3. bigbuf[ptr] \in Field /\ Skipped \in 1..BufLen+MaxField /\ Skipped >= ptr
  <2>1. PICK n \in Field : n = bigbuf[ptr]
    BY <1>1, <1>2 DEF TypeOK
  <2> QED BY <1>1, <1>2, <2>1 DEF Skipped, Field
<1>4. \A f \in 1..3 : Reads(f) \subseteq Field
  BY <1>1, <1>2 DEF Reads, TypeOK
<1>5. ASSUME Honest
      PROVE  /\ ptr \in dev.items /\ bigbuf[ptr] = dev.fields[ptr]
             /\ \A f \in 1..3 : ptr + f <= Held(dev) => Reads(f) = {dev.fields[ptr + f]}
  <2>1. total_length = Held(dev) /\ \A i \in 1..Held(dev) : bigbuf[i] = dev.fields[i]
    BY <1>5 DEF IInv, ReadInv, Read
  <2>2. ptr <= Held(dev)
    BY <2>1 DEF Within
  <2>3. ptr \in dev.items
    BY <1>5, <2>2 DEF IInv, FoundInv
  <2>4. ASSUME NEW f \in 1..3, ptr + f <= Held(dev) PROVE Reads(f) = {dev.fields[ptr + f]}
    BY <1>1, <1>2, <1>5, <2>1, <2>4 DEF Reads
  <2> QED BY <1>1, <1>2, <1>5, <2>1, <2>2, <2>3, <2>4
<1> QED BY <1>1, <1>2, <1>3, <1>4, <1>5 DEF Field

\* The walk goes on to the next item, and passes no other.
LEMMA NextItem ==
    ASSUME ProbeAssumption, IInv, step \in {"walk", "endpoint"}, Within, Honest
    PROVE  /\ Skipped \in Nat /\ Skipped = ptr + dev.fields[ptr]
           /\ Skipped <= Held(dev) => Skipped \in dev.items
           /\ \A k \in dev.items : k <= ptr \/ k >= Skipped
<1>1. /\ ptr \in dev.items /\ bigbuf[ptr] = dev.fields[ptr] /\ dev \in Devices
      /\ Skipped \in 1..BufLen+MaxField
  BY HereIs DEF IInv, TypeOK
<1>2. Skipped = ptr + dev.fields[ptr] /\ Skipped \in Nat
  BY <1>1, DeviceIs DEF Skipped
<1>3. /\ Skipped \in dev.items \/ Skipped = Len(dev.fields) + 1
      /\ \A k \in dev.items : k <= ptr \/ k >= Skipped
  BY <1>1, <1>2, ItemIs
<1>4. Len(dev.fields) \in Nat /\ Held(dev) <= Len(dev.fields) /\ Held(dev) \in Nat
  BY <1>1, DeviceIs
<1> QED BY <1>2, <1>3, <1>4

\* An item that is not looked for is passed.
LEMMA WalkOnStep == ASSUME ProbeAssumption, IInv, WalkOn PROVE IInv'
<1>1. /\ TypeOK /\ StateInv /\ ReadInv /\ FoundInv /\ BoundInv
      /\ step \in {"walk", "endpoint"} /\ Within /\ step \in Probing
      /\ Reads(1) # {Sought} /\ ptr' = Skipped
      /\ UNCHANGED <<usb_task_state, step, driver, total_length, confvalue, dev, refused>>
      /\ UNCHANGED <<bigbuf, devtable, dev0ep, hid_ep, hid_interface, conf, proto, toggle>>
  BY DEF IInv, WalkOn, fw, external, Probing
<1>2. /\ usb_task_state = "CONFIGURING" /\ ptr \in 1..BufLen /\ BufLen \in Nat
      /\ ptr' \in 1..BufLen+MaxField /\ ptr' >= ptr /\ ptr' \in Nat
  <2>1. BufLen \in Nat /\ MaxField \in Nat
    BY DEF ProbeAssumption
  <2> QED BY <1>1, <2>1, HereIs
<1>3. devtable'.epinfo # "NULL" /\ Ep0Size' = Ep0Size
  BY <1>1, <1>2 DEF StateInv, Ep0Size
<1>4. StateInv' /\ BootInv' /\ RunsItself' /\ TogglesAgree'
  BY <1>1, <1>3, Asking
<1>5. TypeOK'
  BY <1>1, <1>2 DEF TypeOK
<1>6. ReadInv' /\ BoundInv'
  BY <1>1, SameDevice DEF ReadInv, BoundInv, Read, Bound
<1>7. FoundInv'
  <2>1. Honest => (ptr' <= Held(dev) => ptr' \in dev.items)
    BY <1>1, NextItem
  <2>2. ASSUME Honest, step = "walk" PROVE \A i \in Faces(dev) : i >= ptr'
    <3>1. SUFFICES ASSUME NEW i \in Faces(dev) PROVE i >= ptr'
      OBVIOUS
    <3>2. i \in Nat /\ i \in dev.items /\ i >= ptr /\ i + 3 <= Held(dev)
          /\ TypeAt(dev, i) = INTERFACE
      BY <1>1, <2>2, DeviceIs DEF FoundInv, Faces, TypeOK
    <3>3. Held(dev) \in Nat
      BY <1>1, DeviceIs DEF TypeOK
    <3>4. i = ptr => Reads(1) = {Sought}
      BY <1>1, <2>2, <3>2, <3>3, HereIs DEF TypeAt, Sought
    <3> QED BY <1>1, <1>2, <2>2, <3>2, <3>4, NextItem
  <2>3. ASSUME Clear, step = "endpoint"
        PROVE  /\ Faces(dev) # {} /\ Face(dev) \in Nat /\ Face(dev) < ptr'
               /\ \A i \in Pipes(dev, Face(dev)) : i >= ptr'
    <3>1. /\ Faces(dev) # {} /\ Face(dev) \in Nat /\ Face(dev) < ptr /\ Honest
          /\ \A i \in Pipes(dev, Face(dev)) : i >= ptr
      BY <1>1, <2>3 DEF FoundInv, Bound, Clear
    <3>2. ASSUME NEW i \in Pipes(dev, Face(dev)) PROVE i >= ptr'
      <4>1. i \in Nat /\ i \in dev.items /\ i >= ptr /\ i + 2 <= Held(dev)
            /\ TypeAt(dev, i) = ENDPOINT
        BY <1>1, <3>1, DeviceIs DEF Pipes, TypeOK
      <4>2. Held(dev) \in Nat
        BY <1>1, DeviceIs DEF TypeOK
      <4>3. i = ptr => Reads(1) = {Sought}
        BY <1>1, <2>3, <3>1, <4>1, <4>2, HereIs DEF TypeAt, Sought
      <4> QED BY <1>1, <1>2, <3>1, <4>1, <4>3, NextItem
    <3> QED BY <1>1, <1>2, <3>1, <3>2
  <2>4. ASSUME Clear, step = "endpoint"
        PROVE  /\ dev.fields[Face(dev) + 3] = ProtocolOf[Drivers[driver]]
               /\ hid_interface = dev.fields[Face(dev) + 2]
    BY <1>1, <2>4 DEF FoundInv, Bound
  <2> QED BY <1>1, <2>1, <2>2, <2>3, <2>4, SameDevice DEF FoundInv, Bound
<1> QED BY <1>4, <1>5, <1>6, <1>7 DEF IInv

\* A walk that ends without what it looks for was not on a boot device that states
\* the length it has.
LEMMA WalkedOffStep == ASSUME ProbeAssumption, IInv, WalkedOff PROVE IInv'
<1>1. /\ TypeOK /\ FoundInv /\ ReadInv /\ step \in {"walk", "endpoint"} /\ ~Within
      /\ NotMine /\ UNCHANGED <<fw, dev, external, refused>>
  BY DEF IInv, WalkedOff
<1>2. ~(Honest /\ Boot)
  <2>1. SUFFICES ASSUME Honest, Boot PROVE FALSE
    OBVIOUS
  <2>2. ptr > Held(dev) /\ ptr \in Nat /\ Held(dev) \in Nat
    <3>1. total_length = Held(dev) /\ BufLen \in Nat /\ MaxField \in Nat /\ Held(dev) \in Nat
      BY <1>1, <2>1, DeviceIs DEF ReadInv, Read, TypeOK
    <3>2. ptr \in Nat
      BY <1>1, <3>1 DEF TypeOK
    <3> QED BY <1>1, <3>1, <3>2 DEF Within
  <2>3. Faces(dev) # {} /\ Pipes(dev, Face(dev)) # {} /\ Clear
    BY <2>1 DEF Boot, IsBoot, Clear
  <2>4. CASE step = "walk"
    <3>1. PICK i \in Faces(dev) : i >= ptr
      BY <1>1, <2>1, <2>3, <2>4 DEF FoundInv
    <3>2. i \in Nat /\ i + 3 <= Held(dev)
      BY <1>1, DeviceIs DEF Faces, TypeOK
    <3> QED BY <2>2, <3>1, <3>2
  <2>5. CASE step = "endpoint"
    <3>1. PICK i \in Pipes(dev, Face(dev)) : i >= ptr
      BY <1>1, <2>1, <2>3, <2>5 DEF FoundInv
    <3>2. i \in Nat /\ i + 2 <= Held(dev)
      BY <1>1, DeviceIs DEF Pipes, TypeOK
    <3> QED BY <2>2, <3>1, <3>2
  <2> QED BY <1>1, <2>4, <2>5
<1>3. refused \in BOOLEAN /\ step # "idle"
  BY <1>1 DEF TypeOK
<1> QED BY <1>1, <1>2, <1>3, NotMineStep

\* The first interface that a walk comes to is the first of the device, unless the
\* descriptor is cut there.
LEMMA FirstFace ==
    ASSUME ProbeAssumption, IInv, Clear, step = "walk", Within, INTERFACE \in Reads(1)
    PROVE  /\ ptr \in Faces(dev) /\ Face(dev) = ptr /\ ptr \in Nat /\ Skipped >= ptr + 4
           /\ Reads(2) = {dev.fields[ptr + 2]} /\ Reads(3) = {dev.fields[ptr + 3]}
<1>1. /\ Honest /\ dev \in Devices /\ ptr \in dev.items /\ Held(dev) \in Nat
      /\ Len(dev.fields) \in Nat /\ Faces(dev) \in SUBSET Nat
      /\ ptr \in Nat /\ ptr < Len(dev.fields) /\ dev.fields[ptr] \in Nat
      /\ Skipped = ptr + dev.fields[ptr] /\ Skipped <= Len(dev.fields) + 1
  <2>1. Honest /\ dev \in Devices
    BY DEF IInv, TypeOK, Clear
  <2>2. ptr \in dev.items
    BY <2>1, HereIs
  <2> QED BY <2>1, <2>2, NextItem, ItemIs, DeviceIs
<1>2. ASSUME ptr + 1 <= Held(dev) PROVE dev.fields[ptr] >= 4
  <2>1. TypeAt(dev, ptr) = INTERFACE
    BY SMTT(30), <1>1, <1>2, HereIs DEF TypeAt
  <2> QED BY <1>1, <2>1, ItemIs
<1>3. ptr + 3 <= Held(dev) /\ dev.fields[ptr] >= 4
  <2>1. CASE Fits
    <3>1. Held(dev) = Len(dev.fields)
      BY <1>1, <2>1, DeviceIs
    <3>2. dev.fields[ptr] >= 4
      BY <1>1, <1>2, <3>1
    <3> QED BY <1>1, <3>1, <3>2
  <2>2. CASE Boot
    <3>1. PICK i \in Faces(dev) : i >= ptr
      BY <1>1, <2>2 DEF Boot, IsBoot, IInv, FoundInv
    <3>2. i \in Nat /\ i \in dev.items /\ i + 3 <= Held(dev)
      BY <1>1, <3>1 DEF Faces
    <3>3. dev.fields[ptr] >= 4
      BY <1>1, <1>2, <3>1, <3>2
    <3>4. i <= ptr \/ i >= Skipped
      BY <1>1, <3>2, NextItem
    <3> QED BY <1>1, <3>1, <3>2, <3>3, <3>4
  <2> QED BY <2>1, <2>2 DEF Clear
<1>4. ptr \in Faces(dev)
  <2>1. TypeAt(dev, ptr) = INTERFACE
    BY SMTT(30), <1>1, <1>3, HereIs DEF TypeAt
  <2> QED BY SMTT(30), <1>1, <1>3, <2>1 DEF Faces
<1>5. Face(dev) = ptr
  <2>1. \A i \in Faces(dev) : ptr <= i
    <3>1. \A i \in Faces(dev) : i >= ptr
      BY <1>1 DEF IInv, FoundInv
    <3> QED BY <1>1, <3>1
  <2> QED BY <1>1, <1>4, <2>1, FirstIs DEF Face
<1>6. Reads(2) = {dev.fields[ptr + 2]} /\ Reads(3) = {dev.fields[ptr + 3]}
  BY SMTT(30), <1>1, <1>3, HereIs
<1> QED BY SMTT(30), <1>1, <1>3, <1>4, <1>5, <1>6

\* So is the first endpoint after it.
LEMMA FirstPipe ==
    ASSUME ProbeAssumption, IInv, Clear, step = "endpoint", Within, ENDPOINT \in Reads(1)
    PROVE  /\ ptr \in Pipes(dev, Face(dev)) /\ Pipe(dev) = ptr
           /\ Reads(2) = {dev.fields[ptr + 2]}
<1>1. /\ Honest /\ dev \in Devices /\ ptr \in dev.items /\ Held(dev) \in Nat
      /\ Len(dev.fields) \in Nat /\ Pipes(dev, Face(dev)) \in SUBSET Nat
      /\ ptr \in Nat /\ ptr < Len(dev.fields) /\ dev.fields[ptr] \in Nat
      /\ Skipped = ptr + dev.fields[ptr] /\ Skipped <= Len(dev.fields) + 1
  <2>1. Honest /\ dev \in Devices
    BY DEF IInv, TypeOK, Clear
  <2>2. ptr \in dev.items
    BY <2>1, HereIs
  <2> QED BY <2>1, <2>2, NextItem, ItemIs, DeviceIs
<1>2. /\ Face(dev) \in Nat /\ Face(dev) < ptr
      /\ \A i \in Pipes(dev, Face(dev)) : i >= ptr
  BY DEF IInv, FoundInv, Bound
<1>3. ASSUME ptr + 1 <= Held(dev) PROVE dev.fields[ptr] >= 3
  <2>1. TypeAt(dev, ptr) = ENDPOINT
    BY SMTT(30), <1>1, <1>3, HereIs DEF TypeAt
  <2> QED BY <1>1, <2>1, ItemIs
<1>4. ptr + 2 <= Held(dev)
  <2>1. CASE Fits
    <3>1. Held(dev) = Len(dev.fields)
      BY <1>1, <2>1, DeviceIs
    <3>2. dev.fields[ptr] >= 3
      BY <1>1, <1>3, <3>1
    <3> QED BY <1>1, <3>1, <3>2
  <2>2. CASE Boot
    <3>1. PICK i \in Pipes(dev, Face(dev)) : i >= ptr
      BY <1>2, <2>2 DEF Boot, IsBoot
    <3>2. i \in Nat /\ i \in dev.items /\ i + 2 <= Held(dev)
      BY <1>1, <3>1 DEF Pipes
    <3> QED BY <1>1, <3>1, <3>2
  <2> QED BY <2>1, <2>2 DEF Clear
<1>5. ptr \in Pipes(dev, Face(dev))
  <2>1. TypeAt(dev, ptr) = ENDPOINT
    BY <1>1, <1>4, HereIs DEF TypeAt
  <2> QED BY <1>1, <1>2, <1>4, <2>1 DEF Pipes
<1>6. Pipe(dev) = ptr
  <2>1. \A i \in Pipes(dev, Face(dev)) : ptr <= i
    BY <1>1, <1>2
  <2> QED BY <1>1, <1>5, <2>1, FirstIs DEF Pipe
<1>7. Reads(2) = {dev.fields[ptr + 2]}
  BY <1>1, <1>4, HereIs
<1> QED BY <1>5, <1>6, <1>7

\* An interface of another kind ends the walk; if it is that of a boot device its
\* driver is still to come.
LEMMA OtherInterfaceStep == ASSUME ProbeAssumption, IInv, OtherInterface PROVE IInv'
<1>1. /\ TypeOK /\ BootInv /\ step = "walk" /\ Within /\ INTERFACE \in Reads(1)
      /\ Reads(3) # {ProtocolOf[Drivers[driver]]} /\ NotMine
      /\ UNCHANGED <<fw, dev, external, refused>>
  BY DEF IInv, OtherInterface
<1>2. refused \in BOOLEAN /\ step # "idle" /\ driver \in 1..4 /\ usb_task_state = "CONFIGURING"
  BY <1>1, DriversAre DEF TypeOK
<1>3. ASSUME Honest, Boot, ~refused PROVE Driven(driver + 1)
  <2>1. ~IsBoot(dev, Drivers[driver])
    BY <1>1, <1>3, FirstFace DEF IsBoot, Clear
  <2>2. Driven(driver)
    BY <1>1, <1>2, <1>3 DEF BootInv
  <2> QED BY <1>2, <2>1, <2>2, DrivenNext
<1> QED BY <1>1, <1>2, <1>3, NotMineStep

\* A device is bound with its first interface in sight, and the size of its
\* packets goes with it.
LEMMA BindStep == ASSUME ProbeAssumption, IInv, Bind PROVE IInv'
<1>1. /\ TypeOK /\ StateInv /\ ReadInv /\ step = "walk" /\ Within /\ step \in Probing
      /\ INTERFACE \in Reads(1) /\ ProtocolOf[Drivers[driver]] \in Reads(3)
      /\ devtable' = [epinfo |-> "hid_ep", devclass |-> ClassOf[Drivers[driver]]]
      /\ hid_ep' = [hid_ep EXCEPT !.ctrl = Ep0Size, !.rcvToggle = 0]
      /\ hid_interface' \in Reads(2) /\ ptr' = Skipped /\ step' = "endpoint"
      /\ UNCHANGED <<usb_task_state, driver, total_length, confvalue, bigbuf, dev0ep, dev, refused>>
      /\ UNCHANGED <<conf, proto, toggle>>
  BY DEF IInv, Bind, Goto, SavedSize, HID_init, external, Probing
<1>2. /\ usb_task_state = "CONFIGURING" /\ ptr \in 1..BufLen /\ BufLen \in Nat
      /\ ptr' \in 1..BufLen+MaxField /\ hid_interface' \in Field
      /\ Ep0Size = dev.pktSize /\ Ep0Size \in Nat
  BY <1>1, HereIs, DeviceIs DEF ProbeAssumption, StateInv, TypeOK
<1>3. Drivers[driver] \in DOMAIN ClassOf /\ ClassOf[Drivers[driver]] \in {HID_M, HID_K}
  BY <1>1, DriversAre DEF StateInv
<1>4. /\ hid_ep' \in [ctrl : Nat, in : Field, rcvToggle : {0, 1}]
      /\ hid_ep'.ctrl = Ep0Size /\ hid_ep'.rcvToggle = 0
  BY <1>1, <1>2 DEF TypeOK
<1>5. Ep0Size' = Ep0Size /\ devtable'.epinfo # "NULL"
  BY <1>1, <1>4 DEF Ep0Size
<1>6. StateInv' /\ BootInv' /\ RunsItself' /\ TogglesAgree'
  BY <1>1, <1>5, Asking
<1>7. TypeOK'
  <2>1. devtable' \in [epinfo : {"NULL", "dev0ep", "hid_ep"}, devclass : {0, HID_M, HID_K}]
    BY <1>1, <1>3
  <2>2. refused' \in BOOLEAN
    BY <1>1 DEF TypeOK
  <2> QED BY <1>1, <1>2, <1>4, <2>1, <2>2 DEF TypeOK, Probing
<1>8. ReadInv'
  BY <1>1, SameDevice DEF ReadInv, Read
<1>9. BoundInv'
  BY <1>1, <1>4 DEF BoundInv, Bound
<1>10. FoundInv'
  <2>1. Honest => (ptr' <= Held(dev) => ptr' \in dev.items)
    BY <1>1, NextItem
  <2>2. ASSUME Clear
        PROVE  /\ Faces(dev) # {} /\ Face(dev) \in Nat /\ Face(dev) < ptr'
               /\ dev.fields[Face(dev) + 3] = ProtocolOf[Drivers[driver]]
               /\ hid_interface' = dev.fields[Face(dev) + 2]
               /\ \A i \in Pipes(dev, Face(dev)) : i >= ptr'
    <3>1. /\ Faces(dev) # {} /\ Face(dev) = ptr /\ ptr \in Nat /\ Skipped >= ptr + 4
          /\ Reads(2) = {dev.fields[ptr + 2]} /\ Reads(3) = {dev.fields[ptr + 3]}
      BY <1>1, <2>2, FirstFace
    <3>2. Skipped \in Nat /\ \A k \in dev.items : k <= ptr \/ k >= Skipped
      BY <1>1, <2>2, NextItem DEF Clear
    <3>3. \A i \in Pipes(dev, ptr) : i \in Nat /\ i > ptr /\ i \in dev.items
      BY <1>1, DeviceIs DEF Pipes, TypeOK
    <3> QED BY <1>1, <3>1, <3>2, <3>3
  <2> QED BY <1>1, <2>1, <2>2, SameDevice DEF FoundInv, Bound
<1> QED BY <1>6, <1>7, <1>8, <1>9, <1>10 DEF IInv

\* The endpoint taken is the first after the interface.
LEMMA EndpointStep == ASSUME ProbeAssumption, IInv, Endpoint PROVE IInv'
<1>1. /\ TypeOK /\ StateInv /\ ReadInv /\ FoundInv /\ BoundInv /\ step = "endpoint"
      /\ Within /\ ENDPOINT \in Reads(1) /\ step' = "setconf" /\ step \in Probing
      /\ UNCHANGED <<usb_task_state, driver, ptr, total_length, confvalue, dev, refused>>
      /\ UNCHANGED <<bigbuf, devtable, dev0ep, hid_interface, conf, proto, toggle>>
  BY DEF IInv, Endpoint, Goto, locals, external, Probing
<1>2. PICK size \in Reads(2) : hid_ep' = [hid_ep EXCEPT !.in = size]
  BY DEF Endpoint
<1>3. size \in Field /\ usb_task_state = "CONFIGURING"
  BY <1>1, HereIs
<1>4. /\ hid_ep' \in [ctrl : Nat, in : Field, rcvToggle : {0, 1}] /\ hid_ep'.in = size
      /\ hid_ep'.ctrl = hid_ep.ctrl /\ hid_ep'.rcvToggle = hid_ep.rcvToggle
  BY <1>1, <1>2, <1>3 DEF TypeOK
<1>5. devtable'.epinfo # "NULL" /\ Ep0Size' = Ep0Size
  BY <1>1, <1>3, <1>4 DEF StateInv, Ep0Size
<1>6. StateInv' /\ BootInv' /\ RunsItself' /\ TogglesAgree'
  BY <1>1, <1>5, Asking
<1>7. TypeOK'
  <2>1. refused' \in BOOLEAN
    BY <1>1 DEF TypeOK
  <2> QED BY <1>1, <1>4, <2>1 DEF TypeOK, Probing
<1>8. ReadInv' /\ BoundInv'
  BY <1>1, <1>4, SameDevice DEF ReadInv, BoundInv, Read, Bound
<1>9. FoundInv'
  <2>1. ASSUME Clear
        PROVE  Pipes(dev, Face(dev)) # {} /\ size = dev.fields[Pipe(dev) + 2]
    BY <1>1, <1>2, <2>1, FirstPipe
  <2> QED BY <1>1, <1>4, <2>1, SameDevice DEF FoundInv, Bound
<1> QED BY <1>6, <1>7, <1>8, <1>9 DEF IInv

\* Configuring the device sets both ends of its endpoint to DATA0.
LEMMA SetConfStep == ASSUME ProbeAssumption, IInv, SetConf PROVE IInv'
<1>1. /\ TypeOK /\ StateInv /\ ReadInv /\ FoundInv /\ BoundInv /\ step = "setconf" /\ dev' = dev
      /\ usb_task_state = "CONFIGURING" /\ step \in Probing
  BY DEF IInv, SetConf, TypeOK, Probing
<1>2. CASE Refused
  BY <1>1, <1>2, RefusedStep
<1>3. CASE ~Refused
  <2>1. /\ step' = "setproto" /\ conf' = confvalue /\ toggle' = 0
        /\ UNCHANGED <<usb_task_state, driver, ptr, total_length, confvalue, refused, proto>>
        /\ UNCHANGED <<bigbuf, devtable, dev0ep, hid_ep, hid_interface>>
    BY <1>3 DEF SetConf, Goto, locals, fw
  <2>2. devtable'.epinfo # "NULL" /\ Ep0Size' = Ep0Size
    BY <1>1, <2>1 DEF StateInv, Ep0Size
  <2>3. StateInv' /\ BootInv' /\ RunsItself' /\ TogglesAgree'
    BY <1>1, <2>1, <2>2, Asking
  <2>4. TypeOK'
    <3>1. refused' \in BOOLEAN /\ conf' \in Field /\ toggle' \in {0, 1}
      BY <1>1, <2>1 DEF TypeOK
    <3> QED BY <1>1, <2>1, <3>1 DEF TypeOK, Probing
  <2>5. ReadInv' /\ BoundInv'
    BY <1>1, <2>1, SameDevice DEF ReadInv, BoundInv, Read, Bound
  <2>6. FoundInv'
    BY <1>1, <2>1, SameDevice DEF FoundInv, Bound
  <2> QED BY <2>3, <2>4, <2>5, <2>6 DEF IInv
<1> QED BY <1>2, <1>3

\* The last request puts the device in the boot protocol, and it runs.
LEMMA SetProtoStep == ASSUME ProbeAssumption, IInv, SetProto PROVE IInv'
<1>1. /\ TypeOK /\ StateInv /\ ReadInv /\ FoundInv /\ BoundInv /\ step = "setproto" /\ dev' = dev
      /\ usb_task_state = "CONFIGURING"
  BY DEF IInv, SetProto, TypeOK
<1>2. CASE Refused
  BY <1>1, <1>2, RefusedStep
<1>3. CASE ~Refused
  <2>1. /\ proto' = hid_interface /\ usb_task_state' = "RUNNING" /\ step' = "idle"
        /\ driver' = 1 /\ ptr' = 1 /\ total_length' = 0 /\ confvalue' = 0
        /\ UNCHANGED <<bigbuf, devtable, dev0ep, hid_ep, hid_interface, conf, toggle, refused>>
    BY <1>3 DEF SetProto, Returned, fw
  <2>2. TypeOK'
    <3>1. refused' \in BOOLEAN /\ BufLen \in Nat \ {0} /\ MaxField \in Nat /\ 0 \in Field
      BY <1>1, <2>1 DEF TypeOK, ProbeAssumption, Field
    <3> QED BY <1>1, <2>1, <3>1, DriversAre DEF TypeOK
  <2>3. StateInv' /\ BoundInv' /\ ReadInv' /\ FoundInv' /\ BootInv'
    BY <2>1 DEF StateInv, BoundInv, ReadInv, FoundInv, BootInv, Read, Bound, Probing
  <2>4. /\ devtable = [epinfo |-> "hid_ep", devclass |-> ClassOf[Drivers[driver]]]
        /\ Drivers[driver] \in DOMAIN ClassOf /\ hid_ep.rcvToggle = 0 /\ toggle = 0
        /\ conf = confvalue /\ (Honest => confvalue = dev.fields[4])
    BY <1>1 DEF StateInv, Probing, BoundInv, ReadInv, Bound, Read
  <2>5. TogglesAgree'
    BY <2>1, <2>4 DEF TogglesAgree
  <2>6. RunsItself'
    <3>1. ASSUME Clear
          PROVE  /\ IsBoot(dev, Drivers[driver])
                 /\ hid_interface = dev.fields[Face(dev) + 2]
                 /\ hid_ep.in = dev.fields[Pipe(dev) + 2]
      BY <1>1, <3>1 DEF FoundInv, Bound, IsBoot
    <3>2. Clear' => Clear /\ Honest
      BY <1>1, SameDevice DEF Clear
    <3>3. \A k : IsBoot(dev', k) <=> IsBoot(dev, k)
      BY <1>1
    <3>4. Fits' <=> Fits
      BY <1>1 DEF Fits
    <3> QED BY <1>1, <2>1, <2>4, <3>1, <3>2, SameDevice DEF RunsItself, Clear
  <2> QED BY <2>2, <2>3, <2>5, <2>6 DEF IInv
<1> QED BY <1>2, <1>3

\* A report taken turns the toggle at both ends.
LEMMA PollStep == ASSUME ProbeAssumption, IInv, Poll PROVE IInv'
<1>1. /\ TypeOK /\ StateInv /\ ReadInv /\ BootInv /\ RunsItself /\ step = "idle"
      /\ usb_task_state = "RUNNING" /\ hid_ep.rcvToggle = toggle /\ toggle' = 1 - toggle
      /\ hid_ep' = [hid_ep EXCEPT !.rcvToggle = 1 - hid_ep.rcvToggle]
      /\ UNCHANGED <<usb_task_state, step, driver, ptr, total_length, confvalue, dev, refused>>
      /\ UNCHANGED <<bigbuf, devtable, dev0ep, hid_interface, conf, proto>>
  BY DEF IInv, Poll, locals, TypeOK
<1>2. /\ hid_ep' \in [ctrl : Nat, in : Field, rcvToggle : {0, 1}] /\ toggle' \in {0, 1}
      /\ hid_ep'.rcvToggle = toggle' /\ hid_ep'.in = hid_ep.in
  <2>1. hid_ep \in [ctrl : Nat, in : Field, rcvToggle : {0, 1}] /\ toggle \in {0, 1}
    BY <1>1 DEF TypeOK
  <2>2. PICK t \in {0, 1} : t = 1 - toggle
    BY <2>1
  <2> QED BY <1>1, <2>1, <2>2
<1>3. TypeOK'
  <2>1. refused' \in BOOLEAN
    BY <1>1 DEF TypeOK
  <2> QED BY <1>1, <1>2, <2>1 DEF TypeOK
<1>4. StateInv' /\ ReadInv' /\ FoundInv' /\ BoundInv' /\ TogglesAgree'
  BY <1>1, <1>2, SameDevice
     DEF StateInv, ReadInv, FoundInv, BoundInv, TogglesAgree, Read, Bound, Probing
<1>5. BootInv' /\ RunsItself'
  BY <1>1, <1>2, SameDevice DEF BootInv, RunsItself, Fits
<1> QED BY <1>3, <1>4, <1>5 DEF IInv

\* Nothing happens.
LEMMA Stutter == ASSUME IInv, UNCHANGED vars PROVE IInv'
<1>1. UNCHANGED <<usb_task_state, step, driver, ptr, total_length, confvalue>>
  BY DEF vars, locals
<1>2. UNCHANGED <<bigbuf, devtable, dev0ep, hid_ep, hid_interface, dev, conf, proto, toggle, refused>>
  BY DEF vars, fw, external
<1>3. TypeOK' /\ StateInv' /\ ReadInv'
  BY <1>1, <1>2, SameDevice DEF IInv, TypeOK, StateInv, Ep0Size, ReadInv
<1>4. FoundInv' /\ BoundInv' /\ TogglesAgree'
  BY <1>1, <1>2, SameDevice DEF IInv, FoundInv, BoundInv, TogglesAgree
<1>5. (Driven(driver))' <=> Driven(driver)
  BY <1>1, <1>2 DEF Driven
<1>6. BootInv' /\ RunsItself'
  BY <1>1, <1>2, <1>5, SameDevice DEF IInv, BootInv, RunsItself, Fits
<1> QED BY <1>3, <1>4, <1>6 DEF IInv

\* Whatever happens.
LEMMA NextInv == ASSUME ProbeAssumption, IInv, [Next]_vars PROVE IInv'
<1>1. CASE Replug
  BY <1>1, ReplugStep
<1>2. CASE GetDescriptor \/ Address
  BY <1>2, DescriptorStep, AddressStep
<1>3. CASE Probe
  <2>1. CASE Start \/ ConfLength \/ WholeConf
    BY <2>1, StartStep, LengthStep, WholeStep
  <2>2. CASE WalkOn \/ WalkedOff \/ OtherInterface
    BY <2>2, WalkOnStep, WalkedOffStep, OtherInterfaceStep
  <2>3. CASE Bind \/ Endpoint \/ SetConf \/ SetProto
    BY <2>3, BindStep, EndpointStep, SetConfStep, SetProtoStep
  <2> QED BY <1>3, <2>1, <2>2, <2>3 DEF Probe
<1>4. CASE Poll
  BY <1>4, PollStep
<1>5. CASE UNCHANGED vars
  BY <1>5, Stutter
<1> QED BY <1>1, <1>2, <1>3, <1>4, <1>5 DEF Next

-----------------------------------------------------------------------------
(* The theorems. *)

\* The invariant holds in every state that the host reaches.
THEOREM Inductive == Spec => []IInv
<1>1. Init => IInv
  BY ProbeAssumption, InitInv
<1>2. IInv /\ [Next]_vars => IInv'
  BY ProbeAssumption, NextInv
<1> QED BY <1>1, <1>2, PTL DEF Spec

\* Every variable of the host and of the device keeps to its type, whatever a device
\* sends and states: a length never exceeds bigbuf, so that no request and no item
\* begins behind it, and data_ptr stays within the length of one item of its end
\* (HIDMProbe, HIDKProbe).
THEOREM TypeCorrect == Spec => []TypeOK
<1>1. IInv => TypeOK
  BY DEF IInv
<1> QED BY <1>1, Inductive, PTL

\* The probes read nothing behind bigbuf of a device whose descriptor fits in, and
\* nothing that another device has left there: in the walk data_ptr stands at an item
\* of this device, and an interface or an endpoint has all the fields that are read of
\* it (HIDMProbe, HIDKProbe).
ReadsOwn ==
    step \in {"walk", "endpoint"} /\ Within /\ Honest /\ Fits =>
        /\ ptr \in dev.items /\ Reads(1) = {TypeAt(dev, ptr)}
        /\ Reads(1) = {Sought} => /\ Reads(2) = {dev.fields[ptr + 2]}
                                  /\ step = "walk" => Reads(3) = {dev.fields[ptr + 3]}

\* It holds for every size of the buffer and whatever lies behind it.
THEOREM OwnReads == Spec => []ReadsOwn
<1>1. ASSUME IInv PROVE ReadsOwn
  <2>1. SUFFICES ASSUME step \in {"walk", "endpoint"}, Within, Honest, Fits
                 PROVE  /\ ptr \in dev.items /\ Reads(1) = {TypeAt(dev, ptr)}
                        /\ Reads(1) = {Sought} =>
                              /\ Reads(2) = {dev.fields[ptr + 2]}
                              /\ step = "walk" => Reads(3) = {dev.fields[ptr + 3]}
    BY DEF ReadsOwn
  <2>2. ptr \in dev.items /\ dev \in Devices /\ ptr \in Nat
    BY <1>1, <2>1, ProbeAssumption, HereIs, ItemIs DEF IInv, TypeOK
  <2>3. Held(dev) = Len(dev.fields) /\ ptr + 1 <= Len(dev.fields) /\ Len(dev.fields) \in Nat
    BY <2>1, <2>2, ProbeAssumption, DeviceIs, ItemIs
  <2>4. Reads(1) = {TypeAt(dev, ptr)}
    BY <1>1, <2>1, <2>3, ProbeAssumption, HereIs DEF TypeAt
  <2>5. Clear
    BY <2>1 DEF Clear
  <2>6. CASE step = "walk"
    BY <1>1, <2>1, <2>2, <2>4, <2>5, <2>6, ProbeAssumption, FirstFace DEF Sought
  <2>7. CASE step = "endpoint"
    BY <1>1, <2>1, <2>2, <2>4, <2>5, <2>7, ProbeAssumption, FirstPipe DEF Sought
  <2> QED BY <2>1, <2>6, <2>7
<1> QED BY <1>1, Inductive, PTL

\* A device runs with its own class, interface, endpoint and configuration, and
\* with nothing of the device before it (HIDMProbe, HIDKProbe).
THEOREM OnlyItself == Spec => []RunsItself
<1>1. IInv => RunsItself
  BY DEF IInv
<1> QED BY <1>1, Inductive, PTL

\* No boot device is given up that did not refuse a request: the driver asked first
\* spoils nothing for the one asked next (USB_Task, ClientDriverTable).
THEOREM BootDevicesRun == Spec => []BootDeviceRuns
<1>1. IInv => BootDeviceRuns
  BY DEF IInv, BootInv, BootDeviceRuns
<1> QED BY <1>1, Inductive, PTL

\* Each request of a probe is in packets of this device's size (XferCtrlReq).
THEOREM OwnSize == Spec => []OwnPacketSize
<1>1. IInv => OwnPacketSize
  BY DEF IInv, TypeOK, StateInv, OwnPacketSize, Probing
<1> QED BY <1>1, Inductive, PTL

\* The host expects the toggle that the device will send (HID_init, kbdPoll).
THEOREM TogglesKept == Spec => []TogglesAgree
<1>1. IInv => TogglesAgree
  BY DEF IInv
<1> QED BY <1>1, Inductive, PTL

-----------------------------------------------------------------------------
(* The safety half of WalkEnds: what is left of a probe. *)

\* The steps that a probe still has before it, at the most.
Left == IF ptr <= BufLen THEN BufLen + 1 - ptr ELSE 0
Work == CASE step = "first"    -> 2 * BufLen + 6
          [] step = "whole"    -> 2 * BufLen + 5
          [] step = "walk"     -> (BufLen + 4) + Left
          [] step = "endpoint" -> 3 + Left
          [] step = "setconf"  -> 2
          [] step = "setproto" -> 1
          [] OTHER             -> 0

\* Each step of a probe leaves less of it, when the device states the length it has
\* and no item of length zero: no probe takes more than 2 * BufLen + 6 steps,
\* refused or not, cut off or not (HIDMProbe, HIDKProbe).
ProbeShortens ==
    [][Honest /\ NoZero(dev) /\ step \in Probing => Work' \in Nat /\ Work' < Work]_vars

\* Giving up leaves nothing.
LEMMA NotMineEnds == ASSUME NotMine PROVE Work' = 0
  BY DEF NotMine, Fails, Work

\* Everything else leaves less.
LEMMA ShortensStep ==
    ASSUME ProbeAssumption, IInv, Next, step \in Probing, Honest, NoZero(dev)
    PROVE  Work' \in Nat /\ Work' < Work
<1>1. TypeOK /\ usb_task_state = "CONFIGURING" /\ BufLen \in Nat /\ ptr \in Nat
      /\ ptr >= 1 /\ (step \in {"first", "whole"} => ptr = 1)
  <2>1. TypeOK /\ BufLen \in Nat /\ MaxField \in Nat
    BY DEF IInv, ProbeAssumption
  <2> QED BY <2>1 DEF IInv, TypeOK, ReadInv, Read, Probing
<1>2. Left \in Nat /\ Left <= BufLen
  BY <1>1 DEF Left
<1>3. Work \in Nat /\ Work > 0
  <2>1. CASE step \in {"walk", "endpoint"}
    BY <1>1, <1>2, <2>1 DEF Work
  <2>2. CASE step \in {"first", "whole", "setconf", "setproto"}
    BY <1>1, <2>2 DEF Work
  <2> QED BY <2>1, <2>2 DEF Probing
<1>4. CASE NotMine
  BY <1>3, <1>4, NotMineEnds
<1>5. CASE ~NotMine /\ (ConfLength \/ WholeConf)
  <2>1. \/ step = "first" /\ step' = "whole"
        \/ step = "whole" /\ step' = "walk" /\ ptr' = ptr
    BY <1>5 DEF ConfLength, WholeConf, Refused, Goto
  <2> QED BY <1>1, <2>1 DEF Work, Left
<1>6. CASE WalkOn \/ Bind
  <2>1. /\ step \in {"walk", "endpoint"} /\ Within /\ ptr' = Skipped
        /\ step' = step \/ (step = "walk" /\ step' = "endpoint")
    BY <1>6 DEF WalkOn, Bind, Goto
  <2>2. ptr \in dev.items /\ ptr \in 1..BufLen /\ Skipped \in Nat
        /\ Skipped = ptr + dev.fields[ptr]
    BY <2>1, HereIs, NextItem
  <2>3. dev.fields[ptr] \in Nat /\ dev.fields[ptr] # 0
    BY <1>1, <2>2, ItemIs DEF NoZero, TypeOK
  <2>4. ptr' \in Nat /\ ptr' > ptr
    BY <2>1, <2>2, <2>3
  <2>5. Left' \in Nat /\ Left' < Left
    <3>1. PICK z \in Nat : z = ptr' /\ z > ptr
      BY <2>4
    <3>2. Left' = IF z <= BufLen THEN BufLen + 1 - z ELSE 0
      BY <3>1 DEF Left
    <3>3. Left = BufLen + 1 - ptr
      BY <1>1, <2>2 DEF Left
    <3>4. BufLen \in Nat /\ ptr \in Nat /\ ptr <= BufLen
      BY <1>1, <2>2
    <3>5. CASE z <= BufLen
      <4>1. ASSUME NEW b \in Nat, NEW p \in Nat, NEW y \in Nat, p < y, y <= b
            PROVE  b + 1 - y \in Nat /\ b + 1 - y < b + 1 - p
        BY <4>1
      <4>2. BufLen + 1 - z \in Nat /\ BufLen + 1 - z < BufLen + 1 - ptr
        BY <3>1, <3>4, <3>5, <4>1
      <4> QED BY <3>2, <3>3, <3>5, <4>2
    <3>6. CASE ~(z <= BufLen)
      <4>1. BufLen + 1 - ptr > 0
        BY <3>4
      <4> QED BY <3>2, <3>3, <3>6, <4>1
    <3> QED BY <3>5, <3>6
  <2>6. CASE step' = step
    BY <1>1, <1>2, <2>1, <2>5, <2>6 DEF Work
  <2>7. CASE step = "walk" /\ step' = "endpoint"
    BY <1>1, <1>2, <2>5, <2>7 DEF Work
  <2> QED BY <2>1, <2>6, <2>7
<1>7. CASE Endpoint
  <2>1. step = "endpoint" /\ step' = "setconf"
    BY <1>7 DEF Endpoint, Goto
  <2> QED BY <1>1, <1>2, <2>1 DEF Work
<1>8. CASE ~NotMine /\ (SetConf \/ SetProto)
  <2>1. \/ step = "setconf" /\ step' = "setproto"
        \/ step = "setproto" /\ step' = "idle"
    BY <1>8 DEF SetConf, SetProto, Refused, Goto
  <2> QED BY <2>1 DEF Work
<1>9. \/ NotMine \/ ConfLength \/ WholeConf \/ WalkOn \/ Bind \/ Endpoint \/ SetConf \/ SetProto
  <2>1. ~Replug /\ ~GetDescriptor /\ ~Address /\ ~Poll /\ ~Start
    BY <1>1 DEF Replug, GetDescriptor, Address, Poll, Start, Probing
  <2>2. Probe
    BY <2>1 DEF Next
  <2> QED BY <2>1, <2>2 DEF Probe, WalkedOff, OtherInterface
<1> QED BY <1>3, <1>4, <1>5, <1>6, <1>7, <1>8, <1>9

\* A probe takes a bounded number of steps: no device that states its lengths keeps
\* the loop in one (HIDMProbe, HIDKProbe).
THEOREM ProbesShorten == Spec => ProbeShortens
<1>1. IInv /\ [Next]_vars
        => [Honest /\ NoZero(dev) /\ step \in Probing => Work' \in Nat /\ Work' < Work]_vars
  BY ProbeAssumption, ShortensStep
<1> QED BY <1>1, Inductive, PTL DEF Spec, ProbeShortens

=============================================================================
