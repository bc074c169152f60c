------------------------------ MODULE HidProbe ------------------------------
(***************************************************************************)
(* How the host finds out what was plugged in: the last states of the         *)
(* enumeration in USB_Task, and the two probes of HID.c, which walk the        *)
(* configuration descriptor of the device in a buffer that they share and      *)
(* nobody clears.                                                             *)
(*                                                                         *)
(* A descriptor is a sequence of fields, and lengths count fields where those  *)
(* of the code count bytes.  Each item keeps the fields that the probes look   *)
(* at, in their order; an item may begin before the end of bigbuf and end      *)
(* behind it.  Any request may fail.                                          *)
(***************************************************************************)
EXTENDS Sequences, Integers

CONSTANTS
    BufLen,     \* length of bigbuf (256 bytes)
    MaxField,   \* the greatest value of a field (65535, wTotalLength)
    Devices,    \* bound: what may be plugged in, see Device
    Stray       \* bound: what may be read behind bigbuf

VARIABLES
    usb_task_state,
    step,             \* where the probe stands; "idle" outside
    driver,           \* index into ClientDriverTable
    bigbuf,
    ptr,              \* the field data_ptr stands at
    total_length, confvalue, \* locals of the probe, 0 outside
    devtable,         \* [epinfo, devclass] of the one address in use
    dev0ep,           \* MaxPktSize of the endpoint of a device not yet bound
    hid_ep,           \* [ctrl: MaxPktSize of endpoint 0, in: endpoint 1, rcvToggle]
    hid_interface,
    dev,              \* external: the device on the bus
    conf, proto, toggle, \* external: its configuration, interface in boot protocol,
                         \* and data toggle of its endpoint
    refused           \* history: a request to this device failed

locals   == <<ptr, total_length, confvalue>>
fw       == <<bigbuf, devtable, dev0ep, hid_ep, hid_interface>>
external == <<conf, proto, toggle>>
vars     == <<usb_task_state, step, driver, locals, fw, dev, external, refused>>

Field == 0..MaxField

(* bDescriptorType *)
CONFIG    == 2
INTERFACE == 4
ENDPOINT  == 5

(* The fields of an item, counted from its bLength: its type; the total length
   and the value of a configuration; the number of an interface, and its class,
   subclass and protocol in one; the address and the size of an endpoint. *)
bDescriptorType     == 1
wTotalLength        == 2
bConfigurationValue == 3
bInterfaceNumber    == 2
bInterfaceProtocol  == 3
wMaxPacketSize      == 2
CONF_DESCR_LEN      == 4
INTF_DESCR_LEN      == 4
EP_DESCR_LEN        == 3

(* What a device sends, where its items begin, and the size of its packets. *)
Device == [fields : Seq(Field), items : SUBSET (Nat \ {0}), pktSize : Nat \ {0}]

ASSUME ProbeAssumption ==
    /\ BufLen \in Nat /\ BufLen >= CONF_DESCR_LEN /\ MaxField \in Nat
    /\ Devices \subseteq Device /\ Stray \subseteq Field

Drivers == <<"msd", "mouse", "kbd", "dummy">>    \* ClientDriverTable
HID_M == 2
HID_K == 1
ClassOf    == [mouse |-> HID_M, kbd |-> HID_K]
ProtocolOf == [mouse |-> 2, kbd |-> 1]           \* HID_PROTOCOL_MOUSE, _KEYBOARD

Probing == {"first", "whole", "walk", "endpoint", "setconf", "setproto"}

TypeOK ==
    /\ usb_task_state \in {"DETACHED", "GET_DEVICE_DESCRIPTOR_SIZE", "ADDRESSING",
                           "CONFIGURING", "RUNNING", "ERROR"}
    /\ step \in {"idle", "start"} \cup Probing
    /\ step # "idle" <=> usb_task_state = "CONFIGURING"
    /\ driver \in 1..Len(Drivers)
    /\ bigbuf \in [1..BufLen -> Field]
    /\ ptr \in 1..BufLen+MaxField /\ total_length \in 0..BufLen /\ confvalue \in Field
    /\ devtable \in [epinfo : {"NULL", "dev0ep", "hid_ep"}, devclass : {0, HID_M, HID_K}]
    /\ dev0ep \in Nat /\ hid_ep \in [ctrl : Nat, in : Field, rcvToggle : {0, 1}]
    /\ hid_interface \in Field
    /\ dev \in Devices /\ conf \in Field /\ proto \in Field /\ toggle \in {0, 1}
    /\ refused \in BOOLEAN

Init ==
    /\ usb_task_state = "DETACHED" /\ step = "idle" /\ driver = 1
    /\ bigbuf = [i \in 1..BufLen |-> 0] /\ ptr = 1 /\ total_length = 0 /\ confvalue = 0
    /\ devtable = [epinfo |-> "NULL", devclass |-> 0]
    /\ dev0ep = 0 /\ hid_ep = [ctrl |-> 0, in |-> 0, rcvToggle |-> 0] /\ hid_interface = 0
    /\ dev \in Devices /\ conf = 0 /\ proto = 0 /\ toggle = 0 /\ refused = FALSE

-----------------------------------------------------------------------------
(* The device is pulled, and another one plugged in, while the main loop is
   outside USB_Task; USB_init forgets the old one, but for bigbuf, the HID
   endpoints and hid_device. *)

Forgotten == devtable' = [epinfo |-> "NULL", devclass |-> 0] /\ dev0ep' = 0

Replug ==
    /\ step \in {"idle", "start"}
    /\ usb_task_state' = "GET_DEVICE_DESCRIPTOR_SIZE" /\ step' = "idle" /\ driver' = 1
    /\ Forgotten
    /\ dev' \in Devices /\ conf' = 0 /\ proto' = 0 /\ toggle' = 0 /\ refused' = FALSE
    /\ UNCHANGED <<locals, bigbuf, hid_ep, hid_interface>>

Returned == ptr' = 1 /\ total_length' = 0 /\ confvalue' = 0

Fails == usb_task_state' = "ERROR" /\ step' = "idle" /\ driver' = 1 /\ Returned

(* MaxPktSize is 8 for the first request, and then what the device says; see
   UsbTransfer for a device that answers it without data. *)
GetDescriptor ==
    /\ usb_task_state = "GET_DEVICE_DESCRIPTOR_SIZE"
    /\ \/ /\ dev0ep' = dev.pktSize /\ usb_task_state' = "ADDRESSING"
          /\ UNCHANGED <<step, driver, locals, refused>>
       \/ dev0ep' = 8 /\ Fails /\ refused' = TRUE
    /\ UNCHANGED <<bigbuf, devtable, hid_ep, hid_interface, dev, external>>

Address ==
    /\ usb_task_state = "ADDRESSING"
    /\ devtable' = [devtable EXCEPT !.epinfo = "dev0ep"]
    /\ \/ usb_task_state' = "CONFIGURING" /\ step' = "start" /\ UNCHANGED <<driver, locals, refused>>
       \/ Fails /\ refused' = TRUE
    /\ UNCHANGED <<bigbuf, dev0ep, hid_ep, hid_interface, dev, external>>

-----------------------------------------------------------------------------
(* USB_STATE_CONFIGURING and the probes. *)

(* A probe returns FALSE: the next driver is tried. *)
NotMine ==
    /\ IF driver < Len(Drivers)
       THEN /\ driver' = driver + 1 /\ step' = "start" /\ Returned
            /\ UNCHANGED usb_task_state
       ELSE Fails

Refused == NotMine /\ refused' = TRUE /\ UNCHANGED <<fw, external>>

Goto(s) == step' = s /\ UNCHANGED <<usb_task_state, driver>>

Start ==
    /\ step = "start"
    /\ IF Drivers[driver] \in DOMAIN ClassOf
       THEN Goto("first") /\ UNCHANGED locals ELSE NotMine
    /\ UNCHANGED <<fw, dev, external, refused>>

(* What a request for n fields leaves in bigbuf: a device sends no more than it
   has, and the rest of the buffer stays. *)
Received(n) == [i \in 1..BufLen |-> IF i <= n /\ i <= Len(dev.fields) THEN dev.fields[i]
                                                                      ELSE bigbuf[i]]
Least(a, b) == IF a <= b THEN a ELSE b

Capped_Never(n) == n
Capped_Whole(n) == BufLen
Capped_Byte(n)  == Least(n, BufLen) % BufLen
Capped(n)       == Least(n, BufLen)

ConfLength ==
    /\ step = "first"
    /\ \/ /\ Goto("whole") /\ bigbuf' = Received(CONF_DESCR_LEN)
          /\ total_length' = Capped(bigbuf'[1 + wTotalLength])
          /\ UNCHANGED <<ptr, confvalue, devtable, dev0ep, hid_ep, hid_interface, external, refused>>
       \/ Refused
    /\ UNCHANGED dev

WholeConf ==
    /\ step = "whole"
    /\ \/ /\ Goto("walk") /\ bigbuf' = Received(total_length)
          /\ confvalue' = bigbuf'[1 + bConfigurationValue]
          /\ UNCHANGED <<ptr, total_length, devtable, dev0ep, hid_ep, hid_interface, external,
                         refused>>
       \/ Refused
    /\ UNCHANGED dev

(* What data_ptr may read in a field of the item it stands at: the item may end
   behind bigbuf. *)
Reads(field) == IF ptr + field <= BufLen THEN {bigbuf[ptr + field]} ELSE Stray

Within == ptr <= total_length
Sought == IF step = "walk" THEN INTERFACE ELSE ENDPOINT

Skipped_Not == ptr
Skipped     == ptr + bigbuf[ptr]     \* byte_ptr + bLength

WalkOn ==
    /\ step \in {"walk", "endpoint"} /\ Within
    /\ Reads(bDescriptorType) # {Sought}
    /\ ptr' = Skipped
    /\ UNCHANGED <<usb_task_state, step, driver, total_length, confvalue, fw, dev, external, refused>>

WalkedOff ==
    /\ step \in {"walk", "endpoint"} /\ ~Within /\ NotMine
    /\ UNCHANGED <<fw, dev, external, refused>>

(* The walk ends at the first interface, whatever it is. *)
OtherInterface ==
    /\ step = "walk" /\ Within /\ INTERFACE \in Reads(bDescriptorType)
    /\ Reads(bInterfaceProtocol) # {ProtocolOf[Drivers[driver]]}
    /\ NotMine
    /\ UNCHANGED <<fw, dev, external, refused>>

Ep0Size == CASE devtable.epinfo = "dev0ep" -> dev0ep
             [] devtable.epinfo = "hid_ep" -> hid_ep.ctrl
             [] OTHER -> 0

SavedSize_Late == hid_ep.ctrl       \* tmpbyte read after the switch to hid_ep
SavedSize      == Ep0Size

HID_init_Not == hid_ep.rcvToggle
HID_init     == 0

Bind ==
    /\ step = "walk" /\ Within /\ INTERFACE \in Reads(bDescriptorType)
    /\ ProtocolOf[Drivers[driver]] \in Reads(bInterfaceProtocol)
    /\ devtable' = [epinfo |-> "hid_ep", devclass |-> ClassOf[Drivers[driver]]]
    /\ hid_ep' = [hid_ep EXCEPT !.ctrl = SavedSize, !.rcvToggle = HID_init]
    /\ hid_interface' \in Reads(bInterfaceNumber)
    /\ ptr' = Skipped /\ Goto("endpoint")
    /\ UNCHANGED <<total_length, confvalue, bigbuf, dev0ep, dev, external, refused>>

Endpoint ==
    /\ step = "endpoint" /\ Within /\ ENDPOINT \in Reads(bDescriptorType)
    /\ \E size \in Reads(wMaxPacketSize) : hid_ep' = [hid_ep EXCEPT !.in = size]
    /\ Goto("setconf")
    /\ UNCHANGED <<locals, bigbuf, devtable, dev0ep, hid_interface, dev, external, refused>>

(* A device that is configured starts its endpoint at DATA0. *)
SetConf ==
    /\ step = "setconf"
    /\ \/ /\ Goto("setproto") /\ conf' = confvalue /\ toggle' = 0
          /\ UNCHANGED <<locals, fw, proto, refused>>
       \/ Refused
    /\ UNCHANGED dev

SetProto ==
    /\ step = "setproto"
    /\ \/ /\ proto' = hid_interface /\ usb_task_state' = "RUNNING" /\ step' = "idle"
          /\ driver' = 1 /\ Returned
          /\ UNCHANGED <<fw, conf, toggle, refused>>
       \/ Refused
    /\ UNCHANGED dev

(* A report is taken by kbdPoll or mousePoll; see UsbTransfer. *)
Poll ==
    /\ usb_task_state = "RUNNING" /\ hid_ep.rcvToggle = toggle
    /\ toggle' = 1 - toggle /\ hid_ep' = [hid_ep EXCEPT !.rcvToggle = 1 - @]
    /\ UNCHANGED <<usb_task_state, step, driver, locals, bigbuf, devtable, dev0ep, hid_interface,
                   dev, conf, proto, refused>>

-----------------------------------------------------------------------------
Probe == \/ Start \/ ConfLength \/ WholeConf \/ WalkOn \/ WalkedOff \/ OtherInterface
         \/ Bind \/ Endpoint \/ SetConf \/ SetProto

Next == Replug \/ GetDescriptor \/ Address \/ Probe \/ Poll

Spec     == Init /\ [][Next]_vars
FairSpec == Spec /\ WF_vars(Probe)

-----------------------------------------------------------------------------
(* What the walk should find, from the device itself: the interfaces and the
   endpoints that bigbuf has room for. *)
Held(d)     == Least(Len(d.fields), BufLen)
TypeAt(d, i) == d.fields[i + bDescriptorType]
Faces(d)    == {i \in d.items : i + bInterfaceProtocol <= Held(d) /\ TypeAt(d, i) = INTERFACE}
Pipes(d, f) == {i \in d.items : i > f /\ i + wMaxPacketSize <= Held(d) /\ TypeAt(d, i) = ENDPOINT}
First(S)    == CHOOSE i \in S : \A j \in S : i <= j

(* One item after the other, the first at the start and the last up to the end;
   interfaces and endpoints have all their fields.  An item of another type
   may have a length of zero. *)
Chained(d) ==
    /\ 1 \in d.items
    /\ \A i \in d.items :
          /\ i + bDescriptorType <= Len(d.fields)
          /\ i + d.fields[i] \in d.items \cup {Len(d.fields) + 1}
          /\ \A j \in d.items : j <= i \/ j >= i + d.fields[i]
          /\ TypeAt(d, i) = INTERFACE => d.fields[i] >= INTF_DESCR_LEN
          /\ TypeAt(d, i) = ENDPOINT  => d.fields[i] >= EP_DESCR_LEN
NoZero(d) == \A i \in d.items : d.fields[i] # 0

(* A device that sends such a descriptor and states the length it has. *)
Honest == /\ Len(dev.fields) >= CONF_DESCR_LEN /\ dev.fields[1 + wTotalLength] = Len(dev.fields)
          /\ Chained(dev) /\ TypeAt(dev, 1) = CONFIG

(* "assumes configuration length is less than 256 bytes" *)
Fits == Len(dev.fields) <= BufLen

(* The device is a boot device the firmware can drive: the first of its
   interfaces that bigbuf holds is a keyboard or a mouse, and an endpoint
   follows. *)
Face(d)     == First(Faces(d))
Pipe(d)     == First(Pipes(d, Face(d)))
IsBoot(d, k) == /\ Faces(d) # {} /\ d.fields[Face(d) + bInterfaceProtocol] = ProtocolOf[k]
                /\ Pipes(d, Face(d)) # {}
Boot == \E k \in DOMAIN ClassOf : IsBoot(dev, k)

(* A device runs only when what the probes left behind is its own: class,
   interface, endpoint and configuration are those of its first interface,
   and it has been configured and put in the boot protocol; nothing that the
   buffer or the endpoint records keep of a device before it is taken over,
   and neither do two probes for one device mix (HIDMProbe, HIDKProbe).
   Except for a device whose descriptor is cut by the end of bigbuf before its
   endpoint: the probes may take what lies behind for a part of it. *)
RunsItself ==
    usb_task_state = "RUNNING" /\ Honest /\ (Fits \/ Boot) =>
        /\ \E k \in DOMAIN ClassOf :
              /\ IsBoot(dev, k)
              /\ devtable = [epinfo |-> "hid_ep", devclass |-> ClassOf[k]]
        /\ hid_interface = dev.fields[Face(dev) + bInterfaceNumber] /\ proto = hid_interface
        /\ hid_ep.in = dev.fields[Pipe(dev) + wMaxPacketSize]
        /\ conf = dev.fields[1 + bConfigurationValue]

(* No boot device is given up unless it refused a request: the mouse driver,
   which is asked first, does not spoil what the keyboard driver finds. *)
BootDeviceRuns ==
    usb_task_state = "ERROR" /\ Honest /\ Boot => refused

(* Each request of a probe is made in packets of the size of this device's
   endpoint 0, though the record it is kept in changes when the device is
   bound. *)
OwnPacketSize == step \in Probing => Ep0Size = dev.pktSize

(* The host expects the toggle that the device will send. *)
TogglesAgree == usb_task_state = "RUNNING" => hid_ep.rcvToggle = toggle

(* The probes come to an end for a device that states its lengths, none of them
   zero: the walk never passes an item of length zero, and one that states
   more than it sends leads on through what the buffer held before. *)
WalkEnds == [](usb_task_state = "CONFIGURING" /\ step # "start" /\ Honest /\ NoZero(dev)
                  => <>(step = "start" \/ usb_task_state # "CONFIGURING"))

=============================================================================
