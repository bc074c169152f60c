---------------------------- MODULE UsbTransfer ----------------------------
(***************************************************************************)
(* The transfers of transfer.c over a MAX3421E: XferDispatchPkt with its    *)
(* NAK limit, retry limit and deadline, XferInTransfer with its data        *)
(* toggle, and the stages of XferCtrlReq.  The bus loses packets and         *)
(* handshakes; the chip may answer after the deadline of the firmware.      *)
(*                                                                         *)
(* Lengths are counted in packets of the largest size; a packet of size 0   *)
(* stands for a short one.                                                 *)
(***************************************************************************)
EXTENDS Integers, Sequences

CONSTANTS
    NakLimit,     \* USB_NAK_LIMIT (200)
    RetryLimit,   \* USB_RETRY_LIMIT (3)
    XferTimeout,  \* USB_XFER_TIMEOUT (5000)
    ClockMod,     \* the clock in ms wraps here: 2^32 \div 1000 + 1 (4294968)
    MaxData,      \* packets of a descriptor
    MaxReports,   \* bound: reports of the keyboard
    MaxLate       \* bound: requests made after a missed deadline

ASSUME LimitsAssumption ==
    /\ NakLimit \in 1..255 /\ RetryLimit \in 1..127
    /\ XferTimeout \in Nat /\ ClockMod \in Nat \ {0}
    /\ MaxData \in Nat \ {0} /\ MaxReports \in Nat /\ MaxLate \in Nat

VARIABLES
    pc, call, stage,     \* where the firmware stands: step, request, packet
    clock, timeout, nak_count, retry_count,
    buffer,              \* the data received by the call; xfrlen is its length
    rcvToggle,           \* devtable[addr].epinfo[1].rcvToggle
    MaxPktSize,          \* devtable[addr].epinfo[0].MaxPktSize: 1, or an empty one
    rcode,               \* what the last call returned
    toggle, fifo, hirq, hrslt,  \* external: the chip's registers
    job, token,          \* external: the packet the chip is busy with
    report, devtog,      \* external: the report the keyboard offers next
    setup, npkt, ctog,   \* external: the request the device has taken, of this
                         \* call or an earlier one, and the data it offers next
    did,                 \* external: it has carried out the request of this call
    answer,              \* history: whose result HRSL holds
    missed,              \* history: a deadline has passed, and the requests since
    delivered            \* history: the last report a poll returned

loop     == <<clock, timeout, nak_count, retry_count>>
caller   == <<call, buffer, rcvToggle, MaxPktSize, rcode, missed, delivered>>
firmware == <<pc, stage, loop, caller>>
device   == <<report, devtog, setup, npkt, ctog, did>>
sie      == <<job, token, answer>>
irqs     == <<hirq, hrslt>>
rcv      == <<toggle, fifo>>
vars     == <<firmware, device, sie, irqs, rcv>>

Calls  == {"poll", "first", "get", "set", "out"}
Tokens == {"SETUP", "IN0", "IN1", "INHS", "OUTHS"}

(* The first GET_DESCRIPTOR asks for 8 bytes, in packets of 8; the others take
   packets of the size that it has read. *)
nbytes     == [poll |-> 1, first |-> 1, get |-> MaxData]
maxpktsize == [poll |-> 1, first |-> 1, get |-> MaxPktSize]

hrSUCCESS == 0
hrBUSY    == 1
hrNAK     == 4
hrSTALL   == 5
hrTOGERR  == 6
hrTIMEOUT == 14
NoRcvdav  == 240
NoAnswer  == 255

Packet == [of : {"report", "data"}, id : 1..MaxReports+MaxData+1, size : 0..1]

LoopOK ==
    /\ pc \in {"idle", "launch", "wait", "clear", "result", "packet", "save"}
    /\ call \in Calls /\ stage \in Tokens
    /\ clock \in 0..ClockMod-1 /\ timeout \in 0..ClockMod-1+XferTimeout
    /\ nak_count \in 0..NakLimit-1 /\ retry_count \in 0..RetryLimit-1
DataOK ==
    /\ buffer \in Seq(Packet) /\ Len(buffer) <= MaxData
    /\ fifo \in Seq(Packet) /\ Len(fifo) <= 2
    /\ {rcvToggle, toggle, devtog, ctog, MaxPktSize} \subseteq 0..1
ChipOK ==
    /\ hirq \subseteq {"HXFRDN", "RCVDAV"}
    /\ hrslt \in {hrSUCCESS, hrBUSY, hrNAK, hrSTALL, hrTOGERR, hrTIMEOUT}
    /\ job \in {"none", "own", "old"} /\ answer \in {"own", "old"} /\ token \in Tokens
DeviceOK ==
    /\ report \in 1..MaxReports+1
    /\ setup \in {"none", "old", "this"} /\ did \in BOOLEAN /\ npkt \in 1..MaxData+1
ResultOK ==
    /\ rcode \in {hrSUCCESS, hrBUSY, hrNAK, hrSTALL, hrTOGERR, hrTIMEOUT, NoRcvdav, NoAnswer}
    /\ missed \in 0..MaxLate+1 /\ delivered \in 0..MaxReports+MaxData+1
TypeOK == LoopOK /\ DataOK /\ ChipOK /\ DeviceOK /\ ResultOK

Init ==
    /\ pc = "idle" /\ call = "out" /\ stage = "SETUP"
    /\ clock = 0 /\ timeout = 0 /\ nak_count = 0 /\ retry_count = 0
    /\ buffer = <<>> /\ rcvToggle = 0 /\ MaxPktSize = 1 /\ rcode = 0
    /\ missed = 0 /\ delivered = 0
    /\ toggle = 0 /\ fifo = <<>> /\ hirq = {} /\ hrslt = hrSUCCESS
    /\ job = "none" /\ token = "SETUP" /\ answer = "old"
    /\ report = 1 /\ devtog = 0
    /\ setup = "none" /\ npkt = 1 /\ ctog = 1 /\ did = FALSE

-----------------------------------------------------------------------------
(* The chip and the device. *)

(* The clock is read in a dispatch only, which starts at any time. *)
Tick == /\ pc = "wait"
        /\ clock' = (clock + 1) % ClockMod
        /\ UNCHANGED <<pc, stage, timeout, nak_count, retry_count, caller, device, sie,
                       irqs, rcv>>

Complete(result, more) ==
    /\ job # "none" /\ job' = "none" /\ token' = "SETUP" /\ answer' = job
    /\ hrslt' = result /\ hirq' = hirq \cup {"HXFRDN"} \cup more
    /\ UNCHANGED firmware

(* A packet with the expected toggle is kept; another is acknowledged only. *)
Receive(p, tog) ==
    IF tog = toggle
    THEN fifo' = Append(fifo, p) /\ toggle' = 1 - toggle /\ Complete(hrSUCCESS, {"RCVDAV"})
    ELSE UNCHANGED rcv /\ Complete(hrTOGERR, {})

(* The device sends data; the acknowledgement may not reach it. *)
SendReport ==
    /\ token = "IN1" /\ report <= MaxReports /\ Len(fifo) < 2
    /\ Receive([of |-> "report", id |-> report, size |-> 1], devtog)
    /\ \/ report' = report + 1 /\ devtog' = 1 - devtog
       \/ UNCHANGED <<report, devtog>>
    /\ UNCHANGED <<setup, npkt, ctog, did>>

SendData ==
    /\ token = "IN0" /\ setup # "none" /\ npkt <= MaxData /\ Len(fifo) < 2
    /\ \E size \in 0..1 :
          /\ Receive([of |-> "data", id |-> npkt, size |-> size], ctog)
          /\ \/ npkt' = npkt + size /\ ctog' = 1 - ctog
             \/ UNCHANGED <<npkt, ctog>>
    /\ UNCHANGED <<report, devtog, setup, did>>

TakeSetup ==
    /\ token = "SETUP"
    /\ \E r \in {hrSUCCESS, hrTIMEOUT} : Complete(r, {})
    /\ setup' = "this" /\ npkt' = 1 /\ ctog' = 1
    /\ UNCHANGED <<report, devtog, did, rcv>>

Status ==
    /\ token \in {"INHS", "OUTHS"} /\ setup # "none"
    /\ \E r \in {hrSUCCESS, hrTIMEOUT} : Complete(r, {})
    /\ did' = (setup = "this")
    /\ UNCHANGED <<report, devtog, setup, npkt, ctog, rcv>>

Refuse ==
    /\ \E r \in {hrNAK, hrSTALL, hrTIMEOUT} : Complete(r, {})
    /\ UNCHANGED <<device, rcv>>

Chip == SendReport \/ SendData \/ TakeSetup \/ Status \/ Refuse

-----------------------------------------------------------------------------
(* XferDispatchPkt. *)

Dispatch(tok) ==
    /\ pc' = "launch" /\ stage' = tok
    /\ clock' \in 0..ClockMod-1
    /\ timeout' = clock' + XferTimeout /\ nak_count' = 0 /\ retry_count' = 0

(* The locals of the loop are gone when it returns. *)
Return(r) ==
    /\ pc' = "idle" /\ rcode' = r
    /\ stage' = "SETUP" /\ clock' = 0 /\ timeout' = 0 /\ nak_count' = 0 /\ retry_count' = 0

(* A launch while the chip is still busy may or may not replace the packet. *)
Launch ==
    /\ pc = "launch" /\ pc' = "wait"
    /\ \/ job' = "own" /\ token' = stage
       \/ job # "none" /\ UNCHANGED <<job, token>>
    /\ answer' = "old" /\ hrslt' = hrBUSY
    /\ UNCHANGED <<stage, loop, caller, device, hirq, rcv>>

Overdue_Twice == clock >= timeout + XferTimeout
Overdue       == clock >= timeout

Wait ==
    /\ pc = "wait" /\ ~Overdue
    /\ "HXFRDN" \in hirq
    /\ pc' = "clear"
    /\ UNCHANGED <<stage, loop, caller, device, sie, irqs, rcv>>

Expire ==
    /\ pc = "wait" /\ Overdue
    /\ Return(NoAnswer)
    /\ missed' = IF missed = 0 THEN 1 ELSE missed
    /\ job' = IF job = "own" THEN "old" ELSE job
    /\ UNCHANGED <<call, buffer, rcvToggle, MaxPktSize, delivered, device, irqs, rcv,
                   token, answer>>

Clear_Nothing == UNCHANGED hirq
Clear         == hirq' = hirq \ {"HXFRDN"}

Done ==
    /\ pc = "clear" /\ pc' = "result"
    /\ Clear
    /\ UNCHANGED <<stage, loop, caller, device, sie, rcv, hrslt>>

NakAgain_OffByOne == nak_count + 1 <= NakLimit
NakAgain          == nak_count + 1 < NakLimit
Retried_Same      == retry_count
Retried           == retry_count + 1

AtResult == pc = "result" /\ UNCHANGED <<call, missed, device, sie, irqs, fifo>>

Again ==
    /\ AtResult
    /\ \/ /\ hrslt = hrNAK /\ NakAgain
          /\ nak_count' = nak_count + 1 /\ UNCHANGED retry_count
       \/ /\ hrslt = hrTIMEOUT /\ Retried < RetryLimit
          /\ retry_count' = Retried /\ UNCHANGED nak_count
    /\ pc' = "launch"
    /\ UNCHANGED <<stage, clock, timeout, buffer, rcvToggle, MaxPktSize, rcode, delivered, toggle>>

GiveUp ==
    /\ AtResult
    /\ hrslt # hrSUCCESS
    /\ hrslt = hrNAK => ~NakAgain
    /\ hrslt = hrTIMEOUT => Retried = RetryLimit
    /\ Return(hrslt)
    /\ UNCHANGED <<buffer, rcvToggle, MaxPktSize, delivered, toggle>>

-----------------------------------------------------------------------------
(* XferCtrlReq, XferCtrlData, XferCtrlND: the stages of a request. *)

(* The polls follow the requests of an enumeration. *)
Request(c) ==
    /\ pc = "idle" /\ missed <= MaxLate
    /\ call = "poll" => c = "poll"
    /\ missed' = IF missed = 0 THEN 0 ELSE missed + 1
    /\ call' = c /\ buffer' = <<>> /\ rcode' = NoAnswer
    /\ setup' = (IF setup = "none" THEN setup ELSE "old") /\ did' = FALSE
    /\ IF c = "poll" THEN toggle' = rcvToggle /\ Dispatch("IN1")
                     ELSE UNCHANGED toggle    /\ Dispatch("SETUP")
    /\ MaxPktSize' = IF c = "first" THEN 1 ELSE MaxPktSize
    /\ UNCHANGED <<rcvToggle, delivered, report, devtog, npkt, ctog, sie, irqs, fifo>>

(* bMaxPacketSize0 of the descriptor received, or of a local that nothing was
   read into: the first request may succeed without any data. *)
SizeRead == IF buffer = <<>> THEN 0..1 ELSE {1}

StageDone ==
    /\ AtResult /\ hrslt = hrSUCCESS
    /\ \/ /\ stage = "SETUP" /\ call \in {"first", "get"}
          /\ toggle' = 1 /\ Dispatch("IN0") /\ UNCHANGED rcode
       \/ /\ stage = "SETUP" /\ call = "set"
          /\ Dispatch("INHS") /\ UNCHANGED <<rcode, toggle>>
       \/ /\ stage = "SETUP" /\ call = "out"
          /\ Return(NoAnswer) /\ UNCHANGED toggle
       \/ /\ stage \in {"INHS", "OUTHS"}
          /\ Return(hrSUCCESS) /\ UNCHANGED toggle
       \/ /\ stage \in {"IN0", "IN1"} /\ "RCVDAV" \notin hirq
          /\ Return(NoRcvdav) /\ UNCHANGED toggle
       \/ /\ stage \in {"IN0", "IN1"} /\ "RCVDAV" \in hirq
          /\ pc' = "packet" /\ UNCHANGED <<stage, loop, rcode, toggle>>
    /\ MaxPktSize' \in IF stage = "OUTHS" /\ call = "first" THEN SizeRead ELSE {MaxPktSize}
    /\ UNCHANGED <<buffer, rcvToggle, delivered>>

Freed_Not == fifo
Freed     == Tail(fifo)

(* XferInTransfer: read the packet and free its buffer, of which the chip has
   two; a short packet or the last of nbytes ends the transfer. *)
ReadPacket ==
    /\ pc = "packet"
    /\ LET p == Head(fifo) IN
       /\ buffer' = IF p.size = 0 THEN buffer ELSE Append(buffer, p)
       /\ IF p.size < maxpktsize[call] \/ Len(buffer') >= nbytes[call]
          THEN pc' = "save" /\ UNCHANGED <<stage, loop>>
          ELSE Dispatch("IN0")
    /\ fifo' = Freed
    /\ hirq' = IF fifo' = <<>> THEN hirq \ {"RCVDAV"} ELSE hirq
    /\ UNCHANGED <<call, rcvToggle, MaxPktSize, rcode, missed, delivered, device,
                   sie, hrslt, toggle>>

SaveToggle_Old == rcvToggle
SaveToggle     == toggle

(* The toggle is kept for the endpoint of the poll; that of endpoint 0 is set
   by each request. *)
InDone ==
    /\ pc = "save"
    /\ IF call = "poll"
       THEN /\ rcvToggle' = SaveToggle
            /\ delivered' = IF buffer = <<>> THEN delivered ELSE buffer[1].id
            /\ Return(hrSUCCESS)
       ELSE Dispatch("OUTHS") /\ UNCHANGED <<rcvToggle, delivered, rcode>>
    /\ UNCHANGED <<call, buffer, MaxPktSize, missed, device, sie, irqs, rcv>>

(* The device is plugged in again: main starts the chip, USB_Task resets the
   bus, the first request sets MaxPktSize, and the probe calls HID_init. *)
Restart ==
    /\ pc = "idle"
    /\ toggle' = 0 /\ fifo' = <<>> /\ hirq' = {} /\ hrslt' = hrSUCCESS
    /\ job' = "none" /\ token' = "SETUP" /\ answer' = "old"
    /\ devtog' = 0 /\ setup' = "none" /\ npkt' = 1 /\ ctog' = 1 /\ did' = FALSE
    /\ rcvToggle' = 0 /\ MaxPktSize' = 1
    /\ call' = "out" /\ buffer' = <<>> /\ rcode' = NoAnswer
    /\ missed' = 0 /\ delivered' = report - 1
    /\ UNCHANGED <<pc, stage, loop, report>>

Firmware == \/ \E c \in Calls : Request(c)
            \/ Launch \/ Wait \/ Expire \/ Done \/ Again \/ GiveUp \/ StageDone
            \/ ReadPacket \/ InDone

Next == Firmware \/ Chip \/ Tick \/ Restart

Spec == Init /\ [][Next]_vars

(* The processor runs, and a wait that is over is looked at. *)
FairSpec == Spec /\ WF_vars(Firmware) /\ SF_vars(Expire) /\ SF_vars(Wait)

-----------------------------------------------------------------------------
(* Properties. *)

\* XferDispatchPkt returns the result of the packet it launched and of no
\* other, as long as no wait has run into its deadline: the flag it waits for
\* was cleared before.
OwnResult == pc = "result" => answer = "own" \/ missed > 0

\* XferCtrlReq returns 0 only when the device has carried out this request and
\* the buffer holds its data, each packet once and in order, whatever packets
\* and acknowledgements the bus has lost.
RequestDone ==
    pc = "idle" /\ rcode = hrSUCCESS /\ call \in {"first", "get", "set"} /\ missed = 0
        => /\ did
           /\ \A i \in 1..Len(buffer) : buffer[i] = [of |-> "data", id |-> i, size |-> 1]

\* A keyboard's reports are returned by the polls in the order of its sending,
\* none lost and none twice, although acknowledgements are lost and data sent
\* again.  The next poll starts from the toggle the last one has saved.
ReportsInOrder ==
    pc = "save" /\ call = "poll" /\ missed = 0
        => buffer = << [of |-> "report", id |-> delivered + 1, size |-> 1] >>

\* Every request ends if the chip answers every packet, the clock running or
\* not: the packets of a device that sends less than it is asked for, or
\* nothing, end it too.  Except when the first GET_DESCRIPTOR was answered
\* without data and MaxPktSize came out as 0: a device may then send empty
\* packets for ever.  And a wait ends if the clock runs, the chip answering or
\* not: except one whose deadline lies beyond the wrap of the clock.
Unsized == call = "get" /\ MaxPktSize = 0
AnswersEndTransfer ==
    WF_vars(Chip) => (pc # "idle" ~> pc = "idle" \/ Unsized)
DeadlineEndsWait ==
    WF_vars(Tick) => (pc = "wait" ~> pc # "wait" \/ timeout >= ClockMod)
TransferEnds == AnswersEndTransfer /\ DeadlineEndsWait
=============================================================================
