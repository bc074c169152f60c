------------------------- MODULE UsbTransferProofs -------------------------
(***************************************************************************)
(* Theorems about the transfers of transfer.c, for every limit, every       *)
(* deadline, every clock and every length of a descriptor: until a deadline *)
(* is missed, a transfer takes its own result, success means that the        *)
(* device did what it was asked, and reports come once and in order.         *)
(***************************************************************************)
EXTENDS UsbTransfer, SequenceTheorems, TLAPS

USE LimitsAssumption
    DEF LimitsAssumption, hrSUCCESS, hrBUSY, hrNAK, hrSTALL, hrTOGERR, hrTIMEOUT,
        NoRcvdav, NoAnswer, Calls, Tokens

In   == {"IN0", "IN1"}
Open == pc # "idle"

(* The chip has answered the packet that was launched, with success. *)
Answered  == (pc = "wait" /\ job = "none") \/ pc \in {"clear", "result"}
Succeeded == Answered /\ hrslt = hrSUCCESS

(* Which packets belong to which request; there is room for the one to come. *)
StageInv ==
    /\ ~Open => stage = "SETUP"
    /\ Open => /\ stage = "IN1" <=> call = "poll"
               /\ stage \in {"IN0", "OUTHS"} => call \in {"first", "get"}
               /\ stage = "INHS" => call = "set"
               /\ stage = "SETUP" => buffer = <<>>
               /\ pc \in {"packet", "save"} => stage \in In
               /\ stage \in In /\ pc # "save" => Len(buffer) < nbytes[call]
    /\ "RCVDAV" \in hirq <=> fifo # <<>>
    /\ pc = "packet" => fifo # <<>>

(* Until a deadline is missed the chip is busy with what was launched, and the
   flag is up only when it is done. *)
ChipInv ==
    /\ job # "old"
    /\ job = "own" => pc = "wait" /\ token = stage /\ "HXFRDN" \notin hirq
    /\ Answered => answer = "own"
    /\ "HXFRDN" \in hirq => pc \in {"wait", "clear"}

(* A success is that of the device. *)
SuccessInv ==
    Succeeded => /\ stage = "SETUP" => setup = "this"
                 /\ stage \in {"INHS", "OUTHS"} => did
                 /\ stage \in In => fifo # <<>>

(* The chip holds one packet, from its acknowledgement until it is read, and
   it is the next one. *)
FifoInv ==
    fifo # <<>> =>
        /\ Len(fifo) = 1 /\ stage \in In
        /\ Succeeded \/ pc = "packet"
        /\ stage = "IN1" => fifo[1] = [of |-> "report", id |-> delivered + 1, size |-> 1]
        /\ stage = "IN0" => fifo[1].of = "data" /\ fifo[1].id = Len(buffer) + 1

(* The device is at the request of this call, and what it offers next is
   what the firmware lacks, unless the toggles tell it apart. *)
Held == IF fifo = <<>> THEN 0 ELSE fifo[1].size

DeviceInv ==
    /\ Open /\ stage \in {"IN0", "INHS", "OUTHS"} => setup = "this"
    /\ Open /\ stage = "SETUP" /\ setup = "this" => npkt = 1 /\ ctog = 1
    /\ ~Open /\ rcode = hrSUCCESS /\ call \in {"first", "get", "set"} => did
    /\ stage = "IN0" /\ pc # "save" /\ ctog = toggle /\ ~(Answered /\ hrslt = hrTOGERR)
           => npkt = Len(buffer) + Held + 1

WholeInv ==
    call # "poll" =>
        \A i \in 1..Len(buffer) : buffer[i] = [of |-> "data", id |-> i, size |-> 1]

(* So are the reports, of which the device may be one behind. *)
Polling  == call = "poll" /\ Open
Expected == IF Polling THEN toggle ELSE rcvToggle
Got      == IF Polling THEN Len(fifo) + Len(buffer) ELSE 0

PollInv ==
    /\ Polling /\ pc = "save" => /\ Len(buffer) = 1 /\ fifo = <<>>
                                 /\ buffer[1] = [of |-> "report", id |-> delivered + 1, size |-> 1]
    /\ Polling /\ Got = 0 => toggle = rcvToggle
    /\ \/ devtog = Expected /\ report = (delivered + Got) + 1
       \/ devtog # Expected /\ report = delivered + Got

TimelyInv == missed = 0 => /\ ChipInv /\ SuccessInv /\ FifoInv
                           /\ DeviceInv /\ WholeInv /\ PollInv

IInv == TypeOK /\ StageInv /\ TimelyInv

-----------------------------------------------------------------------------
USE DEF loop, caller, firmware, device, sie, irqs, rcv, vars

\* A poll reads one packet; a request for data reads until it is whole.
LEMMA Sizes == /\ nbytes["poll"] = 1 /\ nbytes["first"] = 1 /\ nbytes["get"] = MaxData
               /\ maxpktsize["poll"] = 1 /\ maxpktsize["first"] = 1 /\ maxpktsize["get"] = MaxPktSize
  BY DEF nbytes, maxpktsize

\* The data of a request stays whole while the buffer is left alone.
LEMMA Kept ==
    ASSUME WholeInv, UNCHANGED <<call, buffer>> PROVE WholeInv'
  BY DEF WholeInv

\* The clock goes round.
LEMMA ClockIs == ASSUME clock \in 0..ClockMod-1 PROVE (clock + 1) % ClockMod \in 0..ClockMod-1
<1>1. PICK y \in Int : y = clock + 1
  OBVIOUS
<1>2. y % ClockMod \in 0..ClockMod-1
  BY <1>1
<1> QED BY <1>1, <1>2

\* The firmware starts before anything has been sent.
LEMMA InitInv == Init => IInv
<1> SUFFICES ASSUME Init PROVE IInv
  OBVIOUS
<1> USE DEF Init
<1>1. TypeOK
  <2>1. LoopOK /\ ChipOK
    BY DEF LoopOK, ChipOK
  <2>2. DataOK
    BY DEF DataOK
  <2>3. DeviceOK
    <3>1. did \in BOOLEAN
      BY Zenon
    <3> QED BY <3>1 DEF DeviceOK
  <2>4. ResultOK
    BY DEF ResultOK
  <2> QED BY <2>1, <2>2, <2>3, <2>4 DEF TypeOK
<1>2. StageInv
  BY DEF StageInv, Open
<1>3. ChipInv /\ SuccessInv /\ FifoInv /\ WholeInv
  BY DEF ChipInv, SuccessInv, FifoInv, WholeInv, Answered, Succeeded
<1>4. DeviceInv /\ PollInv
  BY DEF DeviceInv, PollInv, Open, Polling, Expected, Got
<1> QED BY <1>1, <1>2, <1>3, <1>4 DEF IInv, TimelyInv

\* Launching, waiting and trying again move no data.
Waiting == Tick \/ Launch \/ Wait \/ Done \/ Again

LEMMA WaitingInv == ASSUME IInv, Waiting PROVE IInv'
<1> USE DEF IInv, TypeOK, Waiting, Tick, Launch, Wait, Done, Again, Overdue, Clear,
            AtResult, NakAgain, Retried
<1>1. TypeOK'
  <2>1. LoopOK'
    BY ClockIs DEF LoopOK
  <2>2. ChipOK'
    BY ZenonT(30) DEF ChipOK, LoopOK
  <2>3. DataOK'
    BY DEF DataOK
  <2>4. DeviceOK'
    BY DEF DeviceOK
  <2>5. ResultOK'
    BY DEF ResultOK
  <2> QED BY <2>1, <2>2, <2>3, <2>4, <2>5
<1>2. StageInv'
  BY DEF StageInv, Open, In
<1>3. ASSUME missed' = 0 PROVE (ChipInv /\ SuccessInv /\ FifoInv)'
  BY <1>3 DEF TimelyInv, ChipInv, SuccessInv, FifoInv, Answered, Succeeded, ChipOK, In
<1>4. ASSUME missed' = 0 PROVE (DeviceInv /\ WholeInv /\ PollInv)'
  <2>1. DeviceInv'
    BY <1>4 DEF TimelyInv, ChipInv, DeviceInv, FifoInv, Answered, Open, Held, LoopOK, ChipOK
  <2>2. WholeInv'
    BY <1>4, Kept DEF TimelyInv
  <2>3. PollInv'
    BY <1>4 DEF TimelyInv, PollInv, Polling, Expected, Got, Open
  <2> QED BY <2>1, <2>2, <2>3
<1> QED BY <1>1, <1>2, <1>3, <1>4 DEF TimelyInv

\* A transfer that fails leaves the data where it is; after a deadline nothing
\* is known of the chip.
LEMMA FailureInv == ASSUME IInv, Expire \/ GiveUp PROVE IInv'
<1> USE DEF IInv, TypeOK, Expire, GiveUp, Return, Overdue, AtResult, NakAgain, Retried
<1>1. TypeOK'
  <2>1. LoopOK'
    BY DEF LoopOK
  <2>2. ChipOK'
    <3>1. CASE Expire
      BY <3>1 DEF ChipOK
    <3>2. CASE GiveUp
      BY <3>2 DEF ChipOK
    <3> QED BY <3>1, <3>2
  <2>3. ResultOK'
    BY DEF ChipOK, ResultOK
  <2>4. DataOK' /\ DeviceOK'
    BY DEF DataOK, DeviceOK
  <2> QED BY <2>1, <2>2, <2>3, <2>4
<1>2. StageInv'
  BY DEF StageInv, Open
<1>3. ASSUME missed' = 0 PROVE TimelyInv
  BY <1>3 DEF TimelyInv, ResultOK
<1>4. ASSUME missed' = 0 PROVE GiveUp /\ fifo = <<>>
  BY <1>3, <1>4 DEF TimelyInv, FifoInv, Succeeded, ResultOK
<1>5. ASSUME missed' = 0 PROVE (ChipInv /\ SuccessInv /\ FifoInv)'
  BY <1>3, <1>4, <1>5 DEF TimelyInv, ChipInv, SuccessInv, FifoInv, Answered, Succeeded, ChipOK
<1>6. ASSUME missed' = 0 PROVE (DeviceInv /\ WholeInv /\ PollInv)'
  <2>1. DeviceInv'
    BY <1>4, <1>6 DEF DeviceInv, Open
  <2>2. WholeInv'
    BY <1>3, <1>4, <1>6, Kept DEF TimelyInv
  <2>3. PollInv'
    BY <1>3, <1>4, <1>6, Sizes
       DEF TimelyInv, PollInv, StageInv, Polling, Expected, Got, Open, DataOK, In
  <2> QED BY <2>1, <2>2, <2>3
<1> QED BY <1>1, <1>2, <1>3, <1>5, <1>6 DEF TimelyInv

\* A call starts with an empty buffer and an empty chip, and a poll with the
\* toggle that the last one has saved.
LEMMA CallInv == ASSUME IInv, NEW c \in Calls, Request(c) PROVE IInv'
<1> USE DEF IInv, TypeOK, Request, Dispatch
<1>1. TypeOK'
  <2>1. LoopOK'
    BY DEF LoopOK
  <2>2. DataOK' /\ ChipOK'
    BY DEF DataOK, ChipOK
  <2>3. DeviceOK'
    BY DEF DeviceOK
  <2>4. ResultOK'
    BY DEF ResultOK
  <2> QED BY <2>1, <2>2, <2>3, <2>4
<1>2. StageInv'
  BY Sizes DEF StageInv, Open, In
<1>3. ASSUME missed' = 0 PROVE TimelyInv /\ missed = 0 /\ fifo = <<>>
  BY <1>3 DEF TimelyInv, FifoInv, Answered, Succeeded, ResultOK
<1>4. ASSUME missed' = 0 PROVE (ChipInv /\ SuccessInv /\ FifoInv)'
  BY <1>3, <1>4 DEF TimelyInv, ChipInv, SuccessInv, FifoInv, Answered, Succeeded
<1>5. ASSUME missed' = 0 PROVE (DeviceInv /\ WholeInv /\ PollInv)'
  <2>1. DeviceInv'
    BY <1>5 DEF DeviceInv, Open, DeviceOK
  <2>2. WholeInv'
    BY DEF WholeInv
  <2>3. PollInv'
    BY <1>3, <1>5 DEF TimelyInv, PollInv, Polling, Expected, Got, Open
  <2> QED BY <2>1, <2>2, <2>3
<1> QED BY <1>1, <1>2, <1>4, <1>5 DEF TimelyInv

\* A stage that is done leads to the next one of its request.
LEMMA StageDoneInv == ASSUME IInv, StageDone PROVE IInv'
<1> USE DEF IInv, TypeOK, StageDone, AtResult, Return, Dispatch
<1>1. TypeOK'
  <2>1. LoopOK'
    BY DEF LoopOK
  <2>2. DataOK' /\ ChipOK'
    <3>1. MaxPktSize' \in 0..1
      BY DEF DataOK, SizeRead
    <3> QED BY <3>1 DEF DataOK, ChipOK
  <2>3. DeviceOK'
    BY DEF DeviceOK
  <2>4. ResultOK'
    BY DEF ResultOK
  <2> QED BY <2>1, <2>2, <2>3, <2>4
<1>2. StageInv'
  BY Sizes DEF StageInv, Open, In
<1>3. ASSUME missed' = 0 PROVE TimelyInv /\ Succeeded
  BY <1>3 DEF TimelyInv, Succeeded, Answered
<1>4. ASSUME missed' = 0 PROVE (ChipInv /\ SuccessInv /\ FifoInv)'
  BY <1>3, <1>4 DEF TimelyInv, ChipInv, SuccessInv, FifoInv, StageInv, Answered, Succeeded, In
<1>5. ASSUME missed' = 0 PROVE (DeviceInv /\ WholeInv /\ PollInv)'
  <2>1. DeviceInv'
    BY <1>3, <1>5 DEF TimelyInv, SuccessInv, FifoInv, DeviceInv, StageInv, Answered, Held, Open, In
  <2>2. WholeInv'
    BY <1>3, <1>5, Kept DEF TimelyInv
  <2>3. PollInv'
    BY <1>3, <1>5 DEF TimelyInv, SuccessInv, StageInv, PollInv, Polling, Expected, Got, Open, In
  <2> QED BY <2>1, <2>2, <2>3
<1> QED BY <1>1, <1>2, <1>4, <1>5 DEF TimelyInv

\* The firmware reads the packet: the buffer grows by it, and the chip has none.
LEMMA ReadIs ==
    ASSUME IInv, ReadPacket
    PROVE  /\ fifo # <<>> /\ fifo[1] \in Packet /\ stage \in In
           /\ Len(buffer) \in Nat /\ Len(buffer) < nbytes[call]
           /\ buffer' \in Seq(Packet) /\ Len(buffer') = Len(buffer) + fifo[1].size
           /\ \A i \in 1..Len(buffer) : buffer'[i] = buffer[i]
           /\ fifo[1].size = 1 => buffer'[Len(buffer) + 1] = fifo[1]
           /\ Len(fifo') = Len(fifo) - 1 /\ fifo' \in Seq(Packet)
           /\ pc' = "save" \/ stage = "IN0"
<1>1. fifo # <<>> /\ fifo \in Seq(Packet) /\ buffer \in Seq(Packet)
  BY DEF IInv, TypeOK, DataOK, StageInv, ReadPacket
<1>2. fifo[1] \in Packet /\ Head(fifo) = fifo[1] /\ Tail(fifo) \in Seq(Packet)
      /\ Len(Tail(fifo)) = Len(fifo) - 1
  BY <1>1
<1>3. buffer' = IF fifo[1].size = 0 THEN buffer ELSE Append(buffer, fifo[1])
  BY <1>2 DEF ReadPacket
<1>4. fifo[1].size \in 0..1
  BY <1>2 DEF Packet
<1>5. /\ buffer' \in Seq(Packet) /\ Len(buffer') = Len(buffer) + fifo[1].size
      /\ \A i \in 1..Len(buffer) : buffer'[i] = buffer[i]
      /\ fifo[1].size = 1 => buffer'[Len(buffer) + 1] = fifo[1]
  <2>1. CASE fifo[1].size = 0
    BY <1>1, <1>3, <2>1
  <2>2. CASE fifo[1].size = 1
    BY <1>1, <1>2, <1>3, <2>2, AppendProperties
  <2> QED BY <1>4, <2>1, <2>2
<1>6. pc' = "save" \/ stage = "IN0"
  <2>1. CASE stage = "IN1"
    <3>1. call = "poll" /\ Len(buffer) \in Nat
      BY <1>1, <2>1 DEF IInv, StageInv, Open, ReadPacket
    <3>2. fifo[1].size < maxpktsize[call] \/ Len(buffer') >= nbytes[call]
      BY <1>4, <1>5, <3>1, Sizes
    <3> QED BY <1>2, <3>2 DEF ReadPacket
  <2>2. CASE stage # "IN1"
    BY <2>2 DEF IInv, StageInv, Open, In, ReadPacket
  <2> QED BY <2>1, <2>2
<1> QED BY <1>1, <1>2, <1>5, <1>6 DEF IInv, StageInv, Open, In, ReadPacket, Freed

\* What is read comes next in the buffer.
LEMMA ReadPacketInv == ASSUME IInv, ReadPacket PROVE IInv'
<1> USE DEF IInv, TypeOK, ReadPacket, Dispatch
<1>1. TypeOK'
  <2>1. LoopOK'
    BY DEF LoopOK
  <2>2. DataOK'
    BY ReadIs, Sizes DEF DataOK, StageInv, Open, In
  <2>3. ChipOK' /\ DeviceOK' /\ ResultOK'
    BY DEF ChipOK, DeviceOK, ResultOK
  <2> QED BY <2>1, <2>2, <2>3
<1>2. StageInv'
  BY ReadIs, Sizes DEF StageInv, Open, In, Packet
<1>3. ASSUME missed' = 0 PROVE TimelyInv /\ Len(fifo) = 1 /\ fifo' = <<>>
  <2>1. TimelyInv /\ Len(fifo) = 1
    BY <1>3, ReadIs DEF TimelyInv, FifoInv
  <2> QED BY <2>1, ReadIs, EmptySeq
<1>4. ASSUME missed' = 0 PROVE (ChipInv /\ SuccessInv /\ FifoInv)'
  BY <1>3, <1>4 DEF TimelyInv, ChipInv, SuccessInv, FifoInv, Answered, Succeeded
<1>5. ASSUME missed' = 0 PROVE (DeviceInv /\ WholeInv /\ PollInv)'
  <2>1. DeviceInv'
    <3>1. fifo[1].size \in 0..1
      BY ReadIs DEF Packet
    <3>2. Open /\ stage = "IN0" => ctog # toggle \/ npkt = Len(buffer') + 1
      BY <1>3, <1>5, <3>1, ReadIs DEF TimelyInv, DeviceInv, Held, Answered
    <3> QED BY <1>3, <1>5, <3>2, ReadIs DEF TimelyInv, DeviceInv, Held, Open
  <2>2. WholeInv'
    <3>1. SUFFICES ASSUME call # "poll", NEW i \in 1..Len(buffer')
                   PROVE  buffer'[i] = [of |-> "data", id |-> i, size |-> 1]
      BY DEF WholeInv
    <3>2. CASE i \in 1..Len(buffer)
      BY <1>3, <1>5, <3>1, <3>2, ReadIs DEF TimelyInv, WholeInv
    <3>3. CASE i = Len(buffer) + 1 /\ fifo[1].size = 1
      <4>1. stage = "IN0"
        BY <3>1, ReadIs DEF StageInv, Open, In
      <4>2. fifo[1].of = "data" /\ fifo[1].id = i /\ buffer'[i] = fifo[1]
        BY <1>3, <1>5, <3>3, <4>1, ReadIs DEF TimelyInv, FifoInv
      <4> QED BY <3>3, <4>2, ReadIs DEF Packet
    <3> QED BY <3>1, <3>2, <3>3, ReadIs DEF Packet
  <2>3. PollInv'
    <3>1. CASE call = "poll"
      <4>1. stage = "IN1" /\ fifo[1] = [of |-> "report", id |-> delivered + 1, size |-> 1]
        BY <1>3, <1>5, <3>1, ReadIs DEF TimelyInv, FifoInv, StageInv, Open
      <4>2. Len(buffer) = 0 /\ Len(buffer') = 1 /\ buffer'[1] = fifo[1]
        BY <3>1, <4>1, ReadIs, Sizes
      <4>3. Polling /\ Polling' /\ Got = 1 /\ Got' = 1 /\ pc' = "save"
        BY <1>3, <1>5, <3>1, <4>1, <4>2, ReadIs DEF Polling, Got, Open
      <4> QED BY <1>3, <1>5, <4>1, <4>2, <4>3 DEF TimelyInv, PollInv, Expected
    <3>2. CASE call # "poll"
      BY <1>3, <1>5, <3>2 DEF TimelyInv, PollInv, Polling, Expected, Got
    <3> QED BY <3>1, <3>2
  <2> QED BY <2>1, <2>2, <2>3
<1> QED BY <1>1, <1>2, <1>4, <1>5 DEF TimelyInv

\* The end of the data: a poll saves its toggle, a request goes on.
LEMMA InDoneInv == ASSUME IInv, InDone PROVE IInv'
<1> USE DEF IInv, TypeOK, InDone, Return, Dispatch, SaveToggle
<1>1. TypeOK'
  <2>1. LoopOK'
    BY DEF LoopOK
  <2>2. DataOK'
    BY DEF DataOK
  <2>3. ChipOK'
    BY DEF ChipOK
  <2>4. DeviceOK'
    BY DEF DeviceOK
  <2>5. delivered' \in 0..MaxReports+MaxData+1
    <3>1. CASE buffer = <<>>
      BY <3>1 DEF ResultOK
    <3>2. CASE buffer # <<>>
      <4>1. buffer[1] \in Packet
        BY <3>2 DEF DataOK
      <4>2. buffer[1].id \in 1..MaxReports+MaxData+1
        BY <4>1 DEF Packet
      <4> QED BY <3>2, <4>2 DEF ResultOK
    <3> QED BY <3>1, <3>2
  <2>6. ResultOK'
    BY <2>5 DEF ResultOK
  <2> QED BY <2>1, <2>2, <2>3, <2>4, <2>6
<1>2. StageInv'
  BY DEF StageInv, Open, In
<1>3. ASSUME missed' = 0 PROVE TimelyInv /\ fifo = <<>>
  BY <1>3 DEF TimelyInv, FifoInv, Succeeded, Answered
<1>4. ASSUME missed' = 0 PROVE (ChipInv /\ SuccessInv /\ FifoInv)'
  BY <1>3, <1>4 DEF TimelyInv, ChipInv, SuccessInv, FifoInv, Answered, Succeeded
<1>5. ASSUME missed' = 0 PROVE (DeviceInv /\ WholeInv /\ PollInv)'
  <2>1. DeviceInv'
    BY <1>3, <1>5 DEF TimelyInv, DeviceInv, StageInv, Open, In
  <2>2. WholeInv'
    BY <1>3, <1>5, Kept DEF TimelyInv
  <2>3. PollInv'
    <3>1. CASE call = "poll"
      <4>1. Len(buffer) = 1 /\ buffer # <<>> /\ buffer[1].id = delivered + 1 /\ Len(fifo) = 0
        BY <1>3, <1>5, <3>1 DEF TimelyInv, PollInv, Polling, Open
      <4> QED BY <1>3, <1>5, <3>1, <4>1
              DEF TimelyInv, PollInv, Polling, Expected, Got, Open, DeviceOK, ResultOK
    <3>2. CASE call # "poll"
      BY <1>3, <1>5, <3>2 DEF TimelyInv, PollInv, Polling, Expected, Got
    <3> QED BY <3>1, <3>2
  <2> QED BY <2>1, <2>2, <2>3
<1> QED BY <1>1, <1>2, <1>4, <1>5 DEF TimelyInv

\* A restart clears the chip and both toggles.
LEMMA RestartInv == ASSUME IInv, Restart PROVE IInv'
<1> USE DEF IInv, TypeOK, Restart
<1>1. TypeOK'
  <2>1. LoopOK' /\ ChipOK'
    BY DEF LoopOK, ChipOK
  <2>2. DataOK'
    BY DEF DataOK
  <2>3. DeviceOK'
    <3>1. did' \in BOOLEAN
      BY Zenon DEF DeviceOK
    <3> QED BY <3>1 DEF DeviceOK
  <2>4. ResultOK'
    BY DEF ResultOK, DeviceOK
  <2> QED BY <2>1, <2>2, <2>3, <2>4
<1>2. StageInv'
  BY DEF StageInv, Open
<1>3. (ChipInv /\ SuccessInv /\ FifoInv /\ WholeInv)'
  BY DEF ChipInv, SuccessInv, FifoInv, WholeInv, Answered, Succeeded
<1>4. (DeviceInv /\ PollInv)'
  BY DEF DeviceInv, PollInv, Open, Polling, Expected, Got, DeviceOK
<1> QED BY <1>1, <1>2, <1>3, <1>4 DEF TimelyInv

-----------------------------------------------------------------------------
\* In time, the chip answers what was launched, and holds nothing yet.
LEMMA AnswerIs ==
    ASSUME IInv, missed = 0, job # "none"
    PROVE  /\ TimelyInv /\ job = "own" /\ pc = "wait" /\ token = stage
           /\ "HXFRDN" \notin hirq /\ ~Answered /\ fifo = <<>>
  BY DEF IInv, TypeOK, ChipOK, TimelyInv, ChipInv, FifoInv, Succeeded, Answered

\* A device that takes a request, ends one, or refuses moves no data.
LEMMA AnswerInv == ASSUME IInv, TakeSetup \/ Status \/ Refuse PROVE IInv'
<1> USE DEF IInv, TypeOK, TakeSetup, Status, Refuse, Complete
<1>1. TypeOK'
  <2>1. LoopOK' /\ ResultOK'
    BY DEF LoopOK, ResultOK
  <2>2. DataOK'
    BY DEF DataOK
  <2>3. ChipOK'
    BY DEF ChipOK
  <2>4. DeviceOK'
    <3>1. did' \in BOOLEAN
      BY Zenon DEF DeviceOK
    <3> QED BY <3>1 DEF DeviceOK
  <2> QED BY <2>1, <2>2, <2>3, <2>4
<1>2. StageInv'
  BY DEF StageInv, Open, In
<1>3. ASSUME missed' = 0 PROVE (ChipInv /\ SuccessInv /\ FifoInv)'
  <2>1. (ChipInv /\ FifoInv)'
    BY <1>3, AnswerIs DEF ChipInv, FifoInv, Answered
  <2>2. SuccessInv'
    <3>1. CASE TakeSetup
      BY <1>3, <3>1, AnswerIs DEF SuccessInv, In
    <3>2. CASE Status
      <4>1. setup = "this"
        BY <1>3, <3>2, AnswerIs DEF TimelyInv, DeviceInv, Open
      <4>2. did'
        BY <3>2, <4>1
      <4> QED BY <1>3, <3>2, <4>2, AnswerIs DEF SuccessInv, In
    <3>3. CASE Refuse
      BY <1>3, <3>3 DEF SuccessInv, Succeeded
    <3> QED BY <3>1, <3>2, <3>3
  <2> QED BY <2>1, <2>2
<1>4. ASSUME missed' = 0 PROVE (DeviceInv /\ WholeInv /\ PollInv)'
  <2>1. DeviceInv'
    BY <1>4, AnswerIs DEF TimelyInv, DeviceInv, Answered, Held, Open
  <2>2. WholeInv'
    BY <1>4, AnswerIs, Kept DEF TimelyInv
  <2>3. PollInv'
    BY <1>4, AnswerIs DEF TimelyInv, PollInv, Polling, Expected, Got, Open
  <2> QED BY <2>1, <2>2, <2>3
<1> QED BY <1>1, <1>2, <1>3, <1>4 DEF TimelyInv

\* A packet that is sent is kept if its toggle is the expected one.
LEMMA ReceiveIs ==
    ASSUME IInv, NEW p \in Packet, NEW t \in 0..1, Receive(p, t)
    PROVE  /\ UNCHANGED firmware /\ job # "none" /\ job' = "none" /\ token' = "SETUP"
           /\ answer' = job /\ hrslt' \in {hrSUCCESS, hrTOGERR}
           /\ t = toggle => /\ hrslt' = hrSUCCESS /\ hirq' = hirq \cup {"HXFRDN", "RCVDAV"}
                            /\ fifo' = Append(fifo, p) /\ toggle' = 1 - toggle
           /\ t # toggle => /\ hrslt' = hrTOGERR /\ hirq' = hirq \cup {"HXFRDN"}
                            /\ fifo' = fifo /\ toggle' = toggle
  BY DEF Receive, Complete

\* The device sends: what the chip keeps is the next packet.
Sending == SendReport \/ SendData

LEMMA SentIs ==
    ASSUME IInv, Sending
    PROVE  \E p \in Packet, t \in 0..1 :
              /\ Receive(p, t) /\ Len(fifo) < 2
              /\ SendReport => p = [of |-> "report", id |-> report, size |-> 1] /\ t = devtog
              /\ SendData => /\ p.of = "data" /\ p.id = npkt /\ t = ctog
                             /\ \/ npkt' = npkt + p.size /\ ctog' = 1 - ctog
                                \/ UNCHANGED <<npkt, ctog>>
<1>1. CASE SendReport
  <2>1. [of |-> "report", id |-> report, size |-> 1] \in Packet /\ devtog \in 0..1
    BY <1>1 DEF IInv, TypeOK, DataOK, DeviceOK, SendReport, Packet
  <2>2. ~SendData
    BY <1>1 DEF SendReport, SendData
  <2> QED BY <1>1, <2>1, <2>2 DEF SendReport
<1>2. CASE SendData
  <2>1. PICK size \in 0..1 :
            /\ Receive([of |-> "data", id |-> npkt, size |-> size], ctog)
            /\ \/ npkt' = npkt + size /\ ctog' = 1 - ctog
               \/ UNCHANGED <<npkt, ctog>>
    BY <1>2 DEF SendData
  <2>2. [of |-> "data", id |-> npkt, size |-> size] \in Packet /\ ctog \in 0..1
    BY <1>2 DEF IInv, TypeOK, DataOK, DeviceOK, SendData, Packet
  <2>3. ~SendReport /\ Len(fifo) < 2
    BY <1>2 DEF SendReport, SendData
  <2> QED BY <2>1, <2>2, <2>3
<1> QED BY <1>1, <1>2 DEF Sending

\* What is sent comes next in the chip, and the toggles agree only if the device
\* has seen the acknowledgement.
LEMMA SendingInv == ASSUME IInv, Sending PROVE IInv'
<1>1. PICK p \in Packet, t \in 0..1 :
              /\ Receive(p, t) /\ Len(fifo) < 2
              /\ SendReport => p = [of |-> "report", id |-> report, size |-> 1] /\ t = devtog
              /\ SendData => /\ p.of = "data" /\ p.id = npkt /\ t = ctog
                             /\ \/ npkt' = npkt + p.size /\ ctog' = 1 - ctog
                                \/ UNCHANGED <<npkt, ctog>>
  BY SentIs
<1>2. /\ UNCHANGED firmware /\ job # "none" /\ job' = "none" /\ token' = "SETUP"
      /\ answer' = job /\ hrslt' \in {hrSUCCESS, hrTOGERR}
      /\ t = toggle => /\ hrslt' = hrSUCCESS /\ hirq' = hirq \cup {"HXFRDN", "RCVDAV"}
                       /\ fifo' = Append(fifo, p) /\ toggle' = 1 - toggle
      /\ t # toggle => /\ hrslt' = hrTOGERR /\ hirq' = hirq \cup {"HXFRDN"}
                       /\ fifo' = fifo /\ toggle' = toggle
  BY <1>1, ReceiveIs
<1>3. fifo \in Seq(Packet) /\ toggle \in 0..1 /\ setup' = setup /\ did' = did
  BY DEF IInv, TypeOK, DataOK, Sending, SendReport, SendData
<1>4. \/ /\ SendReport /\ token = "IN1" /\ report <= MaxReports /\ UNCHANGED <<npkt, ctog>>
         /\ \/ report' = report + 1 /\ devtog' = 1 - devtog
            \/ UNCHANGED <<report, devtog>>
      \/ SendData /\ token = "IN0" /\ npkt <= MaxData /\ UNCHANGED <<report, devtog>>
  BY DEF Sending, SendReport, SendData
<1>5. TypeOK'
  <2> USE DEF IInv, TypeOK
  <2>1. LoopOK'
    BY <1>2 DEF LoopOK
  <2>2. DataOK'
    BY SMTT(30), <1>1, <1>2, <1>3, <1>4 DEF DataOK
  <2>3. ChipOK'
    BY <1>2 DEF ChipOK
  <2>4. DeviceOK'
    BY <1>1, <1>3, <1>4 DEF DeviceOK, Packet
  <2>5. ResultOK'
    BY <1>2 DEF ResultOK
  <2> QED BY <2>1, <2>2, <2>3, <2>4, <2>5
<1>6. StageInv'
  BY <1>2, <1>3 DEF IInv, StageInv, Open, In
<1>7. ASSUME missed' = 0
      PROVE  /\ TimelyInv /\ job = "own" /\ pc = "wait" /\ stage = token /\ Open
             /\ fifo = <<>> /\ "HXFRDN" \notin hirq /\ ~Answered /\ missed = 0
  BY <1>2, <1>7, AnswerIs DEF Open
<1>8. t = toggle => Len(fifo') = Len(fifo) + 1 /\ (fifo = <<>> => fifo'[1] = p)
  BY <1>1, <1>2, <1>3, AppendProperties
<1>9. ASSUME missed' = 0, token = "IN1"
      PROVE  /\ call = "poll" /\ SendReport /\ t = devtog /\ Len(buffer) = 0 /\ Len(fifo) = 0
             /\ Polling /\ Got = 0
             /\ t = toggle => report = delivered + 1
             /\ t # toggle => report = delivered
  <2>1. call = "poll" /\ SendReport /\ t = devtog /\ Len(buffer) = 0 /\ Len(fifo) = 0
    BY <1>1, <1>4, <1>7, <1>9, Sizes DEF IInv, TypeOK, DataOK, StageInv, In
  <2>2. Polling /\ Got = 0 /\ Expected = toggle
    BY <1>7, <1>9, <2>1 DEF Polling, Got, Expected
  <2> QED BY <1>7, <1>9, <2>1, <2>2 DEF TimelyInv, PollInv, IInv, TypeOK, ResultOK, DeviceOK
<1>10. ASSUME missed' = 0, token = "IN0"
       PROVE  /\ call # "poll" /\ SendData /\ t = ctog
              /\ t = toggle => npkt = Len(buffer) + 1
  <2>1. call # "poll" /\ SendData /\ t = ctog
    BY <1>1, <1>4, <1>7, <1>10 DEF IInv, StageInv
  <2>2. Held = 0 /\ Len(buffer) \in Nat
    BY <1>7, <1>10 DEF Held, IInv, TypeOK, DataOK
  <2> QED BY <1>7, <1>10, <2>1, <2>2 DEF TimelyInv, DeviceInv
<1>11. token \in In
  BY <1>4 DEF In
<1>12. ASSUME missed' = 0 PROVE (ChipInv /\ SuccessInv /\ FifoInv)'
  <2>1. (ChipInv /\ SuccessInv)'
    BY <1>2, <1>4, <1>7, <1>8, <1>12 DEF ChipInv, SuccessInv, Succeeded, Answered, In
  <2>2. FifoInv'
    <3>1. SUFFICES ASSUME fifo' # <<>>
                   PROVE  /\ Len(fifo') = 1 /\ stage' \in In /\ Succeeded'
                          /\ stage' = "IN1" =>
                                fifo'[1] = [of |-> "report", id |-> delivered' + 1, size |-> 1]
                          /\ stage' = "IN0" =>
                                fifo'[1].of = "data" /\ fifo'[1].id = Len(buffer') + 1
      BY DEF FifoInv
    <3>2. t = toggle /\ fifo'[1] = p /\ Len(fifo') = 1 /\ hrslt' = hrSUCCESS
      BY <1>2, <1>7, <1>8, <1>12, <3>1
    <3>3. stage' \in In /\ Succeeded'
      BY <1>2, <1>7, <1>11, <1>12, <3>2 DEF Succeeded, Answered
    <3>4. CASE stage = "IN1"
      BY <1>1, <1>2, <1>7, <1>9, <1>12, <3>2, <3>3, <3>4
    <3>5. CASE stage # "IN1"
      BY <1>1, <1>2, <1>7, <1>10, <1>11, <1>12, <3>2, <3>3, <3>5 DEF In
    <3> QED BY <3>4, <3>5
  <2> QED BY <2>1, <2>2
<1>13. ASSUME missed' = 0 PROVE (DeviceInv /\ WholeInv /\ PollInv)'
  <2>1. DeviceInv'
    <3>1. SUFFICES ASSUME token = "IN0", ctog' = toggle', hrslt' = hrSUCCESS
                   PROVE  npkt' = Len(buffer) + Held' + 1
      BY <1>2, <1>3, <1>7, <1>11, <1>13 DEF TimelyInv, DeviceInv, Answered, Open, In
    <3>2. SendData /\ t = ctog /\ t = toggle /\ npkt = Len(buffer) + 1
      BY <1>2, <1>10, <1>13, <3>1
    <3>3. Held' = p.size /\ npkt' = npkt + p.size
      <4>1. fifo'[1] = p /\ Len(fifo') = 1
        BY <1>7, <1>8, <1>13, <3>2
      <4>2. fifo' # <<>>
        BY <4>1
      <4>3. ctog' # ctog
        BY <1>2, <1>3, <3>1, <3>2
      <4> QED BY <1>1, <3>2, <4>1, <4>2, <4>3 DEF Held
    <3> QED BY <1>13, <3>2, <3>3 DEF IInv, TypeOK, DataOK, Packet
  <2>2. WholeInv'
    BY <1>2, <1>7, <1>13, Kept DEF TimelyInv
  <2>3. PollInv'
    <3>1. CASE token = "IN1"
      <4>1. Polling' /\ pc' # "save" /\ Got' = (IF t = toggle THEN 1 ELSE 0) /\ Expected' = toggle'
        BY <1>2, <1>7, <1>8, <1>9, <1>13, <3>1 DEF Polling, Got, Expected, Open
      <4>2. toggle' = (IF t = toggle THEN 1 - toggle ELSE toggle) /\ delivered' = delivered
            /\ rcvToggle' = rcvToggle
        BY <1>2
      <4>3. t # toggle => toggle' = rcvToggle'
        BY <1>7, <1>9, <1>13, <3>1, <4>2 DEF TimelyInv, PollInv
      <4> QED BY <1>3, <1>4, <1>9, <1>13, <3>1, <4>1, <4>2, <4>3
              DEF PollInv, IInv, TypeOK, ResultOK
    <3>2. CASE token = "IN0"
      BY <1>2, <1>4, <1>7, <1>10, <1>13, <3>2 DEF TimelyInv, PollInv, Polling, Got, Expected
    <3> QED BY <1>11, <3>1, <3>2 DEF In
  <2> QED BY <2>1, <2>2, <2>3
<1> QED BY <1>5, <1>6, <1>12, <1>13 DEF IInv, TimelyInv

-----------------------------------------------------------------------------
\* Every step keeps the invariant.
LEMMA NextInv == ASSUME IInv, [Next]_vars PROVE IInv'
<1>1. CASE UNCHANGED vars
  BY <1>1 DEF IInv, TypeOK, LoopOK, DataOK, ChipOK, DeviceOK, ResultOK, StageInv, Open,
              TimelyInv, ChipInv, SuccessInv, FifoInv, DeviceInv, WholeInv, PollInv,
              Answered, Succeeded, Held, Polling, Expected, Got
<1>2. CASE Waiting
  BY <1>2, WaitingInv
<1>3. CASE Expire \/ GiveUp
  BY <1>3, FailureInv
<1>4. CASE \E c \in Calls : Request(c)
  BY <1>4, CallInv
<1>5. CASE StageDone
  BY <1>5, StageDoneInv
<1>6. CASE ReadPacket
  BY <1>6, ReadPacketInv
<1>7. CASE InDone
  BY <1>7, InDoneInv
<1>8. CASE Restart
  BY <1>8, RestartInv
<1>9. CASE TakeSetup \/ Status \/ Refuse
  BY <1>9, AnswerInv
<1>10. CASE Sending
  BY <1>10, SendingInv
<1> QED BY <1>1, <1>2, <1>3, <1>4, <1>5, <1>6, <1>7, <1>8, <1>9, <1>10
        DEF Next, Firmware, Chip, Waiting, Sending

\* It holds in every behaviour.
LEMMA Inductive == Spec => []IInv
<1>1. Init => IInv
  BY InitInv
<1>2. IInv /\ [Next]_vars => IInv'
  BY NextInv
<1> QED BY <1>1, <1>2, PTL DEF Spec

\* The registers of the chip, the counters of a transfer and the buffers stay
\* within their ranges, whatever the bus loses.
THEOREM TypeCorrect == Spec => []TypeOK
<1>1. IInv => TypeOK
  BY DEF IInv
<1> QED BY <1>1, Inductive, PTL

\* XferDispatchPkt returns the result of the packet it launched, until a wait
\* has run into its deadline.
THEOREM OwnResults == Spec => []OwnResult
<1>1. IInv => OwnResult
  BY DEF IInv, TypeOK, ResultOK, TimelyInv, ChipInv, Answered, OwnResult
<1> QED BY <1>1, Inductive, PTL

\* XferCtrlReq returns 0 only when the device has done what it was asked, and
\* the data is whole.
THEOREM RequestsDone == Spec => []RequestDone
<1>1. IInv => RequestDone
  BY DEF IInv, TimelyInv, DeviceInv, WholeInv, Open, RequestDone
<1> QED BY <1>1, Inductive, PTL

\* The polls return the keyboard's reports in order, none lost, none twice.
THEOREM ReportsOrdered == Spec => []ReportsInOrder
<1>1. ASSUME IInv PROVE ReportsInOrder
  <2>1. SUFFICES ASSUME pc = "save", call = "poll", missed = 0
                 PROVE  buffer = << [of |-> "report", id |-> delivered + 1, size |-> 1] >>
    BY DEF ReportsInOrder
  <2>2. buffer \in Seq(Packet) /\ Len(buffer) = 1
        /\ buffer[1] = [of |-> "report", id |-> delivered + 1, size |-> 1]
    BY <1>1, <2>1 DEF IInv, TypeOK, DataOK, TimelyInv, PollInv, Polling, Open
  <2>3. buffer[1] \in Packet
    BY <2>2, ElementOfSeq
  <2> DEFINE s == << buffer[1] >>
  <2>4. s \in Seq(Packet) /\ Len(s) = 1 /\ s[1] = buffer[1]
    BY <2>3
  <2> HIDE DEF s
  <2>5. buffer = s
    BY <2>2, <2>4, SeqEqual
  <2> QED BY <2>2, <2>5 DEF s
<1> QED BY <1>1, Inductive, PTL

-----------------------------------------------------------------------------
(* The safety half of TransferEnds: what is left of a call. *)

\* The packets that it may still take, each with its number.
Stages == IF pc = "idle" THEN 0 ELSE IF pc = "save" THEN 2
          ELSE CASE stage = "SETUP" -> MaxData + 4
                 [] stage = "IN0"   -> 3 + MaxData - Len(buffer)
                 [] stage = "IN1"   -> 3
                 [] OTHER           -> 1

\* The attempts left to a packet, and the steps of one attempt.
Tries == (NakLimit - nak_count) + (RetryLimit - retry_count)
Place == CASE pc = "launch" -> 5 [] pc = "wait" -> 4 [] pc = "clear" -> 3
           [] pc = "result" -> 2 [] pc = "packet" -> 1 [] OTHER -> 0

Shorter == \/ Stages' \in Nat /\ Stages' < Stages
           \/ Stages' = Stages /\ Tries' \in Nat /\ Tries' < Tries
           \/ Stages' = Stages /\ Tries' = Tries /\ Place' \in Nat /\ Place' < Place

\* A call takes a bounded number of packets, each a bounded number of attempts: every
\* step of the firmware brings its end nearer, whatever the chip and the device
\* answer and however late.  Except a GET_DESCRIPTOR with a MaxPktSize of 0, which
\* comes out of a first one without data: a device may send it empty packets for ever
\* (XferDispatchPkt, XferInTransfer, XferCtrlReq).
CallShortens ==
    [][Open /\ ~Unsized =>
           Shorter \/ UNCHANGED <<pc, call, stage, nak_count, retry_count, buffer>>]_vars

\* What is left is a number.
LEMMA LeftIs ==
    ASSUME IInv, Open, ~Unsized
    PROVE  /\ Stages \in Nat /\ Stages > 0 /\ Tries \in Nat
           /\ pc # "save" /\ stage = "IN0" => Stages = 3 + MaxData - Len(buffer) /\ Stages > 3
           /\ pc # "save" /\ stage = "IN1" => Stages = 3
           /\ pc # "save" /\ stage = "SETUP" => Stages = MaxData + 4
<1>1. Len(buffer) \in Nat /\ Len(buffer) <= MaxData /\ stage \in Tokens
  BY DEF IInv, TypeOK, DataOK, LoopOK
<1>2. pc # "save" /\ stage = "IN0" => Len(buffer) < MaxData
  BY <1>1, Sizes DEF IInv, StageInv, Open, In
<1>3. Tries \in Nat
  BY DEF IInv, TypeOK, LoopOK, Tries
<1> QED BY <1>1, <1>2, <1>3 DEF Stages, Open

\* A call that returns has nothing left.
LEMMA ReturnShortens ==
    ASSUME IInv, Open, ~Unsized, NEW r, Return(r) PROVE Shorter
  BY LeftIs DEF Return, Stages, Shorter

\* A further attempt is one fewer.
LEMMA AgainShortens ==
    ASSUME IInv, ~Unsized, Again PROVE Shorter
<1>1. pc = "result" /\ pc' = "launch" /\ stage' = stage /\ buffer' = buffer
  BY DEF Again, AtResult
<1>2. Stages' = Stages
  BY <1>1 DEF Stages
<1>3. Tries' \in Nat /\ Tries' < Tries
  BY DEF IInv, TypeOK, LoopOK, Again, NakAgain, Retried, Tries
<1> QED BY <1>2, <1>3 DEF Shorter

\* So is a packet that is through.
LEMMA StageShortens ==
    ASSUME IInv, ~Unsized, StageDone PROVE Shorter
<1>1. pc = "result" /\ Open /\ buffer' = buffer /\ Len(buffer) \in Nat
  BY DEF StageDone, AtResult, Open, IInv, TypeOK, DataOK
<1>2. CASE pc' = "idle"
  BY <1>1, <1>2, LeftIs DEF Shorter, Stages
<1>3. CASE pc' = "packet"
  <2>1. UNCHANGED <<stage, nak_count, retry_count>>
    BY <1>3 DEF StageDone, Dispatch, Return
  <2>2. Stages' = Stages /\ Tries' = Tries
    BY <1>1, <1>3, <2>1 DEF Stages, Tries
  <2> QED BY <1>1, <1>3, <2>2 DEF Shorter, Place
<1>4. CASE pc' = "launch"
  <2>1. stage = "SETUP" /\ stage' \in {"IN0", "INHS"} /\ buffer = <<>>
    BY <1>1, <1>4 DEF StageDone, Dispatch, Return, IInv, StageInv
  <2>2. Stages' \in {1, 3 + MaxData}
    BY <1>1, <1>4, <2>1 DEF Stages
  <2>3. Stages = MaxData + 4
    BY <1>1, <2>1 DEF Stages
  <2> QED BY <2>2, <2>3 DEF Shorter
<1> QED BY <1>2, <1>3, <1>4 DEF StageDone, Dispatch, Return

\* A packet that is read fills the buffer, or ends the transfer.
LEMMA ReadShortens ==
    ASSUME IInv, ~Unsized, ReadPacket PROVE Shorter
<1>1. pc = "packet" /\ Open /\ stage \in In /\ Len(buffer) \in Nat /\ Len(buffer) <= MaxData
  BY DEF ReadPacket, Open, IInv, StageInv, TypeOK, DataOK
<1>2. Stages \in Nat /\ Stages >= 3
  BY <1>1, LeftIs DEF In
<1>3. CASE pc' = "save"
  BY <1>2, <1>3 DEF Shorter, Stages
<1>4. CASE pc' = "launch"
  <2>1. stage = "IN0" /\ stage' = "IN0" /\ Len(buffer') = Len(buffer) + 1
    <3>1. stage = "IN0" /\ stage' = "IN0" /\ call \in {"first", "get"}
      BY <1>1, <1>4, ReadIs DEF ReadPacket, Dispatch, IInv, StageInv, Open
    <3>2. maxpktsize[call] = 1
      <4>1. MaxPktSize \in 0..1
        BY DEF IInv, TypeOK, DataOK
      <4>2. call = "get" => MaxPktSize = 1
        BY <4>1 DEF Unsized
      <4> QED BY <3>1, <4>2, Sizes
    <3>3. fifo[1].size \in 0..1 /\ Head(fifo) = fifo[1]
      BY ReadIs DEF Packet
    <3>4. ~(fifo[1].size < 1)
      BY <1>4, <3>2, <3>3 DEF ReadPacket
    <3> QED BY <3>1, <3>3, <3>4, ReadIs
  <2>2. Len(buffer) < MaxData
    BY <1>1, <2>1, Sizes DEF IInv, StageInv, In
  <2> QED BY <1>1, <1>4, <2>1, <2>2 DEF Shorter, Stages
<1> QED BY <1>3, <1>4 DEF ReadPacket, Dispatch

\* Then only the status is missing.
LEMMA DoneShortens ==
    ASSUME IInv, ~Unsized, InDone PROVE Shorter
<1>1. pc = "save"
  BY DEF InDone
<1>2. CASE pc' = "idle"
  BY <1>1, <1>2 DEF Shorter, Stages
<1>3. CASE pc' = "launch" /\ stage' = "OUTHS"
  BY <1>1, <1>3 DEF Shorter, Stages
<1> QED BY <1>2, <1>3 DEF InDone, Return, Dispatch

\* Within an attempt the firmware goes on.
LEMMA AttemptShortens ==
    ASSUME IInv, Launch \/ Wait \/ Done PROVE Shorter
<1>1. /\ UNCHANGED <<stage, buffer, nak_count, retry_count>>
      /\ \/ pc = "launch" /\ pc' = "wait"
         \/ pc = "wait" /\ pc' = "clear"
         \/ pc = "clear" /\ pc' = "result"
  BY DEF Launch, Wait, Done
<1>2. Stages' = Stages /\ Tries' = Tries
  BY <1>1 DEF Stages, Tries
<1> QED BY <1>1, <1>2 DEF Shorter, Place

\* A call is over after a bounded number of the firmware's steps.
THEOREM CallsShorten == Spec => CallShortens
<1> DEFINE Still == UNCHANGED <<pc, call, stage, nak_count, retry_count, buffer>>
<1>1. ASSUME IInv, Next, Open, ~Unsized PROVE Shorter \/ Still
  <2>1. CASE Expire \/ GiveUp
    <3>1. PICK r : Return(r)
      BY <2>1 DEF Expire, GiveUp
    <3> QED BY <1>1, <3>1, ReturnShortens
  <2>2. CASE Launch \/ Wait \/ Done
    BY <1>1, <2>2, AttemptShortens
  <2>3. CASE Again \/ StageDone \/ ReadPacket \/ InDone
    BY <1>1, <2>3, AgainShortens, StageShortens, ReadShortens, DoneShortens
  <2>4. CASE Chip \/ Tick
    BY <2>4 DEF Chip, SendReport, SendData, TakeSetup, Status, Refuse, Receive, Complete, Tick
  <2>5. ~Restart /\ \A c \in Calls : ~Request(c)
    BY <1>1 DEF Restart, Request, Open
  <2> HIDE DEF Still
  <2> QED BY <1>1, <2>1, <2>2, <2>3, <2>4, <2>5 DEF Next, Firmware
<1>2. IInv /\ [Next]_vars => [Open /\ ~Unsized => Shorter \/ Still]_vars
  BY <1>1
<1> QED BY <1>2, Inductive, PTL DEF Spec, CallShortens
=============================================================================
