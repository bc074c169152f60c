--------------------------- MODULE JtagUartProofs ---------------------------
(***************************************************************************)
(* Theorems about the driver of the JTAG UART, for every size of the rings    *)
(* and of the hardware FIFOs, every timeout and every number of characters.   *)
(* The invariant behind them says what the locals of write and read still     *)
(* know of the rings, after any number of interrupts; with it each ring        *)
(* implements a bounded queue that loses, repeats and reorders nothing.        *)
(***************************************************************************)
EXTENDS JtagUart, SequenceTheorems, TLAPS

USE UartAssumption DEF UartAssumption, Index

\* There is a ring, and there are numbers.
LEMMA Positive == BufLen \in Nat \ {0} /\ Ids \in Nat \ {0}
  OBVIOUS

\* Within a turn above and a turn below, % adds or takes off one modulus.
LEMMA ModTurn ==
    ASSUME NEW b \in Nat \ {0}, NEW x \in Int, -b <= x, x < 2 * b
    PROVE  x % b = IF x < 0 THEN x + b ELSE IF x < b THEN x ELSE x - b
<1>1. x \div b \in Int /\ x % b \in 0..b-1 /\ x = b * (x \div b) + (x % b)
  OBVIOUS
<1>2. PICK q \in Int, r \in 0..b-1 : r = x % b /\ x = b * q + r
  BY <1>1
<1>3. (q >= 2 => b * q >= 2 * b) /\ (q <= -2 => b * q <= -2 * b)
  OBVIOUS
<1>4. q \in {-1, 0, 1}
  BY <1>2, <1>3
<1>5. r = IF x < 0 THEN x + b ELSE IF x < b THEN x ELSE x - b
  BY <1>2, <1>4
<1> QED BY <1>2, <1>5

\* The characters between two indices of a ring.
LEMMA UsedIs ==
    ASSUME NEW i \in Index, NEW o \in Index
    PROVE  Used(i, o) = IF i >= o THEN i - o ELSE i - o + BufLen
<1>1. PICK x \in Int : x = i - o /\ -BufLen <= x /\ x < 2 * BufLen
  OBVIOUS
<1>2. x % BufLen = IF x < 0 THEN x + BufLen ELSE IF x < BufLen THEN x ELSE x - BufLen
  BY <1>1, ModTurn, Positive
<1> QED BY <1>1, <1>2 DEF Used

\* The room between them: one place is always left free.
LEMMA FreeIs ==
    ASSUME NEW i \in Index, NEW o \in Index
    PROVE  Free(i, o) = BufLen - 1 - Used(i, o) /\ Used(i, o) \in Index
<1>1. PICK x \in Int : x = o - i - 1 /\ -BufLen <= x /\ x < 2 * BufLen
  OBVIOUS
<1>2. x % BufLen = IF x < 0 THEN x + BufLen ELSE IF x < BufLen THEN x ELSE x - BufLen
  BY <1>1, ModTurn, Positive
<1>3. Free(i, o) = IF i < o THEN o - i - 1 ELSE o - i - 1 + BufLen
  BY <1>1, <1>2 DEF Free
<1> QED BY <1>3, UsedIs

\* An index goes round at the end.
LEMMA AdvanceIs ==
    ASSUME NEW i \in Index, NEW k \in 0..BufLen
    PROVE  Advance(i, k) = IF i + k < BufLen THEN i + k ELSE i + k - BufLen
<1>1. PICK x \in Int : x = i + k /\ -BufLen <= x /\ x < 2 * BufLen
  OBVIOUS
<1>2. x % BufLen = IF x < 0 THEN x + BufLen ELSE IF x < BufLen THEN x ELSE x - BufLen
  BY <1>1, ModTurn, Positive
<1> QED BY <1>1, <1>2 DEF Advance

\* Characters put in before the outer index are that many more.
LEMMA PutIs ==
    ASSUME NEW i \in Index, NEW o \in Index, NEW k \in 0..BufLen, k <= Free(i, o)
    PROVE  Advance(i, k) \in Index /\ Used(Advance(i, k), o) = Used(i, o) + k
<1>1. Advance(i, k) \in Index
  BY AdvanceIs
<1>2. Used(Advance(i, k), o) = IF Advance(i, k) >= o THEN Advance(i, k) - o ELSE Advance(i, k) - o + BufLen
  BY <1>1, UsedIs
<1>3. Used(i, o) + k < BufLen
  BY FreeIs
<1>4. Advance(i, k) = IF i + k < BufLen THEN i + k ELSE i + k - BufLen
  BY AdvanceIs
<1>5. Used(i, o) = IF i >= o THEN i - o ELSE i - o + BufLen
  BY UsedIs
<1> QED BY <1>1, <1>2, <1>3, <1>4, <1>5

\* Characters taken out after it are that many fewer.
LEMMA TakeIs ==
    ASSUME NEW i \in Index, NEW o \in Index, NEW k \in 0..BufLen, k <= Used(i, o)
    PROVE  Advance(o, k) \in Index /\ Used(i, Advance(o, k)) = Used(i, o) - k
<1>1. Advance(o, k) \in Index
  BY AdvanceIs
<1>2. Used(i, Advance(o, k)) = IF i >= Advance(o, k) THEN i - Advance(o, k) ELSE i - Advance(o, k) + BufLen
  BY <1>1, UsedIs
<1>3. Advance(o, k) = IF o + k < BufLen THEN o + k ELSE o + k - BufLen
  BY AdvanceIs
<1>4. Used(i, o) = IF i >= o THEN i - o ELSE i - o + BufLen
  BY UsedIs
<1> QED BY <1>1, <1>2, <1>3, <1>4

\* A ring is empty when its indices meet.
LEMMA EmptyIs ==
    ASSUME NEW i \in Index, NEW o \in Index
    PROVE  Used(i, o) = 0 <=> i = o
  BY UsedIs

\* The room that write asks for is there, and does not go round the end.
LEMMA SpaceFits ==
    ASSUME NEW i \in Index, NEW o \in Index
    PROVE  Space(i, o) \in Index /\ Space(i, o) <= Free(i, o) /\ i + Space(i, o) <= BufLen
<1>1. Used(i, o) = IF i >= o THEN i - o ELSE i - o + BufLen
  BY UsedIs
<1>2. Free(i, o) = BufLen - 1 - Used(i, o)
  BY FreeIs
<1> QED BY <1>1, <1>2 DEF Space

\* The number of a character stays one.
LEMMA IdMod ==
    ASSUME NEW x \in 0..Ids-1, NEW k \in Nat PROVE (x + k) % Ids \in 0..Ids-1
<1>1. PICK y \in Int : y = x + k
  OBVIOUS
<1>2. y % Ids \in 0..Ids-1
  BY <1>1, Positive
<1> QED BY <1>1, <1>2

(* What write has sampled: its characters fit where the ring still has room,
   without going round its end. *)
TxLocal ==
    pc \in {"copy", "publish"} =>
        /\ in = tx_in /\ n <= count
        /\ n >= 1 /\ n <= Free(tx_in, tx_out) /\ in + n <= BufLen

(* What write has copied: the next characters, in their order. *)
Copied ==
    pc = "publish" => \A i \in Index : in <= i /\ i < in + n => tx_buf[i] = (wnext + i - in) % Ids

(* What read has sampled: its characters are still there. *)
RxLocal ==
    pc = "rcopy" => out = rx_out /\ n <= count /\ n >= 1 /\ n <= Used(rx_in, rx_out)

IInv == TypeOK /\ TxLocal /\ Copied /\ RxLocal /\ NothingStuck

-----------------------------------------------------------------------------
\* The driver starts with empty rings and the receive interrupt on.
LEMMA InitInv == Init => IInv
<1> SUFFICES ASSUME Init PROVE IInv
  OBVIOUS
<1>1. 0 \in Index /\ 0 \in 0..Ids-1
  OBVIOUS
<1>2. ProgramOK
  BY <1>1 DEF Init, ProgramOK
<1>3. RingsOK
  BY <1>1 DEF Init, RingsOK
<1>4. PortOK
  BY DEF Init, PortOK
<1>5. FlagsOK
  BY DEF Init, FlagsOK
<1>6. TxLocal /\ Copied /\ RxLocal /\ NothingStuck
  BY DEF Init, TxLocal, Copied, RxLocal, NothingStuck, NoStuckTx, NoStuckRx
<1> QED BY <1>2, <1>3, <1>4, <1>5, <1>6 DEF IInv, TypeOK

\* The host and the alarm change no more than the FIFOs and their own state.
LEMMA HostInv ==
    ASSUME IInv, HostTake \/ HostType \/ HostPoll \/ Alarm PROVE IInv'
<1> USE DEF IInv, TypeOK
<1>1. UNCHANGED <<pc, locals, ret, tx, rx, ends, irq_enable>>
  BY DEF HostTake, HostType, HostPoll, Alarm
<1>2. ProgramOK' /\ RingsOK'
  BY <1>1 DEF ProgramOK, RingsOK, locals, tx, rx, ends
<1>3. PortOK'
  <2>1. CASE HostTake
    BY <2>1 DEF PortOK, HostTake
  <2>2. CASE HostType
    BY <2>2 DEF PortOK, HostType
  <2>3. CASE HostPoll
    BY <2>3 DEF PortOK, HostPoll
  <2>4. CASE Alarm
    BY <2>4 DEF PortOK, Alarm
  <2> QED BY <2>1, <2>2, <2>3, <2>4
<1>4. TxLocal' /\ Copied' /\ RxLocal' /\ NothingStuck'
  BY <1>1 DEF TxLocal, Copied, RxLocal, NothingStuck, NoStuckTx, NoStuckRx, locals, tx, rx, ends, Free, Used
<1>5. FlagsOK'
  BY <1>1 DEF FlagsOK, locals, HostTake, HostType, HostPoll, Alarm
<1> QED BY <1>2, <1>3, <1>4, <1>5

\* The receiving half of the handler: it leaves the interrupt on, or a full ring.
LEMMA IsrReceiveInv == ASSUME IInv, IsrReceive PROVE IInv'
<1> USE DEF IInv, TypeOK
<1> DEFINE k == Least(RxFree, rxfifo)
<1>0. rx_in \in Index /\ rx_out \in Index /\ rxfifo \in 1..ReadDepth 
      /\ irq_enable \subseteq {"RE", "WE"} /\ inext \in 0..Ids-1
  BY DEF RingsOK, PortOK, IsrReceive
<1>1. RxFree = BufLen - 1 - Used(rx_in, rx_out) /\ Used(rx_in, rx_out) \in Index
  BY <1>0, FreeIs DEF RxFree
<1>2. k \in 0..BufLen-1 /\ k <= rxfifo /\ k <= RxFree /\ (k < rxfifo => k = RxFree)
  BY <1>0, <1>1 DEF Least
<1>3. rx_in' = Advance(rx_in, k) /\ rxfifo' = rxfifo - k /\ rx_out' = rx_out
      /\ inext' = (inext + k) % Ids
      /\ irq_enable' = (IF rxfifo' > 0 THEN irq_enable \ {"RE"} ELSE irq_enable)
      /\ UNCHANGED <<pc, locals, ret, tx, ends, host_inactive, timeout, ac, txfifo>>
  BY DEF IsrReceive, ends
<1>4. rx_in' \in Index /\ Used(rx_in', rx_out') = Used(rx_in, rx_out) + k
  BY <1>0, <1>2, <1>3, PutIs DEF RxFree
<1>5. ProgramOK'
  BY <1>3 DEF ProgramOK, locals
<1>6. RingsOK'
  <2>1. inext' \in 0..Ids-1
    BY <1>0, <1>2, <1>3, IdMod, k \in Nat
  <2>2. rx_buf' \in [Index -> 0..Ids-1]
    <3>1. ASSUME NEW i \in Index PROVE (inext + Used(i, rx_in)) % Ids \in 0..Ids-1
      <4>1. Used(i, rx_in) \in Nat
        BY <1>0, FreeIs
      <4> QED BY <1>0, <4>1, IdMod
    <3> QED BY <1>0, <3>1 DEF IsrReceive, RingsOK, Used
  <2> QED BY <2>1, <2>2, <1>3, <1>4 DEF RingsOK, tx, ends
<1>7. PortOK' /\ FlagsOK'
  BY <1>0, <1>2, <1>3 DEF PortOK, FlagsOK, locals
<1>8. TxLocal' /\ Copied' /\ NoStuckTx'
  BY <1>3 DEF TxLocal, Copied, NothingStuck, NoStuckTx, locals, tx, ends, Free, Used
<1>9. RxLocal'
  BY <1>0, <1>1, <1>2, <1>3, <1>4 DEF RxLocal, ProgramOK, locals, ends
<1>10. NoStuckRx'
  <2>1. CASE rxfifo' > 0
    <3>1. Used(rx_in', rx_out') = BufLen - 1
      BY <2>1, <1>0, <1>1, <1>2, <1>3, <1>4
    <3>2. rx_in' # rx_out'
      BY <3>1, <1>0, <1>3, <1>4, EmptyIs
    <3> QED BY <3>2 DEF NoStuckRx
  <2>2. CASE ~(rxfifo' > 0)
    BY <2>2, <1>3 DEF IsrReceive, NoStuckRx
  <2> QED BY <2>1, <2>2
<1> QED BY <1>5, <1>6, <1>7, <1>8, <1>9, <1>10 DEF NothingStuck

\* The sending half: it turns the interrupt off when it has emptied the ring.
LEMMA IsrTransmitInv == ASSUME IInv, IsrTransmit PROVE IInv'
<1> USE DEF IInv, TypeOK
<1> DEFINE space == WriteDepth - txfifo
<1> DEFINE k == Least(space, Used(tx_in, tx_out))
<1>1. /\ tx_in \in Index /\ tx_out \in Index /\ tnext \in 0..Ids-1
      /\ txfifo \in 0..WriteDepth-1 /\ irq_enable \subseteq {"RE", "WE"}
  <2>1. tx_in \in Index /\ tx_out \in Index /\ tnext \in 0..Ids-1
    BY DEF RingsOK
  <2>2. txfifo \in 0..WriteDepth-1 /\ irq_enable \subseteq {"RE", "WE"}
    BY DEF PortOK, IsrTransmit
  <2> QED BY <2>1, <2>2
<1>2. Used(tx_in, tx_out) \in Index
  BY <1>1, FreeIs
<1>3. k \in 0..BufLen-1 /\ k <= space /\ k <= Used(tx_in, tx_out)
      /\ (k < space => k = Used(tx_in, tx_out))
  BY <1>1, <1>2 DEF Least
<1>4. tx_out' = Advance(tx_out, k) /\ tnext' = (tnext + k) % Ids /\ txfifo' = txfifo + k
      /\ irq_enable' = (IF k < space THEN irq_enable \ {"WE"} ELSE irq_enable)
      /\ UNCHANGED <<pc, locals, ret, tx, rx, rx_out, rnext, host_inactive, timeout, ac, rxfifo>>
  BY DEF IsrTransmit
<1>5. tx_out' \in Index /\ Used(tx_in, tx_out') = Used(tx_in, tx_out) - k
  BY <1>1, <1>3, <1>4, TakeIs
<1>6. ProgramOK' /\ FlagsOK'
  BY <1>4 DEF ProgramOK, FlagsOK, locals
<1>7. RingsOK'
  <2>1. tnext' \in 0..Ids-1
    BY <1>1, <1>3, <1>4, IdMod, k \in Nat
  <2> QED BY <2>1, <1>4, <1>5 DEF RingsOK, tx, rx
<1>8. PortOK'
  BY <1>1, <1>3, <1>4 DEF PortOK
<1>9. TxLocal'
  <2>1. Free(tx_in, tx_out) = BufLen - 1 - Used(tx_in, tx_out)
    BY <1>1, FreeIs
  <2>2. Free(tx_in, tx_out') = BufLen - 1 - Used(tx_in, tx_out')
    BY <1>1, <1>5, FreeIs
  <2>3. n <= Free(tx_in, tx_out) => n <= Free(tx_in, tx_out')
    BY <2>1, <2>2, <1>2, <1>3, <1>5 DEF ProgramOK
  <2> QED BY <2>3, <1>4 DEF TxLocal, ProgramOK, locals, tx
<1>10. Copied' /\ RxLocal' /\ NoStuckRx'
  BY <1>4 DEF Copied, RxLocal, NothingStuck, NoStuckRx, locals, tx, rx, Used
<1>11. NoStuckTx'
  <2>1. CASE k < space
    <3>1. Used(tx_in, tx_out') = 0
      BY <2>1, <1>2, <1>3, <1>5
    <3>2. tx_in = tx_out'
      BY <3>1, <1>1, <1>5, EmptyIs
    <3> QED BY <3>2, <1>4 DEF NoStuckTx, tx
  <2>2. CASE ~(k < space)
    BY <2>2, <1>4 DEF IsrTransmit, NoStuckTx
  <2> QED BY <2>1, <2>2
<1> QED BY <1>6, <1>7, <1>8, <1>9, <1>10, <1>11 DEF NothingStuck

-----------------------------------------------------------------------------
\* A call starts with what it was given, and changes nothing else.
LEMMA CallInv == ASSUME IInv, Write \/ Read \/ Close PROVE IInv'
<1> USE DEF IInv, TypeOK
<1>1. /\ pc = "run" /\ pc' \in {"sample", "rsample", "close"}
      /\ UNCHANGED <<in, out, n, tx, rx, ends, irq_enable, host>>
  BY DEF Write, Read, Close, Call, Step
<1>2. ProgramOK'
  BY <1>1 DEF ProgramOK, Write, Read, Close, Call, WritePcs, ReadPcs
<1>3. RingsOK' /\ PortOK'
  BY <1>1 DEF RingsOK, PortOK, tx, rx, ends, host
<1>4. FlagsOK'
  BY <1>1 DEF FlagsOK, Write, Read, Close, Call, host
<1>5. TxLocal' /\ Copied' /\ RxLocal' /\ NothingStuck'
  BY <1>1 DEF TxLocal, Copied, RxLocal, NothingStuck, NoStuckTx, NoStuckRx, tx, rx, ends, ReadPcs
<1> QED BY <1>2, <1>3, <1>4, <1>5

\* TIOCSTIMEOUT keeps the timeout in its range.
LEMMA TimeoutInv == ASSUME IInv, NEW t \in {0, Timeout}, SetTimeout(t) PROVE IInv'
<1> USE DEF IInv, TypeOK
<1>1. UNCHANGED <<pc, locals, ret, tx, rx, ends, irq_enable, host_inactive, ac, txfifo, rxfifo>>
  BY DEF SetTimeout
<1>2. timeout' \in 2..IntMax
  BY DEF SetTimeout
<1>3. ProgramOK' /\ RingsOK' /\ PortOK'
  BY <1>1, <1>2 DEF ProgramOK, RingsOK, PortOK, locals, tx, rx, ends
<1>4. FlagsOK'
  BY <1>1 DEF FlagsOK, locals
<1>5. TxLocal' /\ Copied' /\ RxLocal' /\ NothingStuck'
  BY <1>1 DEF TxLocal, Copied, RxLocal, NothingStuck, NoStuckTx, NoStuckRx, locals, tx, rx, ends, Free, Used
<1> QED BY <1>3, <1>4, <1>5

\* A call that returns leaves the locals as a call finds them.
LEMMA ReturnInv ==
    ASSUME ProgramOK, FlagsOK, NEW r \in {"ok", "EWOULDBLOCK", "EIO"}, Return(r), ac' = ac
    PROVE  ProgramOK' /\ FlagsOK' /\ pc' = "run"
<1>1. 0 \in Index /\ 0 \in 0..MaxCount
  OBVIOUS
<1>2. ProgramOK'
  BY <1>1 DEF ProgramOK, Return, Cleared
<1>3. FlagsOK'
  BY DEF FlagsOK, Return
<1> QED BY <1>2, <1>3 DEF Return

-----------------------------------------------------------------------------
\* write samples the ring: the room it counts on is there.
LEMMA SampleInv == ASSUME IInv, Sample PROVE IInv'
<1> USE DEF IInv, TypeOK
<1>1. /\ pc = "sample" /\ pc' \in {"kick", "copy"}
      /\ UNCHANGED <<count, any, nonblock, ret, tx, rx, ends, irq_enable, host>>
  BY DEF Sample
<1>2. tx_in \in Index /\ tx_out \in Index /\ count \in 0..MaxCount
  BY DEF RingsOK, ProgramOK
<1>3. /\ Space(tx_in, tx_out) \in Index /\ Space(tx_in, tx_out) <= Free(tx_in, tx_out)
      /\ tx_in + Space(tx_in, tx_out) <= BufLen /\ Free(tx_in, tx_out) \in Int
  <2>1. Free(tx_in, tx_out) = BufLen - 1 - Used(tx_in, tx_out) /\ Used(tx_in, tx_out) \in Index
    BY <1>2, FreeIs
  <2> QED BY <1>2, <2>1, SpaceFits
<1>4. CASE count = 0
  <2>1. pc' = "kick" /\ UNCHANGED <<in, out, n>>
    BY <1>4 DEF Sample
  <2>2. ProgramOK'
    BY <1>1, <2>1 DEF ProgramOK, WritePcs
  <2>3. TxLocal' /\ Copied' /\ RxLocal' /\ NothingStuck'
    BY <1>1, <2>1 DEF TxLocal, Copied, RxLocal, NothingStuck, NoStuckTx, NoStuckRx, rx, ends, ReadPcs
  <2>4. RingsOK' /\ PortOK'
    BY <1>1 DEF RingsOK, PortOK, tx, rx, ends, host
  <2>5. FlagsOK'
    BY <1>1 DEF FlagsOK, host
  <2> QED BY <2>2, <2>3, <2>4, <2>5
<1>5. CASE count # 0
  <2>1. in' = tx_in /\ out' = tx_out /\ n' = Least(Space(tx_in, tx_out), count)
        /\ pc' = (IF n' = 0 THEN "kick" ELSE "copy")
    BY <1>5 DEF Sample
  <2>2. n' \in Index /\ n' <= count /\ n' <= Free(tx_in, tx_out) /\ tx_in + n' <= BufLen
    BY <2>1, <1>2, <1>3 DEF Least
  <2>3. ProgramOK'
    BY <1>1, <1>2, <2>1, <2>2 DEF ProgramOK, WritePcs
  <2>4. TxLocal'
    BY <1>1, <2>1, <2>2 DEF TxLocal, tx, ends
  <2>5. Copied' /\ RxLocal' /\ NothingStuck'
    BY <1>1 DEF Copied, RxLocal, NothingStuck, NoStuckTx, NoStuckRx, rx, ends, ReadPcs
  <2>6. RingsOK' /\ PortOK'
    BY <1>1 DEF RingsOK, PortOK, tx, rx, ends, host
  <2>7. FlagsOK'
    BY <1>1 DEF FlagsOK, host
  <2> QED BY <2>3, <2>4, <2>5, <2>6, <2>7
<1> QED BY <1>4, <1>5

\* write copies into the places it has sampled.
LEMMA CopyInv == ASSUME IInv, Copy PROVE IInv'
<1> USE DEF IInv, TypeOK
<1>1. /\ pc = "copy" /\ pc' = "publish"
      /\ tx_buf' = [i \in Index |-> IF i \in in..in+n-1 THEN (wnext + i - in) % Ids ELSE tx_buf[i]]
      /\ UNCHANGED <<locals, ret, tx_in, wnext, rx, ends, irq_enable, host>>
  BY DEF Copy, Step
<1>2. in \in Index /\ n \in Index /\ wnext \in 0..Ids-1
  BY DEF RingsOK, ProgramOK
<1>3. ASSUME NEW i \in in..in+n-1 PROVE (wnext + i - in) % Ids \in 0..Ids-1
  <2>1. PICK d \in Nat : d = i - in
    BY <1>2
  <2>2. (wnext + d) % Ids \in 0..Ids-1
    BY <1>2, IdMod
  <2>3. wnext + i - in = wnext + d
    BY <1>2, <2>1
  <2> QED BY <2>2, <2>3
<1>4. ProgramOK'
  BY <1>1 DEF ProgramOK, WritePcs, locals
<1>5. RingsOK'
  BY <1>1, <1>2, <1>3 DEF RingsOK, rx, ends
<1>6. PortOK' /\ FlagsOK'
  BY <1>1 DEF PortOK, FlagsOK, host, locals
<1>7. TxLocal' /\ RxLocal' /\ NothingStuck'
  BY <1>1 DEF TxLocal, RxLocal, NothingStuck, NoStuckTx, NoStuckRx, locals, rx, ends, ReadPcs, Free, Used
<1>8. Copied'
  BY <1>1, <1>2 DEF Copied, locals
<1> QED BY <1>4, <1>5, <1>6, <1>7, <1>8

\* write publishes them.
LEMMA PublishInv == ASSUME IInv, Publish PROVE IInv'
<1> USE DEF IInv, TypeOK
<1>1. /\ pc = "publish" /\ pc' = "sample"
      /\ tx_in' = Advance(in, n) /\ wnext' = (wnext + n) % Ids
      /\ in' = 0 /\ out' = 0 /\ n' = 0 /\ count' = count - n /\ any' = TRUE
      /\ UNCHANGED <<nonblock, ret, tx_buf, rx, ends, irq_enable, host>>
  BY DEF Publish, Step, Cleared
<1>2. in \in Index /\ n \in Index /\ n <= count /\ count \in 0..MaxCount /\ wnext \in 0..Ids-1
  BY <1>1 DEF RingsOK, ProgramOK, TxLocal
<1>3. tx_in' \in Index /\ wnext' \in 0..Ids-1
  <2>1. tx_in' = IF in + n < BufLen THEN in + n ELSE in + n - BufLen
    BY <1>1, <1>2, AdvanceIs
  <2>2. (wnext + n) % Ids \in 0..Ids-1
    BY <1>2, IdMod, n \in Nat
  <2> QED BY <1>1, <1>2, <2>1, <2>2
<1>4. ProgramOK'
  BY <1>1, <1>2 DEF ProgramOK, WritePcs
<1>5. RingsOK'
  BY <1>1, <1>3 DEF RingsOK, rx, ends
<1>6. PortOK'
  BY <1>1 DEF PortOK, host
<1>7. FlagsOK'
  BY <1>1 DEF FlagsOK, host
<1>8. TxLocal' /\ Copied' /\ RxLocal' /\ NothingStuck'
  BY <1>1 DEF TxLocal, Copied, RxLocal, NothingStuck, NoStuckTx, NoStuckRx, rx, ends, ReadPcs
<1> QED BY <1>4, <1>5, <1>6, <1>7, <1>8

\* write turns the transmit interrupt on before it waits or returns.
LEMMA KickInv == ASSUME IInv, Kick PROVE IInv'
<1> USE DEF IInv, TypeOK
<1>1. /\ pc = "kick" /\ irq_enable' = irq_enable \cup {"WE"}
      /\ UNCHANGED <<tx, rx, ends, host>>
  BY DEF Kick, Kicked
<1>2. ProgramOK' /\ FlagsOK' /\ pc' \in {"run", "wait"}
  <2>1. CASE Return(Result)
    BY <2>1, <1>1, ReturnInv DEF Result, host
  <2>2. CASE pc' = "wait" /\ UNCHANGED <<locals, ret>>
    <3>1. ProgramOK'
      BY <2>2 DEF ProgramOK, WritePcs, locals
    <3>2. FlagsOK'
      BY <2>2, <1>1 DEF FlagsOK, locals, host
    <3> QED BY <3>1, <3>2, <2>2
  <2> QED BY <2>1, <2>2 DEF Kick
<1>3. RingsOK' /\ PortOK'
  BY <1>1 DEF RingsOK, PortOK, tx, rx, ends, host
<1>4. TxLocal' /\ Copied' /\ RxLocal' /\ NothingStuck'
  BY <1>1, <1>2 DEF TxLocal, Copied, RxLocal, NothingStuck, NoStuckTx, NoStuckRx, rx, ends, ReadPcs
<1> QED BY <1>2, <1>3, <1>4

\* write waits, and then looks whether a host is there.
LEMMA WaitInv == ASSUME IInv, Wait \/ Check PROVE IInv'
<1> USE DEF IInv, TypeOK
<1>1. /\ pc \in {"wait", "check"}
      /\ UNCHANGED <<tx, rx, ends, irq_enable, host>>
  BY DEF Wait, Check, Step
<1>2. ProgramOK' /\ FlagsOK' /\ pc' \in {"run", "check", "sample"}
  <2>1. CASE Return(Result)
    BY <2>1, <1>1, ReturnInv DEF Result, host
  <2>2. CASE pc' \in {"check", "sample"} /\ UNCHANGED <<locals, ret>>
    <3>1. ProgramOK'
      BY <2>2 DEF ProgramOK, WritePcs, locals
    <3>2. FlagsOK'
      BY <2>2, <1>1 DEF FlagsOK, locals, host
    <3> QED BY <3>1, <3>2, <2>2
  <2> QED BY <2>1, <2>2 DEF Wait, Check, Step
<1>3. RingsOK' /\ PortOK'
  BY <1>1 DEF RingsOK, PortOK, tx, rx, ends, host
<1>4. TxLocal' /\ Copied' /\ RxLocal' /\ NothingStuck'
  BY <1>1, <1>2 DEF TxLocal, Copied, RxLocal, NothingStuck, NoStuckTx, NoStuckRx, tx, rx, ends, ReadPcs
<1> QED BY <1>2, <1>3, <1>4

-----------------------------------------------------------------------------
\* The steps of read that change only where it stands.
LEMMA ReadWaitInv == ASSUME IInv, ReadNothing \/ ReadWait PROVE IInv'
<1> USE DEF IInv, TypeOK
<1>1. /\ pc \in {"rsample", "rwait"} /\ pc' \in {"rsample", "renable"}
      /\ UNCHANGED <<locals, ret, tx, rx, ends, irq_enable, host>>
  BY DEF ReadNothing, ReadWait, Step
<1>2. ProgramOK'
  BY <1>1 DEF ProgramOK, ReadPcs, locals
<1>3. RingsOK' /\ PortOK'
  BY <1>1 DEF RingsOK, PortOK, tx, rx, ends, host
<1>4. FlagsOK'
  BY <1>1 DEF FlagsOK, locals, host
<1>5. TxLocal' /\ Copied' /\ RxLocal' /\ NothingStuck'
  BY <1>1 DEF TxLocal, Copied, RxLocal, NothingStuck, NoStuckTx, NoStuckRx, locals, tx, rx, ends, ReadPcs
<1> QED BY <1>2, <1>3, <1>4, <1>5

\* read samples the ring: the characters it counts on are there.
LEMMA ReadSampleInv == ASSUME IInv, ReadSample PROVE IInv'
<1> USE DEF IInv, TypeOK
<1> DEFINE have == IF rx_in >= rx_out THEN rx_in - rx_out ELSE BufLen - rx_out
<1>1. /\ pc = "rsample" /\ pc' \in {"rcopy", "renable", "rwait"}
      /\ in' = rx_in /\ out' = rx_out /\ n' = Least(have, count)
      /\ pc' = "rcopy" => n' > 0
      /\ UNCHANGED <<count, any, nonblock, ret, tx, rx, ends, irq_enable, host>>
  BY DEF ReadSample
<1>2. rx_in \in Index /\ rx_out \in Index /\ count \in 0..MaxCount
  BY DEF RingsOK, ProgramOK
<1>3. have \in Index /\ have <= Used(rx_in, rx_out)
  <2>1. Used(rx_in, rx_out) = IF rx_in >= rx_out THEN rx_in - rx_out ELSE rx_in - rx_out + BufLen
    BY <1>2, UsedIs
  <2> QED BY <1>2, <2>1
<1>4. n' \in Index /\ n' <= count /\ n' <= Used(rx_in, rx_out)
  <2>1. Used(rx_in, rx_out) \in Index
    BY <1>2, FreeIs
  <2> HIDE DEF have
  <2> QED BY <1>1, <1>2, <1>3, <2>1 DEF Least
<1>5. ProgramOK'
  BY <1>1, <1>2, <1>4 DEF ProgramOK, ReadPcs
<1>6. RingsOK' /\ PortOK'
  BY <1>1 DEF RingsOK, PortOK, tx, rx, ends, host
<1>7. FlagsOK'
  BY <1>1 DEF FlagsOK, host
<1>8. RxLocal'
  <2>1. pc' = "rcopy" => n' >= 1
    BY <1>1, <1>4
  <2> QED BY <2>1, <1>1, <1>4 DEF RxLocal, rx, ends
<1>9. TxLocal' /\ Copied' /\ NothingStuck'
  BY <1>1 DEF TxLocal, Copied, NothingStuck, NoStuckTx, NoStuckRx, tx, rx, ends, ReadPcs
<1> QED BY <1>5, <1>6, <1>7, <1>8, <1>9

\* read takes them.
LEMMA ReadCopyInv == ASSUME IInv, ReadCopy PROVE IInv'
<1> USE DEF IInv, TypeOK
<1>1. /\ pc = "rcopy" /\ pc' \in {"rsample", "renable"}
      /\ rx_out' = Advance(out, n) /\ rnext' = (rnext + n) % Ids
      /\ in' = 0 /\ out' = 0 /\ n' = 0 /\ count' = count - n /\ any' = TRUE
      /\ UNCHANGED <<nonblock, ret, tx, rx, tx_out, tnext, irq_enable, host>>
  BY DEF ReadCopy, Cleared
<1>2. out \in Index /\ n \in Index /\ n <= count /\ count \in 0..MaxCount /\ rnext \in 0..Ids-1
  BY <1>1 DEF RingsOK, ProgramOK, RxLocal
<1>3. rx_out' \in Index /\ rnext' \in 0..Ids-1
  <2>1. rx_out' = IF out + n < BufLen THEN out + n ELSE out + n - BufLen
    BY <1>1, <1>2, AdvanceIs
  <2>2. (rnext + n) % Ids \in 0..Ids-1
    BY <1>2, IdMod, n \in Nat
  <2> QED BY <1>1, <1>2, <2>1, <2>2
<1>4. ProgramOK'
  BY <1>1, <1>2 DEF ProgramOK, ReadPcs
<1>5. RingsOK'
  BY <1>1, <1>3 DEF RingsOK, tx, rx
<1>6. PortOK'
  BY <1>1 DEF PortOK, host
<1>7. FlagsOK'
  BY <1>1 DEF FlagsOK, host
<1>8. TxLocal' /\ Copied' /\ RxLocal' /\ NothingStuck'
  BY <1>1 DEF TxLocal, Copied, RxLocal, NothingStuck, NoStuckTx, NoStuckRx, tx, rx, ReadPcs
<1> QED BY <1>4, <1>5, <1>6, <1>7, <1>8

\* read turns the receive interrupt on before it returns, if it took anything.
LEMMA ReadEndInv == ASSUME IInv, ReadEnd PROVE IInv'
<1> USE DEF IInv, TypeOK
<1>1. /\ pc = "renable" /\ irq_enable' = (IF any THEN irq_enable \cup {"RE"} ELSE irq_enable)
      /\ Return(Result) /\ UNCHANGED <<tx, rx, ends, host>>
  BY DEF ReadEnd, Enabled
<1>2. ProgramOK' /\ FlagsOK' /\ pc' = "run"
  BY <1>1, ReturnInv DEF Result, host
<1>3. RingsOK' /\ PortOK'
  BY <1>1 DEF RingsOK, PortOK, tx, rx, ends, host
<1>4. TxLocal' /\ Copied' /\ RxLocal' /\ NothingStuck'
  BY <1>1, <1>2 DEF TxLocal, Copied, RxLocal, NothingStuck, NoStuckTx, NoStuckRx, tx, rx, ends, ReadPcs
<1> QED BY <1>2, <1>3, <1>4

\* close changes nothing.
LEMMA CloseEndInv == ASSUME IInv, CloseEnd PROVE IInv'
<1> USE DEF IInv, TypeOK
<1>1. pc = "close" /\ UNCHANGED <<tx, rx, ends, irq_enable, host>>
  BY DEF CloseEnd
<1>2. ProgramOK' /\ FlagsOK' /\ pc' = "run"
  BY <1>1, ReturnInv DEF CloseEnd, host
<1>3. RingsOK' /\ PortOK'
  BY <1>1 DEF RingsOK, PortOK, tx, rx, ends, host
<1>4. TxLocal' /\ Copied' /\ RxLocal' /\ NothingStuck'
  BY <1>1, <1>2 DEF TxLocal, Copied, RxLocal, NothingStuck, NoStuckTx, NoStuckRx, tx, rx, ends, ReadPcs
<1> QED BY <1>2, <1>3, <1>4

\* Every step of the program, the handler, the alarm and the host keeps the
\* invariant.
LEMMA NextInv == ASSUME IInv, [Next]_vars PROVE IInv'
<1>1. CASE Write \/ Read \/ Close
  BY <1>1, CallInv
<1>2. CASE WriteSteps
  BY <1>2, SampleInv, CopyInv, PublishInv, KickInv, WaitInv DEF WriteSteps
<1>3. CASE ReadSteps
  BY <1>3, ReadWaitInv, ReadSampleInv, ReadCopyInv, ReadEndInv DEF ReadSteps
<1>4. CASE CloseEnd
  BY <1>4, CloseEndInv
<1>5. CASE \E t \in {0, Timeout} : SetTimeout(t)
  BY <1>5, TimeoutInv
<1>6. CASE Isr
  BY <1>6, IsrReceiveInv, IsrTransmitInv DEF Isr
<1>7. CASE Alarm \/ HostTake \/ HostType \/ HostPoll
  BY <1>7, HostInv
<1>8. CASE UNCHANGED vars
  <2>1. UNCHANGED <<pc, locals, ret, tx, rx, ends, irq_enable, host>>
    BY <1>8 DEF vars
  <2>2. ProgramOK' /\ RingsOK' /\ PortOK'
    BY <2>1 DEF IInv, TypeOK, ProgramOK, RingsOK, PortOK, locals, tx, rx, ends, host
  <2>3. FlagsOK'
    BY <2>1 DEF IInv, TypeOK, FlagsOK, locals, host
  <2>4. TxLocal' /\ Copied' /\ RxLocal' /\ NothingStuck'
    BY <2>1 DEF IInv, TxLocal, Copied, RxLocal, NothingStuck, NoStuckTx, NoStuckRx, locals, tx, rx, ends,
               Free, Used
  <2> QED BY <2>2, <2>3, <2>4 DEF IInv, TypeOK
<1> QED BY <1>1, <1>2, <1>3, <1>4, <1>5, <1>6, <1>7, <1>8 DEF Next

\* The invariant holds for ever.
LEMMA Inductive == Spec => []IInv
<1>1. Init => IInv
  BY InitInv
<1>2. IInv /\ [Next]_vars => IInv'
  BY NextInv
<1> QED BY <1>1, <1>2, PTL DEF Spec

\* Indices, counts and characters stay in their ranges, for rings of every size.
THEOREM TypeCorrect == Spec => []TypeOK
<1>1. IInv => TypeOK
  BY DEF IInv
<1> QED BY <1>1, Inductive, PTL

\* No character is left behind with its interrupt off, whatever program,
\* handler and host interleave.
THEOREM NoneStuck == Spec => []NothingStuck
<1>1. IInv => NothingStuck
  BY DEF IInv
<1> QED BY <1>1, Inductive, PTL

-----------------------------------------------------------------------------
(* The refinement: the driver implements CharPipe twice, both rings are       *)
(* bounded queues. What is needed of the driver beyond its invariant is that   *)
(* a copy goes to places outside the queue, and an index moves after the copy. *)

Chars == 0..Ids-1
Ring  == [Index -> Chars]

\* The j-th place after an index.
LEMMA PlaceIs ==
    ASSUME NEW o \in Index, NEW j \in 1..BufLen
    PROVE  (o + j - 1) % BufLen = IF o + j - 1 < BufLen THEN o + j - 1 ELSE o + j - 1 - BufLen
<1>1. PICK x \in Int : x = o + j - 1 /\ -BufLen <= x /\ x < 2 * BufLen
  OBVIOUS
<1>2. x % BufLen = IF x < 0 THEN x + BufLen ELSE IF x < BufLen THEN x ELSE x - BufLen
  BY <1>1, ModTurn, Positive
<1> QED BY <1>1, <1>2

\* It is in the ring, and as many places after the index.
LEMMA PlaceUsed ==
    ASSUME NEW o \in Index, NEW j \in 1..BufLen
    PROVE  (o + j - 1) % BufLen \in Index /\ Used((o + j - 1) % BufLen, o) = j - 1
<1>1. PICK x \in Int : x = (o + j - 1) % BufLen
  BY PlaceIs
<1>2. x = IF o + j - 1 < BufLen THEN o + j - 1 ELSE o + j - 1 - BufLen
  BY <1>1, PlaceIs
<1>3. x \in Index
  BY <1>2
<1>4. Used(x, o) = IF x >= o THEN x - o ELSE x - o + BufLen
  BY <1>3, UsedIs
<1> QED BY <1>1, <1>2, <1>3, <1>4

\* The content of a ring is a sequence of characters.
LEMMA ContentIs ==
    ASSUME NEW buf \in Ring, NEW i \in Index, NEW o \in Index
    PROVE  /\ Content(buf, i, o) \in Seq(Chars)
           /\ Len(Content(buf, i, o)) = Used(i, o) /\ Used(i, o) \in Index
           /\ \A j \in 1..Used(i, o) : Content(buf, i, o)[j] = buf[(o + j - 1) % BufLen]
<1>1. PICK u \in Index : u = Used(i, o)
  BY FreeIs
<1>2. \A j \in 1..u : buf[(o + j - 1) % BufLen] \in Chars
  BY <1>1, PlaceUsed DEF Ring
<1>3. Content(buf, i, o) = [j \in 1..u |-> buf[(o + j - 1) % BufLen]]
  BY <1>1 DEF Content
<1> QED BY <1>1, <1>2, <1>3

\* What is in the ring is left alone, and characters are in the places after it.
LeftAlone(buf, buf2, i, o) == \A x \in Index : Used(x, o) < Used(i, o) => buf2[x] = buf[x]
Written(buf2, i, k, last)  == \A j \in 1..k : buf2[(i + j - 1) % BufLen] = (last + j - 1) % Ids

\* Characters with consecutive numbers.
Run(last, k) == [j \in 1..k |-> (last + j - 1) % Ids]

\* Characters written before the outer index are appended to the content, if
\* what is there already is left alone.
LEMMA PutContent ==
    ASSUME NEW buf \in Ring, NEW buf2 \in Ring, NEW i \in Index, NEW o \in Index,
           NEW k \in 1..BufLen, k <= Free(i, o), NEW last \in Chars,
           LeftAlone(buf, buf2, i, o), Written(buf2, i, k, last)
    PROVE  Content(buf2, Advance(i, k), o) = Content(buf, i, o) \o Run(last, k)
<1>3. PICK i2 \in Index : i2 = Advance(i, k)
  BY PutIs
<1> DEFINE new == Run(last, k)
<1> DEFINE s   == Content(buf, i, o)
<1> DEFINE t   == Content(buf2, i2, o)
<1>1. PICK u \in Index : u = Used(i, o)
  BY FreeIs
<1>2. PICK v \in Index : v = Used(i2, o) /\ v = u + k
  BY <1>1, <1>3, PutIs, FreeIs
<1>4. new \in Seq(Chars) /\ Len(new) = k /\ \A j \in 1..k : new[j] = (last + j - 1) % Ids
  <2>1. ASSUME NEW j \in 1..k PROVE (last + j - 1) % Ids \in Chars
    <3>1. PICK d \in Nat : d = j - 1
      OBVIOUS
    <3>2. (last + d) % Ids \in Chars /\ last + j - 1 = last + d
      BY <3>1, IdMod DEF Chars
    <3> QED BY <3>2
  <2> QED BY <2>1 DEF Run
<1>5. /\ s \in Seq(Chars) /\ Len(s) = u
      /\ \A j \in 1..u : s[j] = buf[(o + j - 1) % BufLen]
  BY <1>1, ContentIs
<1>6. /\ t \in Seq(Chars) /\ Len(t) = v
      /\ \A j \in 1..v : t[j] = buf2[(o + j - 1) % BufLen]
  <2>1. /\ Content(buf2, i2, o) \in Seq(Chars) /\ Len(Content(buf2, i2, o)) = Used(i2, o)
        /\ \A j \in 1..Used(i2, o) : Content(buf2, i2, o)[j] = buf2[(o + j - 1) % BufLen]
    BY ContentIs
  <2> QED BY <2>1, <1>2
<1> HIDE DEF new, s, t
<1>7. /\ s \o new \in Seq(Chars) /\ Len(s \o new) = v
      /\ \A j \in 1..v : (s \o new)[j] = IF j <= u THEN s[j] ELSE new[j - u]
  <2>1. Len(s) + Len(new) = v
    BY <1>2, <1>4, <1>5
  <2> QED BY <2>1, <1>4, <1>5, ConcatProperties
<1>8. ASSUME NEW j \in 1..v PROVE t[j] = (s \o new)[j]
  <2>1. j \in 1..BufLen
    BY <1>2
  <2>2. (o + j - 1) % BufLen \in Index /\ Used((o + j - 1) % BufLen, o) = j - 1
    BY <2>1, PlaceUsed
  <2>3. CASE j <= u
    <3>1. buf2[(o + j - 1) % BufLen] = buf[(o + j - 1) % BufLen]
      BY <2>1, <2>2, <2>3, <1>1 DEF LeftAlone
    <3> QED BY <3>1, <2>3, <1>5, <1>6, <1>7
  <2>4. CASE j > u
    <3>1. PICK m \in 1..k : m = j - u
      BY <2>4, <1>2
    <3>2. (o + j - 1) % BufLen = (i + m - 1) % BufLen
      <4>1. (o + j - 1) % BufLen = IF o + j - 1 < BufLen THEN o + j - 1 ELSE o + j - 1 - BufLen
        BY <2>1, PlaceIs
      <4>2. (i + m - 1) % BufLen = IF i + m - 1 < BufLen THEN i + m - 1 ELSE i + m - 1 - BufLen
        BY PlaceIs
      <4>3. u = IF i >= o THEN i - o ELSE i - o + BufLen
        BY <1>1, UsedIs
      <4> QED BY <4>1, <4>2, <4>3, <3>1, <1>2
    <3>3. t[j] = (last + m - 1) % Ids
      BY <3>1, <3>2, <1>6 DEF Written
    <3>4. (s \o new)[j] = new[m]
      <4>1. ~(j <= u) /\ j - u = m
        BY <2>4, <3>1, <1>1
      <4> QED BY <4>1, <1>7
    <3>5. new[m] = (last + m - 1) % Ids
      BY <1>4
    <3> QED BY <3>3, <3>4, <3>5
  <2>5. j <= u \/ j > u
    BY <1>1, <2>1
  <2> QED BY <2>3, <2>4, <2>5
<1>9. t = s \o new
  BY <1>6, <1>7, <1>8, SeqEqual
<1> QED BY <1>3, <1>9 DEF new, s, t

\* Characters taken out after the inner index are the first of the content.
LEMMA TakeContent ==
    ASSUME NEW buf \in Ring, NEW i \in Index, NEW o \in Index, NEW k \in 0..BufLen, k <= Used(i, o)
    PROVE  Content(buf, i, Advance(o, k)) =
               SubSeq(Content(buf, i, o), k + 1, Len(Content(buf, i, o)))
<1>3. PICK o2 \in Index : o2 = Advance(o, k) /\ o2 = IF o + k < BufLen THEN o + k ELSE o + k - BufLen
  BY TakeIs, AdvanceIs
<1> DEFINE s  == Content(buf, i, o)
<1> DEFINE t  == Content(buf, i, o2)
<1>1. PICK u \in Index : u = Used(i, o)
  BY FreeIs
<1>2. PICK v \in Index : v = Used(i, o2) /\ v = u - k
  <2>1. Used(i, Advance(o, k)) = Used(i, o) - k
    BY TakeIs
  <2>2. Used(i, o2) \in Index
    BY FreeIs
  <2> QED BY <2>1, <2>2, <1>1, <1>3
<1>4. /\ s \in Seq(Chars) /\ Len(s) = u
      /\ \A j \in 1..u : s[j] = buf[(o + j - 1) % BufLen]
  BY <1>1, ContentIs
<1>5. /\ t \in Seq(Chars) /\ Len(t) = v
      /\ \A j \in 1..v : t[j] = buf[(o2 + j - 1) % BufLen]
  <2>1. /\ Content(buf, i, o2) \in Seq(Chars) /\ Len(Content(buf, i, o2)) = Used(i, o2)
        /\ \A j \in 1..Used(i, o2) : Content(buf, i, o2)[j] = buf[(o2 + j - 1) % BufLen]
    BY ContentIs
  <2> QED BY <2>1, <1>2
<1> HIDE DEF s, t
<1> DEFINE r == SubSeq(s, k + 1, Len(s))
<1>6. /\ r \in Seq(Chars) /\ Len(r) = v
      /\ \A j \in 1..v : r[j] = s[k + j]
  <2>1. \A j \in k+1..u : s[j] \in Chars
    BY <1>4, ElementOfSeq
  <2>2. \A j \in 1..u-(k+1)+1 : r[j] = s[k + 1 + j - 1]
    BY <2>1, SubSeqProperties, <1>4 DEF r
  <2>3. r \in Seq(Chars) /\ Len(r) = IF k + 1 <= u THEN u - (k + 1) + 1 ELSE 0
    BY <2>1, SubSeqProperties, <1>4 DEF r
  <2>4. ASSUME NEW j \in 1..v PROVE r[j] = s[k + j]
    <3>1. j \in 1..u-(k+1)+1 /\ k + 1 + j - 1 = k + j
      BY <1>2
    <3> QED BY <3>1, <2>2
  <2>5. Len(r) = v
    BY <2>3, <1>1, <1>2
  <2> HIDE DEF r
  <2> QED BY <2>3, <2>4, <2>5
<1> HIDE DEF r
<1>7. ASSUME NEW j \in 1..v PROVE t[j] = r[j]
  <2>1. PICK m \in 1..u : m = k + j
    BY <1>2
  <2>2. (o2 + j - 1) % BufLen = (o + m - 1) % BufLen
    <3>1. (o2 + j - 1) % BufLen = IF o2 + j - 1 < BufLen THEN o2 + j - 1 ELSE o2 + j - 1 - BufLen
      BY <1>2, <1>3, j \in 1..BufLen, PlaceIs
    <3>2. (o + m - 1) % BufLen = IF o + m - 1 < BufLen THEN o + m - 1 ELSE o + m - 1 - BufLen
      BY <2>1, m \in 1..BufLen, PlaceIs
    <3> QED BY <2>1, <3>1, <3>2, <1>3
  <2> QED BY <2>1, <2>2, <1>4, <1>5, <1>6
<1>8. t = r
  BY <1>5, <1>6, <1>7, SeqEqual
<1> QED BY <1>3, <1>8 DEF r, s, t

\* Nothing taken out, nothing put in: the content is what it was.
LEMMA NoneMoved ==
    ASSUME NEW i \in Index PROVE Advance(i, 0) = i
  BY AdvanceIs

\* The places after the inner index are outside the content.
LEMMA Outside ==
    ASSUME NEW i \in Index, NEW o \in Index, NEW x \in Index, Used(x, o) < Used(i, o)
    PROVE  Used(x, i) > Free(i, o)
<1>1. Used(x, o) = IF x >= o THEN x - o ELSE x - o + BufLen
  BY UsedIs
<1>2. Used(i, o) = IF i >= o THEN i - o ELSE i - o + BufLen
  BY UsedIs
<1>3. Used(x, i) = IF x >= i THEN x - i ELSE x - i + BufLen
  BY UsedIs
<1>4. Free(i, o) = BufLen - 1 - Used(i, o)
  BY FreeIs
<1> QED BY <1>1, <1>2, <1>3, <1>4

-----------------------------------------------------------------------------
TxQueue == Content(tx_buf, tx_in, tx_out)
RxQueue == Content(rx_buf, rx_in, rx_out)

\* What leaves a ring alone leaves its content alone.
LEMMA Kept ==
    /\ UNCHANGED <<tx_buf, tx_in, tx_out>> => TxQueue' = TxQueue
    /\ UNCHANGED <<rx_buf, rx_in, rx_out>> => RxQueue' = RxQueue
  BY DEF TxQueue, RxQueue, Content, Used

\* write copies where the content is not.
LEMMA CopyStep == ASSUME IInv, Copy PROVE TxQueue' = TxQueue /\ wnext' = wnext
<1>1. /\ tx_in \in Index /\ tx_out \in Index /\ tx_buf \in Ring
      /\ in = tx_in /\ n \in 1..Free(tx_in, tx_out) /\ in + n <= BufLen
  <2>1. tx_in \in Index /\ tx_out \in Index /\ tx_buf \in Ring
    BY DEF IInv, TypeOK, RingsOK, Ring, Chars
  <2>2. in = tx_in /\ n <= Free(tx_in, tx_out) /\ in + n <= BufLen /\ n >= 1 /\ n \in Index
    BY DEF IInv, TypeOK, ProgramOK, TxLocal, Copy, Step
  <2>3. Free(tx_in, tx_out) \in Int
    BY <2>1, FreeIs
  <2> QED BY <2>1, <2>2, <2>3
<1>2. /\ tx_buf' = [i \in Index |-> IF i \in in..in+n-1 THEN (wnext + i - in) % Ids ELSE tx_buf[i]]
      /\ UNCHANGED <<tx_in, tx_out, wnext>>
  BY DEF Copy, ends
<1>3. Used(tx_in, tx_out) \in Index /\ Free(tx_in, tx_out) \in Int
  BY <1>1, FreeIs
<1>4. ASSUME NEW j \in 1..Used(tx_in, tx_out)
      PROVE  tx_buf'[(tx_out + j - 1) % BufLen] = tx_buf[(tx_out + j - 1) % BufLen]
  <2>1. j \in 1..BufLen /\ j - 1 < Used(tx_in, tx_out)
    BY <1>3
  <2>2. PICK x \in Index : x = (tx_out + j - 1) % BufLen /\ Used(x, tx_out) = j - 1
    BY <1>1, <2>1, PlaceUsed
  <2>3. Used(x, tx_in) > Free(tx_in, tx_out)
    BY <1>1, <2>1, <2>2, Outside
  <2>4. Used(x, tx_in) = IF x >= tx_in THEN x - tx_in ELSE x - tx_in + BufLen
    BY <1>1, UsedIs
  <2>5. x \notin in..in+n-1
    BY <1>1, <1>3, <2>3, <2>4
  <2> QED BY <1>2, <2>2, <2>5
<1> QED BY <1>2, <1>4 DEF TxQueue, Content

\* write puts in what it has copied.
LEMMA PublishStep == ASSUME IInv, Publish PROVE TxPipe!Next
<1>1. /\ tx_in \in Index /\ tx_out \in Index /\ tx_buf \in Ring /\ wnext \in Chars
      /\ in = tx_in /\ n \in 1..BufLen-1 /\ n <= Free(tx_in, tx_out) /\ in + n <= BufLen
  <2>1. tx_in \in Index /\ tx_out \in Index /\ tx_buf \in Ring /\ wnext \in Chars
    BY DEF IInv, TypeOK, RingsOK, Ring, Chars
  <2>2. in = tx_in /\ n <= Free(tx_in, tx_out) /\ in + n <= BufLen /\ n >= 1 /\ n \in Index
    BY DEF IInv, TypeOK, ProgramOK, TxLocal, Publish, Step
  <2> QED BY <2>1, <2>2
<1>2. /\ tx_in' = Advance(tx_in, n) /\ wnext' = (wnext + n) % Ids
      /\ UNCHANGED <<tx_buf, tx_out>>
  BY <1>1 DEF Publish, ends
<1>3. ASSUME NEW j \in 1..n PROVE tx_buf[(tx_in + j - 1) % BufLen] = (wnext + j - 1) % Ids
  <2>1. (tx_in + j - 1) % BufLen = tx_in + j - 1
    <3>1. (tx_in + j - 1) % BufLen
            = IF tx_in + j - 1 < BufLen THEN tx_in + j - 1 ELSE tx_in + j - 1 - BufLen
      BY <1>1, j \in 1..BufLen, PlaceIs
    <3> QED BY <1>1, <3>1
  <2>2. PICK x \in Index : x = tx_in + j - 1
    BY <1>1
  <2>3. tx_buf[x] = (wnext + x - in) % Ids
    BY <1>1, <2>2 DEF IInv, Copied, Publish, Step
  <2>4. wnext + x - in = wnext + j - 1
    BY <1>1, <2>2 DEF Chars
  <2> QED BY <2>1, <2>2, <2>3, <2>4
<1>4. Content(tx_buf, Advance(tx_in, n), tx_out) = Content(tx_buf, tx_in, tx_out) \o Run(wnext, n)
  <2>1. LeftAlone(tx_buf, tx_buf, tx_in, tx_out) /\ Written(tx_buf, tx_in, n, wnext)
    BY <1>3 DEF LeftAlone, Written
  <2>2. n \in 1..BufLen
    BY <1>1
  <2> QED BY <1>1, <2>1, <2>2, PutContent
<1>5. TxQueue' = TxQueue \o [j \in 1..n |-> (wnext + j - 1) % Ids]
  <2>1. TxQueue' = Content(tx_buf, Advance(tx_in, n), tx_out)
    BY <1>2 DEF TxQueue, Content, Used
  <2> QED BY <2>1, <1>4 DEF TxQueue, Run
<1>6. Len(TxQueue) + n <= BufLen - 1
  <2>1. Len(TxQueue) = Used(tx_in, tx_out) /\ Used(tx_in, tx_out) \in Index
    BY <1>1, ContentIs DEF TxQueue
  <2>2. Free(tx_in, tx_out) = BufLen - 1 - Used(tx_in, tx_out)
    BY <1>1, FreeIs
  <2> QED BY <1>1, <2>1, <2>2
<1> QED BY <1>1, <1>2, <1>5, <1>6 DEF TxPipe!Next, TxPipe!Put, TxQueue

\* The handler takes out what it sends, from the front.
LEMMA TransmitStep ==
    ASSUME IInv, IsrTransmit PROVE TxPipe!Next \/ (TxQueue' = TxQueue /\ wnext' = wnext)
<1> DEFINE k == Least(WriteDepth - txfifo, Used(tx_in, tx_out))
<1>1. tx_in \in Index /\ tx_out \in Index /\ tx_buf \in Ring /\ txfifo \in 0..WriteDepth-1
  <2>1. tx_in \in Index /\ tx_out \in Index /\ tx_buf \in Ring
    BY DEF IInv, TypeOK, RingsOK, Ring, Chars
  <2>2. txfifo \in 0..WriteDepth-1
    BY DEF IInv, TypeOK, PortOK, IsrTransmit
  <2> QED BY <2>1, <2>2
<1>2. Used(tx_in, tx_out) \in Index
  BY <1>1, FreeIs
<1>3. k \in 0..BufLen-1 /\ k <= Used(tx_in, tx_out)
  BY <1>1, <1>2 DEF Least
<1>4. tx_out' = Advance(tx_out, k) /\ UNCHANGED <<tx_buf, tx_in, wnext>>
  BY DEF IsrTransmit, tx
<1>5. TxQueue' = Content(tx_buf, tx_in, Advance(tx_out, k))
  BY <1>4 DEF TxQueue, Content, Used
<1>6. Len(TxQueue) = Used(tx_in, tx_out)
  BY <1>1, ContentIs DEF TxQueue
<1> HIDE DEF k
<1>7. CASE k = 0
  <2>1. tx_out' = tx_out
    BY <1>1, <1>4, <1>7, NoneMoved
  <2> QED BY <2>1, <1>4, Kept
<1>8. CASE k # 0
  <2>1. TxQueue' = SubSeq(TxQueue, k + 1, Len(TxQueue))
    BY <1>1, <1>3, <1>5, TakeContent DEF TxQueue
  <2>2. k \in 1..Len(TxQueue)
    BY <1>2, <1>3, <1>6, <1>8
  <2> QED BY <2>1, <2>2, <1>4 DEF TxPipe!Next, TxPipe!Take, TxQueue
<1> QED BY <1>7, <1>8

\* The handler puts in what it receives.
LEMMA ReceiveStep ==
    ASSUME IInv, IsrReceive PROVE RxPipe!Next \/ (RxQueue' = RxQueue /\ inext' = inext)
<1> DEFINE k == Least(RxFree, rxfifo)
<1>1. rx_in \in Index /\ rx_out \in Index /\ rx_buf \in Ring /\ inext \in Chars /\ rxfifo \in Nat \ {0}
  <2>1. rx_in \in Index /\ rx_out \in Index /\ rx_buf \in Ring /\ inext \in Chars
    BY DEF IInv, TypeOK, RingsOK, Ring, Chars
  <2>2. rxfifo \in Nat \ {0}
    BY DEF IInv, TypeOK, PortOK, IsrReceive
  <2> QED BY <2>1, <2>2
<1>2. RxFree = Free(rx_in, rx_out) /\ RxFree = BufLen - 1 - Used(rx_in, rx_out)
      /\ Used(rx_in, rx_out) \in Index
  BY <1>1, FreeIs DEF RxFree
<1>3. k \in 0..BufLen-1 /\ k <= Free(rx_in, rx_out)
  BY <1>1, <1>2 DEF Least
<1>4. /\ rx_buf' = [i \in Index |-> IF Used(i, rx_in) < k THEN (inext + Used(i, rx_in)) % Ids ELSE rx_buf[i]]
      /\ rx_in' = Advance(rx_in, k) /\ inext' = (inext + k) % Ids /\ rx_out' = rx_out
  BY DEF IsrReceive, Used, ends
<1>5. RxQueue' = Content(rx_buf', Advance(rx_in, k), rx_out)
  BY <1>4 DEF RxQueue, Content, Used
<1>6. Len(RxQueue) = Used(rx_in, rx_out)
  BY <1>1, ContentIs DEF RxQueue
<1>7. rx_buf' \in Ring
  <2>1. ASSUME NEW i \in Index PROVE (inext + Used(i, rx_in)) % Ids \in Chars
    <3>1. Used(i, rx_in) \in Nat
      BY <1>1, FreeIs
    <3> QED BY <1>1, <3>1, IdMod DEF Chars
  <2> QED BY <1>1, <1>4, <2>1 DEF Ring
<1> HIDE DEF k
<1>8. CASE k = 0
  <2>1. rx_in' = rx_in
    BY <1>1, <1>4, <1>8, NoneMoved
  <2>2. rx_buf' = rx_buf
    <3>1. ASSUME NEW i \in Index PROVE ~(Used(i, rx_in) < k)
      BY <1>1, <1>8, FreeIs
    <3> QED BY <1>1, <1>4, <3>1 DEF Ring
  <2>3. inext' = inext
    <3>1. inext + k = inext
      BY <1>1, <1>8 DEF Chars
    <3>2. inext \in Int /\ -Ids <= inext /\ inext < 2 * Ids /\ 0 <= inext /\ inext < Ids
      BY <1>1, Positive DEF Chars
    <3>3. inext % Ids = IF inext < 0 THEN inext + Ids ELSE IF inext < Ids THEN inext ELSE inext - Ids
      BY <3>2, Positive, ModTurn
    <3> QED BY <1>4, <3>1, <3>2, <3>3
  <2> QED BY <2>1, <2>2, <2>3, <1>4, Kept
<1>9. CASE k # 0
  <2>1. k \in 1..BufLen
    BY <1>3, <1>9
  <2>2. ASSUME NEW x \in Index, Used(x, rx_out) < Used(rx_in, rx_out) PROVE rx_buf'[x] = rx_buf[x]
    <3>1. Used(x, rx_in) > Free(rx_in, rx_out) /\ Used(x, rx_in) \in Index
      BY <1>1, <2>2, Outside, FreeIs
    <3>2. ~(Used(x, rx_in) < k)
      BY <1>2, <1>3, <3>1
    <3> QED BY <1>4, <3>2
  <2>3. ASSUME NEW j \in 1..k PROVE rx_buf'[(rx_in + j - 1) % BufLen] = (inext + j - 1) % Ids
    <3>1. PICK x \in Index : x = (rx_in + j - 1) % BufLen /\ Used(x, rx_in) = j - 1
      BY <1>1, <1>3, j \in 1..BufLen, PlaceUsed
    <3>2. rx_buf'[x] = (inext + (j - 1)) % Ids
      BY <1>3, <1>4, <3>1
    <3>3. inext + (j - 1) = inext + j - 1
      BY <1>1 DEF Chars
    <3> QED BY <3>1, <3>2, <3>3
  <2>4. RxQueue' = RxQueue \o [j \in 1..k |-> (inext + j - 1) % Ids]
    <3>1. LeftAlone(rx_buf, rx_buf', rx_in, rx_out) /\ Written(rx_buf', rx_in, k, inext)
      BY <2>2, <2>3 DEF LeftAlone, Written
    <3>2. Content(rx_buf', Advance(rx_in, k), rx_out)
            = Content(rx_buf, rx_in, rx_out) \o Run(inext, k)
      BY <1>1, <1>3, <1>7, <2>1, <3>1, PutContent
    <3> QED BY <1>5, <3>2 DEF RxQueue, Run
  <2>5. Len(RxQueue) + k <= BufLen - 1
    BY <1>2, <1>3, <1>6
  <2>6. k \in 1..BufLen-1
    BY <1>3, <1>9
  <2> QED BY <2>4, <2>5, <2>6, <1>4 DEF RxPipe!Next, RxPipe!Put, RxQueue
<1> QED BY <1>8, <1>9

\* read takes out what it has copied, from the front.
LEMMA ReadCopyStep == ASSUME IInv, ReadCopy PROVE RxPipe!Next
<1>1. /\ rx_in \in Index /\ rx_out \in Index /\ rx_buf \in Ring
      /\ out = rx_out /\ n \in 1..BufLen-1 /\ n <= Used(rx_in, rx_out)
  <2>1. rx_in \in Index /\ rx_out \in Index /\ rx_buf \in Ring
    BY DEF IInv, TypeOK, RingsOK, Ring, Chars
  <2>2. out = rx_out /\ n <= Used(rx_in, rx_out) /\ n >= 1 /\ n \in Index
    BY DEF IInv, TypeOK, ProgramOK, RxLocal, ReadCopy
  <2> QED BY <2>1, <2>2
<1>2. rx_out' = Advance(rx_out, n) /\ UNCHANGED <<rx_buf, rx_in, inext>>
  BY <1>1 DEF ReadCopy, rx
<1>3. RxQueue' = Content(rx_buf, rx_in, Advance(rx_out, n))
  BY <1>2 DEF RxQueue, Content, Used
<1>4. RxQueue' = SubSeq(RxQueue, n + 1, Len(RxQueue))
  BY <1>1, <1>3, TakeContent DEF RxQueue
<1>5. n \in 1..Len(RxQueue)
  <2>1. Len(RxQueue) = Used(rx_in, rx_out) /\ Used(rx_in, rx_out) \in Index
    BY <1>1, ContentIs DEF RxQueue
  <2> QED BY <1>1, <2>1
<1> QED BY <1>2, <1>4, <1>5 DEF RxPipe!Next, RxPipe!Take, RxQueue

-----------------------------------------------------------------------------
\* Every step of the driver is a step of the transmit queue, or leaves it alone.
LEMMA TxStep ==
    ASSUME IInv, [Next]_vars PROVE TxPipe!Next \/ (TxQueue' = TxQueue /\ wnext' = wnext)
<1>1. CASE UNCHANGED <<tx_buf, tx_in, tx_out, wnext>>
  BY <1>1, Kept
<1>2. CASE Copy
  BY <1>2, CopyStep
<1>3. CASE Publish
  BY <1>3, PublishStep
<1>4. CASE IsrTransmit
  BY <1>4, TransmitStep
<1>5. Copy \/ Publish \/ IsrTransmit \/ UNCHANGED <<tx_buf, tx_in, tx_out, wnext>>
  BY DEF Next, vars, tx, ends, WriteSteps, ReadSteps, Isr, Write, Read, Call, Close, CloseEnd, SetTimeout,
         Sample, Kick, Wait, Check, ReadNothing, ReadSample, ReadCopy, ReadWait, ReadEnd, IsrReceive,
         Alarm, HostTake, HostType, HostPoll
<1> QED BY <1>1, <1>2, <1>3, <1>4, <1>5

\* And of the receive queue.
LEMMA RxStep ==
    ASSUME IInv, [Next]_vars PROVE RxPipe!Next \/ (RxQueue' = RxQueue /\ inext' = inext)
<1>1. CASE UNCHANGED <<rx_buf, rx_in, rx_out, inext>>
  BY <1>1, Kept
<1>2. CASE IsrReceive
  BY <1>2, ReceiveStep
<1>3. CASE ReadCopy
  BY <1>3, ReadCopyStep
<1>4. IsrReceive \/ ReadCopy \/ UNCHANGED <<rx_buf, rx_in, rx_out, inext>>
  BY DEF Next, vars, rx, ends, WriteSteps, ReadSteps, Isr, Write, Read, Call, Close, CloseEnd, SetTimeout,
         Sample, Copy, Publish, Kick, Wait, Check, ReadNothing, ReadSample, ReadWait, ReadEnd, IsrTransmit,
         Alarm, HostTake, HostType, HostPoll
<1> QED BY <1>1, <1>2, <1>3, <1>4

\* Both queues start empty.
LEMMA InitEmpty == ASSUME Init PROVE TxPipe!Init /\ RxPipe!Init
<1>1. 0 \in Index /\ 0 \in Chars /\ [i \in Index |-> 0] \in Ring
  BY DEF Chars, Ring
<1>2. Used(0, 0) = 0
  BY <1>1, EmptyIs
<1>3. Content([i \in Index |-> 0], 0, 0) = <<>>
  BY <1>1, <1>2, ContentIs, EmptySeq
<1> QED BY <1>3 DEF Init, TxPipe!Init, RxPipe!Init

\* Each ring of the driver is a bounded queue: write and the handler, the
\* handler and read, lose, repeat and reorder no character, for rings of every
\* size and however they interleave.
THEOREM Implements == Spec => RingsAreQueues
<1>1. Init => TxPipe!Init /\ RxPipe!Init
  BY InitEmpty
<1>2. IInv /\ [Next]_vars => [TxPipe!Next]_<<Content(tx_buf, tx_in, tx_out), wnext>>
  BY TxStep DEF TxQueue
<1>3. IInv /\ [Next]_vars => [RxPipe!Next]_<<Content(rx_buf, rx_in, rx_out), inext>>
  BY RxStep DEF RxQueue
<1> QED BY <1>1, <1>2, <1>3, Inductive, PTL DEF Spec, RingsAreQueues, TxPipe!Spec, RxPipe!Spec
=============================================================================
