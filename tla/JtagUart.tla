------------------------------ MODULE JtagUart ------------------------------
(***************************************************************************)
(* The interrupt driven driver of the JTAG UART, the standard output and     *)
(* input of the firmware: two ring buffers shared by write and read, which    *)
(* run in the program, and the interrupt handler; and the alarm that notices  *)
(* that no host reads.                                                       *)
(*                                                                         *)
(* The program is cut where it reads or writes what an interrupt changes.     *)
(* The two halves of the handler's loop are actions of their own: a handler   *)
(* that goes round again behaves as one that is entered again.                *)
(***************************************************************************)
EXTENDS Integers

CONSTANTS
    BufLen,    \* ALTERA_AVALON_JTAG_UART_BUF_LEN (2048)
    WriteDepth, ReadDepth,   \* external: the depths of the hardware FIFOs (64)
    Timeout,   \* ALTERA_AVALON_JTAG_UART_DEFAULT_TIMEOUT (10 s)
    IntMax,    \* INT_MAX
    Calls,     \* bound: the calls the program makes, of "write", "read", "close"
    MaxCount,  \* bound: characters of one call
    Ids        \* bound: the characters are numbered modulo Ids

ASSUME UartAssumption ==
    /\ BufLen \in Nat /\ BufLen >= 2 /\ {WriteDepth, ReadDepth} \subseteq Nat \ {0}
    /\ Timeout \in Nat /\ 2 <= Timeout /\ Timeout < IntMax - 1 /\ IntMax \in Nat
    /\ MaxCount \in Nat \ {0} /\ Ids \in Nat /\ Ids >= BufLen

VARIABLES
    pc,                    \* where the program stands in write, read or close
    in, out, n, count,     \* locals of write and read; count is read's space
    any,                   \* ptr # start
    nonblock,              \* flags & O_NONBLOCK
    ret,                   \* what the last call returned, until the next call
    tx_buf, tx_in, tx_out, rx_buf, rx_in, rx_out,
    irq_enable,            \* subset of {"RE", "WE"}
    host_inactive, timeout,
    ac, txfifo, rxfifo,    \* external: the AC bit, the length of the FIFOs
    wnext, tnext,          \* history: the next character to write, to transmit
    inext, rnext           \* history: the next character to arrive, to read

locals == <<in, out, n, count, any, nonblock>>
tx     == <<tx_buf, tx_in, wnext>>
rx     == <<rx_buf, rx_in, inext>>
ends   == <<tx_out, tnext, rx_out, rnext>>
host   == <<host_inactive, timeout, ac, txfifo, rxfifo>>
vars   == <<pc, locals, ret, tx, rx, ends, irq_enable, host>>

Index == 0..BufLen-1
Least(a, b) == IF a <= b THEN a ELSE b

WritePcs == {"sample", "copy", "publish", "kick", "wait", "check"}
ReadPcs  == {"rsample", "rcopy", "rwait", "renable"}

ProgramOK ==
    /\ pc \in {"run", "close"} \cup WritePcs \cup ReadPcs
    /\ in \in Index /\ out \in Index /\ n \in Index /\ count \in 0..MaxCount
    /\ ret \in {"none", "ok", "EWOULDBLOCK", "EIO"}

RingsOK ==
    /\ tx_buf \in [Index -> 0..Ids-1] /\ tx_in \in Index /\ tx_out \in Index
    /\ rx_buf \in [Index -> 0..Ids-1] /\ rx_in \in Index /\ rx_out \in Index
    /\ {wnext, tnext, inext, rnext} \subseteq 0..Ids-1

PortOK ==
    /\ irq_enable \subseteq {"RE", "WE"}
    /\ host_inactive \in 0..IntMax-2 /\ timeout \in 2..IntMax
    /\ txfifo \in 0..WriteDepth /\ rxfifo \in 0..ReadDepth

FlagsOK == any \in BOOLEAN /\ nonblock \in BOOLEAN /\ ac \in BOOLEAN

TypeOK == ProgramOK /\ RingsOK /\ PortOK /\ FlagsOK

(* After altera_avalon_jtag_uart_init. Without a tick no alarm starts, and the
   timeout says so. *)
Init ==
    /\ pc = "run" /\ in = 0 /\ out = 0 /\ n = 0 /\ count = 0
    /\ any = FALSE /\ nonblock = FALSE /\ ret = "ok"
    /\ tx_buf = [i \in Index |-> 0] /\ tx_in = 0 /\ tx_out = 0
    /\ rx_buf = [i \in Index |-> 0] /\ rx_in = 0 /\ rx_out = 0
    /\ irq_enable = {"RE"}
    /\ host_inactive = 0 /\ timeout \in {Timeout, IntMax}
    /\ ac = FALSE /\ txfifo = 0 /\ rxfifo = 0
    /\ wnext = 0 /\ tnext = 0 /\ inext = 0 /\ rnext = 0

-----------------------------------------------------------------------------
(* The host, at the other end of the FIFOs. *)

HostTake == /\ txfifo > 0
            /\ txfifo' \in 0..txfifo-1 /\ ac' = TRUE
            /\ UNCHANGED <<pc, locals, ret, tx, rx, ends, irq_enable, host_inactive, timeout,
                           rxfifo>>

HostType == /\ rxfifo < ReadDepth
            /\ rxfifo' = rxfifo + 1 /\ ac' = TRUE
            /\ UNCHANGED <<pc, locals, ret, tx, rx, ends, irq_enable, host_inactive, timeout,
                           txfifo>>

HostPoll == /\ ~ac /\ ac' = TRUE
            /\ UNCHANGED <<pc, locals, ret, tx, rx, ends, irq_enable, host_inactive, timeout,
                           txfifo, rxfifo>>

-----------------------------------------------------------------------------
(* The interrupt handler and the alarm. *)

(* Full: one index is left free, to tell a full ring from an empty one. *)
Free(i, o) == (o - i - 1) % BufLen
Used(i, o) == (i - o) % BufLen

Advance_NoWrap(i, k) == i + k
Advance(i, k)        == (i + k) % BufLen

RxFree_All == BufLen
RxFree     == Free(rx_in, rx_out)

IsrReceive ==
    /\ "RE" \in irq_enable /\ rxfifo > 0
    /\ LET k == Least(RxFree, rxfifo) IN
       /\ rx_buf' = [i \in Index |-> LET d == (i - rx_in) % BufLen
                                     IN IF d < k THEN (inext + d) % Ids ELSE rx_buf[i]]
       /\ rx_in' = Advance(rx_in, k) /\ inext' = (inext + k) % Ids
       /\ rxfifo' = rxfifo - k
    /\ irq_enable' = IF rxfifo' > 0 THEN irq_enable \ {"RE"} ELSE irq_enable
    /\ UNCHANGED <<pc, locals, ret, tx, ends, host_inactive, timeout, ac, txfifo>>

(* The space is that of the control register, read before. *)
IsrTransmit ==
    /\ "WE" \in irq_enable /\ txfifo < WriteDepth
    /\ LET space == WriteDepth - txfifo
           k     == Least(space, Used(tx_in, tx_out)) IN
       /\ tx_out' = Advance(tx_out, k) /\ tnext' = (tnext + k) % Ids
       /\ txfifo' = txfifo + k
       /\ irq_enable' = IF k < space THEN irq_enable \ {"WE"} ELSE irq_enable
    /\ UNCHANGED <<pc, locals, ret, tx, rx, rx_out, rnext, host_inactive, timeout, ac, rxfifo>>

(* altera_avalon_jtag_uart_timeout, once a second. *)
Alarm ==
    /\ timeout # IntMax
    /\ IF ac THEN ac' = FALSE /\ host_inactive' = 0
             ELSE /\ host_inactive' = IF host_inactive < IntMax - 2 THEN host_inactive + 1
                                                                    ELSE host_inactive
                  /\ UNCHANGED ac
    /\ UNCHANGED <<pc, locals, ret, tx, rx, ends, irq_enable, timeout, txfifo, rxfifo>>

HostThere == host_inactive < timeout

-----------------------------------------------------------------------------
(* altera_avalon_jtag_uart_write. *)

Step(from, to) == pc = from /\ pc' = to

(* Locals that are written before they are read again are cleared, and all of
   them are gone when a call returns. *)
Cleared == in' = 0 /\ out' = 0 /\ n' = 0

Return(r) ==
    /\ pc' = "run" /\ ret' = r
    /\ Cleared /\ count' = 0 /\ any' = FALSE /\ nonblock' = FALSE

Result == IF any THEN "ok" ELSE IF nonblock THEN "EWOULDBLOCK" ELSE "EIO"

Call(to) == /\ pc = "run" /\ pc' = to
            /\ count' \in 0..MaxCount /\ nonblock' \in BOOLEAN /\ any' = FALSE /\ ret' = "none"
            /\ UNCHANGED <<in, out, n, tx, rx, ends, irq_enable, host>>

Write == "write" \in Calls /\ Call("sample")
Read  == "read" \in Calls /\ Call("rsample")

Space_NoGap(i, o) == IF i < o THEN o - 1 - i ELSE BufLen - i

Space(i, o) == IF i < o THEN o - 1 - i
               ELSE IF o > 0 THEN BufLen - i
               ELSE BufLen - 1 - i

Sample ==
    /\ pc = "sample"
    /\ IF count = 0
       THEN pc' = "kick" /\ UNCHANGED <<in, out, n>>
       ELSE /\ in' = tx_in /\ out' = tx_out
            /\ n' = Least(Space(tx_in, tx_out), count)
            /\ pc' = IF n' = 0 THEN "kick" ELSE "copy"
    /\ UNCHANGED <<count, any, nonblock, ret, tx, rx, ends, irq_enable, host>>

Copy ==
    /\ Step("copy", "publish")
    /\ tx_buf' = [i \in Index |-> IF i \in in..in+n-1 THEN (wnext + i - in) % Ids
                                                      ELSE tx_buf[i]]
    /\ UNCHANGED <<locals, ret, tx_in, wnext, rx, ends, irq_enable, host>>

Publish ==
    /\ Step("publish", "sample")
    /\ tx_in' = Advance(in, n) /\ wnext' = (wnext + n) % Ids
    /\ Cleared /\ count' = count - n /\ any' = TRUE
    /\ UNCHANGED <<nonblock, ret, tx_buf, rx, ends, irq_enable, host>>

Kicked_IfWaiting == IF count > 0 THEN irq_enable \cup {"WE"} ELSE irq_enable
Kicked           == irq_enable \cup {"WE"}

Kick ==
    /\ pc = "kick"
    /\ irq_enable' = Kicked
    /\ IF count = 0 \/ nonblock THEN Return(Result)
                                ELSE pc' = "wait" /\ UNCHANGED <<locals, ret>>
    /\ UNCHANGED <<tx, rx, ends, host>>

Blocked_NoTimeout == out = tx_out
Blocked           == out = tx_out /\ HostThere

Wait ==
    /\ Step("wait", "check")
    /\ ~Blocked
    /\ UNCHANGED <<locals, ret, tx, rx, ends, irq_enable, host>>

Check ==
    /\ pc = "check"
    /\ IF host_inactive > 0 THEN Return(Result)
                            ELSE pc' = "sample" /\ UNCHANGED <<locals, ret>>
    /\ UNCHANGED <<tx, rx, ends, irq_enable, host>>

-----------------------------------------------------------------------------
(* altera_avalon_jtag_uart_read. *)

ReadNothing ==
    /\ Step("rsample", "renable") /\ count = 0
    /\ UNCHANGED <<locals, ret, tx, rx, ends, irq_enable, host>>

ReadSample ==
    /\ pc = "rsample" /\ count > 0
    /\ in' = rx_in /\ out' = rx_out
    /\ n' = Least(IF rx_in >= rx_out THEN rx_in - rx_out ELSE BufLen - rx_out, count)
    /\ pc' = IF n' > 0 THEN "rcopy"
             ELSE IF any \/ nonblock THEN "renable"
             ELSE "rwait"
    /\ UNCHANGED <<count, any, nonblock, ret, tx, rx, ends, irq_enable, host>>

ReadCopy ==
    /\ pc = "rcopy"
    /\ rx_out' = Advance(out, n) /\ rnext' = (rnext + n) % Ids
    /\ Cleared /\ count' = count - n /\ any' = TRUE
    /\ pc' = IF count' > 0 THEN "rsample" ELSE "renable"
    /\ UNCHANGED <<nonblock, ret, tx, rx, tx_out, tnext, irq_enable, host>>

ReadWait ==
    /\ pc = "rwait"
    /\ ~(in = rx_in /\ HostThere)
    /\ pc' = IF in = rx_in THEN "renable" ELSE "rsample"
    /\ UNCHANGED <<locals, ret, tx, rx, ends, irq_enable, host>>

Enabled_IfShort == IF any /\ count > 0 THEN irq_enable \cup {"RE"} ELSE irq_enable
Enabled         == IF any THEN irq_enable \cup {"RE"} ELSE irq_enable

ReadEnd ==
    /\ pc = "renable"
    /\ irq_enable' = Enabled
    /\ Return(Result)
    /\ UNCHANGED <<tx, rx, ends, host>>

-----------------------------------------------------------------------------
(* altera_avalon_jtag_uart_close and _ioctl. *)

Close == /\ "close" \in Calls /\ Step("run", "close")
         /\ nonblock' \in BOOLEAN /\ ret' = "none"
         /\ UNCHANGED <<in, out, n, count, any, tx, rx, ends, irq_enable, host>>

CloseEnd ==
    /\ pc = "close"
    /\ IF tx_out = tx_in \/ ~HostThere THEN Return("ok")
                                       ELSE nonblock /\ Return("EWOULDBLOCK")
    /\ UNCHANGED <<tx, rx, ends, irq_enable, host>>

(* TIOCSTIMEOUT: a timeout below two seconds is none. *)
SetTimeout(t) ==
    /\ pc = "run" /\ timeout # IntMax
    /\ timeout' = IF t >= 2 /\ t < IntMax THEN t ELSE IntMax - 1
    /\ UNCHANGED <<pc, locals, ret, tx, rx, ends, irq_enable, host_inactive, ac, txfifo, rxfifo>>

-----------------------------------------------------------------------------
WriteSteps == Sample \/ Copy \/ Publish \/ Kick \/ Wait \/ Check
ReadSteps  == ReadNothing \/ ReadSample \/ ReadCopy \/ ReadWait \/ ReadEnd
Isr        == IsrReceive \/ IsrTransmit

Next == \/ Write \/ WriteSteps \/ Read \/ ReadSteps \/ Close \/ CloseEnd
        \/ \E t \in {0, Timeout} : SetTimeout(t)
        \/ Isr \/ Alarm \/ HostTake \/ HostType \/ HostPoll

Spec == Init /\ [][Next]_vars

(* The program runs, interrupts are served and the alarm goes off; the host
   owes nothing. *)
Fairness == /\ WF_vars(WriteSteps) /\ WF_vars(ReadSteps) /\ WF_vars(CloseEnd)
            /\ WF_vars(IsrReceive) /\ WF_vars(IsrTransmit) /\ WF_vars(Alarm)

FairSpec == Spec /\ Fairness

-----------------------------------------------------------------------------
(* Each ring is a bounded queue that puts the characters of its producer, in
   their order and none twice, before its consumer, whatever the program and
   the handler interleave: the index moves after the copy, in both directions
   (altera_avalon_jtag_uart_write, _read and _irq). *)
Content(buf, i, o) == [j \in 1..Used(i, o) |-> buf[(o + j - 1) % BufLen]]

TxPipe == INSTANCE CharPipe WITH Capacity <- BufLen - 1, last <- wnext,
                                 queue <- Content(tx_buf, tx_in, tx_out)
RxPipe == INSTANCE CharPipe WITH Capacity <- BufLen - 1, last <- inext,
                                 queue <- Content(rx_buf, rx_in, rx_out)

RingsAreQueues == TxPipe!Spec /\ RxPipe!Spec

(* No character is left behind with its interrupt off. What is in the transmit
   ring when write has returned, or waits for room, keeps the transmit
   interrupt on, though the handler turns it off by itself. The receive
   interrupt is off only while there are characters to read, or the read that
   took them has still to turn it on. *)
NoStuckTx == pc \notin {"sample", "copy", "publish", "kick"} /\ tx_in # tx_out
             => "WE" \in irq_enable
NoStuckRx == "RE" \notin irq_enable =>
                 rx_in # rx_out \/ (pc \in ReadPcs /\ any)
NothingStuck == NoStuckTx /\ NoStuckRx

(* A call of write or close ends when the host takes what is sent, or is gone for good;
   without an alarm, or with the timeout set to none, it may wait for ever for
   a host that is gone. *)
CallEnds ==
    (WF_vars(HostTake) \/ <>[](~ac /\ timeout < IntMax - 1))
        => [](pc \in WritePcs \cup {"close"} => <>(pc = "run"))
=============================================================================
