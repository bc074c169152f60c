------------------------------ MODULE HalFiles ------------------------------
(***************************************************************************)
(* The file descriptors of the HAL: the pool alt_fd_list with its high-water  *)
(* mark, the redirection of the standard channels before main, open and       *)
(* close, and the exclusive lock that ioctl puts on a device.                 *)
(*                                                                         *)
(* The firmware has one thread and no interrupt handler touches the pool, so  *)
(* a call is one action. A flag word is the set of its bits.                  *)
(***************************************************************************)
EXTENDS Integers, FiniteSets

CONSTANTS
    MaxFd,        \* ALT_MAX_FD (32)
    Null, Uart,   \* alt_dev_null and the JTAG UART: alt_dev_list
    FileSystems,  \* alt_fs_list: a file is told by the file system it is on
    NULL,         \* the null pointer
    OpenFlags     \* bound: the flag words the program passes to open

ASSUME FilesAssumption ==
    /\ MaxFd \in Nat /\ MaxFd >= 4
    /\ Null # Uart /\ {Null, Uart} \cap FileSystems = {} /\ NULL \notin {Null, Uart} \cup FileSystems

Bits == {"WRONLY", "RDWR", "NONBLOCK", "EXCL", "DEV"}
FdFlagsMask    == {"EXCL", "DEV"}    \* ALT_FD_FLAGS_MASK
FcntlFlagsMask == {"NONBLOCK"}       \* ALT_FCNTL_FLAGS_MASK, without O_APPEND
AccMode        == {"WRONLY", "RDWR"} \* O_ACCMODE; O_RDONLY is neither

ASSUME FlagsAssumption == OpenFlags \subseteq SUBSET Bits

Fds     == 0..MaxFd-1
Std     == 0..2
Devices == {Null, Uart}

VARIABLES
    alt_fd_list,   \* descriptor -> dev, fd_flags
    alt_max_fd,
    boot,          \* the standard channels still to be redirected, in order
    held           \* history: what each descriptor the program has was opened on

vars == <<alt_fd_list, alt_max_fd, boot, held>>

FreeFd == [dev |-> NULL, fd_flags |-> {}]

TypeOK ==
    /\ alt_fd_list \in [Fds -> [dev : Devices \cup FileSystems \cup {NULL}, fd_flags : SUBSET Bits]]
    /\ alt_max_fd \in -1..MaxFd-1
    /\ boot \in 0..3
    /\ held \in [Fds -> Devices \cup FileSystems \cup {NULL}]

Init ==
    /\ alt_fd_list = [i \in Fds |-> IF i \in Std THEN [dev |-> Null, fd_flags |-> {}] ELSE FreeFd]
    /\ alt_max_fd = -1
    /\ boot = 3
    /\ held = [i \in Fds |-> NULL]

-----------------------------------------------------------------------------
(* open. *)

(* alt_get_fd: the first free descriptor, if there is one. *)
Available_Full == Fds \cup {MaxFd}
Available      == Fds

Lowest(i) == /\ i \in Available /\ (i \in Fds => alt_fd_list[i].dev = NULL)
             /\ \A j \in Fds : j < i => alt_fd_list[j].dev # NULL

Marked(i) == IF i > alt_max_fd THEN i ELSE alt_max_fd

(* The flags a descriptor of dev starts with. *)
Flags(dev, flags) == (flags \ FdFlagsMask) \cup (IF dev \in Devices THEN {"DEV"} ELSE {})

(* alt_file_locked: is another descriptor of the device locked? max is the
   mark after alt_get_fd. *)
Scanned_Short(max) == 0..max-1
Scanned(max)       == 0..max

Locked(dev, max) == \E j \in Scanned(max) : j \in Fds /\ alt_fd_list[j].dev = dev
                                            /\ "EXCL" \in alt_fd_list[j].fd_flags

(* The descriptors alt_release_fd frees. *)
Releasable_All == Fds
Releasable     == Fds \ Std

Released(list, i) == IF i \in Releasable THEN [list EXCEPT ![i] = FreeFd] ELSE list

(* An open that fails returns the descriptor it took. *)
Refused_Kept(list, i) == list
Refused(list, i)      == Released(list, i)

(* The effect of open on the pool; a device always opens, a file may be missing. *)
Opened(i, dev, flags) ==
    [alt_fd_list EXCEPT ![i] = [dev |-> dev, fd_flags |-> Flags(dev, flags)]]

Open(i, dev, flags) ==
    /\ boot = 0 /\ Lowest(i)
    /\ alt_max_fd' = Marked(i)
    /\ \/ /\ dev \in FileSystems \/ ~Locked(dev, Marked(i))
          /\ alt_fd_list' = Opened(i, dev, flags)
          /\ held' = [held EXCEPT ![i] = dev]
       \/ /\ dev \in FileSystems \/ Locked(dev, Marked(i))
          /\ alt_fd_list' = Refused(Opened(i, dev, flags), i)
          /\ UNCHANGED held
    /\ UNCHANGED boot

(* alt_io_redirect opens the UART for stdout, stdin and stderr in turn, copies
   the descriptor over the standard one and releases it. Nothing is locked yet. *)
Channel == IF boot = 3 THEN 1 ELSE IF boot = 2 THEN 0 ELSE 2
ChannelFlags(fd) == IF fd = 0 THEN {} ELSE {"WRONLY"}

Redirect(i) ==
    /\ boot > 0 /\ boot' = boot - 1 /\ Lowest(i)
    /\ LET list == Opened(i, Uart, ChannelFlags(Channel))
       IN alt_fd_list' = Released([list EXCEPT ![Channel] = list[i]], i)
    /\ alt_max_fd' = Marked(i)
    /\ UNCHANGED held

-----------------------------------------------------------------------------
(* The other calls, on a standard channel or a descriptor the program has. The
   code looks at no other: it would follow a null pointer. *)

Mine(fd) == boot = 0 /\ (fd \in Std \/ held[fd] # NULL)

(* Whatever the driver's close returns, the descriptor is released. *)
Close(fd) ==
    /\ Mine(fd)
    /\ alt_fd_list' = Released(alt_fd_list, fd)
    /\ held' = [held EXCEPT ![fd] = NULL]
    /\ UNCHANGED <<alt_max_fd, boot>>

(* alt_fd_lock looks below the mark only. *)
LockScan_Shorter == 0..alt_max_fd-2
LockScan         == 0..alt_max_fd-1

Lock(fd) ==
    /\ Mine(fd) /\ "DEV" \in alt_fd_list[fd].fd_flags
    /\ \A j \in LockScan : j # fd => alt_fd_list[j].dev # alt_fd_list[fd].dev
    /\ alt_fd_list' = [alt_fd_list EXCEPT ![fd].fd_flags = @ \cup {"EXCL"}]
    /\ UNCHANGED <<alt_max_fd, boot, held>>

Unlock(fd) ==
    /\ Mine(fd) /\ "DEV" \in alt_fd_list[fd].fd_flags
    /\ alt_fd_list' = [alt_fd_list EXCEPT ![fd].fd_flags = @ \ {"EXCL"}]
    /\ UNCHANGED <<alt_max_fd, boot, held>>

SetFlags(fd, flags) ==
    /\ Mine(fd)
    /\ alt_fd_list' = [alt_fd_list EXCEPT ![fd].fd_flags =
                          (@ \ FcntlFlagsMask) \cup (flags \cap FcntlFlagsMask)]
    /\ UNCHANGED <<alt_max_fd, boot, held>>

(* What read and write ask before they call the driver; the null device has
   no read. *)
CanRead(fd)  == /\ alt_fd_list[fd].fd_flags \cap AccMode # {"WRONLY"}
                /\ alt_fd_list[fd].dev \notin {NULL, Null}
CanWrite(fd) == alt_fd_list[fd].fd_flags \cap AccMode # {} /\ alt_fd_list[fd].dev # NULL

-----------------------------------------------------------------------------
Next ==
    \/ \E i \in Available : Redirect(i)
    \/ \E i \in Available, dev \in Devices \cup FileSystems, flags \in OpenFlags :
          Open(i, dev, flags)
    \/ \E fd \in Fds : Close(fd)
    \/ \E fd \in Fds : Lock(fd)
    \/ \E fd \in Fds : Unlock(fd)
    \/ \E fd \in Fds, flags \in OpenFlags : SetFlags(fd, flags)

Spec == Init /\ [][Next]_vars

-----------------------------------------------------------------------------
(* The pool and the program agree: a descriptor above the standard ones is
   taken if and only if the program has it, and on the device it was opened on.
   No failed open, redirection or close loses one or gives one out twice. *)
DescriptorsKept == \A fd \in Fds \ Std : alt_fd_list[fd].dev = held[fd]

(* Once redirected, the standard channels stay on the UART, open for input and
   for output, whatever is closed and however full the pool is. *)
StdioStays ==
    boot = 0 => /\ \A fd \in Std : alt_fd_list[fd].dev = Uart
                /\ CanRead(0) /\ CanWrite(1) /\ CanWrite(2)

(* Of the descriptors of a device one at most is locked. *)
LockUnique ==
    \A i, j \in Fds : ("EXCL" \in alt_fd_list[i].fd_flags /\ "EXCL" \in alt_fd_list[j].fd_flags
                       /\ alt_fd_list[i].dev = alt_fd_list[j].dev) => i = j

(* While a descriptor stays locked, no other descriptor of its device appears. *)
NoneJoins ==
    \A i, j \in Fds :
        ("EXCL" \in alt_fd_list[i].fd_flags /\ "EXCL" \in alt_fd_list'[i].fd_flags
         /\ alt_fd_list'[i].dev = alt_fd_list[i].dev /\ alt_fd_list'[j].dev = alt_fd_list[i].dev)
        => alt_fd_list[j].dev = alt_fd_list[i].dev
LockKeepsOut == [][NoneJoins]_vars
=============================================================================
