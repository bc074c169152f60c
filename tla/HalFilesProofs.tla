--------------------------- MODULE HalFilesProofs ---------------------------
(***************************************************************************)
(* Theorems about the file descriptors of the HAL, for every size of the      *)
(* pool, all file systems and all flags. The invariant behind them adds to    *)
(* what is claimed that every descriptor in use lies at or below the          *)
(* high-water mark, that the locks are on devices and come after boot, and    *)
(* that what alt_fd_lock misses lies above the descriptor it locks.           *)
(***************************************************************************)
EXTENDS HalFiles, TLAPS

Dev(fd)     == alt_fd_list[fd].dev
HasLock(fd) == "EXCL" \in alt_fd_list[fd].fd_flags

(* The mark bounds what is in use. *)
BelowMark ==
    /\ boot < 3 => alt_max_fd >= 3
    /\ \A fd \in Fds \ Std : Dev(fd) # NULL => fd <= alt_max_fd

(* The standard channels, as far as they are redirected. *)
OnUart(fd) == Dev(fd) = Uart /\ alt_fd_list[fd].fd_flags \cap AccMode = ChannelFlags(fd)
Channels ==
    /\ \A fd \in Std : Dev(fd) # NULL
    /\ boot <= 2 => OnUart(1)
    /\ boot <= 1 => OnUart(0)
    /\ boot <= 0 => OnUart(2)

(* Locks are on devices, after boot. *)
Marks ==
    \A fd \in Fds : /\ "DEV" \in alt_fd_list[fd].fd_flags => Dev(fd) \in Devices
                    /\ HasLock(fd) => Dev(fd) \in Devices /\ boot = 0

(* Another descriptor of a locked device lies above the locked one. *)
LockOrder == \A i, j \in Fds : HasLock(i) /\ Dev(i) = Dev(j) /\ i # j => i < j

IInv == TypeOK /\ DescriptorsKept /\ BelowMark /\ Channels /\ Marks /\ LockOrder

USE FilesAssumption, FlagsAssumption DEF FilesAssumption, FlagsAssumption, Fds, Std, Devices

(* The flags an open gives are bits, without a lock. *)
LEMMA FlagsBits ==
    ASSUME NEW dev, NEW flags, flags \subseteq Bits
    PROVE  /\ Flags(dev, flags) \subseteq Bits /\ "EXCL" \notin Flags(dev, flags)
           /\ "DEV" \in Flags(dev, flags) => dev \in Devices
           /\ Flags(dev, flags) \cap AccMode = flags \cap AccMode
BY DEF Flags, Bits, FdFlagsMask, AccMode

(* The flags of the standard channels are bits. *)
LEMMA ChannelBits ==
    ASSUME NEW fd PROVE ChannelFlags(fd) \subseteq Bits /\ ChannelFlags(fd) \cap AccMode = ChannelFlags(fd)
BY DEF ChannelFlags, Bits, AccMode

(* A descriptor that open may take is a free one, above the standard ones. *)
LEMMA LowestFree ==
    ASSUME IInv, NEW i \in Available, Lowest(i)
    PROVE  i \in Fds \ Std /\ Dev(i) = NULL /\ Marked(i) \in Fds
           /\ Marked(i) >= i /\ Marked(i) >= alt_max_fd
<1>1. i \in Fds
  BY DEF Available
<1>2. Dev(i) = NULL
  BY <1>1 DEF Lowest, Dev
<1>3. i \notin Std
  BY <1>2 DEF IInv, Channels
<1> QED
  BY <1>1, <1>2, <1>3 DEF Marked, IInv, TypeOK

(* What redirecting a channel does to the pool. *)
LEMMA RedirectEffect ==
    ASSUME IInv, NEW i \in Available, Redirect(i)
    PROVE  /\ Channel \in Std /\ alt_fd_list'[i] = FreeFd
           /\ alt_fd_list'[Channel].dev = Uart
           /\ alt_fd_list'[Channel].fd_flags = Flags(Uart, ChannelFlags(Channel))
           /\ \A fd \in Fds \ {i, Channel} : alt_fd_list'[fd] = alt_fd_list[fd]
           /\ alt_fd_list' \in [Fds -> [dev : Devices \cup FileSystems \cup {NULL}, fd_flags : SUBSET Bits]]
<1>1. i \in Fds \ Std
  BY LowestFree DEF Redirect
<1>2. Channel \in Std /\ Channel \in Fds
  BY DEF Channel
<1> DEFINE new  == [dev |-> Uart, fd_flags |-> Flags(Uart, ChannelFlags(Channel))]
           list == [alt_fd_list EXCEPT ![i] = new]
<1>3. alt_fd_list' = [[list EXCEPT ![Channel] = list[i]] EXCEPT ![i] = FreeFd]
  BY <1>1 DEF Redirect, Opened, Released, Releasable
<1>4. new \in [dev : Devices \cup FileSystems \cup {NULL}, fd_flags : SUBSET Bits]
  BY FlagsBits, ChannelBits
<1>5. FreeFd \in [dev : Devices \cup FileSystems \cup {NULL}, fd_flags : SUBSET Bits]
  BY DEF FreeFd
<1>6. alt_fd_list \in [Fds -> [dev : Devices \cup FileSystems \cup {NULL}, fd_flags : SUBSET Bits]]
  BY DEF IInv, TypeOK
<1>7. list[i] = new
  BY <1>1, <1>6
<1> HIDE DEF new
<1>8. /\ alt_fd_list'[i] = FreeFd /\ alt_fd_list'[Channel] = new
      /\ \A fd \in Fds \ {i, Channel} : alt_fd_list'[fd] = alt_fd_list[fd]
  BY <1>1, <1>2, <1>3, <1>6, <1>7
<1>9. alt_fd_list' \in [Fds -> [dev : Devices \cup FileSystems \cup {NULL}, fd_flags : SUBSET Bits]]
  BY <1>1, <1>2, <1>3, <1>4, <1>5, <1>6, <1>7
<1> QED
  BY <1>2, <1>8, <1>9 DEF new

(* What open does to the pool: the first free descriptor is taken, or nothing. *)
LEMMA OpenEffect ==
    ASSUME IInv, NEW i \in Available, NEW dev \in Devices \cup FileSystems,
           NEW flags \in OpenFlags, Open(i, dev, flags)
    PROVE  /\ alt_fd_list' \in [Fds -> [dev : Devices \cup FileSystems \cup {NULL}, fd_flags : SUBSET Bits]]
           /\ \A fd \in Fds \ {i} : alt_fd_list'[fd] = alt_fd_list[fd]
           /\ held' \in [Fds -> Devices \cup FileSystems \cup {NULL}]
           /\ \A fd \in Fds \ {i} : held'[fd] = held[fd]
           /\ \/ /\ dev \in FileSystems \/ ~Locked(dev, Marked(i))
                 /\ alt_fd_list'[i].dev = dev /\ held'[i] = dev
                 /\ alt_fd_list'[i].fd_flags = Flags(dev, flags)
              \/ alt_fd_list'[i] = FreeFd /\ held'[i] = NULL
<1>1. i \in Fds \ Std /\ Dev(i) = NULL
  BY LowestFree DEF Open
<1> DEFINE new == [dev |-> dev, fd_flags |-> Flags(dev, flags)]
<1>2. new \in [dev : Devices \cup FileSystems \cup {NULL}, fd_flags : SUBSET Bits]
  BY FlagsBits
<1>3. FreeFd \in [dev : Devices \cup FileSystems \cup {NULL}, fd_flags : SUBSET Bits]
  BY DEF FreeFd
<1>4. /\ alt_fd_list \in [Fds -> [dev : Devices \cup FileSystems \cup {NULL}, fd_flags : SUBSET Bits]]
      /\ held \in [Fds -> Devices \cup FileSystems \cup {NULL}]
  BY DEF IInv, TypeOK
<1>5. held[i] = NULL
  BY <1>1 DEF IInv, DescriptorsKept, Dev
<1>6. CASE /\ dev \in FileSystems \/ ~Locked(dev, Marked(i))
           /\ alt_fd_list' = Opened(i, dev, flags)
           /\ held' = [held EXCEPT ![i] = dev]
  <2>1. alt_fd_list' = [alt_fd_list EXCEPT ![i] = new]
    BY <1>6 DEF Opened
  <2>2. alt_fd_list'[i] = new
    BY <2>1, <1>1, <1>4
  <2> HIDE DEF new
  <2>3. /\ alt_fd_list' \in [Fds -> [dev : Devices \cup FileSystems \cup {NULL}, fd_flags : SUBSET Bits]]
        /\ \A fd \in Fds \ {i} : alt_fd_list'[fd] = alt_fd_list[fd]
    BY <2>1, <1>1, <1>2, <1>4
  <2>4. /\ held' \in [Fds -> Devices \cup FileSystems \cup {NULL}] /\ held'[i] = dev
        /\ \A fd \in Fds \ {i} : held'[fd] = held[fd]
    BY <1>1, <1>4, <1>6
  <2> QED
    BY <1>6, <2>2, <2>3, <2>4 DEF new
<1>7. CASE alt_fd_list' = Refused(Opened(i, dev, flags), i) /\ held' = held
  <2>1. alt_fd_list' = [[alt_fd_list EXCEPT ![i] = new] EXCEPT ![i] = FreeFd]
    BY <1>1, <1>7 DEF Opened, Refused, Released, Releasable
  <2> HIDE DEF new
  <2> QED
    BY <2>1, <1>1, <1>3, <1>4, <1>5, <1>7
<1> QED
  BY <1>6, <1>7 DEF Open

(* The invariant holds at reset. *)
LEMMA InitInv == Init => IInv
<1> SUFFICES ASSUME Init PROVE IInv
  OBVIOUS
<1>1. /\ \A fd \in Std : alt_fd_list[fd].dev = Null /\ alt_fd_list[fd].fd_flags = {}
      /\ \A fd \in Fds \ Std : alt_fd_list[fd].dev = NULL /\ alt_fd_list[fd].fd_flags = {}
  BY DEF Init, FreeFd
<1>2. TypeOK
  <2>1. \A fd \in Fds : (IF fd \in Std THEN [dev |-> Null, fd_flags |-> {}] ELSE FreeFd)
                       \in [dev : Devices \cup FileSystems \cup {NULL}, fd_flags : SUBSET Bits]
    BY DEF FreeFd
  <2>2. alt_fd_list \in [Fds -> [dev : Devices \cup FileSystems \cup {NULL}, fd_flags : SUBSET Bits]]
    BY <2>1 DEF Init
  <2> QED
    BY <2>2 DEF TypeOK, Init
<1>3. DescriptorsKept
  BY <1>1 DEF Init, DescriptorsKept
<1>4. BelowMark
  <2>1. ~(boot < 3)
    BY DEF Init
  <2> QED
    BY <1>1, <2>1 DEF BelowMark, Dev
<1>5. Channels
  BY <1>1 DEF Init, Channels, Dev
<1>6. Marks /\ LockOrder
  BY <1>1 DEF Marks, LockOrder, HasLock, Dev
<1> QED
  BY <1>2, <1>3, <1>4, <1>5, <1>6 DEF IInv

(* Redirecting a channel keeps the invariant. *)
LEMMA RedirectInv ==
    ASSUME IInv, NEW i \in Available, Redirect(i) PROVE IInv'
<1>1. /\ i \in Fds \ Std /\ Dev(i) = NULL /\ Marked(i) \in Fds
      /\ Marked(i) >= i /\ Marked(i) >= alt_max_fd
  BY LowestFree DEF Redirect
<1>2. /\ Channel \in Std /\ alt_fd_list'[i] = FreeFd
      /\ alt_fd_list'[Channel].dev = Uart
      /\ alt_fd_list'[Channel].fd_flags = Flags(Uart, ChannelFlags(Channel))
      /\ \A fd \in Fds \ {i, Channel} : alt_fd_list'[fd] = alt_fd_list[fd]
      /\ alt_fd_list' \in [Fds -> [dev : Devices \cup FileSystems \cup {NULL}, fd_flags : SUBSET Bits]]
  BY RedirectEffect
<1>3. boot \in 1..3 /\ boot' = boot - 1 /\ alt_max_fd' = Marked(i) /\ held' = held
  BY DEF Redirect, IInv, TypeOK
<1>4. /\ Flags(Uart, ChannelFlags(Channel)) \cap AccMode = ChannelFlags(Channel)
      /\ "EXCL" \notin Flags(Uart, ChannelFlags(Channel))
  BY FlagsBits, ChannelBits
<1>5. alt_fd_list'[i].dev = NULL /\ alt_fd_list'[i].fd_flags = {}
  BY <1>2 DEF FreeFd
<1>6. TypeOK'
  BY <1>1, <1>2, <1>3 DEF IInv, TypeOK
<1>7. DescriptorsKept'
  BY <1>1, <1>2, <1>3, <1>5 DEF IInv, DescriptorsKept, Dev
<1>8. BelowMark'
  <2>1. \A fd \in Fds \ Std : Dev(fd)' # NULL => Dev(fd) # NULL
    BY <1>2, <1>5 DEF Dev
  <2>2. \A fd \in Fds \ Std : Dev(fd) # NULL => fd <= alt_max_fd
    BY DEF IInv, BelowMark
  <2>3. alt_max_fd \in -1..MaxFd-1
    BY DEF IInv, TypeOK
  <2> QED
    BY <1>1, <1>3, <2>1, <2>2, <2>3 DEF BelowMark
<1>9. Channels'
  <2>1. \A fd \in Std : fd # Channel => alt_fd_list'[fd] = alt_fd_list[fd]
    BY <1>1, <1>2
  <2>2. \A fd \in Std : fd = Channel => OnUart(fd)'
    BY <1>2, <1>4 DEF OnUart, Dev
  <2>3. \A fd \in Std : fd # Channel /\ OnUart(fd) => OnUart(fd)'
    BY <2>1 DEF OnUart, Dev
  <2>4. \A fd \in Std : Dev(fd)' # NULL
    BY <2>1, <1>2 DEF IInv, Channels, Dev
  <2>5. /\ boot <= 2 => OnUart(1)
        /\ boot <= 1 => OnUart(0)
    BY DEF IInv, Channels
  <2>6. CASE boot = 3
    BY <2>2, <2>4, <2>6, <1>3 DEF Channel, Channels
  <2>7. CASE boot = 2
    BY <2>2, <2>3, <2>4, <2>5, <2>7, <1>3 DEF Channel, Channels
  <2>8. CASE boot = 1
    BY <2>2, <2>3, <2>4, <2>5, <2>8, <1>3 DEF Channel, Channels
  <2> QED
    BY <1>3, <2>6, <2>7, <2>8
<1>10. \A fd \in Fds : ~HasLock(fd)'
  <2>1. \A fd \in Fds : ~HasLock(fd)
    BY <1>3 DEF IInv, Marks
  <2> QED
    BY <2>1, <1>2, <1>4, <1>5 DEF HasLock
<1>11. Marks'
  <2>1. \A fd \in Fds : "DEV" \in alt_fd_list'[fd].fd_flags => Dev(fd)' \in Devices
    BY <1>2, <1>5 DEF IInv, Marks, Dev
  <2> QED
    BY <2>1, <1>10 DEF Marks
<1>12. LockOrder'
  BY <1>10 DEF LockOrder
<1> QED
  BY <1>6, <1>7, <1>8, <1>9, <1>11, <1>12 DEF IInv

(* A descriptor that open hands out is on no device with a locked descriptor:
   the mark covers the locked one. *)
LEMMA OpenRefused ==
    ASSUME IInv, NEW i \in Available, NEW dev \in Devices \cup FileSystems,
           NEW flags \in OpenFlags, Open(i, dev, flags)
    PROVE  \A fd \in Fds \ {i} : HasLock(fd) => Dev(fd) # Dev(i)'
<1>1. /\ i \in Fds \ Std /\ Marked(i) \in Fds
      /\ Marked(i) >= i /\ Marked(i) >= alt_max_fd
  BY LowestFree DEF Open
<1>2. \/ /\ dev \in FileSystems \/ ~Locked(dev, Marked(i))
         /\ alt_fd_list'[i].dev = dev
      \/ alt_fd_list'[i] = FreeFd
  BY OpenEffect
<1>3. FreeFd.dev = NULL
  BY DEF FreeFd
<1> SUFFICES ASSUME NEW fd \in Fds \ {i}, HasLock(fd), Dev(fd) = Dev(i)' PROVE FALSE
  OBVIOUS
<1>4. Dev(fd) \in Devices /\ Dev(fd) # NULL
  BY DEF IInv, Marks
<1>5. Dev(i)' = dev /\ ~Locked(dev, Marked(i))
  BY <1>2, <1>3, <1>4 DEF Dev
<1>6. fd <= Marked(i)
  <2>1. CASE fd \in Std
    BY <2>1, <1>1
  <2>2. CASE fd \notin Std
    <3>1. fd <= alt_max_fd
      BY <1>4, <2>2 DEF IInv, BelowMark
    <3> QED
      BY <3>1, <1>1 DEF IInv, TypeOK
  <2> QED
    BY <2>1, <2>2
<1>7. fd \in Scanned(Marked(i))
  BY <1>6, <1>1 DEF Scanned
<1> QED
  BY <1>5, <1>7 DEF Locked, HasLock, Dev

(* open keeps the invariant. *)
LEMMA OpenInv ==
    ASSUME IInv, NEW i \in Available, NEW dev \in Devices \cup FileSystems,
           NEW flags \in OpenFlags, Open(i, dev, flags)
    PROVE  IInv'
<1>1. /\ i \in Fds \ Std /\ Dev(i) = NULL /\ Marked(i) \in Fds
      /\ Marked(i) >= i /\ Marked(i) >= alt_max_fd
  BY LowestFree DEF Open
<1>2. /\ alt_fd_list' \in [Fds -> [dev : Devices \cup FileSystems \cup {NULL}, fd_flags : SUBSET Bits]]
      /\ \A fd \in Fds \ {i} : alt_fd_list'[fd] = alt_fd_list[fd]
      /\ held' \in [Fds -> Devices \cup FileSystems \cup {NULL}]
      /\ \A fd \in Fds \ {i} : held'[fd] = held[fd]
      /\ \/ /\ dev \in FileSystems \/ ~Locked(dev, Marked(i))
            /\ alt_fd_list'[i].dev = dev /\ held'[i] = dev
            /\ alt_fd_list'[i].fd_flags = Flags(dev, flags)
         \/ alt_fd_list'[i] = FreeFd /\ held'[i] = NULL
  BY OpenEffect
<1>3. boot = 0 /\ boot' = 0 /\ alt_max_fd' = Marked(i)
  BY DEF Open
<1>4. /\ "EXCL" \notin Flags(dev, flags)
      /\ "DEV" \in Flags(dev, flags) => dev \in Devices
  BY FlagsBits
<1>5. FreeFd.dev = NULL /\ FreeFd.fd_flags = {}
  BY DEF FreeFd
<1>6. TypeOK'
  BY <1>1, <1>2, <1>3 DEF IInv, TypeOK
<1>7. DescriptorsKept'
  BY <1>1, <1>2, <1>5 DEF IInv, DescriptorsKept, Dev
<1>8. BelowMark'
  <2>1. \A fd \in Fds \ Std : Dev(fd)' # NULL => fd = i \/ Dev(fd) # NULL
    BY <1>2 DEF Dev
  <2>2. \A fd \in Fds \ Std : Dev(fd) # NULL => fd <= alt_max_fd
    BY DEF IInv, BelowMark
  <2>3. alt_max_fd \in -1..MaxFd-1 /\ alt_max_fd >= 3
    BY <1>3 DEF IInv, TypeOK, BelowMark
  <2> QED
    BY <1>1, <1>3, <2>1, <2>2, <2>3 DEF BelowMark
<1>9. Channels'
  <2>1. \A fd \in Std : alt_fd_list'[fd] = alt_fd_list[fd]
    BY <1>1, <1>2
  <2> QED
    BY <2>1, <1>3 DEF IInv, Channels, OnUart, Dev
<1>10. ~HasLock(i)'
  BY <1>2, <1>4, <1>5 DEF HasLock
<1>11. \A fd \in Fds \ {i} : (HasLock(fd)' <=> HasLock(fd)) /\ Dev(fd)' = Dev(fd)
  BY <1>2 DEF HasLock, Dev
<1>12. Marks'
  <2>1. "DEV" \in alt_fd_list'[i].fd_flags => Dev(i)' \in Devices
    BY <1>2, <1>4, <1>5 DEF Dev
  <2>2. \A fd \in Fds \ {i} : "DEV" \in alt_fd_list'[fd].fd_flags => Dev(fd)' \in Devices
    BY <1>2 DEF IInv, Marks, Dev
  <2>3. \A fd \in Fds \ {i} : HasLock(fd)' => Dev(fd)' \in Devices
    BY <1>11 DEF IInv, Marks
  <2> QED
    BY <2>1, <2>2, <2>3, <1>3, <1>10 DEF Marks
<1>13. \A fd \in Fds \ {i} : HasLock(fd) => Dev(fd) # Dev(i)'
  BY OpenRefused
<1>14. LockOrder'
  <2>1. \A a, b \in Fds \ {i} : HasLock(a) /\ Dev(a) = Dev(b) /\ a # b => a < b
    BY DEF IInv, LockOrder
  <2> QED
    BY <2>1, <1>10, <1>11, <1>13 DEF LockOrder
<1> QED
  BY <1>6, <1>7, <1>8, <1>9, <1>12, <1>14 DEF IInv

(* close keeps the invariant; a standard channel stays as it is. *)
LEMMA CloseInv ==
    ASSUME IInv, NEW c \in Fds, Close(c) PROVE IInv'
<1>1. boot = 0 /\ boot' = 0 /\ alt_max_fd' = alt_max_fd
  BY DEF Close, Mine
<1>2. /\ alt_fd_list \in [Fds -> [dev : Devices \cup FileSystems \cup {NULL}, fd_flags : SUBSET Bits]]
      /\ held \in [Fds -> Devices \cup FileSystems \cup {NULL}]
  BY DEF IInv, TypeOK
<1>3. /\ FreeFd.dev = NULL /\ FreeFd.fd_flags = {}
      /\ FreeFd \in [dev : Devices \cup FileSystems \cup {NULL}, fd_flags : SUBSET Bits]
  BY DEF FreeFd
<1>4. /\ alt_fd_list' \in [Fds -> [dev : Devices \cup FileSystems \cup {NULL}, fd_flags : SUBSET Bits]]
      /\ \A fd \in Fds \ {c} : alt_fd_list'[fd] = alt_fd_list[fd]
      /\ c \in Std => alt_fd_list'[c] = alt_fd_list[c]
      /\ c \notin Std => alt_fd_list'[c] = FreeFd
  <2>1. CASE c \in Std
    BY <2>1, <1>2 DEF Close, Released, Releasable
  <2>2. CASE c \notin Std
    <3>1. alt_fd_list' = [alt_fd_list EXCEPT ![c] = FreeFd]
      BY <2>2 DEF Close, Released, Releasable
    <3> QED
      BY <3>1, <2>2, <1>2, <1>3
  <2> QED
    BY <2>1, <2>2
<1>5. /\ held' \in [Fds -> Devices \cup FileSystems \cup {NULL}] /\ held'[c] = NULL
      /\ \A fd \in Fds \ {c} : held'[fd] = held[fd]
  BY <1>2 DEF Close
<1>6. TypeOK'
  BY <1>1, <1>4, <1>5 DEF IInv, TypeOK
<1>7. DescriptorsKept'
  BY <1>3, <1>4, <1>5 DEF IInv, DescriptorsKept
<1>8. \A fd \in Fds : Dev(fd)' # NULL => alt_fd_list'[fd] = alt_fd_list[fd]
  BY <1>3, <1>4 DEF Dev
<1>9. BelowMark'
  BY <1>1, <1>8 DEF IInv, BelowMark, Dev
<1>10. Channels'
  <2>1. \A fd \in Std : alt_fd_list'[fd] = alt_fd_list[fd]
    BY <1>4
  <2> QED
    BY <2>1, <1>1 DEF IInv, Channels, OnUart, Dev
<1>11. \A fd \in Fds : "DEV" \in alt_fd_list'[fd].fd_flags \/ HasLock(fd)'
                       => alt_fd_list'[fd] = alt_fd_list[fd]
  BY <1>3, <1>4 DEF HasLock
<1>12. Marks'
  BY <1>1, <1>11 DEF IInv, Marks, HasLock, Dev
<1>13. LockOrder'
  <2> SUFFICES ASSUME NEW a \in Fds, NEW b \in Fds, HasLock(a)', Dev(a)' = Dev(b)', a # b
               PROVE  a < b
    BY DEF LockOrder
  <2>1. HasLock(a) /\ Dev(a)' = Dev(a)
    BY <1>11 DEF HasLock, Dev
  <2>2. Dev(a) # NULL
    BY <2>1 DEF IInv, Marks
  <2>3. Dev(b)' = Dev(b)
    BY <2>1, <2>2, <1>8 DEF Dev
  <2> QED
    BY <2>1, <2>3 DEF IInv, LockOrder
<1> QED
  BY <1>6, <1>7, <1>9, <1>10, <1>12, <1>13 DEF IInv

(* A change of flags that keeps the access mode and the device bit keeps the
   invariant, if a new lock has the other descriptors of the device above it. *)
LEMMA FlagsInv ==
    ASSUME IInv, NEW c \in Fds, Mine(c), NEW flags \in SUBSET Bits,
           alt_fd_list' = [alt_fd_list EXCEPT ![c].fd_flags = flags],
           flags \cap AccMode = alt_fd_list[c].fd_flags \cap AccMode,
           "DEV" \in flags <=> "DEV" \in alt_fd_list[c].fd_flags,
           "EXCL" \in flags => \/ HasLock(c)
                               \/ /\ "DEV" \in flags
                                  /\ \A j \in Fds : Dev(j) = Dev(c) /\ j # c => c < j,
           UNCHANGED <<alt_max_fd, boot, held>>
    PROVE  IInv'
<1>1. boot = 0 /\ boot' = 0 /\ alt_max_fd' = alt_max_fd /\ held' = held
  BY DEF Mine
<1>2. alt_fd_list \in [Fds -> [dev : Devices \cup FileSystems \cup {NULL}, fd_flags : SUBSET Bits]]
  BY DEF IInv, TypeOK
<1>3. /\ alt_fd_list' \in [Fds -> [dev : Devices \cup FileSystems \cup {NULL}, fd_flags : SUBSET Bits]]
      /\ \A fd \in Fds \ {c} : alt_fd_list'[fd] = alt_fd_list[fd]
      /\ alt_fd_list'[c].dev = alt_fd_list[c].dev /\ alt_fd_list'[c].fd_flags = flags
  BY <1>2
<1>4. \A fd \in Fds : Dev(fd)' = Dev(fd)
  BY <1>3 DEF Dev
<1>5. TypeOK'
  BY <1>1, <1>3 DEF IInv, TypeOK
<1>6. DescriptorsKept' /\ BelowMark'
  BY <1>1, <1>4 DEF IInv, DescriptorsKept, BelowMark, Dev
<1>7. Channels'
  <2>1. \A fd \in Std : alt_fd_list'[fd].fd_flags \cap AccMode = alt_fd_list[fd].fd_flags \cap AccMode
    BY <1>3
  <2> QED
    BY <2>1, <1>1, <1>4 DEF IInv, Channels, OnUart
<1>8. /\ \A fd \in Fds \ {c} : HasLock(fd)' <=> HasLock(fd)
      /\ HasLock(c)' <=> "EXCL" \in flags
  BY <1>3 DEF HasLock
<1>9. Marks'
  BY <1>1, <1>3, <1>4, <1>8 DEF IInv, Marks
<1>10. LockOrder'
  BY <1>4, <1>8 DEF IInv, LockOrder
<1> QED
  BY <1>5, <1>6, <1>7, <1>9, <1>10 DEF IInv

(* A lock that is granted: what the scan did not see lies above. *)
LEMMA LockInv ==
    ASSUME IInv, NEW c \in Fds, Lock(c) PROVE IInv'
<1> DEFINE flags == alt_fd_list[c].fd_flags \cup {"EXCL"}
<1>1. Mine(c) /\ "DEV" \in alt_fd_list[c].fd_flags /\ UNCHANGED <<alt_max_fd, boot, held>>
  BY DEF Lock
<1>2. alt_fd_list \in [Fds -> [dev : Devices \cup FileSystems \cup {NULL}, fd_flags : SUBSET Bits]]
  BY DEF IInv, TypeOK
<1>3. flags \in SUBSET Bits
  BY <1>2 DEF Bits
<1>4. alt_fd_list' = [alt_fd_list EXCEPT ![c].fd_flags = flags]
  BY DEF Lock
<1>5. flags \cap AccMode = alt_fd_list[c].fd_flags \cap AccMode /\ "DEV" \in flags
  BY <1>1 DEF AccMode
<1>6. \A j \in Fds : Dev(j) = Dev(c) /\ j # c => c < j
  <2> SUFFICES ASSUME NEW j \in Fds, Dev(j) = Dev(c), j # c PROVE c < j
    OBVIOUS
  <2>1. j \notin LockScan
    BY DEF Lock, Dev
  <2>2. alt_max_fd \in 0..MaxFd-1 /\ alt_max_fd >= 3
    BY <1>1 DEF Mine, IInv, TypeOK, BelowMark
  <2>3. j >= alt_max_fd
    BY <2>1, <2>2 DEF LockScan
  <2>4. c <= alt_max_fd
    <3>1. CASE c \in Std
      BY <3>1, <2>2
    <3>2. CASE c \notin Std
      <4>1. Dev(c) # NULL
        BY <1>1, <3>2 DEF Mine, IInv, DescriptorsKept, Dev
      <4> QED
        BY <3>2, <4>1 DEF IInv, BelowMark
    <3> QED
      BY <3>1, <3>2
  <2> QED
    BY <2>2, <2>3, <2>4
<1> HIDE DEF flags
<1> QED
  BY FlagsInv, <1>1, <1>3, <1>4, <1>5, <1>6

(* Taking a lock back keeps the invariant. *)
LEMMA UnlockInv ==
    ASSUME IInv, NEW c \in Fds, Unlock(c) PROVE IInv'
<1> DEFINE flags == alt_fd_list[c].fd_flags \ {"EXCL"}
<1>1. alt_fd_list[c].fd_flags \in SUBSET Bits
  BY DEF IInv, TypeOK
<1>2. /\ flags \in SUBSET Bits /\ "EXCL" \notin flags
      /\ flags \cap AccMode = alt_fd_list[c].fd_flags \cap AccMode
      /\ "DEV" \in flags <=> "DEV" \in alt_fd_list[c].fd_flags
  BY <1>1 DEF AccMode
<1>3. /\ Mine(c) /\ UNCHANGED <<alt_max_fd, boot, held>>
      /\ alt_fd_list' = [alt_fd_list EXCEPT ![c].fd_flags = flags]
  BY DEF Unlock
<1> HIDE DEF flags
<1> QED
  BY FlagsInv, <1>2, <1>3

(* fcntl keeps the invariant. *)
LEMMA SetFlagsInv ==
    ASSUME IInv, NEW c \in Fds, NEW new \in OpenFlags, SetFlags(c, new) PROVE IInv'
<1> DEFINE flags == (alt_fd_list[c].fd_flags \ FcntlFlagsMask) \cup (new \cap FcntlFlagsMask)
<1>1. alt_fd_list[c].fd_flags \in SUBSET Bits /\ new \in SUBSET Bits
  BY DEF IInv, TypeOK
<1>2. /\ flags \in SUBSET Bits
      /\ flags \cap AccMode = alt_fd_list[c].fd_flags \cap AccMode
      /\ "DEV" \in flags <=> "DEV" \in alt_fd_list[c].fd_flags
      /\ "EXCL" \in flags => HasLock(c)
  BY <1>1 DEF AccMode, FcntlFlagsMask, HasLock
<1>3. /\ Mine(c) /\ UNCHANGED <<alt_max_fd, boot, held>>
      /\ alt_fd_list' = [alt_fd_list EXCEPT ![c].fd_flags = flags]
  BY DEF SetFlags
<1> HIDE DEF flags
<1> QED
  BY FlagsInv, <1>2, <1>3

(* Every step keeps the invariant. *)
LEMMA NextInv == IInv /\ [Next]_vars => IInv'
<1> SUFFICES ASSUME IInv, [Next]_vars PROVE IInv'
  OBVIOUS
<1>1. ASSUME NEW i \in Available, Redirect(i) PROVE IInv'
  BY <1>1, RedirectInv
<1>2. ASSUME NEW i \in Available, NEW dev \in Devices \cup FileSystems,
             NEW flags \in OpenFlags, Open(i, dev, flags)
      PROVE  IInv'
  BY <1>2, OpenInv
<1>3. ASSUME NEW fd \in Fds, Close(fd) PROVE IInv'
  BY <1>3, CloseInv
<1>4. ASSUME NEW fd \in Fds, Lock(fd) PROVE IInv'
  BY <1>4, LockInv
<1>5. ASSUME NEW fd \in Fds, Unlock(fd) PROVE IInv'
  BY <1>5, UnlockInv
<1>6. ASSUME NEW fd \in Fds, NEW flags \in OpenFlags, SetFlags(fd, flags) PROVE IInv'
  BY <1>6, SetFlagsInv
<1>7. CASE UNCHANGED vars
  BY <1>7 DEF vars, IInv, TypeOK, DescriptorsKept, BelowMark, Channels, OnUart, Marks,
              LockOrder, HasLock, Dev
<1> QED
  BY <1>1, <1>2, <1>3, <1>4, <1>5, <1>6, <1>7 DEF Next

(* The invariant holds in every state. *)
LEMMA Invariance == Spec => []IInv
BY InitInv, NextInv, PTL DEF Spec

(* Type correctness of the pool and its mark. *)
THEOREM TypeCorrect == Spec => []TypeOK
<1>1. IInv => TypeOK
  BY DEF IInv
<1> QED
  BY Invariance, <1>1, PTL

(* No descriptor is lost or given out twice, by whatever opens that fail,
   redirections and closes. *)
THEOREM NoneLost == Spec => []DescriptorsKept
<1>1. IInv => DescriptorsKept
  BY DEF IInv
<1> QED
  BY Invariance, <1>1, PTL

(* The standard channels stay on the UART. *)
THEOREM StdioKept == Spec => []StdioStays
<1>1. IInv => StdioStays
  <2> SUFFICES ASSUME IInv, boot = 0
               PROVE  /\ \A fd \in Std : alt_fd_list[fd].dev = Uart
                      /\ CanRead(0) /\ CanWrite(1) /\ CanWrite(2)
    BY DEF StdioStays
  <2>1. OnUart(0) /\ OnUart(1) /\ OnUart(2)
    BY DEF IInv, Channels
  <2>2. \A fd \in Std : alt_fd_list[fd].dev = Uart
    BY <2>1 DEF OnUart, Dev
  <2>3. alt_fd_list[0].fd_flags \cap AccMode = {}
    BY <2>1 DEF OnUart, ChannelFlags
  <2>4. /\ alt_fd_list[1].fd_flags \cap AccMode = {"WRONLY"}
        /\ alt_fd_list[2].fd_flags \cap AccMode = {"WRONLY"}
    BY <2>1 DEF OnUart, ChannelFlags
  <2> QED
    BY <2>2, <2>3, <2>4 DEF CanRead, CanWrite
<1> QED
  BY Invariance, <1>1, PTL

(* Two locks on one device would each have to lie below the other. *)
THEOREM OneLock == Spec => []LockUnique
<1>1. IInv => LockUnique
  <2> SUFFICES ASSUME IInv, NEW i \in Fds, NEW j \in Fds, HasLock(i), HasLock(j),
                      Dev(i) = Dev(j), i # j
               PROVE  FALSE
    BY DEF LockUnique, HasLock, Dev
  <2>1. i < j /\ j < i
    BY DEF IInv, LockOrder
  <2> QED
    BY <2>1
<1> QED
  BY Invariance, <1>1, PTL

(* No descriptor of a device appears while another one stays locked. *)
THEOREM LockedOut == Spec => LockKeepsOut
<1>1. IInv /\ [Next]_vars => [NoneJoins]_vars
  <2> SUFFICES ASSUME IInv, Next, NEW i \in Fds, NEW j \in Fds,
                      HasLock(i), HasLock(i)', Dev(i)' = Dev(i), Dev(j)' = Dev(i)
               PROVE  Dev(j) = Dev(i)
    BY DEF NoneJoins, HasLock, Dev
  <2>1. boot = 0
    BY DEF IInv, Marks
  <2>2. ASSUME NEW k \in Available, NEW dev \in Devices \cup FileSystems,
               NEW flags \in OpenFlags, Open(k, dev, flags)
        PROVE  Dev(j) = Dev(i)
    <3>1. Dev(k) = NULL /\ Dev(i) # NULL
      BY <2>2, LowestFree DEF Open, IInv, Marks
    <3>2. Dev(i) # Dev(k)'
      BY <2>2, <3>1, OpenRefused
    <3> QED
      BY <2>2, <3>2, OpenEffect DEF Dev
  <2>3. ASSUME NEW c \in Fds, Close(c) PROVE Dev(j) = Dev(i)
    <3>1. alt_fd_list \in [Fds -> [dev : Devices \cup FileSystems \cup {NULL}, fd_flags : SUBSET Bits]]
      BY DEF IInv, TypeOK
    <3>2. alt_fd_list'[j] = alt_fd_list[j] \/ alt_fd_list'[j] = FreeFd
      BY <2>3, <3>1 DEF Close, Released
    <3>3. FreeFd.dev = NULL /\ Dev(i) # NULL
      BY DEF FreeFd, IInv, Marks
    <3> QED
      BY <3>2, <3>3 DEF Dev
  <2>4. ASSUME NEW c \in Fds, Lock(c) \/ Unlock(c) \/ \E flags \in OpenFlags : SetFlags(c, flags)
        PROVE  Dev(j) = Dev(i)
    <3>1. alt_fd_list \in [Fds -> [dev : Devices \cup FileSystems \cup {NULL}, fd_flags : SUBSET Bits]]
      BY DEF IInv, TypeOK
    <3>2. \E flags : alt_fd_list' = [alt_fd_list EXCEPT ![c].fd_flags = flags]
      BY <2>4 DEF Lock, Unlock, SetFlags
    <3>3. Dev(j)' = Dev(j)
      BY <3>1, <3>2 DEF Dev
    <3> QED
      BY <3>3
  <2> QED
    BY <2>1, <2>2, <2>3, <2>4 DEF Next, Redirect
<1> QED
  BY Invariance, <1>1, PTL DEF Spec, LockKeepsOut
=============================================================================
