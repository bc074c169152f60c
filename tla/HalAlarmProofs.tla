--------------------------- MODULE HalAlarmProofs ---------------------------
(***************************************************************************)
(* Theorems about the system clock, for every number of alarms, every modulus *)
(* of the tick counter and all delays and periods below it.                   *)
(***************************************************************************)
EXTENDS HalAlarm, TLAPS

\* An alarm that is off is linked to itself, or has never been on the list.
OffInv == \A a \in Alarms \ Running : next[a] \in {NULL, a} /\ previous[a] = next[a]

\* The tick counter and the flag together tell how long an alarm has to wait. In
\* the tick of the wrap the flag may be stale: it is cleared by the walk.
TimeInv ==
    \A a \in Running :
        time[a] = IF nticks # 0 /\ rollover[a] THEN nticks + left[a] - TickMod
                                               ELSE nticks + left[a]

\* What the walk of this tick has still to see.
Pending == {a \in Running : left[a] = 0 \/ (nticks = 0 /\ rollover[a])}

\* The walk stands on the list, before all that it has still to see; that is also
\* so where the callback, which may stop its own alarm, is about to leave it.
WalkInv ==
    /\ pc = "idle" => Pending = {}
    /\ pc # "idle" => tick_rate
    /\ pc # "callback" => nextAlarm = NULL
    /\ pc = "visit" => alarm \in Ring /\ Pending \subseteq Ahead(alarm)
    /\ pc = "callback" =>
          /\ alarm \in Alarms /\ next[alarm] # NULL
          /\ nticks = 0 /\ alarm \in Running => ~rollover[alarm]
          /\ nextAlarm \in Ring \ {alarm}
          /\ Pending \subseteq Ahead(nextAlarm) \cup {alarm}

IInv == TypeOK /\ ListWhole /\ OffInv /\ TimeInv /\ WalkInv

-----------------------------------------------------------------------------
(* The list. *)

\* What holds of the entries that follow from x.
LEMMA AheadIn ==
    ASSUME NEW x, NEW y \in Ahead(x), NEW S \in SUBSET Ring, Follows(S, x)
    PROVE  y \in S
  BY DEF Ahead

\* From an entry on come the entry itself and what comes after its next.
LEMMA AheadNext ==
    ASSUME NEW x \in Ring \ {Head}
    PROVE  Ahead(x) \subseteq Ahead(next[x]) \cup {x}
<1> SUFFICES ASSUME NEW y \in Ahead(x), y # x, NEW S \in SUBSET Ring, Follows(S, next[x])
             PROVE  y \in S
  BY DEF Ahead
<1>1. Follows(S \cup {x}, x) /\ S \cup {x} \in SUBSET Ring
  BY DEF Follows
<1> QED BY <1>1, AheadIn

\* The head is the last.
LEMMA AheadHead == Ahead(Head) \subseteq {Head}
<1>1. Follows({Head}, Head) /\ {Head} \in SUBSET Ring
  BY DEF Follows, Ring
<1> QED BY <1>1, AheadIn

\* Each entry comes after the one it is linked back to.
LEMMA Previous ==
    ASSUME ListWhole, NEW a \in Ring
    PROVE  previous[a] \in Ring /\ next[previous[a]] = a
<1>1. PICK x \in Ring : next[x] = a
  <2>1. SUFFICES ASSUME \A x \in Ring : next[x] # a PROVE FALSE
    OBVIOUS
  <2>2. Follows(Ring \ {a}, next[Head]) /\ Ring \ {a} \in SUBSET Ring
    BY <2>1 DEF Follows, ListWhole, Ring
  <2>3. a \in Ahead(next[Head])
    BY DEF ListWhole
  <2> QED BY <2>2, <2>3, AheadIn
<1> QED BY <1>1 DEF ListWhole

\* An alarm on the list is not linked to itself.
LEMMA NotItself ==
    ASSUME ListWhole, AlarmAssumption, NEW a \in Running
    PROVE  next[a] # a
<1>1. a # Head /\ a \in Ring /\ Head \in Ring
  BY DEF AlarmAssumption, Running, Ring
<1>2. SUFFICES ASSUME next[a] = a PROVE FALSE
  OBVIOUS
<1>3. \A x \in Ring \ {a} : next[x] # a
  BY <1>1, <1>2 DEF ListWhole
<1>4. Follows(Ring \ {a}, next[Head]) /\ Ring \ {a} \in SUBSET Ring
  BY <1>1, <1>3 DEF Follows, ListWhole
<1>5. a \in Ahead(next[Head])
  BY <1>1 DEF ListWhole
<1> QED BY <1>4, <1>5, AheadIn

\* An alarm put on the list comes before all others, and after the head.
LEMMA InsertWhole ==
    ASSUME TypeOK, AlarmAssumption, ListWhole, NEW a \in Alarms \ Running,
           Inserted(a), Running' = Running \cup {a}
    PROVE  ListWhole' /\ \A x \in Ring : Ahead(x) \subseteq Ahead(x)'
<1>1. /\ next \in [Nodes -> Nodes \cup {NULL}] /\ previous \in [Nodes -> Nodes \cup {NULL}]
      /\ a \in Nodes /\ a \notin Ring /\ Head \in Ring /\ Ring \subseteq Nodes
      /\ Ring' = Ring \cup {a} /\ next[Head] \in Ring
  BY DEF TypeOK, AlarmAssumption, Nodes, Running, Ring, ListWhole
<1>2. /\ next'[a] = next[Head] /\ next'[Head] = a
      /\ \A y \in Ring \ {Head} : next'[y] = next[y]
      /\ previous'[a] = Head /\ previous'[next[Head]] = a
      /\ \A y \in Ring \ {next[Head]} : previous'[y] = previous[y]
  BY <1>1 DEF Inserted
<1>3. \A x \in Ring' : next'[x] \in Ring' /\ previous'[next'[x]] = x
  BY <1>1, <1>2 DEF ListWhole
<1>4. ASSUME NEW x \in Ring, NEW S \in SUBSET Ring', Follows(S, x)'
      PROVE  Follows(S \ {a}, x) /\ S \ {a} \in SUBSET Ring
  BY <1>1, <1>2, <1>4 DEF Follows, ListWhole
<1>5. \A x \in Ring : Ahead(x) \subseteq Ahead(x)'
  <2> SUFFICES ASSUME NEW x \in Ring, NEW y \in Ahead(x),
                      NEW S \in SUBSET Ring', Follows(S, x)'
               PROVE  y \in S /\ y \in Ring'
    BY <1>1 DEF Ahead
  <2> QED BY <1>1, <1>4, AheadIn DEF Ahead
<1>6. Ahead(next[Head])' = Ring'
  <2> SUFFICES ASSUME NEW S \in SUBSET Ring', Follows(S, next[Head])'
               PROVE  Ring' \subseteq S
    BY DEF Ahead
  <2>1. PICK h \in Ring : h = next[Head]
    BY <1>1
  <2>2. a \in S /\ Follows(S, h)'
    BY <1>1, <1>2, <2>1 DEF Follows, AlarmAssumption
  <2>3. Follows(S \ {a}, h) /\ S \ {a} \in SUBSET Ring
    BY <1>4, <2>2
  <2>4. \A y \in Ring : y \in Ahead(h)
    BY <2>1 DEF ListWhole
  <2> QED BY <1>1, <2>2, <2>3, <2>4, AheadIn
<1> QED BY <1>3, <1>5, <1>6 DEF ListWhole

\* An alarm taken off leaves the others in their order.
LEMMA RemoveWhole ==
    ASSUME TypeOK, AlarmAssumption, ListWhole, NEW a \in Running,
           Removed(a), Running' = Running \ {a}
    PROVE  ListWhole' /\ \A x \in Ring \ {a} : Ahead(x) \ {a} \subseteq Ahead(x)'
<1>1. /\ next \in [Nodes -> Nodes \cup {NULL}] /\ previous \in [Nodes -> Nodes \cup {NULL}]
      /\ a \in Nodes /\ a \in Ring /\ a # Head /\ Head \in Ring /\ Ring \subseteq Nodes
      /\ Ring' = Ring \ {a} /\ next[a] \in Ring'
  BY NotItself DEF TypeOK, AlarmAssumption, Nodes, Running, Ring, ListWhole
<1>2. PICK p \in Ring' : p = previous[a] /\ next[p] = a
  BY <1>1, Previous, NotItself
<1>3. /\ next'[p] = next[a] /\ \A y \in Ring' \ {p} : next'[y] = next[y] /\ next[y] # a
      /\ previous'[next[a]] = p /\ \A y \in Ring' \ {next[a]} : previous'[y] = previous[y]
  <2>1. \A y \in Ring \ {p} : next[y] # a
    BY <1>2 DEF ListWhole
  <2> QED BY <1>1, <1>2, <2>1 DEF Removed, Unlinked
<1>4. \A x \in Ring' : next'[x] \in Ring' /\ previous'[next'[x]] = x
  <2> SUFFICES ASSUME NEW x \in Ring' PROVE next'[x] \in Ring' /\ previous'[next'[x]] = x
    OBVIOUS
  <2>1. CASE x = p
    BY <1>1, <1>3, <2>1
  <2>2. CASE x # p
    <3>1. next'[x] = next[x] /\ next[x] \in Ring' /\ previous[next[x]] = x
      BY <1>1, <1>3, <2>2 DEF ListWhole
    <3>2. next[x] # next[a]
      BY <1>1, <3>1 DEF ListWhole
    <3> QED BY <1>3, <3>1, <3>2
  <2> QED BY <2>1, <2>2
<1>5. ASSUME NEW S \in SUBSET Ring', NEW x \in S, Follows(S, x)'
      PROVE  /\ Follows(S \cup {a}, x) \/ Follows(S, x)
             /\ p = Head /\ next[a] \in S => Follows(S \cup {a}, x)
             /\ \A y \in Ahead(x) : y \in S \cup {a}
  <2>1. S \cup {a} \in SUBSET Ring /\ S \in SUBSET Ring
    BY <1>1
  <2>2. Follows(S \cup {a}, x) \/ Follows(S, x)
    <3>1. CASE p \in S \ {Head}
      BY <1>1, <1>2, <1>3, <1>5, <3>1 DEF Follows
    <3>2. CASE p \notin S \ {Head}
      BY <1>1, <1>2, <1>3, <1>5, <3>2 DEF Follows
    <3> QED BY <3>1, <3>2
  <2>3. p = Head /\ next[a] \in S => Follows(S \cup {a}, x)
    BY <1>1, <1>2, <1>3, <1>5 DEF Follows
  <2>4. ASSUME NEW y \in Ahead(x) PROVE y \in S \cup {a}
    <3>1. CASE Follows(S, x)
      BY <2>1, <3>1, AheadIn
    <3>2. CASE Follows(S \cup {a}, x)
      BY <2>1, <3>2, AheadIn
    <3> QED BY <2>2, <3>1, <3>2
  <2> QED BY <2>2, <2>3, <2>4
<1>6. \A x \in Ring \ {a} : Ahead(x) \ {a} \subseteq Ahead(x)'
  <2> SUFFICES ASSUME NEW x \in Ring \ {a}, NEW y \in Ahead(x), y # a,
                      NEW S \in SUBSET Ring', Follows(S, x)'
               PROVE  y \in S /\ y \in Ring'
    BY <1>1 DEF Ahead
  <2>1. x \in S
    BY DEF Follows
  <2>2. y \in S
    BY <1>5, <2>1
  <2> QED BY <2>2
<1>7. Ahead(next[Head])' = Ring'
  <2> SUFFICES ASSUME NEW S \in SUBSET Ring', Follows(S, next[Head])'
               PROVE  Ring' \subseteq S
    BY DEF Ahead
  <2>1. PICK h \in Ring : h = next[Head]
    BY <1>1 DEF ListWhole
  <2>2. PICK g \in S : g = next'[Head] /\ Follows(S, g)'
    BY DEF Follows
  <2>3. \A y \in Ring : y \in Ahead(h)
    BY <2>1 DEF ListWhole
  <2>4. CASE p = Head
    <3>1. h = a /\ g = next[a] /\ S \cup {a} \in SUBSET Ring
      BY <1>1, <1>2, <1>3, <2>1, <2>2, <2>4
    <3>2. Follows(S \cup {a}, g)
      BY <1>5, <2>2, <2>4, <3>1
    <3>3. Follows(S \cup {a}, a)
      BY <3>2 DEF Follows
    <3> QED BY <1>1, <2>3, <3>1, <3>3, AheadIn
  <2>5. CASE p # Head
    <3>1. h = g
      BY <1>1, <1>2, <1>3, <2>1, <2>2, <2>5
    <3>2. \A y \in Ring : y \in S \cup {a}
      BY <1>5, <2>2, <2>3, <3>1
    <3> QED BY <1>1, <3>2
  <2> QED BY <2>4, <2>5
<1> QED BY <1>4, <1>6, <1>7 DEF ListWhole

\* While the links and the set of running alarms stay, so does the list.
LEMMA ListStays ==
    ASSUME ListWhole, OffInv, UNCHANGED links, Running' = Running
    PROVE  ListWhole' /\ OffInv' /\ Ring' = Ring /\ \A x : Ahead(x)' = Ahead(x)
<1>1. next' = next /\ previous' = previous /\ Ring' = Ring
  BY DEF links, Ring
<1> QED BY <1>1 DEF ListWhole, OffInv, Ahead, Follows

\* Taking an alarm off twice does nothing, for it is linked to itself.
LEMMA RemovedWhole ==
    ASSUME TypeOK, AlarmAssumption, ListWhole, OffInv, NEW a \in Alarms, next[a] # NULL,
           Removed(a), Running' = Running \ {a}
    PROVE  ListWhole' /\ \A x \in Ring \ {a} : Ahead(x) \ {a} \subseteq Ahead(x)'
<1>1. CASE a \in Running
  BY <1>1, RemoveWhole
<1>2. CASE a \notin Running
  <2>1. next[a] = a /\ previous[a] = a /\ Running' = Running
    BY <1>2 DEF OffInv
  <2>2. next' = next /\ previous' = previous
    BY <2>1 DEF Removed, Unlinked, TypeOK, Nodes
  <2> QED BY <2>1, <2>2, ListStays DEF links
<1> QED BY <1>1, <1>2

\* The links after it: none is lost, and the alarm taken off is linked to itself.
LEMMA RemovedTypes ==
    ASSUME TypeOK, AlarmAssumption, ListWhole, OffInv, NEW a \in Alarms, next[a] # NULL,
           Removed(a)
    PROVE  /\ next' \in [Nodes -> Nodes \cup {NULL}] /\ previous' \in [Nodes -> Nodes \cup {NULL}]
           /\ \A x \in Nodes : next[x] # NULL => next'[x] # NULL
           /\ Running' = Running \ {a} => OffInv'
<1>1. /\ next \in [Nodes -> Nodes \cup {NULL}] /\ previous \in [Nodes -> Nodes \cup {NULL}]
      /\ a \in Nodes /\ a # NULL
  BY DEF TypeOK, Nodes, AlarmAssumption
<1>2. /\ next' = [[next EXCEPT ![previous[a]] = next[a]] EXCEPT ![a] = a]
      /\ previous' = [[previous EXCEPT ![next[a]] = previous[a]] EXCEPT ![a] = a]
  BY DEF Removed, Unlinked
<1>3. /\ next' \in [Nodes -> Nodes \cup {NULL}] /\ previous' \in [Nodes -> Nodes \cup {NULL}]
      /\ \A x \in Nodes : next[x] # NULL => next'[x] # NULL
  BY <1>1, <1>2
<1>4. ASSUME Running' = Running \ {a}, NEW b \in Alarms \ Running'
      PROVE  next'[b] \in {NULL, b} /\ previous'[b] = next'[b]
  <2>1. CASE b = a
    BY <1>1, <1>2, <2>1
  <2>2. CASE b # a
    <3>1. b \in Alarms \ Running /\ b \in Nodes /\ b \notin Ring
      BY <1>4, <2>2 DEF Nodes, Ring, AlarmAssumption
    <3>2. b # previous[a] /\ b # next[a]
      <4>1. CASE a \in Running
        BY <3>1, <4>1, Previous DEF ListWhole, Ring
      <4>2. CASE a \notin Running
        BY <2>2, <4>2 DEF OffInv
      <4> QED BY <4>1, <4>2
    <3> QED BY <1>1, <1>2, <2>2, <3>1, <3>2 DEF OffInv
  <2> QED BY <2>1, <2>2
<1> QED BY <1>3, <1>4 DEF OffInv

-----------------------------------------------------------------------------
(* The clock. *)

\* A sum of two numbers of ticks wraps at most once.
LEMMA WrapIs ==
    ASSUME AlarmAssumption, NEW x \in Nat, x < 2 * TickMod
    PROVE  Wrapped(x) = IF x < TickMod THEN x ELSE x - TickMod
<1>1. TickMod \in Nat \ {0}
  BY DEF AlarmAssumption
<1>2. x \div TickMod \in Int /\ x % TickMod \in 0..TickMod-1 /\ x = TickMod * (x \div TickMod) + (x % TickMod)
  BY <1>1
<1>3. PICK q \in Int, r \in 0..TickMod-1 : r = x % TickMod /\ x = TickMod * q + r
  BY <1>2
<1>4. (q >= 2 => TickMod * q >= 2 * TickMod) /\ (q <= -1 => TickMod * q <= -TickMod)
  BY <1>1
<1>5. q \in {0, 1}
  BY <1>1, <1>3, <1>4
<1>6. r = IF x < TickMod THEN x ELSE x - TickMod
  BY <1>1, <1>3, <1>5
<1> QED BY <1>3, <1>6 DEF Wrapped

\* An alarm that is set d ticks ahead has the time and the flag for it.
LEMMA SetIs ==
    ASSUME AlarmAssumption, nticks \in 0..TickMod-1, NEW d \in 1..TickMod-1
    PROVE  /\ Wrapped(nticks + d) \in 0..TickMod-1
           /\ Wrapped(nticks + d) = IF Early(Wrapped(nticks + d)) THEN nticks + d - TickMod
                                                                 ELSE nticks + d
           /\ nticks = 0 => ~Early(Wrapped(nticks + d))
<1>1. TickMod \in Nat /\ nticks + d \in Nat /\ nticks + d < 2 * TickMod
  BY DEF AlarmAssumption
<1>2. PICK w \in Nat : w = Wrapped(nticks + d)
                     /\ w = IF nticks + d < TickMod THEN nticks + d ELSE nticks + d - TickMod
  BY <1>1, WrapIs
<1> QED BY <1>1, <1>2 DEF Early

\* The test of alt_tick finds the alarms that are due.
LEMMA DueIs ==
    ASSUME TypeOK, AlarmAssumption, TimeInv, alarm \in Running
    PROVE  time[alarm] <= nticks /\ ~Cleared <=> left[alarm] = 0
<1>1. /\ TickMod \in Nat /\ nticks \in 0..TickMod-1 /\ rollover[alarm] \in BOOLEAN
      /\ time[alarm] \in 0..TickMod-1 /\ left[alarm] \in 0..TickMod-1
  BY DEF AlarmAssumption, TypeOK, Running
<1>2. CASE nticks # 0 /\ rollover[alarm]
  BY <1>1, <1>2 DEF TimeInv, Cleared
<1>3. CASE ~(nticks # 0 /\ rollover[alarm])
  BY <1>1, <1>3 DEF TimeInv, Cleared
<1> QED BY <1>2, <1>3

-----------------------------------------------------------------------------
(* The steps. *)

\* The empty list.
LEMMA InitInv == ASSUME AlarmAssumption, Init PROVE IInv
<1>1. Running = {} /\ Ring = {Head} /\ next[Head] = Head
  BY DEF Init, Running, Ring, Nodes
<1>2. TypeOK
  <2>1. next \in [Nodes -> Nodes \cup {NULL}] /\ previous = next
    BY DEF Init, Nodes
  <2>2. /\ nticks \in 0..TickMod-1 /\ time \in [Alarms -> 0..TickMod-1]
        /\ left \in [Alarms -> -1..TickMod-1] /\ rollover \in [Alarms -> BOOLEAN]
    BY DEF Init, AlarmAssumption
  <2> QED BY <2>1, <2>2 DEF Init, TypeOK
<1>3. ListWhole
  BY <1>1 DEF ListWhole, Ahead, Follows, Init
<1>4. OffInv /\ TimeInv /\ WalkInv
  BY <1>1 DEF OffInv, TimeInv, WalkInv, Pending, Init, Nodes, AlarmAssumption
<1> QED BY <1>2, <1>3, <1>4 DEF IInv

\* An alarm that is started waits its delay and a tick more; a walk in progress
\* does not see it.
LEMMA StartStep ==
    ASSUME AlarmAssumption, IInv, NEW a \in Alarms, NEW n \in Delays, Start(a, n)
    PROVE  IInv'
<1>1. /\ TypeOK /\ ListWhole /\ OffInv /\ TimeInv /\ WalkInv
      /\ TickMod \in Nat /\ n + 1 \in 1..TickMod-1 /\ nticks \in 0..TickMod-1
  BY DEF IInv, TypeOK, AlarmAssumption
<1>2. /\ left[a] = -1 /\ pc \in {"idle", "callback"} /\ Inserted(a)
      /\ UNCHANGED <<pc, alarm, nextAlarm, tick_rate, nticks>>
      /\ left' = [left EXCEPT ![a] = n + 1]
      /\ time' = [time EXCEPT ![a] = Wrapped(n + nticks + 1)]
      /\ rollover' = [rollover EXCEPT ![a] = Early(time'[a])]
  BY DEF Start, walk
<1>3. a \notin Running /\ Running' = Running \cup {a} /\ Ring' = Ring \cup {a}
  BY <1>1, <1>2 DEF TypeOK, Running, Ring
<1>4. ListWhole' /\ \A x \in Ring : Ahead(x) \subseteq Ahead(x)'
  BY <1>1, <1>2, <1>3, InsertWhole
<1>5. PICK w \in 0..TickMod-1 :
          /\ w = Wrapped(n + nticks + 1)
          /\ w = IF Early(w) THEN nticks + (n + 1) - TickMod ELSE nticks + (n + 1)
          /\ nticks = 0 => ~Early(w)
  <2>1. n + nticks + 1 = nticks + (n + 1)
    BY <1>1
  <2> QED BY <1>1, <2>1, SetIs
<1>6. /\ time'[a] = w /\ rollover'[a] = Early(w)' /\ left'[a] = n + 1 /\ Early(w)' = Early(w)
      /\ \A b \in Alarms \ {a} : /\ left'[b] = left[b] /\ time'[b] = time[b]
                                 /\ rollover'[b] = rollover[b]
  BY <1>1, <1>2, <1>5 DEF TypeOK, Early
<1>7. TypeOK'
  <2>1. next' \in [Nodes -> Nodes \cup {NULL}] /\ previous' \in [Nodes -> Nodes \cup {NULL}]
    BY <1>1, <1>2 DEF TypeOK, Inserted, Nodes
  <2>2. Early(w) \in BOOLEAN
    BY DEF Early
  <2> QED BY <1>1, <1>2, <1>5, <1>6, <2>1, <2>2 DEF TypeOK
<1>8. OffInv'
  <2> SUFFICES ASSUME NEW b \in Alarms \ Running' PROVE (next[b] \in {NULL, b} /\ previous[b] = next[b])'
    BY DEF OffInv
  <2>1. b # a /\ b \in Alarms \ Running /\ b # Head /\ b # next[Head] /\ b \in Nodes
    BY <1>1, <1>3 DEF ListWhole, Ring, AlarmAssumption, Nodes
  <2> QED BY <1>1, <1>2, <2>1 DEF OffInv, Inserted, TypeOK
<1>9. TimeInv'
  <2> SUFFICES ASSUME NEW b \in Running'
               PROVE  time'[b] = IF nticks # 0 /\ rollover'[b] THEN nticks + left'[b] - TickMod
                                                               ELSE nticks + left'[b]
    BY <1>2 DEF TimeInv
  <2>1. CASE b = a
    BY <1>1, <1>5, <1>6, <2>1
  <2>2. CASE b # a
    BY <1>3, <1>6, <2>2, <1>1 DEF TimeInv, Running
  <2> QED BY <2>1, <2>2
<1>10. Pending' \subseteq Pending
  BY <1>1, <1>2, <1>3, <1>5, <1>6 DEF Pending, Running
<1>11. WalkInv'
  <2>1. CASE pc = "idle"
    BY <1>1, <1>2, <1>10, <2>1 DEF WalkInv
  <2>2. CASE pc = "callback"
    <3>1. next'[alarm] # NULL
      <4>1. /\ next \in [Nodes -> Nodes \cup {NULL}] /\ alarm \in Nodes /\ alarm # Head
            /\ next[alarm] # NULL /\ a # NULL /\ a # Head
        BY <1>1, <2>2 DEF WalkInv, TypeOK, AlarmAssumption, Nodes
      <4>2. next[Head] \in Ring /\ NULL \notin Ring /\ Head \in Ring /\ a \in Nodes
        BY <1>1 DEF ListWhole, Ring, Running, AlarmAssumption, Nodes
      <4>3. next' = [next EXCEPT ![a] = next[Head], ![Head] = a]
        BY <1>2 DEF Inserted
      <4> QED BY <4>1, <4>2, <4>3
    <3>2. nticks = 0 /\ alarm \in Running' => ~rollover'[alarm]
      <4>1. CASE alarm = a
        BY <1>5, <1>6, <4>1
      <4>2. CASE alarm # a
        BY <1>1, <1>3, <1>6, <2>2, <4>2 DEF WalkInv
      <4> QED BY <4>1, <4>2
    <3>3. alarm \in Alarms /\ nextAlarm \in Ring' \ {alarm}
      BY <1>1, <1>3, <2>2 DEF WalkInv
    <3>4. Pending' \subseteq Ahead(nextAlarm)' \cup {alarm}
      <4>1. PICK x \in Ring : x = nextAlarm /\ x = nextAlarm'
        BY <1>1, <1>2, <2>2 DEF WalkInv
      <4>2. Pending' \subseteq Ahead(x)' \cup {alarm}
        BY <1>1, <1>4, <1>10, <2>2, <4>1 DEF WalkInv
      <4> QED BY <4>1, <4>2
    <3> QED BY <1>1, <1>2, <2>2, <3>1, <3>2, <3>3, <3>4 DEF WalkInv
  <2> QED BY <1>2, <2>1, <2>2
<1> QED BY <1>4, <1>7, <1>8, <1>9, <1>11 DEF IInv

\* Who is stopped is taken off the list, and was not the next of the walk; who was
\* off already stays linked to himself.
LEMMA StopStep ==
    ASSUME AlarmAssumption, IInv, NEW a \in Alarms, Stop(a)
    PROVE  IInv'
<1>1. TypeOK /\ ListWhole /\ OffInv /\ TimeInv /\ WalkInv
  BY DEF IInv
<1>2. /\ next[a] # NULL /\ a # nextAlarm /\ pc \in {"idle", "callback"} /\ Removed(a)
      /\ UNCHANGED <<pc, alarm, nextAlarm, tick_rate, nticks, time, rollover>>
      /\ left' = [left EXCEPT ![a] = -1]
  BY DEF Stop, walk
<1>3. Running' = Running \ {a} /\ \A b \in Alarms \ {a} : left'[b] = left[b]
  BY <1>1, <1>2 DEF TypeOK, Running
<1>4. ListWhole' /\ \A x \in Ring \ {a} : Ahead(x) \ {a} \subseteq Ahead(x)'
  BY <1>1, <1>2, <1>3, RemovedWhole
<1>5. TypeOK' /\ OffInv'
  BY <1>1, <1>2, <1>3, RemovedTypes DEF TypeOK
<1>6. TimeInv'
  <2>1. \A b \in Running' : b \in Running /\ left'[b] = left[b]
    BY <1>3 DEF Running
  <2> QED BY <1>1, <1>2, <2>1 DEF TimeInv
<1>7. Pending' = Pending \ {a}
  BY <1>2, <1>3 DEF Pending, Running
<1>8. WalkInv'
  <2>1. CASE pc = "idle"
    BY <1>1, <1>2, <1>7, <2>1 DEF WalkInv
  <2>2. CASE pc = "callback"
    <3>1. next'[alarm] # NULL
      <4>1. alarm \in Nodes /\ next[alarm] # NULL /\ alarm' = alarm
        BY <1>1, <1>2, <2>2 DEF WalkInv, Nodes
      <4> QED BY <1>1, <1>2, <4>1, RemovedTypes
    <3>2. nextAlarm \in Ring \ {a} /\ nextAlarm \in Ring'
      BY <1>1, <1>2, <1>3, <2>2 DEF WalkInv, Ring
    <3>3. nticks = 0 /\ alarm \in Running' => ~rollover[alarm]
      BY <1>1, <1>3, <2>2 DEF WalkInv
    <3> QED BY <1>1, <1>2, <1>4, <1>7, <2>2, <3>1, <3>2, <3>3 DEF WalkInv
  <2> QED BY <1>2, <2>1, <2>2
<1> QED BY <1>4, <1>5, <1>6, <1>8 DEF IInv

\* A tick takes one from what each alarm has to wait, and the walk begins before all
\* of them.
LEMMA TickBegins == ASSUME AlarmAssumption, IInv, Tick PROVE IInv'
<1>1. TypeOK /\ ListWhole /\ OffInv /\ TimeInv /\ WalkInv /\ TickMod \in Nat /\ TickMod >= 2
  BY DEF IInv, AlarmAssumption
<1>2. /\ pc = "idle" /\ tick_rate /\ nticks' = Wrapped(nticks + 1) /\ alarm' = next[Head]
      /\ pc' = "visit" /\ UNCHANGED <<tick_rate, nextAlarm, next, previous, time, rollover>>
      /\ left' = [a \in Alarms |-> IF left[a] > 0 THEN left[a] - 1 ELSE left[a]]
  BY DEF Tick, links
<1>3. \A a \in Running : left[a] \in 1..TickMod-1 /\ (nticks = 0 => ~rollover[a])
  BY <1>1, <1>2 DEF TypeOK, WalkInv, Pending, Running
<1>4. Running' = Running /\ \A a \in Running : left'[a] = left[a] - 1
  <2>1. \A a \in Alarms : left[a] \in -1..TickMod-1
    BY <1>1 DEF TypeOK
  <2> QED BY <1>2, <1>3, <2>1 DEF Running
<1>5. /\ nticks \in 0..TickMod-1 /\ nticks' \in 0..TickMod-1
      /\ nticks' = IF nticks = TickMod - 1 THEN 0 ELSE nticks + 1
  BY <1>1, <1>2, WrapIs, AlarmAssumption DEF TypeOK
<1>6. TypeOK'
  <2>1. left' \in [Alarms -> -1..TickMod-1]
    BY <1>1, <1>2 DEF TypeOK
  <2>2. alarm' \in Nodes \cup {NULL}
    BY <1>1, <1>2 DEF TypeOK, Nodes
  <2> QED BY <1>1, <1>2, <1>5, <2>1, <2>2 DEF TypeOK
<1>7. ListWhole' /\ OffInv' /\ Ring' = Ring /\ \A x : Ahead(x)' = Ahead(x)
  BY <1>1, <1>2, <1>4, ListStays DEF links
<1>8. TimeInv'
  <2> SUFFICES ASSUME NEW a \in Running
               PROVE  time[a] = IF nticks' # 0 /\ rollover[a] THEN nticks' + left'[a] - TickMod
                                                              ELSE nticks' + left'[a]
    BY <1>2, <1>4 DEF TimeInv
  <2>1. /\ time[a] = IF nticks # 0 /\ rollover[a] THEN nticks + left[a] - TickMod
                                                  ELSE nticks + left[a]
        /\ time[a] \in 0..TickMod-1
    BY <1>1 DEF TimeInv, TypeOK, Running
  <2> QED BY <1>1, <1>3, <1>4, <1>5, <2>1
<1>9. WalkInv'
  <2>1. next[Head] \in Ring /\ Ahead(next[Head]) = Ring /\ Pending' \subseteq Ring'
    BY <1>1 DEF ListWhole, Ring, Pending
  <2> QED BY <1>1, <1>2, <1>7, <2>1 DEF WalkInv
<1> QED BY <1>6, <1>7, <1>8, <1>9 DEF IInv

\* The walk leaves behind only what has not to be called in this tick.
LEMMA VisitStep == ASSUME AlarmAssumption, IInv, Visit PROVE IInv'
<1>1. TypeOK /\ ListWhole /\ OffInv /\ TimeInv /\ WalkInv
  BY DEF IInv
<1>2. /\ pc = "visit" /\ alarm # Head /\ rollover' = [rollover EXCEPT ![alarm] = Cleared]
      /\ UNCHANGED <<tick_rate, nticks, next, previous, time, left>>
      /\ \/ /\ time[alarm] <= nticks /\ ~rollover'[alarm]
            /\ pc' = "callback" /\ nextAlarm' = next[alarm] /\ alarm' = alarm
         \/ /\ ~(time[alarm] <= nticks /\ ~rollover'[alarm])
            /\ alarm' = next[alarm] /\ pc' = pc /\ nextAlarm' = nextAlarm
  BY DEF Visit, links
<1>3. /\ alarm \in Running /\ alarm \in Alarms /\ alarm \in Ring \ {Head} /\ Running' = Running
      /\ next[alarm] \in Ring /\ next[alarm] # alarm /\ Pending \subseteq Ahead(alarm)
  BY <1>1, <1>2, NotItself DEF WalkInv, ListWhole, Running, Ring
<1>4. /\ rollover'[alarm] = Cleared /\ Cleared \in BOOLEAN
      /\ \A a \in Alarms \ {alarm} : rollover'[a] = rollover[a]
  BY <1>1, <1>2, <1>3 DEF TypeOK, Cleared
<1>5. time[alarm] <= nticks /\ ~Cleared <=> left[alarm] = 0
  BY <1>1, <1>3, DueIs
<1>6. ListWhole' /\ OffInv' /\ Ring' = Ring /\ \A x : Ahead(x)' = Ahead(x)
  BY <1>1, <1>2, <1>3, ListStays DEF links
<1>7. TypeOK'
  <2>1. rollover' \in [Alarms -> BOOLEAN]
    BY <1>1, <1>2, <1>4 DEF TypeOK
  <2>2. next[alarm] \in Nodes
    BY <1>3 DEF Ring, Nodes, Running
  <2> QED BY <1>1, <1>2, <2>1, <2>2 DEF TypeOK
<1>8. TimeInv'
  <2> SUFFICES ASSUME NEW a \in Running
               PROVE  time[a] = IF nticks # 0 /\ rollover'[a] THEN nticks + left[a] - TickMod
                                                              ELSE nticks + left[a]
    BY <1>2, <1>3 DEF TimeInv
  <2> QED BY <1>1, <1>4 DEF TimeInv, Cleared, Running
<1>9. Pending' \subseteq Pending /\ (left[alarm] # 0 => alarm \notin Pending')
  BY <1>2, <1>3, <1>4 DEF Pending, Cleared, Running
<1>10. Pending' \subseteq Ahead(next[alarm]) \cup {alarm}
  BY <1>3, <1>9, AheadNext
<1>11. WalkInv'
  <2>1. CASE left[alarm] = 0
    <3>1. pc' = "callback" /\ nextAlarm' = next[alarm] /\ alarm' = alarm /\ ~rollover'[alarm]
      BY <1>2, <1>4, <1>5, <2>1
    <3>2. next[alarm] # NULL
      BY <1>3 DEF Ring, Running, AlarmAssumption
    <3> QED BY <1>1, <1>2, <1>3, <1>6, <1>10, <2>1, <3>1, <3>2 DEF WalkInv
  <2>2. CASE left[alarm] # 0
    <3>1. pc' = "visit" /\ nextAlarm' = nextAlarm /\ alarm' = next[alarm]
      BY <1>2, <1>4, <1>5, <2>2
    <3> QED BY <1>1, <1>2, <1>3, <1>6, <1>9, <1>10, <2>2, <3>1 DEF WalkInv
  <2> QED BY <2>1, <2>2
<1> QED BY <1>6, <1>7, <1>8, <1>11 DEF IInv

\* A callback that asks to be called again in p ticks is.
LEMMA AgainStep ==
    ASSUME AlarmAssumption, IInv, NEW p \in Periods, CallAgain(p)
    PROVE  IInv'
<1>1. /\ TypeOK /\ ListWhole /\ OffInv /\ TimeInv /\ WalkInv
      /\ TickMod \in Nat /\ p \in 1..TickMod-1 /\ nticks \in 0..TickMod-1
  BY DEF IInv, AlarmAssumption, TypeOK
<1>2. /\ pc = "callback" /\ time' = [time EXCEPT ![alarm] = Wrapped(@ + p)]
      /\ rollover' = [rollover EXCEPT ![alarm] = @ \/ Early(time'[alarm])]
      /\ left[alarm] + p < TickMod /\ left' = [left EXCEPT ![alarm] = IF @ # -1 THEN @ + p ELSE @]
      /\ pc' = "visit" /\ alarm' = nextAlarm /\ nextAlarm' = NULL
      /\ UNCHANGED <<tick_rate, nticks, next, previous>>
  BY DEF CallAgain, GoOn, links
<1>3. /\ alarm \in Alarms /\ left[alarm] \in -1..TickMod-1
      /\ nticks = 0 /\ alarm \in Running => ~rollover[alarm]
      /\ nextAlarm \in Ring \ {alarm} /\ Pending \subseteq Ahead(nextAlarm) \cup {alarm}
      /\ tick_rate
  BY <1>1, <1>2 DEF WalkInv, TypeOK
<1>4. \A a \in Alarms \ {alarm} : left'[a] = left[a] /\ time'[a] = time[a] /\ rollover'[a] = rollover[a]
  BY <1>1, <1>2 DEF TypeOK
<1>5. /\ left'[alarm] = IF left[alarm] # -1 THEN left[alarm] + p ELSE -1
      /\ time'[alarm] = Wrapped(time[alarm] + p)
      /\ rollover'[alarm] = (rollover[alarm] \/ Early(time'[alarm]))
  BY <1>1, <1>2, <1>3 DEF TypeOK
<1>6. Running' = Running
  BY <1>1, <1>3, <1>4, <1>5 DEF Running
<1>7. ListWhole' /\ OffInv' /\ Ring' = Ring /\ \A x : Ahead(x)' = Ahead(x)
  BY <1>1, <1>2, <1>6, ListStays DEF links
<1>8. ASSUME alarm \in Running
      PROVE  /\ time'[alarm] = IF nticks # 0 /\ rollover'[alarm] THEN nticks + left'[alarm] - TickMod
                                                                  ELSE nticks + left'[alarm]
             /\ nticks = 0 => ~rollover'[alarm]
  <2>1. PICK d \in 1..TickMod-1 : d = left[alarm] + p /\ d = left'[alarm]
    BY <1>1, <1>2, <1>3, <1>5, <1>8 DEF Running
  <2>2. /\ rollover[alarm] \in BOOLEAN /\ time[alarm] \in 0..TickMod-1
        /\ time[alarm] = IF nticks # 0 /\ rollover[alarm] THEN nticks + left[alarm] - TickMod
                                                          ELSE nticks + left[alarm]
    BY <1>1, <1>3, <1>8 DEF TimeInv, TypeOK
  <2>3. PICK w \in 0..TickMod-1 :
            /\ w = Wrapped(nticks + d)
            /\ w = IF Early(w) THEN nticks + d - TickMod ELSE nticks + d
            /\ nticks = 0 => ~Early(w)
    BY <1>1, SetIs
  <2>4. time'[alarm] = w
    <3>1. PICK t \in Nat : t = time[alarm] + p /\ t < 2 * TickMod
      BY <1>1, <2>2
    <3>2. Wrapped(t) = IF t < TickMod THEN t ELSE t - TickMod
      BY <3>1, WrapIs
    <3>3. Wrapped(nticks + d) = IF nticks + d < TickMod THEN nticks + d ELSE nticks + d - TickMod
      BY <1>1, WrapIs
    <3>4. Wrapped(t) = w
      BY <1>1, <1>3, <2>1, <2>2, <2>3, <3>1, <3>2, <3>3
    <3> QED BY <1>5, <3>1, <3>4
  <2>5. rollover'[alarm] <=> rollover[alarm] \/ Early(w)
    BY <1>5, <2>4, Zenon
  <2>6. Early(w) \in BOOLEAN /\ (rollover[alarm] => Early(w))
    <3>1. ASSUME rollover[alarm] PROVE w < nticks
      BY <1>1, <1>3, <1>8, <2>1, <2>2, <2>3, <3>1 DEF Early
    <3> QED BY <3>1 DEF Early
  <2> QED BY <2>1, <2>3, <2>4, <2>5, <2>6
<1>9. TypeOK'
  <2>1. time' \in [Alarms -> 0..TickMod-1]
    <3>1. PICK x \in Int : x = time[alarm] + p
      BY <1>1, <1>3 DEF TypeOK
    <3>2. x % TickMod \in 0..TickMod-1
      BY <1>1
    <3> QED BY <1>1, <1>2, <3>1, <3>2 DEF TypeOK, Wrapped
  <2>2. rollover' \in [Alarms -> BOOLEAN]
    <3>1. rollover'[alarm] \in BOOLEAN
      BY <1>1, <1>3, <1>5 DEF TypeOK, Early
    <3> QED BY <1>1, <1>2, <1>5, <3>1 DEF TypeOK
  <2>3. left' \in [Alarms -> -1..TickMod-1]
    <3>1. left'[alarm] \in -1..TickMod-1
      BY <1>1, <1>2, <1>3, <1>5
    <3> QED BY <1>1, <1>2, <1>5, <3>1 DEF TypeOK
  <2>4. nextAlarm \in Nodes
    BY <1>3 DEF Ring, Running, Nodes
  <2> QED BY <1>1, <1>2, <2>1, <2>2, <2>3, <2>4 DEF TypeOK
<1>10. TimeInv'
  <2> SUFFICES ASSUME NEW a \in Running
               PROVE  time'[a] = IF nticks # 0 /\ rollover'[a] THEN nticks + left'[a] - TickMod
                                                               ELSE nticks + left'[a]
    BY <1>2, <1>6 DEF TimeInv
  <2>1. CASE a = alarm
    BY <1>3, <1>5, <1>8, <2>1 DEF Running
  <2>2. CASE a # alarm
    BY <1>1, <1>4, <2>2 DEF TimeInv, Running
  <2> QED BY <2>1, <2>2
<1>11. Pending' \subseteq Pending \ {alarm}
  <2>1. left'[alarm] # 0
    BY <1>1, <1>3, <1>5
  <2>2. \A a \in Pending' : a \in Running /\ a # alarm
    BY <1>2, <1>6, <1>8, <2>1 DEF Pending
  <2> QED BY <1>2, <1>4, <2>2 DEF Pending
<1>12. WalkInv'
  BY <1>2, <1>3, <1>7, <1>11 DEF WalkInv
<1> QED BY <1>7, <1>9, <1>10, <1>12 DEF IInv

\* An alarm that is done with is taken off, and the walk goes on where it would have.
LEMMA NoMoreStep == ASSUME AlarmAssumption, IInv, CallNoMore PROVE IInv'
<1>1. TypeOK /\ ListWhole /\ OffInv /\ TimeInv /\ WalkInv
  BY DEF IInv
<1>2. /\ pc = "callback" /\ Removed(alarm) /\ left' = [left EXCEPT ![alarm] = -1]
      /\ pc' = "visit" /\ alarm' = nextAlarm /\ nextAlarm' = NULL
      /\ UNCHANGED <<tick_rate, nticks, time, rollover>>
  BY DEF CallNoMore, GoOn
<1>3. /\ alarm \in Alarms /\ next[alarm] # NULL /\ nextAlarm \in Ring \ {alarm} /\ tick_rate
      /\ Pending \subseteq Ahead(nextAlarm) \cup {alarm}
  BY <1>1, <1>2 DEF WalkInv
<1>4. Running' = Running \ {alarm} /\ \A a \in Alarms \ {alarm} : left'[a] = left[a]
  BY <1>1, <1>2 DEF TypeOK, Running
<1>5. ListWhole' /\ \A x \in Ring \ {alarm} : Ahead(x) \ {alarm} \subseteq Ahead(x)'
  BY <1>1, <1>2, <1>3, <1>4, RemovedWhole
<1>6. TypeOK' /\ OffInv'
  <2>1. nextAlarm \in Nodes
    BY <1>3 DEF Ring, Running, Nodes
  <2> QED BY <1>1, <1>2, <1>3, <1>4, <2>1, RemovedTypes DEF TypeOK
<1>7. TimeInv'
  <2>1. \A b \in Running' : b \in Running /\ left'[b] = left[b]
    BY <1>4 DEF Running
  <2> QED BY <1>1, <1>2, <2>1 DEF TimeInv
<1>8. Pending' = Pending \ {alarm}
  BY <1>2, <1>4 DEF Pending, Running
<1>9. WalkInv'
  <2>1. PICK x \in Ring \ {alarm} : x = nextAlarm
    BY <1>3
  <2>2. x \in Ring' /\ Pending' \subseteq Ahead(x)'
    BY <1>3, <1>4, <1>5, <1>8, <2>1 DEF Ring
  <2>3. alarm' = x
    BY <1>2, <2>1
  <2> QED BY <1>2, <1>3, <2>2, <2>3 DEF WalkInv
<1> QED BY <1>5, <1>6, <1>7, <1>9 DEF IInv

\* Where the walk ends there is nothing left to see.
LEMMA DoneStep == ASSUME AlarmAssumption, IInv, TickDone PROVE IInv'
<1>1. TypeOK /\ ListWhole /\ OffInv /\ TimeInv /\ WalkInv
  BY DEF IInv
<1>2. /\ pc = "visit" /\ alarm = Head /\ pc' = "idle" /\ alarm' = NULL
      /\ UNCHANGED <<nextAlarm, tick_rate, nticks, next, previous, time, rollover, left>>
  BY DEF TickDone, links
<1>3. Running' = Running /\ Pending' = Pending
  BY <1>2 DEF Running, Pending
<1>4. Pending = {}
  <2>1. Pending \subseteq {Head} /\ Head \notin Pending
    BY <1>1, <1>2, AheadHead DEF WalkInv, Pending, Running, AlarmAssumption
  <2> QED BY <2>1
<1>5. ListWhole' /\ OffInv'
  BY <1>1, <1>2, <1>3, ListStays DEF links
<1>6. TypeOK' /\ TimeInv' /\ WalkInv'
  BY <1>1, <1>2, <1>3, <1>4 DEF TypeOK, TimeInv, WalkInv
<1> QED BY <1>5, <1>6 DEF IInv

\* Every step keeps the invariant.
LEMMA NextInv == ASSUME AlarmAssumption, IInv, [Next]_vars PROVE IInv'
<1>1. CASE TickStep
  BY <1>1, TickBegins, VisitStep, AgainStep, NoMoreStep, DoneStep DEF TickStep, Return
<1>2. CASE \E a \in Alarms : Stop(a) \/ \E n \in Delays : Start(a, n)
  BY <1>2, StopStep, StartStep
<1>3. CASE TimerInit \/ UNCHANGED vars
  <2>1. /\ tick_rate' \in BOOLEAN /\ (tick_rate => tick_rate')
        /\ UNCHANGED <<walk, nticks, links, time, rollover, left>>
    BY <1>3 DEF TimerInit, vars, IInv, TypeOK
  <2>2. Running' = Running /\ Pending' = Pending
    BY <2>1 DEF Running, Pending
  <2>3. ListWhole' /\ OffInv' /\ Ring' = Ring /\ \A x : Ahead(x)' = Ahead(x)
    BY <2>1, <2>2, ListStays DEF IInv
  <2>4. TypeOK' /\ TimeInv'
    BY <2>1, <2>2 DEF IInv, TypeOK, TimeInv, walk, links
  <2>5. WalkInv'
    BY <2>1, <2>2, <2>3 DEF IInv, WalkInv, walk, links
  <2> QED BY <2>3, <2>4, <2>5 DEF IInv
<1> QED BY <1>1, <1>2, <1>3 DEF Next

\* The invariant holds for ever.
LEMMA Inductive == Spec => []IInv
<1>1. Init => IInv
  BY InitInv, AlarmAssumption
<1>2. IInv /\ [Next]_vars => IInv'
  BY NextInv, AlarmAssumption
<1> QED BY <1>1, <1>2, PTL DEF Spec

\* Links, times and flags keep their types, for any number of alarms.
THEOREM TypeCorrect == Spec => []TypeOK
<1>1. IInv => TypeOK
  BY DEF IInv
<1> QED BY <1>1, Inductive, PTL

\* The list stays a ring of the alarms that are on, whatever callbacks do to it
\* under the walk.
THEOREM StaysWhole == Spec => []ListWhole
<1>1. IInv => ListWhole
  BY DEF IInv
<1> QED BY <1>1, Inductive, PTL

\* Each alarm is called in its tick and in no other, across every wrap of the
\* counter, and no tick ends with an alarm due and uncalled.
THEOREM CalledOnTime == Spec => OnTime
<1> DEFINE Timely == /\ pc = "visit" /\ alarm # Head => (pc' = "callback" <=> left[alarm] = 0)
                     /\ pc' = "idle" => \A a \in Alarms : left'[a] # 0
<1>1. ASSUME IInv, [Next]_vars, IInv' PROVE [Timely]_vars
  <2>1. SUFFICES ASSUME Next PROVE Timely
    BY <1>1
  <2>2. ASSUME pc = "visit", alarm # Head PROVE pc' = "callback" <=> left[alarm] = 0
    <3>1. alarm \in Running /\ tick_rate /\ TypeOK /\ TimeInv
      BY <1>1, <2>2 DEF IInv, WalkInv, Ring
    <3>2. Visit
      BY <2>1, <2>2, <3>1 DEF Next, TickStep, Return, TimerInit, Tick, CallNoMore, CallAgain, TickDone,
                            Start, Stop
    <3>3. rollover'[alarm] = Cleared
      BY <3>1, <3>2 DEF Visit, TypeOK, Running
    <3>4. time[alarm] <= nticks /\ ~Cleared <=> left[alarm] = 0
      BY <3>1, DueIs, AlarmAssumption
    <3> QED BY <2>2, <3>2, <3>3, <3>4 DEF Visit
  <2>3. ASSUME pc' = "idle", NEW a \in Alarms PROVE left'[a] # 0
    BY <1>1, <2>3 DEF IInv, WalkInv, Pending, Running
  <2> QED BY <2>2, <2>3
<1> QED BY <1>1, Inductive, PTL DEF Spec, OnTime

-----------------------------------------------------------------------------
(* The walk of a tick comes to an end. *)

\* What alt_tick has still to look at; an alarm that is being called is behind it.
Rest == IF pc = "callback" THEN Ahead(nextAlarm) ELSE Ahead(alarm)

\* No tick looks at an alarm twice, and none looks at an alarm that a callback of this
\* tick has started: what is left of the walk only gets less, and each entry looked
\* at is gone from it, whatever callbacks start and stop (alt_tick).
WalkShortens ==
    [][pc # "idle" /\ pc' # "idle" =>
           Rest' \subseteq Rest /\ (pc = "visit" => alarm \in Rest \ Rest')]_vars

\* What follows an entry ahead is ahead.
LEMMA AheadClosed ==
    ASSUME ListWhole, NEW x \in Ring, NEW y \in Ahead(x)
    PROVE  x \in Ahead(x) /\ y \in Ring /\ (y # Head => next[y] \in Ahead(x))
<1>1. x \in Ahead(x) /\ y \in Ring
  BY DEF Ahead, Follows
<1>2. ASSUME y # Head PROVE next[y] \in Ahead(x)
  <2>1. next[y] \in Ring
    BY <1>1 DEF ListWhole
  <2>2. ASSUME NEW S \in SUBSET Ring, Follows(S, x) PROVE next[y] \in S
    <3>1. y \in S
      BY <2>2, AheadIn
    <3> QED BY <1>2, <2>2, <3>1 DEF Follows
  <2> QED BY <2>1, <2>2 DEF Ahead
<1> QED BY <1>1, <1>2

\* So is what an entry ahead follows, but for the first.
LEMMA AheadPrevious ==
    ASSUME ListWhole, NEW x \in Ring, NEW y \in Ahead(x), y # x
    PROVE  previous[y] \in Ahead(x) /\ previous[y] # Head
<1> SUFFICES ASSUME ~(previous[y] \in Ahead(x) /\ previous[y] # Head) PROVE FALSE
  OBVIOUS
<1> DEFINE T == Ahead(x) \ {y}
<1>1. T \in SUBSET Ring /\ x \in T
  BY AheadClosed
<1>2. ASSUME NEW z \in T \ {Head} PROVE next[z] \in T
  <2>1. next[z] \in Ahead(x) /\ previous[next[z]] = z
    BY <1>2, AheadClosed DEF ListWhole
  <2> QED BY <1>2, <2>1
<1>3. Follows(T, x)
  BY <1>1, <1>2 DEF Follows
<1> QED BY <1>1, <1>3, AheadIn

\* No walk comes back to where it has been.
LEMMA NotAgain ==
    ASSUME ListWhole, NEW x \in Ring \ {Head}
    PROVE  x \in Ahead(x) /\ Ahead(next[x]) \subseteq Ahead(x) \ {x}
<1>1. PICK z \in Ring : z = next[x] /\ previous[z] = x
  BY DEF ListWhole
<1>2. PICK h \in Ring : h = next[Head] /\ previous[h] = Head /\ Ahead(h) = Ring
  BY DEF ListWhole, Ring
<1>3. x \notin Ahead(z)
  <2>1. SUFFICES ASSUME x \in Ahead(z) PROVE FALSE
    OBVIOUS
  <2>2. h \notin Ahead(z)
    BY <1>1, <1>2, AheadPrevious
  <2> DEFINE U == (Ring \ Ahead(z)) \cup {Head}
  <2>3. ASSUME NEW y \in U \ {Head} PROVE next[y] \in U
    <3>1. next[y] \in Ring /\ previous[next[y]] = y /\ y \notin Ahead(z)
      BY <2>3 DEF ListWhole
    <3>2. ASSUME next[y] \in Ahead(z) PROVE FALSE
      <4>1. next[y] # z
        BY <1>1, <2>1, <3>1
      <4> QED BY <3>1, <3>2, <4>1, AheadPrevious
    <3> QED BY <3>1, <3>2
  <2>4. U \in SUBSET Ring /\ Follows(U, h)
    BY <2>2, <2>3 DEF Follows, Ring
  <2>5. x \in U
    BY <1>2, <2>4, AheadIn
  <2> QED BY <2>1, <2>5
<1>4. x \in Ahead(x)
  BY DEF Ahead, Follows
<1>5. Ahead(z) \subseteq Ahead(x)
  <2> SUFFICES ASSUME NEW y \in Ahead(z), NEW S \in SUBSET Ring, Follows(S, x) PROVE y \in S /\ y \in Ring
    BY DEF Ahead
  <2>1. Follows(S, z)
    BY <1>1 DEF Follows
  <2> QED BY <2>1, AheadIn DEF Ahead
<1> QED BY <1>1, <1>3, <1>4, <1>5

\* An alarm put on the list is ahead of nobody.
LEMMA InsertBehind ==
    ASSUME TypeOK, AlarmAssumption, ListWhole, NEW a \in Alarms \ Running,
           Inserted(a), Running' = Running \cup {a}, NEW x \in Ring
    PROVE  Ahead(x)' \subseteq Ahead(x)
<1>1. /\ next \in [Nodes -> Nodes \cup {NULL}] /\ a \in Nodes /\ a \notin Ring
      /\ Ring \subseteq Nodes /\ Ring' = Ring \cup {a}
  BY DEF TypeOK, AlarmAssumption, Nodes, Running, Ring
<1>2. \A y \in Ring \ {Head} : next'[y] = next[y]
  BY <1>1 DEF Inserted
<1>3. PICK S \in SUBSET Ring' : S = Ahead(x)
  BY <1>1 DEF Ahead
<1>4. x \in S
  BY <1>3, AheadClosed DEF Ahead, Follows
<1>5. ASSUME NEW y \in S \ {Head} PROVE next'[y] \in S
  <2>1. y \in Ring \ {Head} /\ next[y] \in Ahead(x)
    BY <1>3, <1>5, AheadClosed
  <2> QED BY <1>2, <1>3, <2>1
<1>6. Follows(S, x)'
  BY <1>4, <1>5 DEF Follows
<1> QED BY <1>3, <1>6 DEF Ahead

\* One taken off is so neither.
LEMMA RemovedBehind ==
    ASSUME TypeOK, AlarmAssumption, ListWhole, OffInv, NEW a \in Alarms, next[a] # NULL,
           Removed(a), Running' = Running \ {a}, NEW x \in Ring \ {a}
    PROVE  Ahead(x)' \subseteq Ahead(x)
<1>1. CASE a \notin Running
  <2>1. next[a] = a /\ previous[a] = a /\ Running' = Running
    BY <1>1 DEF OffInv
  <2>2. next' = next /\ previous' = previous
    BY <2>1 DEF Removed, Unlinked, TypeOK, Nodes
  <2> QED BY <2>1, <2>2, ListStays DEF links
<1>2. CASE a \in Running
  <2>1. /\ next \in [Nodes -> Nodes \cup {NULL}] /\ a \in Nodes /\ a \in Ring /\ a # Head
        /\ Ring \subseteq Nodes /\ Ring' = Ring \ {a} /\ next[a] # a
    BY <1>2, NotItself DEF TypeOK, AlarmAssumption, Nodes, Running, Ring
  <2>2. \A y \in Ring' : next'[y] = IF next[y] = a THEN next[a] ELSE next[y]
    <3>1. previous[a] \in Ring /\ next[previous[a]] = a
      BY <2>1, Previous
    <3>2. \A y \in Ring : next[y] = a => y = previous[a]
      BY DEF ListWhole
    <3> QED BY <2>1, <3>1, <3>2 DEF Removed, Unlinked
  <2>3. PICK S \in SUBSET Ring' : S = Ahead(x) \ {a}
    BY <2>1 DEF Ahead
  <2>4. x \in S
    BY <2>3, AheadClosed DEF Ahead, Follows
  <2>5. ASSUME NEW y \in S \ {Head} PROVE next'[y] \in S
    <3>1. next[y] \in Ahead(x)
      BY <2>3, AheadClosed
    <3>2. next[y] = a => next[a] \in Ahead(x)
      BY <2>1, <3>1, AheadClosed
    <3> QED BY <2>1, <2>2, <2>3, <3>1, <3>2
  <2>6. Follows(S, x)'
    BY <2>4, <2>5 DEF Follows
  <2> QED BY <2>3, <2>6 DEF Ahead
<1> QED BY <1>1, <1>2

\* Each step of a walk, and of a callback in it.
LEMMA WalkStep ==
    ASSUME AlarmAssumption, IInv, Next, pc # "idle", pc' # "idle"
    PROVE  Rest' \subseteq Rest /\ (pc = "visit" => alarm \in Rest \ Rest')
<1>1. /\ TypeOK /\ ListWhole /\ OffInv /\ WalkInv /\ tick_rate
      /\ pc = "visit" => alarm \in Ring
      /\ pc = "callback" => /\ alarm \in Alarms /\ next[alarm] # NULL
                            /\ nextAlarm \in Ring \ {alarm}
  BY DEF IInv, WalkInv
<1>2. CASE Visit
  <2>1. /\ pc = "visit" /\ alarm \in Ring \ {Head} /\ UNCHANGED <<next, previous, left>>
        /\ \/ pc' = "callback" /\ nextAlarm' = next[alarm]
           \/ pc' = pc /\ alarm' = next[alarm]
    BY <1>1, <1>2 DEF Visit, links
  <2>2. Running' = Running
    BY <2>1 DEF Running
  <2>3. PICK z \in Ring : z = next[alarm]
    BY <1>1, <2>1 DEF ListWhole
  <2>4. Ahead(z)' = Ahead(z)
    BY <1>1, <2>1, <2>2, ListStays DEF links
  <2>5. Rest' = Ahead(z) /\ Rest = Ahead(alarm)
    <3>1. Rest = Ahead(alarm)
      BY <2>1 DEF Rest
    <3>2. Rest' = Ahead(z)'
      <4>1. CASE pc' = "callback" /\ nextAlarm' = z
        BY <4>1 DEF Rest
      <4>2. CASE pc' = "visit" /\ alarm' = z
        BY <4>2 DEF Rest
      <4> QED BY <2>1, <2>3, <4>1, <4>2
    <3> QED BY <2>4, <3>1, <3>2
  <2> QED BY <1>1, <2>1, <2>3, <2>5, NotAgain
<1>3. CASE Return
  <2>1. pc = "callback" /\ pc' = "visit" /\ alarm' = nextAlarm
    BY <1>3 DEF Return, CallNoMore, CallAgain, GoOn
  <2>2. PICK x \in Ring \ {alarm} : x = nextAlarm
    BY <1>1, <2>1
  <2>3. Ahead(x)' \subseteq Ahead(x)
    <3>1. CASE CallNoMore
      <4>1. Removed(alarm) /\ Running' = Running \ {alarm}
        BY <1>1, <2>1, <3>1 DEF CallNoMore, TypeOK, Running
      <4> QED BY <1>1, <2>1, <4>1, RemovedBehind
    <3>2. CASE \E p \in Periods : CallAgain(p)
      <4>1. PICK p \in Periods :
                left' = [left EXCEPT ![alarm] = IF @ # -1 THEN @ + p ELSE @] /\ UNCHANGED links
        BY <3>2 DEF CallAgain
      <4>2. Running' = Running
        <5>1. p \in Nat /\ \A a \in Alarms : left[a] \in -1..TickMod-1
          BY <1>1, AlarmAssumption DEF TypeOK, AlarmAssumption
        <5> QED BY <1>1, <4>1, <5>1 DEF TypeOK, Running
      <4> QED BY <1>1, <4>1, <4>2, ListStays
    <3> QED BY <1>3, <3>1, <3>2 DEF Return
  <2>4. Rest = Ahead(x) /\ Rest' = Ahead(x)'
    <3>1. alarm' = x
      BY <2>1, <2>2
    <3> QED BY <2>1, <2>2, <3>1 DEF Rest
  <2> QED BY <2>1, <2>3, <2>4
<1>4. CASE \E a \in Alarms : Stop(a) \/ \E n \in Delays : Start(a, n)
  <2>1. PICK a \in Alarms : Stop(a) \/ \E n \in Delays : Start(a, n)
    BY <1>4
  <2>2. pc = "callback" /\ pc' = pc /\ nextAlarm' = nextAlarm
    BY <2>1 DEF Stop, Start, walk
  <2>3. PICK x \in Ring : x = nextAlarm
    BY <1>1, <2>2
  <2>4. Ahead(x)' \subseteq Ahead(x)
    <3>1. CASE Stop(a)
      <4>1. Removed(a) /\ next[a] # NULL /\ a # x /\ Running' = Running \ {a}
        BY <1>1, <2>3, <3>1 DEF Stop, TypeOK, Running
      <4> QED BY <1>1, <4>1, RemovedBehind
    <3>2. CASE \E n \in Delays : Start(a, n)
      <4>1. PICK n \in Delays : Inserted(a) /\ left[a] = -1 /\ left' = [left EXCEPT ![a] = n + 1]
        BY <3>2 DEF Start
      <4>2. a \notin Running /\ Running' = Running \cup {a}
        <5>1. n \in Nat
          BY AlarmAssumption DEF AlarmAssumption
        <5> QED BY <1>1, <4>1, <5>1 DEF TypeOK, Running
      <4> QED BY <1>1, <4>1, <4>2, InsertBehind
    <3> QED BY <2>1, <3>1, <3>2
  <2>5. Rest = Ahead(x) /\ Rest' = Ahead(x)'
    BY <2>2, <2>3 DEF Rest
  <2> QED BY <2>2, <2>4, <2>5
<1>5. ~TimerInit /\ ~Tick /\ ~TickDone
  BY <1>1 DEF TimerInit, Tick, TickDone
<1> QED BY <1>2, <1>3, <1>4, <1>5 DEF Next, TickStep

\* A tick looks at each alarm once at the most, so that alt_tick returns when its
\* callbacks do.
THEOREM WalksShorten == Spec => WalkShortens
<1>1. IInv /\ [Next]_vars
        => [pc # "idle" /\ pc' # "idle" =>
               Rest' \subseteq Rest /\ (pc = "visit" => alarm \in Rest \ Rest')]_vars
  BY WalkStep, AlarmAssumption
<1> QED BY <1>1, Inductive, PTL DEF Spec, WalkShortens
=============================================================================
