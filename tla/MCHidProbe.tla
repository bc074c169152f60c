----------------------------- MODULE MCHidProbe -----------------------------
(***************************************************************************)
(* HidProbe with devices of every shape the walk tells apart. Their numbers    *)
(* differ, so that what was kept of one device cannot pass for another's.      *)
(***************************************************************************)
EXTENDS HidProbe
LOCAL INSTANCE SequencesExt

Conf(v)    == <<CONF_DESCR_LEN, CONFIG, 0, v>>
Kbd(n)     == <<INTF_DESCR_LEN, INTERFACE, n, 1>>
Mouse(n)   == <<INTF_DESCR_LEN, INTERFACE, n, 2>>
Vendor(n)  == <<INTF_DESCR_LEN, INTERFACE, n, 0>>
Ep(size)   == <<EP_DESCR_LEN, ENDPOINT, size>>
Class(len) == [i \in 1..len |-> IF i = 1 THEN len ELSE 33]
NoLength   == <<0, 33>>

(* Where the items of a descriptor begin; one without length ends the chain at
   itself. *)
Begins(its) == {1 + Len(FlattenSeq(SubSeq(its, 1, k))) : k \in 0..Len(its)-1}

(* A device of these items that states `more' fields than it sends. *)
Plug(its, more, pktSize) ==
    LET all == FlattenSeq(its) IN
    [fields |-> [all EXCEPT ![1 + wTotalLength] = Len(all) + more],
     items |-> Begins(its), pktSize |-> pktSize]

(* The buffer of the run has 13 fields. *)
Whole == {
    <<Conf(1), Kbd(1), Class(2), Ep(4)>>,
    <<Conf(2), Mouse(0), Class(2), Ep(5)>>,
    <<Conf(1), Vendor(0)>>,
    <<Conf(1), Mouse(0)>>,                        \* no endpoint
    <<Conf(1), Kbd(0), NoLength, Ep(4)>> }        \* never walked to its endpoint

Cut == {
    <<Conf(1), Mouse(1), Ep(4), Kbd(0)>>,         \* behind the endpoint
    <<Conf(2), Mouse(0), Kbd(1), Ep(4)>>,         \* in the type of the endpoint
    <<Conf(1), Kbd(0), Class(3), Ep(5)>>,         \* in its size
    <<Conf(1), Class(6), Kbd(0), Ep(4)>> }        \* in the protocol of the interface

(* A device that states more than it sends, and one that does not send the
   whole of its configuration. *)
Wrong ==
    {Plug(<<Conf(1), Kbd(0)>>, 2, 8),
     [fields |-> <<CONF_DESCR_LEN, CONFIG>>, items |-> {1}, pktSize |-> 8]}

MCDevices == {Plug(s, 0, IF Len(s) = 2 THEN 8 ELSE 64) : s \in Whole \cup Cut} \cup Wrong
=============================================================================
