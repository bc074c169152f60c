----------------------------- MODULE UsbAttach -----------------------------
(***************************************************************************)
(* What the USB host firmware promises the program above it: after every   *)
(* change of the bus that it notices all is forgotten, in an attachment a  *)
(* driver is bound exactly once, and only the reports of that driver's     *)
(* class are read, and only while the device is running.  An enumeration   *)
(* that failed stays failed until the bus changes.  A connect that comes   *)
(* between the probe of the bus and the acknowledgement goes unnoticed.    *)
(***************************************************************************)
CONSTANT Classes, None

VARIABLES
    phase,   \* of the attachment
    driver,  \* class of the driver bound in this attachment
    polled   \* class of the reports the program reads

avars == <<phase, driver, polled>>

AInit == phase = "detached" /\ driver = None /\ polled = None

(* The bus changed: whatever was attached is forgotten. *)
Change == /\ phase' \in {"attaching", "detached"}
          /\ driver' = None /\ polled' = None

Bind == /\ phase = "attaching" /\ phase' = "running"
        /\ driver' \in Classes
        /\ UNCHANGED polled

Fail == /\ phase = "attaching" /\ phase' = "failed"
        /\ UNCHANGED <<driver, polled>>

Poll == /\ phase = "running"
        /\ polled' = driver
        /\ UNCHANGED <<phase, driver>>

ANext == Change \/ Bind \/ Fail \/ Poll

ASpec == AInit /\ [][ANext]_avars
=============================================================================
