------------------------------ MODULE UsbSession ------------------------------
(***************************************************************************)
(* The session manager of driver-usb-linux.c: which SpinCore devices are   *)
(* enumerated, which of them have an open libusb handle, how many sessions *)
(* are open, and which libusb references the driver holds.                 *)
(*                                                                         *)
(* The driver is single threaded and is called by spinapi.c only.  Each    *)
(* driver function is given as operators from a driver state `u' and       *)
(* libusb's answers to a new driver state and a result, so that a caller   *)
(* that makes several calls in a row (pb_init) can compose them; the       *)
(* actions below are the single calls.  libusb and the bus are external:   *)
(* each of their calls may fail, and devices come and go.                  *)
(***************************************************************************)
EXTENDS Integers, Sequences, FiniteSets, Functions

CONSTANTS
    Device,        \* the SpinCore USB devices that may be plugged in
    Pid,           \* their product ids: a function on Device
    MAX_USB,       \* size of the driver's tables
    MAX_SESSIONS,  \* the limit on num_sessions (UINT_MAX in the code)
    Failed         \* the answer of a libusb call that reports an error

ASSUME UsbAssumption ==
    /\ IsFiniteSet(Device)
    /\ MAX_USB \in Nat \ {0}
    /\ MAX_SESSIONS \in Nat \ {0}
    /\ MAX_SESSIONS >= MAX_USB    \* UINT_MAX against 128
    /\ Pid \in [Device -> Nat \ {0}]

VARIABLES
    bus,   \* the devices plugged in now (the environment's)
    usb    \* the driver's static variables and libusb's reference counts

usbVars == <<bus, usb>>

Index == 0 .. MAX_USB - 1

UsbState ==
    [ sessions   : Nat,                                    \* num_sessions
      enumerated : BOOLEAN,                   \* devices_have_been_enumerated
      devices    : Seq(Device),        \* devices[0 .. num_spincore_usb_devices)
      handles    : [Index -> {"null", "open", "claimed"}],    \* handles[]
      refs       : [Device -> Int] ]      \* references libusb counts for us

NoSession ==
    [ sessions |-> 0, enumerated |-> FALSE, devices |-> << >>,
      handles |-> [i \in Index |-> "null"], refs |-> [d \in Device |-> 0] ]

OpenHandles(u) == {i \in Index : u.handles[i] # "null"}

Bit(b) == IF b THEN 1 ELSE 0

\* What the tables of u account for: one reference for a device in devices[]
\* and one more while its handle is open.
Held(u, d) ==
    Bit(d \in Range(u.devices))
      + Bit(\E i \in OpenHandles(u) : i < Len(u.devices) /\ u.devices[i + 1] = d)

-----------------------------------------------------------------------------
(* What libusb may answer.                                                 *)

\* The number of devices os_usb_count_devices keeps of a bus b.
NumListed(b) == IF Cardinality(b) <= MAX_USB THEN Cardinality(b) ELSE MAX_USB

\* A listing of the bus: every device once, in any order, cut off at MAX_USB.
Listings(b) == {s \in [1 .. NumListed(b) -> b] : IsInjective(s)}

Answers ==
    [ init  : BOOLEAN,                     \* libusb_init succeeds
      list  : Listings(bus) \cup {Failed}, \* libusb_get_device_list
      open  : BOOLEAN,                     \* libusb_open succeeds
      claim : BOOLEAN ]                    \* libusb_claim_interface succeeds

-----------------------------------------------------------------------------
(* os_usb_count_devices: a list is asked for only while nothing is         *)
(* enumerated, and every device kept is referenced.                        *)

CountState(u, list) ==
    IF u.enumerated \/ list = Failed
    THEN u
    ELSE [u EXCEPT !.enumerated = TRUE,
                   !.devices = list,
                   !.refs = [d \in Device |-> u.refs[d] + Bit(d \in Range(list))]]

CountResult(u, list) ==
    IF ~u.enumerated /\ list = Failed THEN -1 ELSE Len(CountState(u, list).devices)

-----------------------------------------------------------------------------
(* os_usb_close: the session count goes down, and the last session         *)
(* releases every handle and every device and forgets the enumeration.     *)

\* A release that takes the shortcut of returning for a device without a
\* handle instead of going on to unreference it.
ReleaseSkipsUnopened(u) ==
    [u EXCEPT !.handles = [i \in Index |-> IF i < Len(u.devices) THEN "null" ELSE u.handles[i]],
              !.devices = << >>,
              !.enumerated = FALSE,
              !.refs = [d \in Device |-> u.refs[d] -
                          (IF \E i \in OpenHandles(u) : u.devices[i + 1] = d THEN 2 ELSE 0)]]

\* A release that closes the handles without clearing the table.
ReleaseKeepsTable(u) ==
    [u EXCEPT !.devices = << >>,
              !.enumerated = FALSE,
              !.refs = [d \in Device |-> u.refs[d] - Held(u, d)]]

ReleaseAll(u) ==
    [ sessions   |-> u.sessions,
      enumerated |-> FALSE,
      devices    |-> << >>,
      handles    |-> [i \in Index |-> IF i < Len(u.devices) THEN "null" ELSE u.handles[i]],
      refs       |-> [d \in Device |-> u.refs[d] - Held(u, d)] ]

Ended(u) == [u EXCEPT !.sessions = u.sessions - 1]

\* A close that releases the devices whenever a session ends.
CloseReleasesEarly(u) == IF u.sessions = 0 THEN u ELSE ReleaseAll(Ended(u))

\* A close that never releases.
CloseKeepsHandles(u) == IF u.sessions = 0 THEN u ELSE Ended(u)

CloseState(u) ==
    IF u.sessions = 0 THEN u
    ELSE IF u.sessions = 1 THEN ReleaseAll(Ended(u))
    ELSE Ended(u)

-----------------------------------------------------------------------------
(* os_usb_init(dev_num): refuse an index out of the tables and a session   *)
(* too many, report an open handle as 0, else start a session, enumerate,  *)
(* open and claim.  Every error after the session has started closes it    *)
(* again, and a claim that fails leaves the handle in the table.           *)

Refused(u, dev, a) ==
    \/ dev >= MAX_USB
    \/ u.sessions = MAX_SESSIONS
    \/ ~a.init /\ u.handles[dev] = "null"

AlreadyOpen(u, dev, a) == ~Refused(u, dev, a) /\ u.handles[dev] # "null"

Begun(u) == [u EXCEPT !.sessions = u.sessions + 1]

Started(u, list) == Begun(CountState(u, list))

\* libusb_open references the device and fills the handle table.
Opened(u, dev, how) ==
    [u EXCEPT !.handles[dev] = how, !.refs[u.devices[dev + 1]] = @ + 1]

\* The device is missing, cannot be opened, or is opened and not claimed.
Found(u, dev, a) == dev < CountResult(u, a.list)

\* An init that keeps the session it started when the device cannot be used.
InitLeaksSession(u, dev, a) ==
    IF Refused(u, dev, a) \/ AlreadyOpen(u, dev, a) THEN u
    ELSE IF ~(Found(u, dev, a) /\ a.open) THEN Started(u, a.list)
    ELSE Opened(Started(u, a.list), dev, IF a.claim THEN "claimed" ELSE "open")

InitState(u, dev, a) ==
    IF Refused(u, dev, a) \/ AlreadyOpen(u, dev, a)
    THEN u
    ELSE LET s == Started(u, a.list) IN
         IF ~Found(u, dev, a) \/ ~a.open
         THEN CloseState(s)
         ELSE IF a.claim
         THEN Opened(s, dev, "claimed")
         ELSE CloseState(Opened(s, dev, "open"))

InitResult(u, dev, a) ==
    IF AlreadyOpen(u, dev, a) THEN 0
    ELSE IF ~Refused(u, dev, a) /\ Found(u, dev, a) /\ a.open /\ a.claim
    THEN Pid[CountState(u, a.list).devices[dev + 1]]
    ELSE -1

-----------------------------------------------------------------------------
(* The driver on its own: any sequence of its calls.                       *)

UsbInit == bus \in SUBSET Device /\ usb = NoSession

OsUsbCountDevices ==
    /\ \E a \in Answers : usb' = CountState(usb, a.list)
    /\ UNCHANGED bus

OsUsbInit(dev) ==
    /\ \E a \in Answers : usb' = InitState(usb, dev, a)
    /\ UNCHANGED bus

OsUsbClose ==
    /\ usb' = CloseState(usb)
    /\ UNCHANGED bus

\* Devices are plugged in and pulled out at any time.
HotPlug ==
    /\ bus' \in SUBSET Device
    /\ UNCHANGED usb

UsbNext ==
    \/ OsUsbCountDevices
    \/ \E dev \in 0 .. MAX_USB : OsUsbInit(dev)
    \/ OsUsbClose
    \/ HotPlug

UsbSpec == UsbInit /\ [][UsbNext]_usbVars

-----------------------------------------------------------------------------
(* Properties.                                                             *)

\* The types of the driver's state.
UsbTypeOK == bus \in SUBSET Device /\ usb \in UsbState

\* A handle refers to a device of the current enumeration, at its own index:
\* no handle outlives the enumeration that gave its index a meaning.
HandleIsEnumerated ==
    \A i \in OpenHandles(usb) : usb.enumerated /\ i < Len(usb.devices)

\* "Once all sessions are closed, resources are released": without a session
\* no handle is open, whatever failed on the way.
NoHandleWithoutSession == usb.sessions = 0 => OpenHandles(usb) = {}

\* Every open session stands for a handle of its own, so the count is bounded
\* by the tables: the MAX_SESSIONS guard and the wrap of the unsigned counter
\* are never reached, and a failing init never leaks a session.
SessionsBacked == usb.sessions <= Cardinality(OpenHandles(usb))

\* libusb's reference counts are exactly what the tables account for, so the
\* memory that repeated counting and failing inits hold does not grow.
NoReferenceLeak == \A d \in Device : usb.refs[d] = Held(usb, d)

\* "Device indexing remains constant during use": while a session stays open
\* the table from index to device does not change.
IndexStable ==
    [][usb.sessions > 0 /\ usb'.sessions > 0 => usb'.devices = usb.devices]_usbVars

=============================================================================
