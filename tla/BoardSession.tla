----------------------------- MODULE BoardSession -----------------------------
(***************************************************************************)
(* The board registry of spinapi.c on top of the two drivers: counting,    *)
(* selecting, initialising and closing boards.  Boards are numbered PCI    *)
(* cards first, USB devices after them, and the number is translated to a  *)
(* driver's index each time it is used, with the counts of the last count. *)
(*                                                                         *)
(* A call of the library is one action: it is atomic for the program,      *)
(* which is sequential, and makes all its driver calls in order.  What the *)
(* operating system, libusb and the hardware answer is chosen afresh in    *)
(* every call.                                                             *)
(***************************************************************************)
EXTENDS UsbSession

CONSTANTS
    NumPci,           \* SpinCore PCI cards in the machine
    PciMayFail,       \* whether /proc/bus/pci/devices may be unreadable
    MAX_NUM_BOARDS    \* size of board[]

ASSUME BoardAssumption ==
    /\ NumPci \in Nat
    /\ PciMayFail \in BOOLEAN
    /\ MAX_NUM_BOARDS \in Nat \ {0}
    /\ NumPci <= MAX_NUM_BOARDS   \* os_count_boards fails beyond that

VARIABLES
    num_pci_boards,    \* -1: never counted
    num_usb_devices,   \* -1: never counted
    cur_board,         \* the selected board
    cur_dev,           \* usb.c: the USB device that registers are accessed on
    num_cards,         \* driver-direct-linux.c: the cards that I/O may address
    board              \* board[]: what pb_init found out

registryVars == <<num_pci_boards, num_usb_devices, cur_board, cur_dev, num_cards, board>>
vars == <<usbVars, registryVars>>

Slot == 0 .. MAX_NUM_BOARDS - 1

\* Where a capability record comes from: nowhere (zeroed memory), a PCI card,
\* or the USB device whose registers were read.
NoCaps == [kind |-> "none", pid |-> 0]
PciCaps(card) == [kind |-> "pci", card |-> card]
UsbCaps(pid, d) == [kind |-> "usb", pid |-> pid, device |-> d]

Caps ==
    {NoCaps} \cup [kind : {"pci"}, card : Nat] \cup [kind : {"usb"}, pid : Nat, device : Device]

Blank == [did_init |-> FALSE, clock |-> FALSE, caps |-> NoCaps]

-----------------------------------------------------------------------------
(* What the environment may answer during one call of the library.         *)

\* The PCI configuration is read from a /proc file, which may fail to open.
PciAnswer == {NumPci} \cup (IF PciMayFail THEN {-1} ELSE {})

\* pb_count_boards counts the PCI cards and lists the USB devices.
Counting == [pci : PciAnswer, list : Listings(bus) \cup {Failed}]

\* os_init counts the cards again and asks for I/O permission; os_usb_init may
\* list the devices again.  get_caps then reads a firmware id, which may be
\* one it knows.
PciOpening == [recount : PciAnswer, iopl : BOOLEAN, known : BOOLEAN]
UsbOpening == [usb : Answers, read : BOOLEAN, known : BOOLEAN]

Count(n) == IF n < 0 THEN 0 ELSE n

\* pb_count_boards stores both counts, an error as no board, and fails if
\* board[] cannot hold them.
PciCount(c) == Count(c.pci)
UsbCount(c) == Count(CountResult(usb, c.list))

CountBoardsResult(c) ==
    IF PciCount(c) + UsbCount(c) > MAX_NUM_BOARDS THEN -1 ELSE PciCount(c) + UsbCount(c)

CountBoards(c) ==
    /\ num_pci_boards' = PciCount(c)
    /\ num_usb_devices' = UsbCount(c)

-----------------------------------------------------------------------------
(* get_caps.                                                               *)

PidRadioProcessor == 49577   \* 0xC1A9
PidPulseBlaster2  == 49578   \* 0xC1AA, whose firmware is not looked at
KnownPids == {49577, 49578, 49579, 49833}   \* ... 0xC1AB, 0xC2A9

\* usb_read_reg goes to the device usb_set_device chose last, and needs a
\* claimed handle and a plugged-in device there.
Readable(u, o) ==
    /\ o.read
    /\ cur_dev \in Index
    /\ u.handles[cur_dev] = "claimed"
    /\ u.devices[cur_dev + 1] \in bus

\* The result of get_caps and the record it leaves: zeroed first, filled in
\* only for a product and firmware it knows.  A read error is an error for
\* every product but the USB RadioProcessor.
UsbCapsFound(u, pid, o) ==
    LET found == pid \in KnownPids /\ Readable(u, o)
        named == o.known \/ pid \in {PidRadioProcessor, PidPulseBlaster2}
    IN  [ ok   |-> found \/ pid = PidRadioProcessor,
          caps |-> IF found /\ named THEN UsbCaps(pid, u.devices[cur_dev + 1]) ELSE NoCaps ]

PciCapsFound(o) ==
    [ok |-> o.known, caps |-> IF o.known THEN PciCaps(cur_board) ELSE NoCaps]

\* pb_init's use of it.  The clock the user may have set is wiped with the
\* rest, also when the product is unknown.
Described(got) == [did_init |-> got.ok, clock |-> FALSE, caps |-> got.caps]

-----------------------------------------------------------------------------
(* The API.                                                                *)

\* board[cur_board] exists.  Past the end of the array the code's behaviour
\* is undefined, and the model stops there.
InTable == cur_board \in Slot

PbCountBoards ==
    \E c \in Counting :
        /\ CountBoards(c)
        /\ usb' = CountState(usb, c.list)
        /\ UNCHANGED <<bus, cur_board, cur_dev, num_cards, board>>

\* A selection that does not tell the USB layer.
SelectForgetsDevice(n) ==
    /\ n >= 0 /\ n < num_pci_boards + num_usb_devices
    /\ cur_board' = n
    /\ UNCHANGED <<usbVars, num_pci_boards, num_usb_devices, cur_dev, num_cards, board>>

\* A selection that hands every board number to the USB layer.
SelectedAnyDevice(n, pci) == cur_board' = n /\ cur_dev' = n - pci

Selected(n, pci) ==
    /\ cur_board' = n
    /\ cur_dev' = IF n >= pci THEN n - pci ELSE cur_dev

\* The counts are those of the last count; only a registry that never counted
\* counts now.
PbSelectBoard(n) ==
    /\ \/ /\ num_pci_boards + num_usb_devices >= 0
          /\ n < num_pci_boards + num_usb_devices
          /\ Selected(n, num_pci_boards)
          /\ UNCHANGED <<usb, num_pci_boards, num_usb_devices>>
       \/ /\ num_pci_boards + num_usb_devices < 0
          /\ \E c \in Counting :
                /\ CountBoards(c)
                /\ usb' = CountState(usb, c.list)
                /\ IF n < CountBoardsResult(c)
                   THEN Selected(n, PciCount(c))
                   ELSE UNCHANGED <<cur_board, cur_dev>>
    /\ UNCHANGED <<bus, num_cards, board>>

\* An os_init that counts the cards and forgets to store the count.
InitPciKeepsCount(o) ==
    /\ board' = IF cur_board < o.recount /\ o.iopl
                THEN [board EXCEPT ![cur_board] = Described(PciCapsFound(o))]
                ELSE board
    /\ UNCHANGED num_cards

\* do_os_init and get_caps for a PCI card.
InitPci(o) ==
    /\ num_cards' = o.recount
    /\ board' = IF cur_board < o.recount /\ o.iopl
                THEN [board EXCEPT ![cur_board] = Described(PciCapsFound(o))]
                ELSE board

\* do_os_init and get_caps for the USB device dev, in the driver state u that
\* the count left.  The driver's result is the product id get_caps switches
\* on; -1 ends pb_init before get_caps.
InitUsb(u, dev, o) ==
    LET id == InitResult(u, dev, o.usb)
    IN  /\ usb' = InitState(u, dev, o.usb)
        /\ board' = IF id = -1 THEN board
                    ELSE [board EXCEPT ![cur_board] = Described(UsbCapsFound(usb', id, o))]
        /\ UNCHANGED num_cards

PbInit ==
    /\ InTable
    /\ ~board[cur_board].did_init
    /\ \E c \in Counting :
        LET counted == CountState(usb, c.list) IN
        /\ CountBoards(c)
        /\ \/ /\ CountBoardsResult(c) <= 0
              /\ usb' = counted
              /\ UNCHANGED <<num_cards, board>>
           \/ /\ CountBoardsResult(c) > 0
              /\ cur_board < PciCount(c)
              /\ usb' = counted
              /\ \E o \in PciOpening : InitPci(o)
           \/ /\ CountBoardsResult(c) > 0
              /\ cur_board >= PciCount(c)
              /\ \E o \in UsbOpening : InitUsb(counted, cur_board - PciCount(c), o)
    /\ UNCHANGED <<bus, cur_board, cur_dev>>

\* A close that leaves did_init set.
CloseForgetsFlag ==
    /\ InTable /\ board[cur_board].did_init
    /\ usb' = IF cur_board < num_pci_boards THEN usb ELSE CloseState(usb)
    /\ UNCHANGED <<bus, registryVars>>

PbClose ==
    /\ InTable
    /\ board[cur_board].did_init
    /\ board' = [board EXCEPT ![cur_board].did_init = FALSE]
    /\ usb' = IF cur_board < num_pci_boards THEN usb ELSE CloseState(usb)
    /\ UNCHANGED <<bus, num_pci_boards, num_usb_devices, cur_board, cur_dev, num_cards>>

PbCoreClock ==
    /\ InTable
    /\ board' = [board EXCEPT ![cur_board].clock = TRUE]
    /\ UNCHANGED <<usbVars, num_pci_boards, num_usb_devices, cur_board, cur_dev, num_cards>>

PlugOrUnplug == HotPlug /\ UNCHANGED registryVars

-----------------------------------------------------------------------------
Init ==
    /\ UsbInit
    /\ num_pci_boards = -1
    /\ num_usb_devices = -1
    /\ cur_board = 0
    /\ cur_dev = 0
    /\ num_cards = -1
    /\ board = [b \in Slot |-> Blank]

Next ==
    \/ PbCountBoards
    \/ \E n \in 0 .. MAX_NUM_BOARDS : PbSelectBoard(n)
    \/ PbInit
    \/ PbClose
    \/ PbCoreClock
    \/ PlugOrUnplug

Spec == Init /\ [][Next]_vars

-----------------------------------------------------------------------------
(* Properties.                                                             *)

TypeOK ==
    /\ UsbTypeOK
    /\ num_pci_boards \in Nat \cup {-1}
    /\ num_usb_devices \in Nat \cup {-1}
    /\ cur_board \in Nat
    /\ cur_dev \in Nat
    /\ num_cards \in Int
    /\ board \in [Slot -> [did_init : BOOLEAN, clock : BOOLEAN, caps : Caps]]

\* The USB driver's index of a board, and the boards initialised there.
DevOf(b) == b - NumPci
InitializedUsb == {b \in Slot : b >= NumPci /\ board[b].did_init}

\* An initialised USB board keeps its device open and claimed: no close of
\* another board, failing init, recount or replugging takes it away.
InitializedIsOpen ==
    \A b \in InitializedUsb : DevOf(b) \in Index /\ usb.handles[DevOf(b)] = "claimed"

\* There is a session for every initialised USB board, so that the close of
\* one of them never releases the others.
SessionPerBoard == Cardinality(InitializedUsb) <= usb.sessions

\* What pb_init recorded of a board was read from the device that the board's
\* number stands for, not from another one.
CapsOfOwnDevice ==
    \A b \in InitializedUsb :
        board[b].caps.kind = "usb" =>
            board[b].caps = UsbCaps(Pid[usb.devices[DevOf(b) + 1]], usb.devices[DevOf(b) + 1])

\* An initialised PCI card is one that the I/O functions accept.
CardsReachable ==
    \A b \in Slot : b < NumPci /\ board[b].did_init => b < num_cards

-----------------------------------------------------------------------------
(* What the documentation says and the code does not do; each is the       *)
(* subject of a run that finds it violated.                                *)

Healthy == {a \in Answers : a.init /\ a.open /\ a.claim /\ a.list # Failed}

\* After pb_close a board can be "reinitialized with pb_init()" (spinapi.h):
\* for a board that was initialised and closed (its capabilities are still
\* there), whose index still has a device, and with libusb answering every
\* call, the driver gives pb_init the product id it needs.
ClosedCanReopen ==
    \A b \in Slot :
        (/\ board[b].caps.kind = "usb"
         /\ ~board[b].did_init
         /\ DevOf(b) < (IF usb.enumerated THEN Len(usb.devices) ELSE Cardinality(bus)))
        => \A a \in Healthy : InitResult(usb, DevOf(b), a) \in KnownPids

\* "This array holds the capabilties info on each board" (spinapi.c): the
\* selected board has an entry of board[].
SelectionInTable == InTable

=============================================================================
