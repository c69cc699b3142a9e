-------------------------- MODULE BoardSession_proofs --------------------------
(***************************************************************************)
(* The registry's invariants for any number of boards.  The driver's       *)
(* inductive invariant carries over, as every API call is a few driver     *)
(* calls in a row.  On top of it: while the PCI count cannot fail, the     *)
(* translation from board number to driver index does not move, and an     *)
(* initialised board holds a session and a claimed handle.                 *)
(***************************************************************************)
EXTENDS BoardSession, UsbSession_proofs

BoardRecord == [did_init : BOOLEAN, clock : BOOLEAN, caps : Caps]

TypeInv == UsbInv /\ TypeOK

-----------------------------------------------------------------------------
(* What the driver's calls do to sessions and claimed handles.             *)

\* A close takes away one session, and no handle while others are open.
LEMMA CloseEffect ==
    ASSUME NEW u \in UsbState, u.sessions > 0
    PROVE  /\ CloseState(u).sessions = u.sessions - 1
           /\ u.sessions > 1 => CloseState(u).handles = u.handles
<1>1. u.sessions \in Nat
  BY DEF UsbState
<1>2. CASE u.sessions = 1
  <2>1. CloseState(u) = ReleaseAll(Ended(u)) /\ Ended(u).sessions = 0
    BY <1>2, EndedFields DEF CloseState
  <2>2. CloseState(u).sessions = 0
    BY <2>1 DEF ReleaseAll
  <2>. QED
    BY <1>2, <2>2
<1>3. CASE u.sessions > 1
  <2>1. CloseState(u) = Ended(u)
    BY <1>3 DEF CloseState
  <2>2. Ended(u).handles = u.handles
    BY DEF Ended, UsbState
  <2>. QED
    BY <2>1, <2>2, EndedFields
<1>. QED
  BY <1>1, <1>2, <1>3

\* The fields of a started session and of an opened handle.
LEMMA OpenedFields ==
    ASSUME NEW c, IInv(c), NEW dev, NEW how
    PROVE  /\ Opened(Begun(c), dev, how).sessions = c.sessions + 1
           /\ Opened(Begun(c), dev, how).handles = [c.handles EXCEPT ![dev] = how]
<1>. DEFINE s == Begun(c)
            o == Opened(s, dev, how)
<1>1. s \in UsbState /\ s.sessions = c.sessions + 1 /\ s.handles = c.handles
  BY StartPreserves
<1>. HIDE DEF s
<1>2. o.sessions = s.sessions /\ o.handles = [s.handles EXCEPT ![dev] = how]
  BY <1>1 DEF Opened, UsbState
<1>. QED
  BY <1>1, <1>2 DEF s

\* os_usb_init never ends a session of before, keeps claimed handles while
\* there is one, and a product id as the result means a session and a claimed
\* handle more.
LEMMA InitEffect ==
    ASSUME bus \in SUBSET Device, NEW u, IInv(u), NEW dev \in Nat, NEW a \in Answers,
           NEW v, v = InitState(u, dev, a)
    PROVE  /\ v.sessions >= u.sessions
           /\ u.sessions > 0 => \A i \in Index :
                 u.handles[i] = "claimed" => v.handles[i] = "claimed"
           /\ InitResult(u, dev, a) \notin {0, -1} =>
                 /\ dev \in Index
                 /\ v.handles[dev] = "claimed"
                 /\ v.sessions = u.sessions + 1
<1>1. u.sessions \in Nat /\ u.handles \in [Index -> {"null", "open", "claimed"}]
  BY DEF IInv, UsbState
<1>2. CASE Refused(u, dev, a) \/ AlreadyOpen(u, dev, a)
  <2>1. v = u
    BY <1>2 DEF InitState
  <2>2. InitResult(u, dev, a) \in {0, -1}
    BY <1>2 DEF InitResult, AlreadyOpen
  <2>. QED
    BY <1>1, <2>1, <2>2
<1>3. CASE ~Refused(u, dev, a) /\ ~AlreadyOpen(u, dev, a)
  <2>. DEFINE c == CountState(u, a.list)
              s == Begun(c)
  <2>1. dev \in Index /\ u.handles[dev] = "null"
    BY <1>3, UsbAssumption DEF Refused, AlreadyOpen, Index
  <2>2. IInv(c) /\ c.sessions = u.sessions /\ c.handles = u.handles
    BY CountPreserves DEF Answers
  <2>3. Started(u, a.list) = s
    BY DEF Started
  <2>4. c.devices \in Seq(Device)
    BY <2>2 DEF IInv, UsbState
  <2>. HIDE DEF c
  <2>5. s \in UsbState /\ s.sessions = u.sessions + 1 /\ s.handles = u.handles
    BY <2>2, StartPreserves
  <2>. HIDE DEF s
  <2>6. CASE ~Found(u, dev, a) \/ ~a.open
    <3>1. v = CloseState(s)
      BY <1>3, <2>3, <2>6 DEF InitState
    <3>2. InitResult(u, dev, a) = -1
      BY <1>3, <2>6 DEF InitResult
    <3>3. v.sessions = u.sessions /\ (u.sessions > 0 => v.handles = u.handles)
      BY <1>1, <2>5, <3>1, CloseEffect
    <3>. QED
      BY <1>1, <3>2, <3>3
  <2>7. CASE Found(u, dev, a) /\ a.open
    <3>1. dev < Len(c.devices)
      BY <2>4, <2>7 DEF Found, CountResult, c
    <3>2. CASE a.claim
      <4>1. v = Opened(s, dev, "claimed")
        BY <1>3, <2>3, <2>7, <3>2 DEF InitState
      <4>2. v.sessions = u.sessions + 1 /\ v.handles = [u.handles EXCEPT ![dev] = "claimed"]
        <5>1. /\ Opened(s, dev, "claimed").sessions = c.sessions + 1
              /\ Opened(s, dev, "claimed").handles = [c.handles EXCEPT ![dev] = "claimed"]
          BY <2>2, OpenedFields DEF s
        <5>. QED
          BY <2>2, <4>1, <5>1
      <4>. QED
        BY <1>1, <2>1, <4>2
    <3>3. CASE ~a.claim
      <4>. DEFINE o == Opened(s, dev, "open")
      <4>1. v = CloseState(o)
        BY <1>3, <2>3, <2>7, <3>3 DEF InitState
      <4>2. o \in UsbState
        BY <2>1, <2>2, <3>1, OpenPreserves DEF IInv, s
      <4>3. o.sessions = u.sessions + 1 /\ o.handles = [u.handles EXCEPT ![dev] = "open"]
        <5>1. o.sessions = c.sessions + 1 /\ o.handles = [c.handles EXCEPT ![dev] = "open"]
          BY <2>2, OpenedFields DEF s
        <5>. QED
          BY <2>2, <5>1
      <4>. HIDE DEF o
      <4>4. v.sessions = u.sessions /\ (u.sessions > 0 => v.handles = o.handles)
        BY <1>1, <4>1, <4>2, <4>3, CloseEffect
      <4>5. InitResult(u, dev, a) = -1
        BY <1>3, <3>3 DEF InitResult
      <4>. QED
        BY <1>1, <2>1, <4>3, <4>4, <4>5
    <3>. QED
      BY <3>2, <3>3
  <2>. QED
    BY <2>6, <2>7
<1>. QED
  BY <1>2, <1>3

-----------------------------------------------------------------------------
(* Types, and the driver's invariant under the API.                        *)

\* Counting stores two natural numbers and is one driver call.
LEMMA CountingFacts ==
    ASSUME TypeInv, NEW c \in Counting
    PROVE  /\ PciCount(c) \in Nat /\ UsbCount(c) \in Nat
           /\ IInv(CountState(usb, c.list))
<1>1. c.list \in Listings(bus) \cup {Failed} /\ c.pci \in Int
  BY BoardAssumption DEF Counting, PciAnswer
<1>2. IInv(CountState(usb, c.list))
  BY <1>1, CountPreserves DEF TypeInv, UsbInv
<1>3. CountResult(usb, c.list) \in Int
  <2>1. CountState(usb, c.list).devices \in Seq(Device)
    BY <1>2 DEF IInv, UsbState
  <2>. QED
    BY <2>1 DEF CountResult
<1>. QED
  BY <1>1, <1>2, <1>3 DEF PciCount, UsbCount, Count

\* What pb_init records is a capability record.
LEMMA DescribedType ==
    ASSUME TypeInv, NEW u, IInv(u), NEW pid \in Nat, NEW o \in UsbOpening
    PROVE  Described(UsbCapsFound(u, pid, o)) \in BoardRecord
<1>1. o.read \in BOOLEAN /\ o.known \in BOOLEAN
  BY DEF UsbOpening
<1>2. NoCaps \in Caps
  BY DEF Caps
<1>3. ASSUME Readable(u, o) PROVE UsbCaps(pid, u.devices[cur_dev + 1]) \in Caps
  <2>1. cur_dev \in OpenHandles(u) /\ cur_dev \in Nat
    BY <1>3, UsbAssumption DEF Readable, OpenHandles, TypeInv, TypeOK
  <2>2. cur_dev < Len(u.devices) /\ u.devices \in Seq(Device)
    BY <2>1 DEF IInv, Enumerated, UsbState
  <2>3. u.devices[cur_dev + 1] \in Device
    BY <2>1, <2>2
  <2>. QED
    BY <2>3 DEF UsbCaps, Caps
<1>. DEFINE f == UsbCapsFound(u, pid, o)
<1>4. f.caps \in Caps /\ f.ok \in BOOLEAN
  <2>1. f.ok = ((pid \in KnownPids /\ Readable(u, o)) \/ pid = PidRadioProcessor)
    BY DEF UsbCapsFound
  <2>2. f.caps = IF /\ pid \in KnownPids /\ Readable(u, o)
                    /\ o.known \/ pid \in {PidRadioProcessor, PidPulseBlaster2}
                 THEN UsbCaps(pid, u.devices[cur_dev + 1]) ELSE NoCaps
    BY Zenon DEF UsbCapsFound
  <2>. QED
    BY <1>2, <1>3, <2>1, <2>2
<1>. QED
  BY <1>4 DEF Described, BoardRecord

\* The result of os_usb_init is -1, 0 or a product id.
LEMMA InitResultType ==
    ASSUME bus \in SUBSET Device, NEW u, IInv(u), NEW dev \in Nat, NEW a \in Answers
    PROVE  InitResult(u, dev, a) \in Nat \cup {-1}
<1>. DEFINE c == CountState(u, a.list)
<1>1. IInv(c)
  BY CountPreserves DEF Answers
<1>2. c.devices \in Seq(Device)
  BY <1>1 DEF IInv, UsbState
<1>. HIDE DEF c
<1>3. ASSUME Found(u, dev, a) PROVE Pid[c.devices[dev + 1]] \in Nat
  <2>1. dev < Len(c.devices)
    BY <1>2, <1>3 DEF Found, CountResult, c
  <2>2. c.devices[dev + 1] \in Device
    BY <1>2, <2>1
  <2>. QED
    BY <2>2, UsbAssumption
<1>. QED
  BY <1>3 DEF InitResult, c

\* pb_init keeps the types, whichever path it takes.
LEMMA PbInitTypes ==
    ASSUME TypeInv, PbInit
    PROVE  TypeInv'
<1>1. PICK c \in Counting :
        /\ CountBoards(c)
        /\ \/ usb' = CountState(usb, c.list) /\ UNCHANGED <<num_cards, board>>
           \/ usb' = CountState(usb, c.list) /\ \E o \in PciOpening : InitPci(o)
           \/ /\ cur_board >= PciCount(c)
              /\ \E o \in UsbOpening :
                    InitUsb(CountState(usb, c.list), cur_board - PciCount(c), o)
  BY DEF PbInit
<1>. DEFINE u == CountState(usb, c.list)
<1>2. PciCount(c) \in Nat /\ UsbCount(c) \in Nat /\ IInv(u)
  BY CountingFacts
<1>. HIDE DEF u
<1>3. bus' = bus /\ cur_board' = cur_board /\ cur_dev' = cur_dev /\ cur_board \in Slot
  BY DEF PbInit, InTable
<1>4. /\ bus \in SUBSET Device /\ cur_board \in Nat /\ cur_dev \in Nat
      /\ num_cards \in Int /\ board \in [Slot -> BoardRecord]
  BY DEF TypeInv, TypeOK, UsbInv, BoardRecord
<1>5. num_pci_boards' \in Nat \cup {-1} /\ num_usb_devices' \in Nat \cup {-1}
  BY <1>1, <1>2 DEF CountBoards
<1>6. IInv(usb') /\ num_cards' \in Int /\ board' \in [Slot -> BoardRecord]
  <2>1. CASE usb' = u /\ UNCHANGED <<num_cards, board>>
    BY <1>2, <1>4, <2>1
  <2>2. ASSUME usb' = u, NEW o \in PciOpening, InitPci(o)
        PROVE  IInv(usb') /\ num_cards' \in Int /\ board' \in [Slot -> BoardRecord]
    <3>1. o.recount \in Int /\ o.known \in BOOLEAN
      BY BoardAssumption DEF PciOpening, PciAnswer
    <3>2. PciCapsFound(o).ok \in BOOLEAN /\ PciCapsFound(o).caps \in Caps
      BY <1>4, <3>1 DEF PciCapsFound, PciCaps, Caps
    <3>3. Described(PciCapsFound(o)) \in BoardRecord
      BY <3>2 DEF Described, BoardRecord
    <3>. QED
      BY <1>2, <1>3, <1>4, <2>2, <3>1, <3>3 DEF InitPci
  <2>3. ASSUME cur_board >= PciCount(c), NEW o \in UsbOpening,
               InitUsb(u, cur_board - PciCount(c), o)
        PROVE  IInv(usb') /\ num_cards' \in Int /\ board' \in [Slot -> BoardRecord]
    <3>. DEFINE dev == cur_board - PciCount(c)
                id == InitResult(u, dev, o.usb)
    <3>1. dev \in Nat /\ o.usb \in Answers
      BY <1>2, <1>4, <2>3 DEF UsbOpening
    <3>. HIDE DEF dev
    <3>2. usb' = InitState(u, dev, o.usb) /\ num_cards' = num_cards
          /\ board' = IF id = -1 THEN board
                      ELSE [board EXCEPT ![cur_board] = Described(UsbCapsFound(usb', id, o))]
      BY <2>3 DEF InitUsb, dev
    <3>3. IInv(usb')
      BY <1>2, <1>4, <3>1, <3>2, InitPreserves
    <3>4. id \in Nat \cup {-1}
      BY <1>2, <1>4, <3>1, InitResultType
    <3>. HIDE DEF id
    <3>5. id # -1 => Described(UsbCapsFound(usb', id, o)) \in BoardRecord
      BY <3>3, <3>4, DescribedType
    <3>. QED
      BY <1>3, <1>4, <3>2, <3>3, <3>5
  <2>. QED
    BY <1>1, <2>1, <2>2, <2>3 DEF u
<1>. QED
  BY <1>3, <1>4, <1>5, <1>6 DEF TypeInv, TypeOK, UsbInv, UsbTypeOK, IInv, BoardRecord

\* Every API call keeps the types and the driver's invariant.
LEMMA NextTypes ==
    ASSUME TypeInv, [Next]_vars
    PROVE  TypeInv'
<1>0. /\ bus \in SUBSET Device /\ cur_board \in Nat /\ cur_dev \in Nat /\ IInv(usb)
      /\ num_pci_boards \in Nat \cup {-1} /\ num_usb_devices \in Nat \cup {-1}
      /\ num_cards \in Int /\ board \in [Slot -> BoardRecord]
  BY DEF TypeInv, TypeOK, UsbInv, BoardRecord
<1>1. SUFFICES
        /\ bus' \in SUBSET Device /\ cur_board' \in Nat /\ cur_dev' \in Nat /\ IInv(usb')
        /\ num_pci_boards' \in Nat \cup {-1} /\ num_usb_devices' \in Nat \cup {-1}
        /\ num_cards' \in Int /\ board' \in [Slot -> BoardRecord]
  BY DEF TypeInv, TypeOK, UsbInv, UsbTypeOK, IInv, BoardRecord
<1>2. CASE PbCountBoards
  BY <1>0, <1>2, CountingFacts DEF PbCountBoards, CountBoards
<1>3. ASSUME NEW n \in 0 .. MAX_NUM_BOARDS, PbSelectBoard(n)
      PROVE  TypeInv'
  <2>1. n \in Nat
    BY BoardAssumption
  <2>2. CASE /\ Selected(n, num_pci_boards)
             /\ UNCHANGED <<usb, num_pci_boards, num_usb_devices>>
    BY <1>0, <1>3, <2>1, <2>2
       DEF PbSelectBoard, Selected, TypeInv, TypeOK, UsbInv, UsbTypeOK, IInv, BoardRecord
  <2>3. ASSUME NEW c \in Counting, CountBoards(c), usb' = CountState(usb, c.list),
               \/ Selected(n, PciCount(c))
               \/ UNCHANGED <<cur_board, cur_dev>>
        PROVE  TypeInv'
    <3>1. PciCount(c) \in Nat /\ UsbCount(c) \in Nat /\ IInv(usb')
      BY <2>3, CountingFacts
    <3>2. cur_board' \in Nat /\ cur_dev' \in Nat
      BY <1>0, <2>1, <2>3, <3>1 DEF Selected
    <3>. QED
      BY <1>0, <1>3, <2>3, <3>1, <3>2
         DEF PbSelectBoard, CountBoards, TypeInv, TypeOK, UsbInv, UsbTypeOK, IInv, BoardRecord
  <2>. QED
    BY <1>3, <2>2, <2>3 DEF PbSelectBoard
<1>4. CASE PbInit
  BY <1>4, PbInitTypes DEF TypeInv, TypeOK, UsbInv, BoardRecord
<1>5. CASE PbClose
  <2>1. usb.sessions <= Cardinality(OpenHandles(usb)) + 1
    BY <1>0, OpenFinite DEF IInv, Backed, UsbState
  <2>2. IInv(CloseState(usb))
    BY <1>0, <2>1, ClosePreserves DEF IInv
  <2>3. board' \in [Slot -> BoardRecord]
    BY <1>0, <1>5 DEF PbClose, BoardRecord, InTable
  <2>. QED
    BY <1>0, <1>5, <2>2, <2>3 DEF PbClose
<1>6. CASE PbCoreClock
  <2>1. board' \in [Slot -> BoardRecord]
    BY <1>0, <1>6 DEF PbCoreClock, BoardRecord, InTable
  <2>. QED
    BY <1>0, <1>6, <2>1 DEF PbCoreClock, usbVars
<1>7. CASE PlugOrUnplug
  BY <1>0, <1>7 DEF PlugOrUnplug, HotPlug, registryVars
<1>8. CASE UNCHANGED vars
  BY <1>0, <1>8 DEF vars, usbVars, registryVars
<1>. QED
  BY <1>2, <1>3, <1>4, <1>5, <1>6, <1>7, <1>8
     DEF Next, TypeInv, TypeOK, UsbInv, BoardRecord

LEMMA InitTypes == Init => TypeInv
<1>. SUFFICES ASSUME Init PROVE TypeInv
  OBVIOUS
<1>1. IInv(usb) /\ bus \in SUBSET Device
  BY InitIInv DEF Init, UsbInit
<1>2. Blank \in BoardRecord
  BY DEF Blank, BoardRecord, NoCaps, Caps
<1>. QED
  BY <1>1, <1>2 DEF Init, TypeInv, TypeOK, UsbInv, UsbTypeOK, IInv, BoardRecord

\* The registry's state has its types, and the driver's invariant holds of
\* the driver as the API uses it.
THEOREM RegistryTypes == Spec => []TypeInv
<1>. QED
  BY InitTypes, NextTypes, PTL DEF Spec

\* The registry's variables have their types.
THEOREM RegistryTypeOK == Spec => []TypeOK
<1>1. TypeInv => TypeOK
  BY DEF TypeInv
<1>. QED
  BY <1>1, RegistryTypes, PTL

\* The driver keeps its promises below the registry too, which makes several
\* driver calls in one of its own: no handle outlives its enumeration or the
\* last session, every session has a handle, and no reference leaks.
THEOREM DriverUnderRegistry ==
    Spec => [](HandleIsEnumerated /\ NoHandleWithoutSession /\ SessionsBacked /\ NoReferenceLeak)
<1>1. TypeInv => HandleIsEnumerated /\ NoHandleWithoutSession
  BY DEF TypeInv, UsbInv, IInv, Enumerated, Released, HandleIsEnumerated, NoHandleWithoutSession
<1>2. TypeInv => SessionsBacked /\ NoReferenceLeak
  BY DEF TypeInv, UsbInv, IInv, Backed, Balanced, SessionsBacked, NoReferenceLeak
<1>. QED
  BY <1>1, <1>2, RegistryTypes, PTL

-----------------------------------------------------------------------------
(* A session and a claimed handle for every initialised USB board.         *)

\* An initialised board has been counted with all the PCI cards, so the
\* numbers of the boards are still split at NumPci.
SplitKnown ==
    /\ num_pci_boards \in {-1, NumPci}
    /\ (\E b \in Slot : board[b].did_init) => num_pci_boards = NumPci

BoardInv == TypeInv /\ SplitKnown /\ InitializedIsOpen /\ SessionPerBoard

\* The initialised boards are finitely many.
LEMMA InitializedFinite ==
    IsFiniteSet(InitializedUsb) /\ Cardinality(InitializedUsb) \in Nat
<1>1. IsFiniteSet(Slot)
  BY FS_Interval, BoardAssumption DEF Slot
<1>2. InitializedUsb \subseteq Slot
  BY DEF InitializedUsb
<1>. QED
  BY <1>1, <1>2, FS_Subset, FS_CardinalityType

\* A step that changes no flag, keeps the claimed handles of initialised
\* boards and ends no session.
LEMMA QuietStep ==
    ASSUME BoardInv, TypeInv',
           InitializedUsb' = InitializedUsb,
           num_pci_boards' = NumPci \/ UNCHANGED <<num_pci_boards, board>>,
           usb'.sessions >= usb.sessions,
           usb.sessions > 0 => \A i \in Index :
               usb.handles[i] = "claimed" => usb'.handles[i] = "claimed"
    PROVE  BoardInv'
<1>1. usb.sessions \in Nat /\ usb'.sessions \in Nat
  BY DEF BoardInv, TypeInv, UsbInv, IInv, UsbState
<1>2. SessionPerBoard'
  BY <1>1, InitializedFinite DEF BoardInv, SessionPerBoard
<1>3. InitializedUsb # {} => usb.sessions > 0
  BY <1>1, InitializedFinite, FS_EmptySet DEF BoardInv, SessionPerBoard
<1>4. InitializedIsOpen'
  BY <1>3 DEF BoardInv, InitializedIsOpen, DevOf
<1>5. SplitKnown'
  BY DEF BoardInv, SplitKnown
<1>. QED
  BY <1>2, <1>4, <1>5 DEF BoardInv

\* pb_init: the board it initialises adds a session and a claimed handle.
LEMMA PbInitBoards ==
    ASSUME BoardInv, PbInit, ~PciMayFail
    PROVE  BoardInv'
<1>1. TypeInv'
  BY PbInitTypes DEF BoardInv
<1>2. PICK c \in Counting :
        /\ CountBoards(c)
        /\ \/ usb' = CountState(usb, c.list) /\ UNCHANGED <<num_cards, board>>
           \/ /\ cur_board < PciCount(c)
              /\ usb' = CountState(usb, c.list)
              /\ \E o \in PciOpening : InitPci(o)
           \/ /\ cur_board >= PciCount(c)
              /\ \E o \in UsbOpening :
                    InitUsb(CountState(usb, c.list), cur_board - PciCount(c), o)
  BY DEF PbInit
<1>3. PciCount(c) = NumPci
  BY BoardAssumption DEF Counting, PciAnswer, PciCount, Count
<1>4. num_pci_boards' = NumPci /\ bus \in SUBSET Device /\ NumPci \in Nat
  BY <1>2, <1>3, BoardAssumption DEF CountBoards, BoardInv, TypeInv, UsbInv
<1>5. cur_board \in Slot /\ cur_board \in Nat /\ ~board[cur_board].did_init
      /\ board \in [Slot -> BoardRecord]
  BY BoardAssumption DEF PbInit, InTable, Slot, BoardInv, TypeInv, TypeOK, BoardRecord
<1>. DEFINE u == CountState(usb, c.list)
<1>6. IInv(u) /\ u.sessions = usb.sessions /\ u.handles = usb.handles
  BY CountPreserves DEF Counting, BoardInv, TypeInv, UsbInv
<1>7. usb.sessions \in Nat
  BY DEF BoardInv, TypeInv, UsbInv, IInv, UsbState
<1>. HIDE DEF u
<1>8. CASE usb' = u /\ UNCHANGED <<num_cards, board>>
  <2>1. InitializedUsb' = InitializedUsb
    BY <1>8 DEF InitializedUsb
  <2>. QED
    BY <1>1, <1>4, <1>6, <1>7, <1>8, <2>1, QuietStep
<1>9. ASSUME cur_board < NumPci, usb' = u, NEW o \in PciOpening, InitPci(o)
      PROVE  BoardInv'
  <2>1. \A b \in Slot : b # cur_board => board'[b] = board[b]
    BY <1>5, <1>9 DEF InitPci
  <2>2. InitializedUsb' = InitializedUsb
    BY <1>4, <1>5, <1>9, <2>1 DEF InitializedUsb, Slot
  <2>3. SessionPerBoard' /\ InitializedIsOpen'
    BY <1>6, <1>9, <2>2 DEF BoardInv, SessionPerBoard, InitializedIsOpen, DevOf
  <2>. QED
    BY <1>1, <1>4, <2>3 DEF BoardInv, SplitKnown
<1>10. ASSUME cur_board >= NumPci, NEW o \in UsbOpening, InitUsb(u, cur_board - NumPci, o)
       PROVE  BoardInv'
  <2>. DEFINE dev == cur_board - NumPci
              id == InitResult(u, dev, o.usb)
              new == Described(UsbCapsFound(usb', id, o))
  <2>1. dev \in Nat /\ o.usb \in Answers
    BY <1>4, <1>5, <1>10 DEF UsbOpening
  <2>2. dev = DevOf(cur_board)
    BY DEF DevOf
  <2>. HIDE DEF dev
  <2>3. usb' = InitState(u, dev, o.usb)
        /\ board' = IF id = -1 THEN board ELSE [board EXCEPT ![cur_board] = new]
    BY <1>10 DEF InitUsb, dev
  <2>4. /\ usb'.sessions >= usb.sessions
        /\ usb.sessions > 0 => \A i \in Index :
              usb.handles[i] = "claimed" => usb'.handles[i] = "claimed"
        /\ id \notin {0, -1} =>
              dev \in Index /\ usb'.handles[dev] = "claimed" /\ usb'.sessions = usb.sessions + 1
    BY <1>4, <1>6, <2>1, <2>3, InitEffect
  <2>. HIDE DEF id
  <2>5. CASE id = -1
    <3>1. InitializedUsb' = InitializedUsb
      BY <2>3, <2>5 DEF InitializedUsb
    <3>. QED
      BY <1>1, <1>4, <2>4, <3>1, QuietStep
  <2>6. CASE id = 0
    <3>1. ~new.did_init
      <4>1. id \notin KnownPids /\ id # PidRadioProcessor
        BY <2>6 DEF KnownPids, PidRadioProcessor
      <4>2. UsbCapsFound(usb', id, o).ok = FALSE
        BY <4>1 DEF UsbCapsFound
      <4>. QED
        BY <4>2 DEF Described
    <3>. HIDE DEF new
    <3>2. \A b \in Slot : b # cur_board => board'[b] = board[b]
      BY <1>5, <2>3
    <3>3. ~board'[cur_board].did_init
      BY <1>5, <2>3, <2>6, <3>1
    <3>4. InitializedUsb' = InitializedUsb
      BY <1>5, <3>2, <3>3 DEF InitializedUsb
    <3>. QED
      BY <1>1, <1>4, <2>4, <3>4, QuietStep
  <2>7. CASE id \notin {0, -1}
    <3>. HIDE DEF new
    <3>1. \A b \in Slot : b # cur_board => board'[b] = board[b]
      BY <1>5, <2>3
    <3>2. InitializedUsb' \subseteq InitializedUsb \cup {cur_board}
      BY <3>1 DEF InitializedUsb
    <3>3. IsFiniteSet(InitializedUsb \cup {cur_board})
          /\ Cardinality(InitializedUsb \cup {cur_board}) = Cardinality(InitializedUsb) + 1
      <4>1. cur_board \notin InitializedUsb
        BY <1>5 DEF InitializedUsb
      <4>. QED
        BY <4>1, InitializedFinite, FS_AddElement
    <3>4. Cardinality(InitializedUsb') <= Cardinality(InitializedUsb) + 1
          /\ Cardinality(InitializedUsb') \in Nat
      <4>1. IsFiniteSet(InitializedUsb')
        BY <3>2, <3>3, FS_Subset
      <4>. QED
        BY <3>2, <3>3, <4>1, FS_Subset, FS_CardinalityType
    <3>5. SessionPerBoard'
      BY <1>7, <2>4, <2>7, <3>4, InitializedFinite DEF BoardInv, SessionPerBoard
    <3>6. InitializedUsb # {} => usb.sessions > 0
      BY <1>7, InitializedFinite, FS_EmptySet DEF BoardInv, SessionPerBoard
    <3>7. InitializedIsOpen'
      <4>1. SUFFICES ASSUME NEW b \in InitializedUsb'
                     PROVE  DevOf(b) \in Index /\ usb'.handles[DevOf(b)] = "claimed"
        BY DEF InitializedIsOpen
      <4>2. CASE b = cur_board
        BY <2>2, <2>4, <2>7, <4>2
      <4>3. CASE b \in InitializedUsb
        BY <2>4, <3>6, <4>3 DEF BoardInv, InitializedIsOpen
      <4>. QED
        BY <3>2, <4>1, <4>2, <4>3
    <3>. QED
      BY <1>1, <1>4, <3>5, <3>7 DEF BoardInv, SplitKnown
  <2>. QED
    BY <2>5, <2>6, <2>7
<1>. QED
  BY <1>2, <1>3, <1>8, <1>9, <1>10 DEF u

\* pb_close: the board's session is the one that ends.
LEMMA PbCloseBoards ==
    ASSUME BoardInv, TypeInv', PbClose
    PROVE  BoardInv'
<1>1. /\ cur_board \in Slot /\ board[cur_board].did_init
      /\ board \in [Slot -> BoardRecord]
      /\ board' = [board EXCEPT ![cur_board].did_init = FALSE]
      /\ num_pci_boards' = num_pci_boards /\ num_pci_boards = NumPci
  BY DEF PbClose, InTable, BoardInv, SplitKnown, TypeInv, TypeOK, BoardRecord
<1>2. /\ \A b \in Slot : b # cur_board => board'[b] = board[b]
      /\ ~board'[cur_board].did_init
  BY <1>1 DEF BoardRecord
<1>3. SplitKnown'
  BY <1>1 DEF SplitKnown
<1>4. usb.sessions \in Nat /\ usb \in UsbState /\ cur_board \in Nat /\ NumPci \in Nat
  BY BoardAssumption DEF BoardInv, TypeInv, TypeOK, UsbInv, IInv, UsbState
<1>5. CASE cur_board < NumPci
  <2>1. InitializedUsb' = InitializedUsb
    BY <1>2, <1>4, <1>5 DEF InitializedUsb, Slot
  <2>2. usb' = usb
    BY <1>1, <1>5 DEF PbClose
  <2>. QED
    BY <1>3, <2>1, <2>2 DEF BoardInv, SessionPerBoard, InitializedIsOpen, DevOf
<1>6. CASE cur_board >= NumPci
  <2>1. cur_board \in InitializedUsb
    BY <1>1, <1>6 DEF InitializedUsb
  <2>2. InitializedUsb' = InitializedUsb \ {cur_board}
    BY <1>2 DEF InitializedUsb
  <2>3. /\ Cardinality(InitializedUsb') = Cardinality(InitializedUsb) - 1
        /\ Cardinality(InitializedUsb) \in Nat /\ IsFiniteSet(InitializedUsb')
    BY <2>1, <2>2, InitializedFinite, FS_RemoveElement, FS_Subset
  <2>4. usb' = CloseState(usb)
    BY <1>1, <1>4, <1>6 DEF PbClose
  <2>5. usb.sessions > 0
    BY <1>4, <2>1, <2>3, InitializedFinite, FS_EmptySet DEF BoardInv, SessionPerBoard
  <2>6. usb'.sessions = usb.sessions - 1 /\ (usb.sessions > 1 => usb'.handles = usb.handles)
    BY <1>4, <2>4, <2>5, CloseEffect
  <2>7. SessionPerBoard'
    BY <1>4, <2>3, <2>6 DEF BoardInv, SessionPerBoard
  <2>8. InitializedUsb' # {} => usb.sessions > 1
    BY <1>4, <2>3, <2>7, <2>6, FS_EmptySet, FS_CardinalityType DEF SessionPerBoard
  <2>9. InitializedIsOpen'
    BY <2>2, <2>6, <2>8 DEF BoardInv, InitializedIsOpen, DevOf
  <2>. QED
    BY <1>3, <2>7, <2>9 DEF BoardInv
<1>. QED
  BY <1>4, <1>5, <1>6

\* No API call breaks the registry's invariant.
LEMMA NextBoards ==
    ASSUME BoardInv, [Next]_vars, ~PciMayFail
    PROVE  BoardInv'
<1>1. TypeInv'
  BY NextTypes DEF BoardInv
<1>2. usb.sessions \in Nat
  BY DEF BoardInv, TypeInv, UsbInv, IInv, UsbState
<1>3. ASSUME NEW c \in Counting
      PROVE  /\ PciCount(c) = NumPci
             /\ CountState(usb, c.list).sessions = usb.sessions
             /\ CountState(usb, c.list).handles = usb.handles
  BY CountPreserves, BoardAssumption
     DEF Counting, PciAnswer, PciCount, Count, BoardInv, TypeInv, UsbInv
<1>4. CASE PbCountBoards
  <2>1. usb'.sessions = usb.sessions /\ usb'.handles = usb.handles
        /\ num_pci_boards' = NumPci /\ InitializedUsb' = InitializedUsb
    BY <1>3, <1>4 DEF PbCountBoards, CountBoards, InitializedUsb
  <2>. QED
    BY <1>1, <1>2, <2>1, QuietStep
<1>5. ASSUME NEW n \in 0 .. MAX_NUM_BOARDS, PbSelectBoard(n) PROVE BoardInv'
  <2>1. /\ usb'.sessions = usb.sessions /\ usb'.handles = usb.handles
        /\ num_pci_boards' = NumPci \/ UNCHANGED <<num_pci_boards, board>>
        /\ InitializedUsb' = InitializedUsb
    BY <1>3, <1>5 DEF PbSelectBoard, CountBoards, InitializedUsb
  <2>. QED
    BY <1>1, <1>2, <2>1, QuietStep
<1>6. CASE PbInit
  BY <1>6, PbInitBoards
<1>7. CASE PbClose
  BY <1>1, <1>7, PbCloseBoards
<1>8. CASE PbCoreClock
  <2>. DEFINE r == [board[cur_board] EXCEPT !.clock = TRUE]
  <2>1. /\ cur_board \in Slot /\ board \in [Slot -> BoardRecord]
        /\ board' = [board EXCEPT ![cur_board] = r]
    BY <1>8 DEF PbCoreClock, InTable, BoardInv, TypeInv, TypeOK, BoardRecord
  <2>2. r.did_init = board[cur_board].did_init
    BY <2>1 DEF BoardRecord
  <2>. HIDE DEF r
  <2>3. \A b \in Slot : board'[b].did_init = board[b].did_init
    BY <2>1, <2>2
  <2>4. InitializedUsb' = InitializedUsb
    BY <2>3 DEF InitializedUsb
  <2>5. usb' = usb /\ num_pci_boards' = num_pci_boards
    BY <1>8 DEF PbCoreClock, usbVars
  <2>6. SplitKnown'
    BY <2>3, <2>5 DEF BoardInv, SplitKnown
  <2>. QED
    BY <1>1, <2>4, <2>5, <2>6 DEF BoardInv, SessionPerBoard, InitializedIsOpen, DevOf
<1>9. CASE PlugOrUnplug \/ UNCHANGED vars
  <2>1. usb' = usb /\ num_pci_boards' = num_pci_boards /\ board' = board
    BY <1>9 DEF PlugOrUnplug, HotPlug, registryVars, vars, usbVars
  <2>2. InitializedUsb' = InitializedUsb
    BY <2>1 DEF InitializedUsb
  <2>. QED
    BY <1>1, <1>2, <2>1, <2>2, QuietStep
<1>. QED
  BY <1>4, <1>5, <1>6, <1>7, <1>8, <1>9 DEF Next

LEMMA InitBoards == Init => BoardInv
<1>. SUFFICES ASSUME Init PROVE BoardInv
  OBVIOUS
<1>1. \A b \in Slot : ~board[b].did_init
  BY DEF Init, Blank
<1>2. InitializedUsb = {} /\ Cardinality(InitializedUsb) = 0
  BY <1>1, FS_EmptySet DEF InitializedUsb
<1>3. usb.sessions = 0
  BY DEF Init, UsbInit, NoSession
<1>4. SplitKnown /\ InitializedIsOpen /\ SessionPerBoard
  BY <1>1, <1>2, <1>3 DEF Init, SplitKnown, InitializedIsOpen, SessionPerBoard
<1>. QED
  BY <1>4, InitTypes DEF BoardInv

\* While the PCI cards can be counted, whatever is selected, initialised,
\* closed, refused by libusb or unplugged, an initialised USB board keeps a
\* claimed handle and a session.
THEOREM BoardsStayOpen ==
    ASSUME ~PciMayFail
    PROVE  Spec => [](InitializedIsOpen /\ SessionPerBoard)
<1>1. BoardInv /\ [Next]_vars => BoardInv'
  BY NextBoards
<1>2. BoardInv => InitializedIsOpen /\ SessionPerBoard
  BY DEF BoardInv
<1>. QED
  BY <1>1, <1>2, InitBoards, PTL DEF Spec

\* The part of it that is checked for itself: the close of one board never
\* releases the others, as every initialised board has a session.
THEOREM SessionsPerBoard ==
    ASSUME ~PciMayFail
    PROVE  Spec => []SessionPerBoard
<1>1. InitializedIsOpen /\ SessionPerBoard => SessionPerBoard
  OBVIOUS
<1>. QED
  BY <1>1, BoardsStayOpen, PTL

-----------------------------------------------------------------------------
(* Which device an initialised board's capabilities were read from, and    *)
(* which cards the I/O functions accept.                                   *)

\* Both counts are stored by the same call, and the USB layer has been told of
\* the selected board, in the numbers that a count of all PCI cards gives.
SelectionTold ==
    /\ num_pci_boards = -1 <=> num_usb_devices = -1
    /\ cur_board >= NumPci => cur_dev = cur_board - NumPci

\* The cards were counted, before one of them was initialised.
CardsCounted ==
    /\ num_cards \in {-1, NumPci}
    /\ (\E b \in Slot : b < NumPci /\ board[b].did_init) => num_cards = NumPci

CapsInv == BoardInv /\ SelectionTold /\ CapsOfOwnDevice /\ CardsCounted

\* An initialised USB board has an open session.
LEMMA InitializedHasSession ==
    ASSUME BoardInv, InitializedUsb # {}
    PROVE  usb.sessions > 0
<1>1. usb.sessions \in Nat
  BY DEF BoardInv, TypeInv, UsbInv, IInv, UsbState
<1>. QED
  BY <1>1, InitializedFinite, FS_EmptySet DEF BoardInv, SessionPerBoard

\* os_usb_init moves no device while a session is open before and after it,
\* and a product id is that of the device it has opened.
LEMMA InitDevices ==
    ASSUME bus \in SUBSET Device, NEW u, IInv(u), NEW dev \in Nat, NEW a \in Answers,
           NEW v, v = InitState(u, dev, a)
    PROVE  /\ u.sessions > 0 => v.devices = u.devices
           /\ InitResult(u, dev, a) \notin {0, -1} =>
                 InitResult(u, dev, a) = Pid[v.devices[dev + 1]]
<1>. DEFINE c == CountState(u, a.list)
            s == Begun(c)
<1>1. /\ u.sessions \in Nat /\ IInv(c) /\ c.sessions = u.sessions /\ c.handles = u.handles
      /\ Started(u, a.list) = s
  BY CountPreserves DEF Answers, IInv, UsbState, Started
<1>2. u.sessions > 0 => c = u
  BY OpenSessionEnumerated
<1>. HIDE DEF c
<1>3. s \in UsbState /\ s.sessions = u.sessions + 1 /\ s.devices = c.devices
  BY <1>1, StartPreserves
<1>4. \A how : Opened(s, dev, how).devices = c.devices
               /\ Opened(s, dev, how).sessions = u.sessions + 1
  BY <1>3 DEF Opened, UsbState
<1>. DEFINE o == Opened(s, dev, "open")
<1>5. \/ v = u
      \/ v = CloseState(s)
      \/ /\ v = Opened(s, dev, "claimed")
      \/ /\ ~Refused(u, dev, a) /\ ~AlreadyOpen(u, dev, a) /\ Found(u, dev, a)
         /\ v = CloseState(o)
  BY <1>1 DEF InitState
<1>6. InitResult(u, dev, a) \notin {0, -1} =>
        /\ InitResult(u, dev, a) = Pid[c.devices[dev + 1]]
        /\ v = Opened(s, dev, "claimed")
  BY <1>1 DEF InitState, InitResult, AlreadyOpen, c
<1>7. ASSUME NEW w \in UsbState, w.sessions = u.sessions + 1, u.sessions > 0
      PROVE  CloseState(w).devices = w.devices
  <2>1. CloseState(w) = Ended(w)
    BY <1>1, <1>7 DEF CloseState
  <2>. QED
    BY <2>1 DEF Ended, UsbState
<1>8. ASSUME ~Refused(u, dev, a), ~AlreadyOpen(u, dev, a), Found(u, dev, a)
      PROVE  o \in UsbState
  <2>1. dev \in Index /\ u.handles[dev] = "null"
    BY <1>8, UsbAssumption DEF Refused, AlreadyOpen, Index
  <2>2. c.devices \in Seq(Device)
    BY <1>1 DEF IInv, UsbState
  <2>3. dev < Len(c.devices)
    BY <1>8, <2>2 DEF Found, CountResult, c
  <2>. QED
    BY <1>1, <2>1, <2>3, OpenPreserves DEF IInv
<1>. HIDE DEF s, o
<1>9. o.devices = c.devices /\ o.sessions = u.sessions + 1
  BY <1>4 DEF o
<1>10. u.sessions > 0 => v.devices = u.devices
  BY <1>2, <1>3, <1>4, <1>5, <1>7, <1>8, <1>9
<1>. QED
  BY <1>4, <1>6, <1>10

\* A call that changes no record of an initialised USB board, and moves no
\* device under an open session.
LEMMA CapsKept ==
    ASSUME CapsInv, BoardInv',
           usb.sessions > 0 /\ usb'.sessions > 0 => usb'.devices = usb.devices,
           \A b \in InitializedUsb' : b \in InitializedUsb /\ board'[b].caps = board[b].caps
    PROVE  CapsOfOwnDevice'
<1>1. InitializedUsb' # {} => usb'.sessions > 0
  <2>1. usb'.sessions \in Nat /\ Cardinality(InitializedUsb') <= usb'.sessions
    BY DEF BoardInv, TypeInv, UsbInv, IInv, UsbState, SessionPerBoard
  <2>2. InitializedUsb' \subseteq InitializedUsb
    OBVIOUS
  <2>3. IsFiniteSet(InitializedUsb') /\ Cardinality(InitializedUsb') \in Nat
    BY <2>2, InitializedFinite, FS_Subset, FS_CardinalityType
  <2>. QED
    BY <2>1, <2>3, FS_EmptySet
<1>2. InitializedUsb # {} => usb.sessions > 0
  BY InitializedHasSession DEF CapsInv
<1>3. ASSUME NEW b \in InitializedUsb', board'[b].caps.kind = "usb"
      PROVE  board'[b].caps = UsbCaps(Pid[usb'.devices[DevOf(b) + 1]], usb'.devices[DevOf(b) + 1])
  <2>1. usb'.devices = usb.devices
    BY <1>1, <1>2, <1>3
  <2>. QED
    BY <1>3, <2>1 DEF CapsInv, CapsOfOwnDevice
<1>. QED
  BY <1>3 DEF CapsOfOwnDevice, DevOf

\* pb_init: the record of the board comes from the device it has opened, which
\* is the one registers are accessed on.
LEMMA PbInitCaps ==
    ASSUME CapsInv, PbInit, ~PciMayFail
    PROVE  CapsInv'
<1>1. BoardInv'
  BY PbInitBoards DEF CapsInv
<1>2. PICK c \in Counting :
        /\ CountBoards(c)
        /\ \/ usb' = CountState(usb, c.list) /\ UNCHANGED <<num_cards, board>>
           \/ /\ cur_board < PciCount(c)
              /\ usb' = CountState(usb, c.list)
              /\ \E o \in PciOpening : InitPci(o)
           \/ /\ cur_board >= PciCount(c)
              /\ \E o \in UsbOpening :
                    InitUsb(CountState(usb, c.list), cur_board - PciCount(c), o)
  BY DEF PbInit
<1>3. PciCount(c) = NumPci /\ NumPci \in Nat /\ UsbCount(c) \in Nat
  BY CountingFacts, BoardAssumption DEF Counting, PciAnswer, PciCount, Count, CapsInv, BoardInv
<1>4. /\ cur_board \in Slot /\ cur_board \in Nat /\ ~board[cur_board].did_init
      /\ board \in [Slot -> BoardRecord] /\ bus \in SUBSET Device
      /\ cur_board' = cur_board /\ cur_dev' = cur_dev
  BY BoardAssumption
     DEF PbInit, InTable, Slot, CapsInv, BoardInv, TypeInv, TypeOK, UsbInv, BoardRecord
<1>5. SelectionTold'
  BY <1>2, <1>3, <1>4 DEF SelectionTold, CountBoards, CapsInv
<1>. DEFINE u == CountState(usb, c.list)
<1>6. IInv(u) /\ u.sessions = usb.sessions /\ (usb.sessions > 0 => u = usb)
  BY CountPreserves, OpenSessionEnumerated DEF Counting, CapsInv, BoardInv, TypeInv, UsbInv
<1>. HIDE DEF u
<1>7. CASE usb' = u /\ UNCHANGED <<num_cards, board>>
  <2>1. InitializedUsb' = InitializedUsb
    BY <1>7 DEF InitializedUsb
  <2>2. CapsOfOwnDevice'
    BY <1>1, <1>6, <1>7, <2>1, CapsKept
  <2>. QED
    BY <1>1, <1>5, <1>7, <2>2 DEF CapsInv, CardsCounted
<1>8. ASSUME cur_board < NumPci, usb' = u, NEW o \in PciOpening, InitPci(o)
      PROVE  CapsInv'
  <2>1. \A b \in Slot : b # cur_board => board'[b] = board[b]
    BY <1>4, <1>8 DEF InitPci
  <2>2. \A b \in InitializedUsb' : b \in InitializedUsb /\ board'[b].caps = board[b].caps
    BY <1>3, <1>4, <1>8, <2>1 DEF InitializedUsb, Slot
  <2>3. CapsOfOwnDevice'
    BY <1>1, <1>6, <1>8, <2>2, CapsKept
  <2>4. num_cards' = NumPci
    BY <1>8 DEF InitPci, PciOpening, PciAnswer
  <2>5. CardsCounted'
    BY <2>4 DEF CardsCounted
  <2>. QED
    BY <1>1, <1>5, <2>3, <2>5 DEF CapsInv
<1>9. ASSUME cur_board >= NumPci, NEW o \in UsbOpening, InitUsb(u, cur_board - NumPci, o)
      PROVE  CapsInv'
  <2>. DEFINE id == InitResult(u, cur_dev, o.usb)
              got == UsbCapsFound(usb', id, o)
  <2>1. cur_dev = cur_board - NumPci /\ cur_dev = DevOf(cur_board) /\ cur_dev \in Nat
    BY <1>3, <1>4, <1>9 DEF CapsInv, SelectionTold, DevOf
  <2>2. /\ usb' = InitState(u, cur_dev, o.usb) /\ num_cards' = num_cards
        /\ board' = IF id = -1 THEN board ELSE [board EXCEPT ![cur_board] = Described(got)]
    BY <1>9, <2>1 DEF InitUsb
  <2>3. /\ usb.sessions > 0 => usb'.devices = usb.devices
        /\ id \notin {0, -1} => id = Pid[usb'.devices[cur_dev + 1]]
    <3>1. o.usb \in Answers
      BY DEF UsbOpening
    <3>2. /\ u.sessions > 0 => usb'.devices = u.devices
          /\ id \notin {0, -1} => id = Pid[usb'.devices[cur_dev + 1]]
      BY <1>4, <1>6, <2>1, <2>2, <3>1, InitDevices
    <3>. QED
      BY <1>6, <3>2
  <2>. HIDE DEF id
  <2>4. \A b \in Slot : b # cur_board => board'[b] = board[b]
    BY <1>4, <2>2
  <2>5. CardsCounted'
    BY <1>3, <1>4, <1>9, <2>2, <2>4 DEF CapsInv, CardsCounted, Slot
  <2>6. ASSUME id = 0 PROVE got.ok = FALSE
    <3>1. id \notin KnownPids /\ id # PidRadioProcessor
      BY <2>6 DEF KnownPids, PidRadioProcessor
    <3>. QED
      BY <3>1 DEF UsbCapsFound
  <2>7. got.caps \in {NoCaps, UsbCaps(id, usb'.devices[cur_dev + 1])}
    BY DEF UsbCapsFound
  <2>. HIDE DEF got
  <2>8. CASE id \in {0, -1}
    <3>1. ~board'[cur_board].did_init
      BY <1>4, <2>2, <2>6, <2>8 DEF Described
    <3>2. \A b \in InitializedUsb' : b \in InitializedUsb /\ board'[b].caps = board[b].caps
      BY <2>4, <3>1 DEF InitializedUsb
    <3>3. CapsOfOwnDevice'
      BY <1>1, <2>3, <3>2, CapsKept
    <3>. QED
      BY <1>1, <1>5, <2>5, <3>3 DEF CapsInv
  <2>9. CASE id \notin {0, -1}
    <3>1. board'[cur_board].caps \in {NoCaps, UsbCaps(id, usb'.devices[cur_dev + 1])}
      BY <1>4, <2>2, <2>7, <2>9 DEF Described
    <3>2. SUFFICES ASSUME NEW b \in InitializedUsb', board'[b].caps.kind = "usb"
                   PROVE  board'[b].caps = UsbCaps(Pid[usb'.devices[DevOf(b) + 1]],
                                                   usb'.devices[DevOf(b) + 1])
      BY <1>1, <1>5, <2>5 DEF CapsInv, CapsOfOwnDevice, DevOf
    <3>3. CASE b = cur_board
      <4>1. NoCaps.kind # "usb"
        BY DEF NoCaps
      <4>2. board'[b].caps = UsbCaps(id, usb'.devices[cur_dev + 1])
        BY <3>1, <3>2, <3>3, <4>1
      <4>. QED
        BY <2>1, <2>3, <2>9, <3>3, <4>2
    <3>4. CASE b # cur_board
      <4>1. b \in InitializedUsb /\ board'[b].caps = board[b].caps
        BY <2>4, <3>4 DEF InitializedUsb
      <4>2. usb.sessions > 0
        BY <4>1, InitializedHasSession DEF CapsInv
      <4>3. usb'.devices = usb.devices
        BY <2>3, <4>2
      <4>4. board[b].caps = UsbCaps(Pid[usb.devices[DevOf(b) + 1]], usb.devices[DevOf(b) + 1])
        BY <3>2, <4>1 DEF CapsInv, CapsOfOwnDevice
      <4>. QED
        BY <4>1, <4>3, <4>4
    <3>. QED
      BY <3>3, <3>4
  <2>. QED
    BY <2>8, <2>9
<1>. QED
  BY <1>2, <1>3, <1>7, <1>8, <1>9 DEF u

\* pb_close: the close of one board moves no device of another.
LEMMA PbCloseCaps ==
    ASSUME CapsInv, BoardInv', PbClose
    PROVE  CapsInv'
<1>1. /\ cur_board \in Slot /\ board \in [Slot -> BoardRecord]
      /\ board' = [board EXCEPT ![cur_board].did_init = FALSE]
      /\ usb' \in {usb, CloseState(usb)} /\ usb \in UsbState
      /\ UNCHANGED <<num_pci_boards, num_usb_devices, cur_board, cur_dev, num_cards>>
  BY DEF PbClose, InTable, CapsInv, BoardInv, TypeInv, TypeOK, UsbInv, IInv, BoardRecord
<1>2. \A b \in Slot : /\ board'[b].caps = board[b].caps
                      /\ board'[b].did_init => board[b].did_init
  BY <1>1 DEF BoardRecord
<1>3. usb.sessions > 0 /\ usb'.sessions > 0 => usb'.devices = usb.devices
  BY <1>1, CloseKeepsTable
<1>4. CapsOfOwnDevice'
  BY <1>2, <1>3, CapsKept DEF InitializedUsb
<1>. QED
  BY <1>1, <1>2, <1>4 DEF CapsInv, SelectionTold, CardsCounted

\* pb_select_board tells the USB layer of every USB board.
LEMMA PbSelectCaps ==
    ASSUME CapsInv, BoardInv', ~PciMayFail, NEW n \in 0 .. MAX_NUM_BOARDS, PbSelectBoard(n)
    PROVE  CapsInv'
<1>1. /\ n \in Int /\ NumPci \in Nat /\ num_pci_boards \in {-1, NumPci}
      /\ num_usb_devices \in Nat \cup {-1}
  BY BoardAssumption DEF CapsInv, BoardInv, SplitKnown, TypeInv, TypeOK
<1>2. board' = board /\ num_cards' = num_cards
  BY DEF PbSelectBoard
<1>3. /\ SelectionTold'
      /\ usb.sessions > 0 /\ usb'.sessions > 0 => usb'.devices = usb.devices
  <2>1. CASE /\ num_pci_boards + num_usb_devices >= 0
             /\ n < num_pci_boards + num_usb_devices
             /\ Selected(n, num_pci_boards)
             /\ UNCHANGED <<usb, num_pci_boards, num_usb_devices>>
    <3>1. num_pci_boards = NumPci
      BY <1>1, <2>1 DEF CapsInv, SelectionTold
    <3>. QED
      BY <1>1, <2>1, <3>1 DEF Selected, CapsInv, SelectionTold
  <2>2. ASSUME NEW c \in Counting, CountBoards(c), usb' = CountState(usb, c.list),
               \/ Selected(n, PciCount(c))
               \/ UNCHANGED <<cur_board, cur_dev>>
        PROVE  /\ SelectionTold'
               /\ usb.sessions > 0 /\ usb'.sessions > 0 => usb'.devices = usb.devices
    <3>1. PciCount(c) = NumPci /\ UsbCount(c) \in Nat
      BY CountingFacts, BoardAssumption
         DEF Counting, PciAnswer, PciCount, Count, CapsInv, BoardInv
    <3>2. usb.sessions > 0 => usb' = usb
      BY <2>2, OpenSessionEnumerated DEF CapsInv, BoardInv, TypeInv, UsbInv
    <3>3. num_pci_boards' = NumPci /\ num_usb_devices' \in Nat
      BY <2>2, <3>1 DEF CountBoards
    <3>4. cur_board' >= NumPci => cur_dev' = cur_board' - NumPci
      BY <1>1, <2>2, <3>1 DEF Selected, CapsInv, SelectionTold
    <3>. QED
      BY <1>1, <3>2, <3>3, <3>4 DEF SelectionTold
  <2>. QED
    BY <2>1, <2>2 DEF PbSelectBoard
<1>4. CapsOfOwnDevice'
  BY <1>2, <1>3, CapsKept DEF InitializedUsb
<1>. QED
  BY <1>2, <1>3, <1>4 DEF CapsInv, CardsCounted

\* No API call breaks the invariant.
LEMMA NextCaps ==
    ASSUME CapsInv, [Next]_vars, ~PciMayFail
    PROVE  CapsInv'
<1>1. BoardInv'
  BY NextBoards DEF CapsInv
<1>2. CASE PbCountBoards
  <2>1. PICK c \in Counting :
          CountBoards(c) /\ usb' = CountState(usb, c.list)
    BY <1>2 DEF PbCountBoards
  <2>2. PciCount(c) = NumPci /\ NumPci \in Nat /\ UsbCount(c) \in Nat
    BY CountingFacts, BoardAssumption
       DEF Counting, PciAnswer, PciCount, Count, CapsInv, BoardInv
  <2>3. usb.sessions > 0 => usb' = usb
    BY <2>1, OpenSessionEnumerated DEF CapsInv, BoardInv, TypeInv, UsbInv
  <2>4. UNCHANGED <<cur_board, cur_dev, num_cards, board>>
    BY <1>2 DEF PbCountBoards
  <2>5. CapsOfOwnDevice'
    BY <1>1, <2>3, <2>4, CapsKept DEF InitializedUsb
  <2>6. SelectionTold'
    BY <2>1, <2>2, <2>4 DEF CountBoards, CapsInv, SelectionTold
  <2>. QED
    BY <1>1, <2>4, <2>5, <2>6 DEF CapsInv, CardsCounted
<1>3. ASSUME NEW n \in 0 .. MAX_NUM_BOARDS, PbSelectBoard(n) PROVE CapsInv'
  BY <1>1, <1>3, PbSelectCaps
<1>4. CASE PbInit
  BY <1>4, PbInitCaps
<1>5. CASE PbClose
  BY <1>1, <1>5, PbCloseCaps
<1>6. CASE PbCoreClock
  <2>. DEFINE r == [board[cur_board] EXCEPT !.clock = TRUE]
  <2>1. /\ cur_board \in Slot /\ board \in [Slot -> BoardRecord]
        /\ board' = [board EXCEPT ![cur_board] = r]
    BY <1>6 DEF PbCoreClock, InTable, CapsInv, BoardInv, TypeInv, TypeOK, BoardRecord
  <2>2. r.did_init = board[cur_board].did_init /\ r.caps = board[cur_board].caps
    BY <2>1 DEF BoardRecord
  <2>. HIDE DEF r
  <2>3. \A b \in Slot : /\ board'[b].did_init = board[b].did_init
                        /\ board'[b].caps = board[b].caps
    BY <2>1, <2>2
  <2>4. UNCHANGED <<usb, num_pci_boards, num_usb_devices, cur_board, cur_dev, num_cards>>
    BY <1>6 DEF PbCoreClock, usbVars
  <2>5. CapsOfOwnDevice'
    BY <1>1, <2>3, <2>4, CapsKept DEF InitializedUsb
  <2>. QED
    BY <1>1, <2>3, <2>4, <2>5 DEF CapsInv, SelectionTold, CardsCounted
<1>7. CASE PlugOrUnplug \/ UNCHANGED vars
  <2>1. UNCHANGED <<usb, registryVars>>
    BY <1>7 DEF PlugOrUnplug, HotPlug, vars, usbVars
  <2>2. UNCHANGED <<usb, num_pci_boards, num_usb_devices, cur_board, cur_dev, num_cards, board>>
    BY <2>1 DEF registryVars
  <2>3. CapsOfOwnDevice'
    BY <1>1, <2>2, CapsKept DEF InitializedUsb
  <2>. QED
    BY <1>1, <2>2, <2>3 DEF CapsInv, SelectionTold, CardsCounted
<1>. QED
  BY <1>2, <1>3, <1>4, <1>5, <1>6, <1>7 DEF Next

LEMMA InitCaps == Init => CapsInv
<1>. SUFFICES ASSUME Init PROVE CapsInv
  OBVIOUS
<1>1. \A b \in Slot : ~board[b].did_init
  BY DEF Init, Blank
<1>2. CapsOfOwnDevice /\ CardsCounted
  BY <1>1 DEF Init, InitializedUsb, CapsOfOwnDevice, CardsCounted
<1>3. SelectionTold
  BY BoardAssumption DEF Init, SelectionTold
<1>. QED
  BY <1>2, <1>3, InitBoards DEF CapsInv

\* While the PCI cards can be counted, what pb_init has recorded of a USB
\* board was read from the device that the board's number stands for, however
\* the boards were selected, counted and replugged before and since.
THEOREM CapsAreOwn ==
    ASSUME ~PciMayFail
    PROVE  Spec => []CapsOfOwnDevice
<1>1. CapsInv /\ [Next]_vars => CapsInv'
  BY NextCaps
<1>2. CapsInv => CapsOfOwnDevice
  BY DEF CapsInv
<1>. QED
  BY <1>1, <1>2, InitCaps, PTL DEF Spec

\* While the PCI cards can be counted, the I/O functions accept every
\* initialised card.
THEOREM CardsAccepted ==
    ASSUME ~PciMayFail
    PROVE  Spec => []CardsReachable
<1>1. CapsInv /\ [Next]_vars => CapsInv'
  BY NextCaps
<1>2. CapsInv => CardsReachable
  BY BoardAssumption DEF CapsInv, CardsCounted, CardsReachable, Slot
<1>. QED
  BY <1>1, <1>2, InitCaps, PTL DEF Spec

=============================================================================
