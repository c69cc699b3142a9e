-------------------------- MODULE UsbSession_proofs --------------------------
(***************************************************************************)
(* The driver's invariants for every set of devices and every table size.  *)
(* The inductive invariant adds two facts to the properties that are       *)
(* checked: nothing is in the table before an enumeration, and no device   *)
(* is in it twice (else a reference would be counted once and released     *)
(* twice).                                                                 *)
(***************************************************************************)
EXTENDS UsbSession, FiniteSetTheorems, SequenceTheorems, TLAPS

\* The parts of the inductive invariant, for a driver state u.
Enumerated(u) == \A i \in OpenHandles(u) : u.enumerated /\ i < Len(u.devices)
Released(u) == u.sessions = 0 => OpenHandles(u) = {}
Backed(u) == u.sessions <= Cardinality(OpenHandles(u))
Balanced(u) == \A d \in Device : u.refs[d] = Held(u, d)
Table(u) == IsInjective(u.devices) /\ (~u.enumerated => u.devices = << >>)

IInv(u) ==
    u \in UsbState /\ Enumerated(u) /\ Released(u) /\ Backed(u) /\ Balanced(u) /\ Table(u)

-----------------------------------------------------------------------------
\* A listing is a sequence of distinct devices.
LEMMA ListingIsSeq ==
    ASSUME NEW b \in SUBSET Device, NEW list \in Listings(b)
    PROVE  list \in Seq(Device) /\ IsInjective(list)
<1>1. IsFiniteSet(b)
  BY UsbAssumption, FS_Subset
<1>2. NumListed(b) \in Nat
  BY <1>1, FS_CardinalityType, UsbAssumption DEF NumListed
<1>3. list \in [1 .. NumListed(b) -> Device] /\ IsInjective(list)
  BY DEF Listings
<1>4. list \in Seq(Device)
  BY <1>2, <1>3, IsASeq
<1>. QED
  BY <1>3, <1>4

\* The open handles are finitely many.
LEMMA OpenFinite ==
    ASSUME NEW u
    PROVE  IsFiniteSet(OpenHandles(u)) /\ Cardinality(OpenHandles(u)) \in Nat
<1>1. IsFiniteSet(Index)
  BY FS_Interval, UsbAssumption DEF Index
<1>. QED
  BY <1>1, FS_Subset, FS_CardinalityType DEF OpenHandles

-----------------------------------------------------------------------------
\* os_usb_count_devices keeps the invariant, and touches no handle or session.
LEMMA CountPreserves ==
    ASSUME NEW u, IInv(u), NEW b \in SUBSET Device, NEW list \in Listings(b) \cup {Failed}
    PROVE  /\ IInv(CountState(u, list))
           /\ CountState(u, list).sessions = u.sessions
           /\ CountState(u, list).handles = u.handles
<1>. DEFINE v == CountState(u, list)
<1>1. CASE u.enumerated \/ list = Failed
  BY <1>1 DEF CountState
<1>2. CASE ~u.enumerated /\ list # Failed
  <2>1. list \in Seq(Device) /\ IsInjective(list)
    BY <1>2, ListingIsSeq
  <2>2. /\ v = [u EXCEPT !.enumerated = TRUE, !.devices = list,
                         !.refs = [d \in Device |-> u.refs[d] + Bit(d \in Range(list))]]
        /\ u \in UsbState
    BY <1>2 DEF CountState, IInv
  <2>3. u.refs \in [Device -> Int]
    BY <2>2 DEF UsbState
  <2>4. [d \in Device |-> u.refs[d] + Bit(d \in Range(list))] \in [Device -> Int]
    <3>1. \A d \in Device : Bit(d \in Range(list)) \in Int
      BY DEF Bit
    <3>. QED
      BY <2>3, <3>1
  <2>5. v \in UsbState
    BY <2>1, <2>2, <2>4 DEF UsbState
  <2>6. /\ v.sessions = u.sessions /\ v.handles = u.handles /\ v.devices = list
        /\ v.enumerated = TRUE
        /\ v.refs = [d \in Device |-> u.refs[d] + Bit(d \in Range(list))]
    BY <2>2 DEF UsbState
  <2>7. OpenHandles(u) = {} /\ OpenHandles(v) = {}
    BY <1>2, <2>6 DEF IInv, Enumerated, OpenHandles
  <2>8. u.devices = << >>
    BY <1>2 DEF IInv, Table
  <2>9. ASSUME NEW d \in Device PROVE v.refs[d] = Held(v, d)
    <3>1. d \notin Range(u.devices)
      BY <2>8 DEF Range
    <3>2. u.refs[d] = 0
      BY <2>7, <3>1 DEF IInv, Balanced, Held, Bit
    <3>3. Held(v, d) = Bit(d \in Range(list))
      BY <2>6, <2>7 DEF Held, Bit
    <3>. QED
      BY <2>6, <3>2, <3>3 DEF Bit
  <2>10. Enumerated(v) /\ Released(v) /\ Backed(v)
    BY <2>6, <2>7 DEF Enumerated, Released, Backed, IInv
  <2>. QED
    BY <2>1, <2>5, <2>6, <2>9, <2>10 DEF IInv, Balanced, Table
<1>. QED
  BY <1>1, <1>2

\* Releasing everything leaves no handle, no device and no reference.
LEMMA ReleaseClears ==
    ASSUME NEW u, u \in UsbState, Enumerated(u), Balanced(u), u.sessions = 0
    PROVE  IInv(ReleaseAll(u))
<1>. DEFINE v == ReleaseAll(u)
            h == [i \in Index |-> IF i < Len(u.devices) THEN "null" ELSE u.handles[i]]
            r == [d \in Device |-> u.refs[d] - Held(u, d)]
<1>1. \A d \in Device : Held(u, d) \in Int
  BY DEF Held, Bit
<1>2. h \in [Index -> {"null", "open", "claimed"}] /\ r \in [Device -> Int]
  BY <1>1 DEF UsbState
<1>3. v = [sessions |-> 0, enumerated |-> FALSE, devices |-> << >>, handles |-> h, refs |-> r]
  BY DEF ReleaseAll
<1>4. << >> \in Seq(Device)
  OBVIOUS
<1>5. \A i \in Index : h[i] = "null"
  BY DEF Enumerated, OpenHandles
<1>6. \A d \in Device : r[d] = 0
  BY <1>1 DEF Balanced, UsbState
<1>. HIDE DEF v, h, r
<1>7. v \in UsbState
  BY <1>2, <1>3, <1>4 DEF UsbState
<1>8. OpenHandles(v) = {} /\ Cardinality(OpenHandles(v)) = 0
  BY <1>3, <1>5, FS_EmptySet DEF OpenHandles
<1>9. ASSUME NEW d \in Device PROVE v.refs[d] = Held(v, d)
  <2>1. d \notin Range(v.devices)
    BY <1>3 DEF Range
  <2>2. Held(v, d) = 0
    BY <1>8, <2>1 DEF Held, Bit
  <2>3. v.refs = r
    BY <1>3
  <2>. QED
    BY <1>6, <2>2, <2>3
<1>10. v.sessions = 0 /\ v.devices = << >>
  BY <1>3
<1>11. Released(v) /\ Backed(v) /\ Enumerated(v)
  BY <1>8, <1>10 DEF Released, Backed, Enumerated
<1>12. Table(v)
  <2>1. IsInjective(<< >>)
    BY DEF IsInjective
  <2>. QED
    BY <1>10, <2>1 DEF Table
<1>. QED
  BY <1>7, <1>9, <1>11, <1>12 DEF IInv, Balanced, v

\* Ending a session changes nothing else.
LEMMA EndedFields ==
    ASSUME NEW u \in UsbState, u.sessions > 0
    PROVE  /\ Ended(u) \in UsbState
           /\ Ended(u).sessions = u.sessions - 1
           /\ Ended(u).enumerated = u.enumerated
           /\ Ended(u).devices = u.devices
           /\ Ended(u).refs = u.refs
           /\ OpenHandles(Ended(u)) = OpenHandles(u)
           /\ Balanced(u) => Balanced(Ended(u))
<1>1. Ended(u) = [sessions |-> u.sessions - 1, enumerated |-> u.enumerated,
                  devices |-> u.devices, handles |-> u.handles, refs |-> u.refs]
  BY DEF Ended, UsbState
<1>2. /\ Ended(u) \in UsbState
      /\ Ended(u).sessions = u.sessions - 1 /\ Ended(u).enumerated = u.enumerated
      /\ Ended(u).devices = u.devices /\ Ended(u).refs = u.refs
      /\ Ended(u).handles = u.handles
  BY <1>1 DEF UsbState
<1>3. OpenHandles(Ended(u)) = OpenHandles(u)
  BY <1>2 DEF OpenHandles
<1>4. \A d \in Device : Held(Ended(u), d) = Held(u, d)
  BY <1>2, <1>3 DEF Held
<1>. QED
  BY <1>2, <1>3, <1>4 DEF Balanced

\* os_usb_close keeps the invariant, also of a state in which a session was
\* started and has no handle yet.
LEMMA ClosePreserves ==
    ASSUME NEW u \in UsbState, Enumerated(u), Balanced(u), Table(u),
           u.sessions <= Cardinality(OpenHandles(u)) + 1,
           Released(u)
    PROVE  IInv(CloseState(u))
<1>1. u.sessions \in Nat /\ Cardinality(OpenHandles(u)) \in Nat
  BY OpenFinite DEF UsbState
<1>2. CASE u.sessions = 0
  <2>1. CloseState(u) = u
    BY <1>2 DEF CloseState
  <2>. QED
    BY <1>1, <1>2, <2>1 DEF IInv, Released, Backed
<1>3. CASE u.sessions = 1
  <2>1. CloseState(u) = ReleaseAll(Ended(u))
    BY <1>3 DEF CloseState
  <2>2. Enumerated(Ended(u))
    BY <1>3, EndedFields DEF Enumerated
  <2>. QED
    BY <1>3, <2>1, <2>2, EndedFields, ReleaseClears
<1>4. CASE u.sessions > 1
  <2>1. CloseState(u) = Ended(u)
    BY <1>4 DEF CloseState
  <2>2. Enumerated(Ended(u)) /\ Released(Ended(u)) /\ Backed(Ended(u)) /\ Table(Ended(u))
    BY <1>1, <1>4, EndedFields DEF Enumerated, Released, Backed, Table
  <2>3. Ended(u) \in UsbState /\ (Balanced(u) => Balanced(Ended(u)))
    <3>1. u.sessions > 0
      BY <1>1, <1>4
    <3>. QED
      BY <3>1, EndedFields
  <2>. QED
    BY <2>1, <2>2, <2>3 DEF IInv
<1>. QED
  BY <1>1, <1>2, <1>3, <1>4

-----------------------------------------------------------------------------
\* A session started by os_usb_init, which has no handle yet.
LEMMA StartPreserves ==
    ASSUME NEW c, IInv(c), NEW s, s = Begun(c)
    PROVE  /\ s \in UsbState /\ s.sessions = c.sessions + 1 /\ s.sessions > 0
           /\ s.enumerated = c.enumerated /\ s.devices = c.devices
           /\ s.handles = c.handles /\ s.refs = c.refs
           /\ Enumerated(s) /\ Balanced(s) /\ Table(s) /\ Released(s)
           /\ s.sessions <= Cardinality(OpenHandles(s)) + 1
<1>1. s = [sessions |-> c.sessions + 1, enumerated |-> c.enumerated,
           devices |-> c.devices, handles |-> c.handles, refs |-> c.refs]
  BY DEF IInv, UsbState, Begun
<1>2. c \in UsbState /\ c.sessions \in Nat
  BY DEF IInv, UsbState
<1>3. /\ s \in UsbState /\ s.sessions = c.sessions + 1
      /\ s.enumerated = c.enumerated /\ s.devices = c.devices
      /\ s.handles = c.handles /\ s.refs = c.refs
  BY <1>1, <1>2 DEF UsbState
<1>4. s.sessions > 0
  BY <1>2, <1>3
<1>5. OpenHandles(s) = OpenHandles(c)
  BY <1>3 DEF OpenHandles
<1>6. \A d \in Device : Held(s, d) = Held(c, d)
  BY <1>3, <1>5 DEF Held
<1>7. s.sessions <= Cardinality(OpenHandles(s)) + 1
  BY <1>2, <1>3, <1>5, OpenFinite DEF IInv, Backed
<1>8. Enumerated(s) /\ Table(s) /\ Released(s)
  BY <1>3, <1>4, <1>5 DEF IInv, Enumerated, Table, Released
<1>9. Balanced(s)
  BY <1>3, <1>6 DEF IInv, Balanced
<1>. QED
  BY <1>3, <1>4, <1>7, <1>8, <1>9

\* Opening the handle of a started session, claimed or not.
LEMMA OpenPreserves ==
    ASSUME NEW c, IInv(c), NEW s, s = Begun(c),
           NEW dev \in Index, c.handles[dev] = "null", dev < Len(c.devices),
           NEW how \in {"open", "claimed"},
           NEW o, o = Opened(s, dev, how)
    PROVE  IInv(o)
<1>1. /\ s \in UsbState /\ s.sessions = c.sessions + 1 /\ s.sessions > 0
      /\ s.enumerated = c.enumerated /\ s.devices = c.devices
      /\ s.handles = c.handles /\ s.refs = c.refs
  BY StartPreserves
<1>2. /\ c \in UsbState /\ c.sessions \in Nat /\ c.devices \in Seq(Device)
      /\ c.handles \in [Index -> {"null", "open", "claimed"}]
      /\ c.refs \in [Device -> Int] /\ c.enumerated \in BOOLEAN
  BY DEF IInv, UsbState
<1>3. dev \in Nat /\ dev + 1 \in DOMAIN c.devices
  BY <1>2, UsbAssumption DEF Index
<1>. DEFINE x == c.devices[dev + 1]
            h == [c.handles EXCEPT ![dev] = how]
            r == [c.refs EXCEPT ![x] = @ + 1]
<1>4. x \in Device /\ x \in Range(c.devices)
  BY <1>2, <1>3 DEF Range
<1>5. h \in [Index -> {"null", "open", "claimed"}] /\ r \in [Device -> Int]
  BY <1>2, <1>4
<1>6. o = [sessions |-> c.sessions + 1, enumerated |-> c.enumerated,
           devices |-> c.devices, handles |-> h, refs |-> r]
  BY <1>1 DEF UsbState, Opened
<1>7. (\A i \in Index : h[i] = IF i = dev THEN how ELSE c.handles[i])
      /\ (\A d \in Device : r[d] = IF d = x THEN c.refs[d] + 1 ELSE c.refs[d])
  BY <1>2, <1>4
<1>. HIDE DEF h, r
<1>8. o \in UsbState
  BY <1>2, <1>5, <1>6 DEF UsbState
<1>9. /\ o.sessions = c.sessions + 1 /\ o.enumerated = c.enumerated
      /\ o.devices = c.devices /\ o.handles = h /\ o.refs = r
  BY <1>6
<1>10. OpenHandles(o) = OpenHandles(c) \cup {dev} /\ dev \notin OpenHandles(c)
  BY <1>7, <1>9 DEF OpenHandles
<1>11. c.enumerated
  BY <1>2, <1>3 DEF IInv, Table
<1>12. Enumerated(o)
  BY <1>9, <1>10, <1>11 DEF IInv, Enumerated
<1>13. Cardinality(OpenHandles(o)) = Cardinality(OpenHandles(c)) + 1
  BY <1>10, OpenFinite, FS_AddElement
<1>14. Released(o) /\ Backed(o)
  BY <1>2, <1>9, <1>13, OpenFinite DEF IInv, Released, Backed
<1>15. Table(o)
  BY <1>9 DEF IInv, Table
<1>16. ASSUME NEW d \in Device PROVE o.refs[d] = Held(o, d)
  <2>1. c.refs[d] = Held(c, d) /\ c.refs[d] \in Int
    BY <1>2 DEF IInv, Balanced
  <2>2. CASE d = x
    <3>1. ~ \E i \in OpenHandles(c) : i < Len(c.devices) /\ c.devices[i + 1] = d
      <4>1. SUFFICES ASSUME NEW i \in OpenHandles(c), i < Len(c.devices), c.devices[i + 1] = d
                     PROVE  FALSE
        OBVIOUS
      <4>2. i \in Nat /\ i # dev /\ i + 1 \in DOMAIN c.devices
        BY <1>2, <1>10, <4>1, UsbAssumption DEF OpenHandles, Index
      <4>3. IsInjective(c.devices)
        BY DEF IInv, Table
      <4>4. i + 1 = dev + 1
        BY <1>3, <2>2, <4>1, <4>2, <4>3 DEF IsInjective
      <4>. QED
        BY <1>3, <4>2, <4>4
    <3>2. Held(c, d) = 1
      BY <1>4, <2>2, <3>1 DEF Held, Bit
    <3>3. \E i \in OpenHandles(o) : i < Len(o.devices) /\ o.devices[i + 1] = d
      BY <1>9, <1>10, <2>2
    <3>4. Held(o, d) = 2
      BY <1>4, <1>9, <2>2, <3>3 DEF Held, Bit
    <3>. QED
      BY <1>7, <1>9, <2>1, <2>2, <3>2, <3>4
  <2>3. CASE d # x
    <3>1. (\E i \in OpenHandles(o) : i < Len(o.devices) /\ o.devices[i + 1] = d)
          <=> (\E i \in OpenHandles(c) : i < Len(c.devices) /\ c.devices[i + 1] = d)
      BY <1>9, <1>10, <2>3
    <3>2. Held(o, d) = Held(c, d)
      BY <1>9, <3>1 DEF Held
    <3>. QED
      BY <1>7, <1>9, <2>1, <2>3, <3>2
  <2>. QED
    BY <2>2, <2>3
<1>. QED
  BY <1>8, <1>12, <1>14, <1>15, <1>16 DEF IInv, Balanced

\* os_usb_init keeps the invariant, whichever of its calls fails.
LEMMA InitPreserves ==
    ASSUME bus \in SUBSET Device, NEW u, IInv(u), NEW dev \in Nat, NEW a \in Answers
    PROVE  IInv(InitState(u, dev, a))
<1>. DEFINE c == CountState(u, a.list)
            s == Started(u, a.list)
            how == IF a.claim THEN "claimed" ELSE "open"
            o == Opened(s, dev, how)
<1>1. CASE Refused(u, dev, a) \/ AlreadyOpen(u, dev, a)
  BY <1>1 DEF InitState
<1>2. CASE ~Refused(u, dev, a) /\ ~AlreadyOpen(u, dev, a)
  <2>1. dev \in Index /\ u.handles[dev] = "null"
    BY <1>2, UsbAssumption DEF Refused, AlreadyOpen, Index
  <2>2. a.list \in Listings(bus) \cup {Failed}
    BY DEF Answers
  <2>3. IInv(c) /\ c.sessions = u.sessions /\ c.handles = u.handles
    BY <2>2, CountPreserves
  <2>4. s = Begun(c)
    BY DEF Started
  <2>5. c.devices \in Seq(Device)
    BY <2>3 DEF IInv, UsbState
  <2>. HIDE DEF c, s
  <2>6. CASE ~Found(u, dev, a) \/ ~a.open
    <3>1. InitState(u, dev, a) = CloseState(s)
      BY <1>2, <2>6 DEF InitState, s
    <3>2. /\ s \in UsbState /\ Enumerated(s) /\ Balanced(s) /\ Table(s) /\ Released(s)
          /\ s.sessions <= Cardinality(OpenHandles(s)) + 1
      BY <2>3, <2>4, StartPreserves
    <3>. QED
      BY <3>1, <3>2, ClosePreserves
  <2>7. CASE Found(u, dev, a) /\ a.open
    <3>1. InitState(u, dev, a) = IF a.claim THEN o ELSE CloseState(o)
      BY <1>2, <2>7 DEF InitState, s
    <3>2. dev < Len(c.devices)
      BY <2>5, <2>7 DEF Found, CountResult, c
    <3>3. IInv(o)
      <4>1. c.handles[dev] = "null" /\ how \in {"open", "claimed"}
        BY <2>1, <2>3
      <4>. QED
        BY <2>1, <2>3, <2>4, <3>2, <4>1, OpenPreserves
    <3>. HIDE DEF o
    <3>4. IInv(CloseState(o))
      <4>1. o.sessions \in Nat /\ o.sessions <= Cardinality(OpenHandles(o)) + 1
        BY <3>3, OpenFinite DEF IInv, Backed, UsbState
      <4>. QED
        BY <3>3, <4>1, ClosePreserves DEF IInv
    <3>. QED
      BY <3>1, <3>3, <3>4
  <2>. QED
    BY <2>6, <2>7
<1>. QED
  BY <1>1, <1>2

-----------------------------------------------------------------------------
\* The fresh driver satisfies the invariant.
LEMMA InitIInv == IInv(NoSession)
<1>1. << >> \in Seq(Device) /\ IsInjective(<< >>)
  BY DEF IsInjective
<1>2. NoSession \in UsbState
  BY <1>1 DEF NoSession, UsbState
<1>3. OpenHandles(NoSession) = {} /\ Cardinality(OpenHandles(NoSession)) = 0
  BY FS_EmptySet DEF OpenHandles, NoSession
<1>4. \A d \in Device : d \notin Range(NoSession.devices) /\ NoSession.refs[d] = 0
  BY DEF Range, NoSession
<1>5. Balanced(NoSession)
  BY <1>3, <1>4 DEF Balanced, Held, Bit
<1>6. Table(NoSession)
  BY <1>1 DEF Table, NoSession
<1>7. Enumerated(NoSession) /\ Released(NoSession)
  BY <1>3 DEF Enumerated, Released
<1>8. NoSession.sessions = 0
  BY DEF NoSession
<1>9. Backed(NoSession)
  BY <1>3, <1>8 DEF Backed
<1>. QED
  BY <1>2, <1>5, <1>6, <1>7, <1>9 DEF IInv

UsbInv == bus \in SUBSET Device /\ IInv(usb)

\* No call of the driver and no change of the bus breaks the invariant.
LEMMA NextIInv ==
    ASSUME UsbInv, [UsbNext]_usbVars
    PROVE  UsbInv'
<1>. USE DEF UsbInv
<1>1. CASE OsUsbCountDevices
  <2>1. PICK a \in Answers : usb' = CountState(usb, a.list)
    BY <1>1 DEF OsUsbCountDevices
  <2>2. a.list \in Listings(bus) \cup {Failed} /\ bus' = bus
    BY <1>1 DEF Answers, OsUsbCountDevices
  <2>3. IInv(CountState(usb, a.list))
    BY <2>2, CountPreserves
  <2>. QED
    BY <2>1, <2>2, <2>3
<1>2. ASSUME NEW dev \in 0 .. MAX_USB, OsUsbInit(dev) PROVE UsbInv'
  <2>1. PICK a \in Answers : usb' = InitState(usb, dev, a)
    BY <1>2 DEF OsUsbInit
  <2>2. dev \in Nat /\ bus' = bus
    BY <1>2, UsbAssumption DEF OsUsbInit
  <2>3. IInv(InitState(usb, dev, a))
    BY <2>2, InitPreserves
  <2>. QED
    BY <2>1, <2>2, <2>3
<1>3. CASE OsUsbClose
  <2>1. usb.sessions <= Cardinality(OpenHandles(usb)) + 1
    BY OpenFinite DEF IInv, Backed, UsbState
  <2>2. IInv(CloseState(usb))
    BY <2>1, ClosePreserves DEF IInv
  <2>. QED
    BY <1>3, <2>2 DEF OsUsbClose
<1>4. CASE HotPlug
  BY <1>4 DEF HotPlug
<1>5. CASE UNCHANGED usbVars
  BY <1>5 DEF usbVars
<1>. QED
  BY <1>1, <1>2, <1>3, <1>4, <1>5 DEF UsbNext

\* The driver's inductive invariant, for all devices and table sizes.
THEOREM DriverInvariant == UsbSpec => []UsbInv
<1>1. UsbInit => UsbInv
  BY InitIInv DEF UsbInit, UsbInv
<1>. QED
  BY <1>1, NextIInv, PTL DEF UsbSpec

\* The driver's state has its types.
THEOREM DriverTypes == UsbSpec => []UsbTypeOK
<1>1. UsbInv => UsbTypeOK
  BY DEF UsbInv, IInv, UsbTypeOK
<1>. QED
  BY <1>1, DriverInvariant, PTL

\* No handle outlives the enumeration that gave its index a meaning.
THEOREM HandlesEnumerated == UsbSpec => []HandleIsEnumerated
<1>1. UsbInv => HandleIsEnumerated
  BY DEF UsbInv, IInv, Enumerated, HandleIsEnumerated
<1>. QED
  BY <1>1, DriverInvariant, PTL

\* Once all sessions are closed no handle is open.
THEOREM HandlesReleased == UsbSpec => []NoHandleWithoutSession
<1>1. UsbInv => NoHandleWithoutSession
  BY DEF UsbInv, IInv, Released, NoHandleWithoutSession
<1>. QED
  BY <1>1, DriverInvariant, PTL

\* The session count never exceeds the open handles.
THEOREM SessionsBounded == UsbSpec => []SessionsBacked
<1>1. UsbInv => SessionsBacked
  BY DEF UsbInv, IInv, Backed, SessionsBacked
<1>. QED
  BY <1>1, DriverInvariant, PTL

\* libusb's references are exactly those of the driver's tables.
THEOREM ReferencesBalanced == UsbSpec => []NoReferenceLeak
<1>1. UsbInv => NoReferenceLeak
  BY DEF UsbInv, IInv, Balanced, NoReferenceLeak
<1>. QED
  BY <1>1, DriverInvariant, PTL

-----------------------------------------------------------------------------
\* An open session has an enumeration, so counting is a no-op for it.
LEMMA OpenSessionEnumerated ==
    ASSUME NEW u, IInv(u), u.sessions > 0
    PROVE  u.enumerated /\ \A list : CountState(u, list) = u
<1>1. u.sessions \in Nat
  BY DEF IInv, UsbState
<1>2. OpenHandles(u) # {}
  BY <1>1, OpenFinite, FS_EmptySet DEF IInv, Backed
<1>3. u.enumerated
  BY <1>2 DEF IInv, Enumerated
<1>. QED
  BY <1>3 DEF CountState

\* Closing one of several sessions leaves the table alone.
LEMMA CloseKeepsTable ==
    ASSUME NEW u \in UsbState, u.sessions > 0, CloseState(u).sessions > 0
    PROVE  CloseState(u).devices = u.devices
<1>1. u.sessions \in Nat
  BY DEF UsbState
<1>2. CASE u.sessions = 1
  <2>1. CloseState(u) = ReleaseAll(Ended(u)) /\ Ended(u).sessions = 0
    BY <1>2, EndedFields DEF CloseState
  <2>2. CloseState(u).sessions = 0
    BY <2>1 DEF ReleaseAll
  <2>. QED
    BY <2>2
<1>3. CASE u.sessions > 1
  BY <1>1, <1>3, EndedFields DEF CloseState
<1>. QED
  BY <1>1, <1>2, <1>3

\* The table from index to device does not change under an open session.
THEOREM IndexStability == UsbSpec => IndexStable
<1>. DEFINE Stable == usb.sessions > 0 /\ usb'.sessions > 0 => usb'.devices = usb.devices
<1>1. ASSUME UsbInv, [UsbNext]_usbVars PROVE Stable
  <2>. SUFFICES ASSUME usb.sessions > 0, usb'.sessions > 0
                PROVE  usb'.devices = usb.devices
    OBVIOUS
  <2>1. /\ usb \in UsbState /\ \A list : CountState(usb, list) = usb
    BY <1>1, OpenSessionEnumerated DEF UsbInv, IInv
  <2>2. CASE OsUsbCountDevices
    BY <2>1, <2>2 DEF OsUsbCountDevices
  <2>3. ASSUME NEW dev \in 0 .. MAX_USB, OsUsbInit(dev) PROVE usb'.devices = usb.devices
    <3>1. PICK a \in Answers : usb' = InitState(usb, dev, a)
      BY <2>3 DEF OsUsbInit
    <3>. DEFINE s == Begun(usb)
    <3>2. Started(usb, a.list) = s
      BY <2>1 DEF Started
    <3>3. s \in UsbState /\ s.sessions > 0 /\ s.devices = usb.devices
      BY <1>1, StartPreserves DEF UsbInv
    <3>4. \A how : Opened(s, dev, how).devices = s.devices
                   /\ Opened(s, dev, how).sessions = s.sessions
      BY <3>3 DEF Opened, UsbState
    <3>. HIDE DEF s
    <3>5. CASE InitState(usb, dev, a) = usb
      BY <3>1, <3>5
    <3>6. CASE InitState(usb, dev, a) = CloseState(s)
      BY <3>1, <3>3, <3>6, CloseKeepsTable
    <3>7. CASE \E how \in {"open", "claimed"} : InitState(usb, dev, a) = Opened(s, dev, how)
      BY <3>1, <3>3, <3>4, <3>7
    <3>8. CASE ~Refused(usb, dev, a) /\ ~AlreadyOpen(usb, dev, a) /\ Found(usb, dev, a)
               /\ InitState(usb, dev, a) = CloseState(Opened(s, dev, "open"))
      <4>. DEFINE o == Opened(s, dev, "open")
      <4>1. o.devices = usb.devices /\ o.sessions > 0
        BY <3>3, <3>4
      <4>2. dev \in Index /\ usb.handles[dev] = "null"
        BY <3>8, UsbAssumption DEF Refused, AlreadyOpen, Index
      <4>3. dev < Len(usb.devices)
        BY <2>1, <3>8 DEF Found, CountResult, UsbState
      <4>4. o \in UsbState
        BY <1>1, <4>2, <4>3, OpenPreserves DEF UsbInv, IInv, s
      <4>. HIDE DEF o
      <4>5. CloseState(o).sessions > 0 => CloseState(o).devices = o.devices
        BY <4>1, <4>4, CloseKeepsTable
      <4>. QED
        BY <3>1, <3>8, <4>1, <4>5 DEF o
    <3>. QED
      BY <3>2, <3>5, <3>6, <3>7, <3>8 DEF InitState
  <2>4. CASE OsUsbClose
    BY <2>1, <2>4, CloseKeepsTable DEF OsUsbClose
  <2>5. CASE HotPlug \/ UNCHANGED usbVars
    BY <2>5 DEF HotPlug, usbVars
  <2>. QED
    BY <1>1, <2>2, <2>3, <2>4, <2>5 DEF UsbNext
<1>. QED
  BY <1>1, DriverInvariant, PTL DEF UsbSpec, IndexStable

=============================================================================
