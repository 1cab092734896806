-------------------------- MODULE Mai2InputProofs --------------------------
(***************************************************************************)
(* Proofs about Mai2Input for every set of interfaces, every set of button *)
(* and touch values and every chunk size.                                  *)
(*                                                                         *)
(* NoHeldInputWithoutSource is not inductive: it says nothing of the       *)
(* states in which a source is connected or a drop is half done.  IndInv   *)
(* adds (1) a flag is up exactly while its thread is between connecting    *)
(* and dropping, and (2) whoever held a field is either still accounted    *)
(* for by some raised flag or the serial side, or is on its way to a Clear *)
(* that has not yet decided to spare the field (what the page held before  *)
(* the process started is nobody's).  (2) is where lowering the *)
(* own flag BEFORE loading the others matters.                             *)
(***************************************************************************)
EXTENDS Mai2Input, TLAPS

FlagsMatch ==
    \A x \in HID : connected[x] <=> pc[x] \in {"announce", "run", "apply"}

SomeoneReleases(field) == \E x \in HID : Pending(x, field)

HeldAccounted ==
    \A field \in Fields \ inherited :
        ~Released(field) => \/ \E x \in HID : connected[x]
                            \/ SerialPending
                            \/ SomeoneReleases(field)

IndInv == TypeOK /\ FlagsMatch /\ HeldAccounted

(* A frame leaves a page of the right type.                                *)
LEMMA ApplyType ==
    ASSUME NEW p \in Pages,
           NEW f \in [buttons : ButtonVals \cup {None}, touch : TouchVals \cup {None}]
    PROVE  ApplyDeviceFrame(p, f) \in Pages
BY DEF ApplyDeviceFrame, Pages

LEMMA ClearType ==
    ASSUME NEW p \in Pages, NEW l \in [buttons : BOOLEAN, touch : BOOLEAN]
    PROVE  ClearFields(p, l) \in Pages
BY ValuesAssumption DEF ClearFields, Pages

(* What the stream threads pass on is a frame again.                       *)
LEMMA StreamType ==
    ASSUME NEW f \in Frames
    PROVE  StreamFrame(f) \in Frames
BY DEF StreamFrame, Frames

(* The initial state has its type.                                         *)
LEMMA InitType == Init => TypeOK
<1> SUFFICES ASSUME Init PROVE TypeOK
  OBVIOUS
<1> USE DEF Init
<1>1. connected \in [HID -> BOOLEAN] /\ pc \in [HID -> HidPCs]
  BY DEF HidPCs
<1>2. live \in [HID -> [buttons : BOOLEAN, touch : BOOLEAN]]
  BY DEF NoLive
<1>3. frame \in [{"vendor", "serial"} -> Frames]
  BY ValuesAssumption DEF Frames, NoFrame
<1>4. left \in 0..MaxFrames
  BY MaxFramesAssumption
<1>5. page \in Pages /\ inherited \subseteq Fields
  OBVIOUS
<1>6. enabled \in BOOLEAN /\ session \in BOOLEAN /\ active \in BOOLEAN
  OBVIOUS
<1>7. dpc \in DevicePCs /\ rpc \in ReaderPCs
  BY DEF DevicePCs, ReaderPCs
<1> QED
  BY <1>1, <1>2, <1>3, <1>4, <1>5, <1>6, <1>7 DEF TypeOK

(* Every step of a HID thread keeps the types.                             *)
LEMMA HidType == TypeOK /\ HidNext => TypeOK'
<1> SUFFICES ASSUME TypeOK, HidNext PROVE TypeOK'
  OBVIOUS
<1> USE DEF TypeOK, serialVars, hidVars, pageVars, Goto
<1>1. CASE \E x \in HID : HidStep(x)
  <2> PICK x \in HID : HidStep(x)
    BY <1>1
  <2>1. CASE ScanFails(x)
    BY <2>1 DEF ScanFails
  <2>2. CASE Connect(x)
    BY <2>2 DEF Connect, HidPCs
  <2>3. CASE Announce(x)
    BY <2>3 DEF Announce, HidPCs, Pages
  <2>4. CASE Drop(x)
    BY <2>4 DEF Drop, HidPCs
  <2>5. CASE LoadHid(x)
    BY <2>5 DEF LoadHid, HidPCs, HID
  <2>6. CASE LoadVendorButtons(x)
    BY <2>6 DEF LoadVendorButtons, HidPCs, HID
  <2>7. CASE LoadTouchHid(x)
    BY <2>7 DEF LoadTouchHid, HidPCs, HID
  <2>8. CASE LoadVendorTouch(x)
    BY <2>8 DEF LoadVendorTouch, HidPCs, HID
  <2>9. CASE Clear(x)
    <3>1. page' \in Pages
      BY <2>9, ClearType DEF Clear
    <3> QED
      BY <2>9, <3>1 DEF Clear, HidPCs, NoLive
  <2> QED
    BY <2>1, <2>2, <2>3, <2>4, <2>5, <2>6, <2>7, <2>8, <2>9 DEF HidStep
<1>2. CASE HidReport
  <2>1. page' \in Pages
    BY <1>2, ApplyType DEF HidReport
  <2> QED
    BY <1>2, <2>1 DEF HidReport
<1>3. CASE TouchReport
  <2>1. page' \in Pages
    BY <1>3, ApplyType DEF TouchReport
  <2> QED
    BY <1>3, <2>1 DEF TouchReport
<1>4. CASE VendorReceive
  <2>1. frame' \in [{"vendor", "serial"} -> Frames]
    BY <1>4, StreamType DEF VendorReceive
  <2> QED
    BY <1>4, <2>1 DEF VendorReceive, HidPCs, HID
<1>5. CASE VendorApply
  <2>1. page' \in Pages
    BY <1>5, ApplyType DEF VendorApply, Frames
  <2>2. frame' \in [{"vendor", "serial"} -> Frames]
    BY <1>5, ValuesAssumption DEF VendorApply, Frames, NoFrame
  <2> QED
    BY <1>5, <2>1, <2>2 DEF VendorApply, HidPCs, HID
<1> QED
  BY <1>1, <1>2, <1>3, <1>4, <1>5 DEF HidNext

(* Every step of the device thread keeps the types.                        *)
LEMMA DeviceType == TypeOK /\ DeviceNext => TypeOK'
<1> SUFFICES ASSUME TypeOK, DeviceNext PROVE TypeOK'
  OBVIOUS
<1> USE DEF TypeOK, hidVars, pageVars, DGoto, DevicePCs
<1>1. CASE YieldToVendor \/ KeepSerial \/ OpenFails \/ ServiceSession \/ DropSession
  BY <1>1 DEF YieldToVendor, KeepSerial, OpenFails, ServiceSession, DropSession
<1>2. CASE OpenSerial
  BY <1>2, MaxFramesAssumption DEF OpenSerial, ReaderPCs
<1>3. CASE AnnounceSerial \/ KeepPage \/ ResetPage
  <2>1. DefaultPage \in Pages /\ [page EXCEPT !.connected = TRUE] \in Pages
    BY ValuesAssumption DEF DefaultPage, Pages
  <2>2. page' \in Pages
    BY <1>3, <2>1 DEF AnnounceSerial, KeepPage, ResetPage
  <2> QED
    BY <1>3, <2>2 DEF AnnounceSerial, KeepPage, ResetPage
<1>4. CASE CloseSession
  BY <1>4 DEF CloseSession
<1>5. CASE JoinReader
  BY <1>5 DEF JoinReader, ReaderPCs
<1>6. CASE DLoadFlags
  BY <1>6 DEF DLoadFlags, DLoad
<1> QED
  BY <1>1, <1>2, <1>3, <1>4, <1>5, <1>6 DEF DeviceNext, DisconnectNext

(* Every step of the serial reader keeps the types.                        *)
LEMMA ReaderType == TypeOK /\ ReaderNext => TypeOK'
<1> SUFFICES ASSUME TypeOK, ReaderNext PROVE TypeOK'
  OBVIOUS
<1> USE DEF TypeOK, hidVars, pageVars, ReaderPCs
<1>1. CASE ReadChunk
  BY <1>1, MaxFramesAssumption DEF ReadChunk
<1>2. CASE ReaderReceive
  <2>1. frame' \in [{"vendor", "serial"} -> Frames]
    BY <1>2, StreamType DEF ReaderReceive
  <2>2. left' \in 0..MaxFrames
    BY <1>2, MaxFramesAssumption DEF ReaderReceive
  <2> QED
    BY <1>2, <2>1, <2>2 DEF ReaderReceive
<1>3. CASE ReaderApply
  <2>1. page' \in Pages
    BY <1>3, ApplyType DEF ReaderApply, Frames
  <2>2. frame' \in [{"vendor", "serial"} -> Frames]
    BY <1>3, ValuesAssumption DEF ReaderApply, Frames, NoFrame
  <2> QED
    BY <1>3, <2>1, <2>2 DEF ReaderApply
<1>4. CASE ReaderFails \/ ReaderStops
  BY <1>4 DEF ReaderFails, ReaderStops
<1> QED
  BY <1>1, <1>2, <1>3, <1>4 DEF ReaderNext

LEMMA StutterType == TypeOK /\ UNCHANGED vars => TypeOK'
BY DEF TypeOK, vars

(* Type correctness, for every value of the constants.                     *)
THEOREM TypeCorrect == Spec => []TypeOK
<1>1. TypeOK /\ [Next]_vars => TypeOK'
  BY HidType, DeviceType, ReaderType, StutterType DEF Next
<1> QED
  BY <1>1, InitType, PTL DEF Spec

----------------------------------------------------------------------------
(* The safety argument.                                                    *)

(* A page update that is a frame of one field leaves the other released or *)
(* held as it was; one of both fields may change both.                     *)
LEMMA ReleasedUnchanged ==
    ASSUME page'.buttons = page.buttons, page'.touch = page.touch
    PROVE  \A field \in Fields : Released(field)' <=> Released(field)
BY DEF Released

LEMMA InitInv == Init => IndInv
<1> SUFFICES ASSUME Init PROVE IndInv
  OBVIOUS
<1>1. FlagsMatch
  BY DEF Init, FlagsMatch
<1>2. HeldAccounted
  BY DEF Init, HeldAccounted, Released, DefaultPage, Fields
<1> QED
  BY <1>1, <1>2, InitType DEF IndInv

(* The flags stay those of the threads' positions.                         *)
LEMMA FlagsStep == IndInv /\ [Next]_vars => FlagsMatch'
<1> SUFFICES ASSUME IndInv, [Next]_vars PROVE FlagsMatch'
  OBVIOUS
<1> USE DEF IndInv, TypeOK, FlagsMatch
<1>1. CASE \E x \in HID : HidStep(x)
  <2> PICK x \in HID : HidStep(x)
    BY <1>1
  <2>1. CASE ScanFails(x)
    BY <2>1 DEF ScanFails
  <2>2. CASE Connect(x)
    BY <2>2 DEF Connect, Goto
  <2>3. CASE Announce(x)
    BY <2>3 DEF Announce, Goto
  <2>4. CASE Drop(x)
    BY <2>4 DEF Drop, Goto
  <2>5. CASE LoadHid(x) \/ LoadVendorButtons(x) \/ LoadTouchHid(x)
                \/ LoadVendorTouch(x) \/ Clear(x)
    BY <2>5 DEF LoadHid, LoadVendorButtons, LoadTouchHid, LoadVendorTouch,
                Clear, Goto
  <2> QED
    BY <2>1, <2>2, <2>3, <2>4, <2>5 DEF HidStep
<1>2. CASE HidReport \/ TouchReport
  BY <1>2 DEF HidReport, TouchReport, hidVars
<1>3. CASE VendorReceive \/ VendorApply
  BY <1>3 DEF VendorReceive, VendorApply, Goto, HID
<1>4. CASE DeviceNext
  BY <1>4 DEF DeviceNext, DisconnectNext, YieldToVendor, KeepSerial, OpenFails,
              OpenSerial, AnnounceSerial, ServiceSession, DropSession,
              CloseSession, JoinReader, DLoadFlags, DLoad, KeepPage, ResetPage,
              hidVars
<1>5. CASE ReaderNext
  BY <1>5 DEF ReaderNext, ReadChunk, ReaderReceive, ReaderApply, ReaderFails,
              ReaderStops, hidVars
<1>6. CASE UNCHANGED vars
  BY <1>6 DEF vars
<1> QED
  BY <1>1, <1>2, <1>3, <1>4, <1>5, <1>6 DEF Next, HidNext

(* Steps of a HID thread's own life cycle: connecting only adds accounts,  *)
(* and dropping hands the field to the pending Clear.                      *)
LEMMA HeldHidStep ==
    ASSUME IndInv, NEW x \in HID, HidStep(x)
    PROVE  HeldAccounted'
<1> USE DEF IndInv, TypeOK, HeldAccounted, SomeoneReleases, SerialPending,
            Disconnecting, serialVars, pageVars, Fields, Goto
<1>1. CASE ScanFails(x) \/ Connect(x) \/ Announce(x)
  <2>1. \A field \in Fields : Released(field)' <=> Released(field)
    BY <1>1, ReleasedUnchanged DEF ScanFails, Connect, Announce, Pages
  <2>2. \A y \in HID, field \in Fields : Pending(y, field) => Pending(y, field)'
    BY <1>1 DEF ScanFails, Connect, Announce, Pending
  <2>3. (\E y \in HID : connected[y]) => \E y \in HID : connected'[y]
    BY <1>1 DEF ScanFails, Connect, Announce, FlagsMatch
  <2>4. SerialPending' = SerialPending /\ inherited' = inherited
    BY <1>1 DEF ScanFails, Connect, Announce
  <2> QED
    BY <2>1, <2>2, <2>3, <2>4
<1>2. CASE Drop(x)
  BY <1>2 DEF Drop, Pending
<1>3. CASE LoadHid(x)
  BY <1>3 DEF LoadHid, Pending, Released, HID
<1>4. CASE LoadVendorButtons(x)
  BY <1>4 DEF LoadVendorButtons, Pending, Released, HID
<1>5. CASE LoadTouchHid(x)
  BY <1>5 DEF LoadTouchHid, Pending, Released, HID
<1>6. CASE LoadVendorTouch(x)
  BY <1>6 DEF LoadVendorTouch, Pending, Released, HID
<1>7. CASE Clear(x)
  <2>1. \A y \in HID \ {x}, field \in Fields : Pending(y, field) => Pending(y, field)'
    BY <1>7 DEF Clear, Pending
  <2>2. \A field \in Fields : Pending(x, field) => Released(field)'
    BY <1>7 DEF Clear, Pending, Released, ClearFields, Pages
  <2>3. \A field \in Fields :
            Released(field) \/ field \in inherited
              => Released(field)' \/ field \in inherited'
    BY <1>7 DEF Clear, Released, ClearFields, Pages
  <2>4. connected' = connected /\ SerialPending' = SerialPending
    BY <1>7 DEF Clear
  <2> QED
    BY <2>1, <2>2, <2>3, <2>4
<1> QED
  BY <1>1, <1>2, <1>3, <1>4, <1>5, <1>6, <1>7 DEF HidStep

(* A field a HID source writes is accounted for by that source's flag, one *)
(* the reader writes by the reader itself.                                 *)
LEMMA HeldReports ==
    ASSUME IndInv,
           HidReport \/ TouchReport \/ VendorReceive \/ VendorApply
    PROVE  HeldAccounted'
<1> USE DEF IndInv, TypeOK, FlagsMatch, HeldAccounted, HID, hidVars, pageVars
<1>1. CASE HidReport
  BY <1>1 DEF HidReport
<1>2. CASE TouchReport
  BY <1>2 DEF TouchReport
<1>3. CASE VendorReceive
  BY <1>3 DEF VendorReceive, Goto
<1>4. CASE VendorApply
  BY <1>4 DEF VendorApply, Goto
<1> QED
  BY <1>1, <1>2, <1>3, <1>4

LEMMA HeldReader == IndInv /\ ReaderNext => HeldAccounted'
<1> SUFFICES ASSUME IndInv, ReaderNext PROVE SerialPending'
  BY DEF HeldAccounted
<1> QED
  BY DEF SerialPending, ReaderNext, ReadChunk, ReaderReceive, ReaderApply,
         ReaderFails, ReaderStops

(* disconnect_session: while it runs the serial side accounts for the      *)
(* fields; it ends with a raised flag seen or with the default page.       *)
LEMMA HeldDevice == IndInv /\ DeviceNext => HeldAccounted'
<1> SUFFICES ASSUME IndInv, DeviceNext PROVE HeldAccounted'
  OBVIOUS
<1> USE DEF IndInv, TypeOK, HeldAccounted, SomeoneReleases, SerialPending,
            Disconnecting, hidVars, pageVars, DGoto
<1>1. CASE YieldToVendor \/ DropSession \/ CloseSession \/ JoinReader
  BY <1>1 DEF YieldToVendor, DropSession, CloseSession, JoinReader
<1>2. CASE OpenSerial
  BY <1>2 DEF OpenSerial
<1>3. CASE DLoadFlags
  BY <1>3 DEF DLoadFlags, DLoad, HID
<1>4. CASE ResetPage
  BY <1>4 DEF ResetPage, DefaultPage, Released, Fields
<1>5. CASE \/ KeepSerial \/ OpenFails \/ AnnounceSerial \/ ServiceSession
           \/ KeepPage
  <2>1. \A field \in Fields : Released(field)' <=> Released(field)
    BY <1>5, ReleasedUnchanged
       DEF KeepSerial, OpenFails, AnnounceSerial, ServiceSession, KeepPage, Pages
  <2>2. \A y \in HID, field \in Fields : Pending(y, field)' <=> Pending(y, field)
    BY <1>5 DEF KeepSerial, OpenFails, AnnounceSerial, ServiceSession, KeepPage,
                Pending
  <2>3. /\ connected' = connected /\ inherited' = inherited
        /\ SerialPending => SerialPending'
    BY <1>5 DEF KeepSerial, OpenFails, AnnounceSerial, ServiceSession, KeepPage
  <2> QED
    BY <2>1, <2>2, <2>3
<1> QED
  BY <1>1, <1>2, <1>3, <1>4, <1>5 DEF DeviceNext, DisconnectNext

LEMMA HeldStutter == IndInv /\ UNCHANGED vars => HeldAccounted'
BY DEF IndInv, HeldAccounted, SomeoneReleases, Released, Pending, SerialPending,
       Disconnecting, vars

LEMMA InvStep == IndInv /\ [Next]_vars => IndInv'
<1> SUFFICES ASSUME IndInv, [Next]_vars PROVE IndInv'
  OBVIOUS
<1>1. TypeOK'
  BY HidType, DeviceType, ReaderType, StutterType DEF Next, IndInv
<1>2. FlagsMatch'
  BY FlagsStep
<1>3. HeldAccounted'
  BY HeldHidStep, HeldReports, HeldReader, HeldDevice, HeldStutter
     DEF Next, HidNext
<1> QED
  BY <1>1, <1>2, <1>3 DEF IndInv

(* No interleaving of the threads leaves a button or a touch held once     *)
(* every HID source is gone and the serial side is closed: what            *)
(* clear_inputs_on_source_drop and disconnect_session are for.             *)
THEOREM NoHeldInput == Spec => []NoHeldInputWithoutSource
<1>1. IndInv => NoHeldInputWithoutSource
  BY DEF IndInv, TypeOK, FlagsMatch, HeldAccounted, SomeoneReleases, Fields,
         Released, Pending, NoHeldInputWithoutSource
<1> QED
  BY <1>1, InitInv, InvStep, PTL DEF Spec

----------------------------------------------------------------------------
(* The same argument per field, while no serial stream has written the     *)
(* page.  A page just reset is such a page because disconnect_session      *)
(* closes the session and joins the reader before it resets.               *)

SerialQuiet ==
    /\ streamed \/ (~session /\ rpc = "none")
    /\ dpc \in {"join", "load_vendor", "load_touch", "load_hid", "keep", "reset"}
         => ~session
    /\ dpc \in {"load_vendor", "load_touch", "load_hid", "keep", "reset"}
         => rpc = "none"

FeederInv == IndInv /\ SerialQuiet /\ HeldFieldHasFeeder

LEMMA SerialQuietStep ==
    ASSUME IndInv, SerialQuiet, [Next]_vars
    PROVE  SerialQuiet'
<1> USE DEF SerialQuiet, serialVars, IndInv, TypeOK, DGoto
<1>1. CASE \E x \in HID : HidStep(x)
  BY <1>1 DEF HidStep, ScanFails, Connect, Announce, Drop, LoadHid,
              LoadVendorButtons, LoadTouchHid, LoadVendorTouch, Clear
<1>2. CASE HidReport \/ TouchReport \/ VendorReceive \/ VendorApply
  BY <1>2 DEF HidReport, TouchReport, VendorReceive, VendorApply
<1>3. CASE DeviceNext
  <2>1. CASE YieldToVendor \/ KeepSerial \/ OpenFails
    BY <2>1 DEF YieldToVendor, KeepSerial, OpenFails
  <2>2. CASE OpenSerial
    BY <2>2 DEF OpenSerial
  <2>3. CASE AnnounceSerial \/ ServiceSession \/ DropSession
    BY <2>3 DEF AnnounceSerial, ServiceSession, DropSession
  <2>4. CASE CloseSession
    BY <2>4 DEF CloseSession
  <2>5. CASE JoinReader
    BY <2>5 DEF JoinReader
  <2>6. CASE DLoadFlags
    BY <2>6 DEF DLoadFlags, DLoad
  <2>7. CASE KeepPage \/ ResetPage
    BY <2>7 DEF KeepPage, ResetPage
  <2> QED
    BY <1>3, <2>1, <2>2, <2>3, <2>4, <2>5, <2>6, <2>7
       DEF DeviceNext, DisconnectNext
<1>4. CASE ReaderNext
  BY <1>4 DEF ReaderNext, ReadChunk, ReaderReceive, ReaderApply, ReaderFails,
              ReaderStops
<1>5. CASE UNCHANGED vars
  BY <1>5 DEF vars
<1> QED
  BY <1>1, <1>2, <1>3, <1>4, <1>5 DEF Next, HidNext

LEMMA FeederHidStep ==
    ASSUME FeederInv, NEW x \in HID, HidStep(x)
    PROVE  HeldFieldHasFeeder'
<1> USE DEF FeederInv, IndInv, TypeOK, HeldFieldHasFeeder, Fields, Goto, serialVars, pageVars
<1>1. CASE ScanFails(x) \/ Connect(x) \/ Announce(x)
  <2>1. \A field \in Fields : Released(field)' <=> Released(field)
    BY <1>1, ReleasedUnchanged DEF ScanFails, Connect, Announce, Pages
  <2>2. \A y \in HID, field \in Fields : Pending(y, field) => Pending(y, field)'
    BY <1>1 DEF ScanFails, Connect, Announce, Pending
  <2>3. \A field \in Fields : FedByHid(field) => FedByHid(field)'
    BY <1>1 DEF ScanFails, Connect, Announce, FlagsMatch, FedByHid, HID
  <2>4. streamed' = streamed /\ inherited' = inherited
    BY <1>1 DEF ScanFails, Connect, Announce
  <2> QED
    BY <2>1, <2>2, <2>3, <2>4
<1>2. CASE Drop(x)
  BY <1>2 DEF Drop, Pending
<1>3. CASE LoadHid(x)
  BY <1>3 DEF LoadHid, Pending, Released, FedByHid, HID
<1>4. CASE LoadVendorButtons(x)
  BY <1>4 DEF LoadVendorButtons, Pending, Released, FedByHid, HID
<1>5. CASE LoadTouchHid(x)
  BY <1>5 DEF LoadTouchHid, Pending, Released, FedByHid, HID
<1>6. CASE LoadVendorTouch(x)
  BY <1>6 DEF LoadVendorTouch, Pending, Released, FedByHid, HID
<1>7. CASE Clear(x)
  <2>1. \A y \in HID \ {x}, field \in Fields : Pending(y, field) => Pending(y, field)'
    BY <1>7 DEF Clear, Pending
  <2>2. \A field \in Fields : Pending(x, field) => Released(field)'
    BY <1>7 DEF Clear, Pending, Released, ClearFields, Pages
  <2>3. \A field \in Fields :
            Released(field) \/ field \in inherited
              => Released(field)' \/ field \in inherited'
    BY <1>7 DEF Clear, Released, ClearFields, Pages
  <2>4. \A field \in Fields : FedByHid(field)' <=> FedByHid(field)
    BY <1>7 DEF Clear, FedByHid
  <2>5. streamed' = streamed
    BY <1>7 DEF Clear
  <2> QED
    BY <2>1, <2>2, <2>3, <2>4, <2>5
<1> QED
  BY <1>1, <1>2, <1>3, <1>4, <1>5, <1>6, <1>7 DEF HidStep

(* A report writes only fields its source feeds.                           *)
LEMMA FeederReports ==
    ASSUME FeederInv,
           HidReport \/ TouchReport \/ VendorReceive \/ VendorApply
    PROVE  HeldFieldHasFeeder'
<1> USE DEF FeederInv, IndInv, TypeOK, FlagsMatch, HeldFieldHasFeeder, HID, hidVars, serialVars, pageVars
<1>1. CASE HidReport
  <2>1. FedByHid("buttons")'
    BY <1>1 DEF HidReport, FedByHid
  <2>2. Released("touch")' <=> Released("touch")
    BY <1>1 DEF HidReport, ApplyDeviceFrame, Released, Pages
  <2>3. FedByHid("touch")' <=> FedByHid("touch")
    BY <1>1 DEF HidReport, FedByHid
  <2>4. \A y \in HID : Pending(y, "touch")' <=> Pending(y, "touch")
    BY <1>1 DEF HidReport, Pending
  <2>5. streamed' = streamed
    BY <1>1 DEF HidReport
  <2>6. inherited' = inherited \ {"buttons"}
    BY <1>1 DEF HidReport
  <2> QED
    BY <2>1, <2>2, <2>3, <2>4, <2>5, <2>6 DEF Fields
<1>2. CASE TouchReport
  <2>1. FedByHid("touch")'
    BY <1>2 DEF TouchReport, FedByHid
  <2>2. Released("buttons")' <=> Released("buttons")
    BY <1>2 DEF TouchReport, ApplyDeviceFrame, Released, Pages
  <2>3. FedByHid("buttons")' <=> FedByHid("buttons")
    BY <1>2 DEF TouchReport, FedByHid
  <2>4. \A y \in HID : Pending(y, "buttons")' <=> Pending(y, "buttons")
    BY <1>2 DEF TouchReport, Pending
  <2>5. streamed' = streamed
    BY <1>2 DEF TouchReport
  <2>6. inherited' = inherited \ {"touch"}
    BY <1>2 DEF TouchReport
  <2> QED
    BY <2>1, <2>2, <2>3, <2>4, <2>5, <2>6 DEF Fields
<1>3. CASE VendorReceive
  BY <1>3 DEF VendorReceive, Goto, FedByHid
<1>4. CASE VendorApply
  BY <1>4 DEF VendorApply, Goto, FedByHid
<1> QED
  BY <1>1, <1>2, <1>3, <1>4

(* The device thread only ever marks the page connected or resets it.      *)
LEMMA FeederDevice ==
    ASSUME FeederInv, DeviceNext
    PROVE  HeldFieldHasFeeder'
<1> USE DEF FeederInv, IndInv, TypeOK, HeldFieldHasFeeder, Fields, hidVars, pageVars
<1>1. CASE ResetPage
  BY <1>1 DEF ResetPage, DefaultPage, Released
<1>2. CASE OpenSerial
  BY <1>2 DEF OpenSerial
<1>3. CASE ~ResetPage /\ ~OpenSerial
  <2>1. \A field \in Fields : Released(field)' <=> Released(field)
    BY <1>3, ReleasedUnchanged
       DEF DeviceNext, DisconnectNext, YieldToVendor, KeepSerial, OpenFails,
           AnnounceSerial, ServiceSession, DropSession, CloseSession,
           JoinReader, DLoadFlags, DLoad, KeepPage, Pages
  <2>2. /\ connected' = connected /\ pc' = pc /\ live' = live
        /\ streamed' = streamed /\ inherited' = inherited
    BY <1>3
       DEF DeviceNext, DisconnectNext, YieldToVendor, KeepSerial, OpenFails,
           AnnounceSerial, ServiceSession, DropSession, CloseSession,
           JoinReader, DLoadFlags, DLoad, KeepPage
  <2> QED
    BY <2>1, <2>2 DEF Pending, FedByHid
<1> QED
  BY <1>1, <1>2, <1>3

LEMMA FeederStep ==
    ASSUME FeederInv, [Next]_vars
    PROVE  FeederInv'
<1>1. IndInv' /\ SerialQuiet'
  BY InvStep, SerialQuietStep DEF FeederInv
<1>2. CASE HidNext
  BY <1>1, <1>2, FeederHidStep, FeederReports DEF HidNext, FeederInv
<1>3. CASE DeviceNext
  BY <1>1, <1>3, FeederDevice DEF FeederInv
<1>4. CASE ReaderNext
  BY <1>1, <1>4 DEF FeederInv, HeldFieldHasFeeder, SerialQuiet, ReaderNext, ReadChunk, ReaderReceive,
              ReaderApply, ReaderFails, ReaderStops
<1>5. CASE UNCHANGED vars
  <2>1. HeldFieldHasFeeder'
    BY <1>5 DEF FeederInv, HeldFieldHasFeeder, Released, FedByHid, Pending, vars
  <2> QED
    BY <1>1, <2>1 DEF FeederInv
<1> QED
  BY <1>2, <1>3, <1>4, <1>5 DEF Next

(* Until a serial session is opened, and again after a reset, whatever is  *)
(* held on the page belongs to a connected source of that very field or is *)
(* about to be released by a thread in clear_inputs_on_source_drop.        *)
THEOREM HeldHasFeeder == Spec => []HeldFieldHasFeeder
<1>1. Init => FeederInv
  <2> SUFFICES ASSUME Init PROVE SerialQuiet /\ HeldFieldHasFeeder
    BY InitInv DEF FeederInv
  <2> QED
    BY DEF Init, SerialQuiet, HeldFieldHasFeeder, Released, DefaultPage
<1>2. FeederInv /\ [Next]_vars => FeederInv'
  BY FeederStep
<1>3. FeederInv => HeldFieldHasFeeder
  BY DEF FeederInv
<1> QED
  BY <1>1, <1>2, <1>3, PTL DEF Spec
=============================================================================
