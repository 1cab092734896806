-------------------------- MODULE SerialPortProofs --------------------------
(***************************************************************************)
(* The serial port under its two threads: requests end within their calls, *)
(* handles are closed once, and a reader reaches a foreign port only when  *)
(* its own session closes, for any number of players and handle values.    *)
(*                                                                         *)
(* What the runs check is not inductive: it does not say who may close a   *)
(* handle or drop the port next.  Each part below ties one piece of the    *)
(* shared state to where the two threads are.                              *)
(***************************************************************************)
EXTENDS SerialPort, TLAPS

(* An open handle is in exactly one of two places, the port between open   *)
(* and close or the device thread's local variable, and is of its own COM  *)
(* port there.                                                             *)
HandleInPlace ==
    /\ \A p \in Players :
          /\ port[p] # Invalid <=> dpc[p] \in {"open", "wait", "drain", "swap"}
          /\ dh[p] # Invalid <=> dpc[p] \in {"config", "cancel", "close"}
          /\ port[p] # Invalid => table[port[p]] = p
          /\ dh[p] # Invalid => table[dh[p]] = p
    /\ \A h \in Handles : table[h] # Free => h \in {port[table[h]], dh[table[h]]}

(* The Arcs: the device thread has its own from open to release, or a      *)
(* clone until it has joined the reader, the reader has one until it ends, *)
(* and the events live as long as one of them does.                        *)
ArcsHeld ==
    \A p \in Players :
        /\ "device" \in holders[p] => dpc[p] \notin {"closed", "config"}
        /\ "device" \notin holders[p] => dpc[p] \in {"closed", "config", "join"}
        /\ "reader" \in holders[p] <=> rpc[p] # "done"
        /\ events[p] <=> holders[p] # {}
        /\ rpc[p] # "done" => dpc[p] \notin {"closed", "config", "drop"}

(* A session is active until its owner closes it or its reader ends.       *)
ActiveWhile ==
    \A p \in Players :
        active[p] <=> rpc[p] # "done" /\ dpc[p] \in {"open", "wait", "drain"}

(* A live request has its thread waiting for it; a reader that has copied  *)
(* the handle has the port's, and reads from its own COM port, as long as  *)
(* the port is not closed.                                                 *)
RequestsWaited ==
    \A p \in Players :
        /\ Live(io[p]["read"]) => rpc[p] = "pending"
        /\ Live(io[p]["write"]) => dpc[p] \in {"wait", "drain"}
        /\ rpc[p] \in {"issue", "pending"} => rh[p] # Invalid
        /\ rpc[p] = "issue" /\ port[p] # Invalid => rh[p] = port[p]
        /\ Live(io[p]["read"]) /\ port[p] # Invalid => io[p]["read"].on = p

IndInv == TypeOK /\ HandleInPlace /\ ArcsHeld /\ ActiveWhile /\ RequestsWaited

LEMMA InitInv == Init => IndInv
BY HandlesAssumption
   DEF Init, IndInv, TypeOK, HandleInPlace, ArcsHeld, ActiveWhile, RequestsWaited,
       Kinds, Requests, NoRequest, Live

(* A request keeps its type and its file when its state changes.           *)
LEMMA SetState ==
    ASSUME NEW r \in Requests,
           NEW s \in {"none", "pending", "cancelled", "ok", "aborted"}
    PROVE  [r EXCEPT !.state = s] \in Requests /\ [r EXCEPT !.state = s].on = r.on
BY DEF Requests

(* Cancelling ends no request and moves none to another file.              *)
LEMMA CancelAllKeeps ==
    ASSUME NEW requests \in [Players -> [Kinds -> Requests]], NEW file
    PROVE  /\ CancelAll(requests, file) \in [Players -> [Kinds -> Requests]]
           /\ \A p \in Players, k \in Kinds :
                 /\ CancelAll(requests, file)[p][k].on = requests[p][k].on
                 /\ Live(CancelAll(requests, file)[p][k]) <=> Live(requests[p][k])
BY DEF CancelAll, Live, Requests

(* The device thread's release drops the port only when the port is closed *)
(* already, and so does the reader's: nothing is closed twice.             *)
LEMMA ReleaseKeepsHandles ==
    ASSUME IndInv, NEW p \in Players, NEW thread, NEW requests,
           \/ thread = "device" /\ dpc[p] \in {"release", "drop"}
           \/ thread = "reader" /\ rpc[p] # "done",
           Release(p, thread, requests)
    PROVE  /\ UNCHANGED <<table, port>> /\ io' = requests
           /\ holders' = [holders EXCEPT ![p] = @ \ {thread}]
           /\ events' \in [Players -> BOOLEAN]
           /\ \A q \in Players : events'[q] <=> holders'[q] # {}
<1> USE DEF IndInv, TypeOK
<1>1. holders[p] = {thread} => port[p] = Invalid
  BY DEF HandleInPlace, ArcsHeld
<1>2. UNCHANGED <<table, port>> /\ io' = requests
  BY <1>1 DEF Release
<1>3. /\ holders' = [holders EXCEPT ![p] = @ \ {thread}]
      /\ holders'[p] = holders[p] \ {thread}
      /\ thread \in holders[p]
  BY DEF Release, ArcsHeld
<1>4. events' \in [Players -> BOOLEAN]
  BY DEF Release
<1>5. ASSUME NEW q \in Players PROVE events'[q] <=> holders'[q] # {}
  <2>1. CASE holders[p] = {thread}
    BY <1>3, <2>1 DEF Release, ArcsHeld
  <2>2. CASE holders[p] # {thread}
    <3>1. holders'[p] # {} /\ events' = events
      BY <1>3, <2>2 DEF Release
    <3> QED
      BY <1>3, <3>1 DEF ArcsHeld
  <2> QED
    BY <2>1, <2>2
<1> QED
  BY <1>2, <1>3, <1>4, <1>5

(* Closing a file frees its handle and leaves the requests that live alive. *)
LEMMA CloseHandleKeeps ==
    ASSUME IndInv, NEW h \in Handles, CloseHandle(h, io)
    PROVE  /\ table' = [table EXCEPT ![h] = Free]
           /\ io' \in [Players -> [Kinds -> Requests]]
           /\ \A p \in Players, k \in Kinds :
                 io'[p][k].on = io[p][k].on /\ (Live(io'[p][k]) <=> Live(io[p][k]))
BY CancelAllKeeps DEF CloseHandle, IndInv, TypeOK

(* What the end of the reader changes.                                     *)
LEMMA ReaderEndsKeeps ==
    ASSUME IndInv, NEW p \in Players, rpc[p] # "done", ReaderEnds(p)
    PROVE  /\ UNCHANGED <<table, port, deviceVars>>
           /\ rpc' = [rpc EXCEPT ![p] = "done"]
           /\ rh' = [rh EXCEPT ![p] = Invalid]
           /\ active' = [active EXCEPT ![p] = FALSE]
           /\ holders' = [holders EXCEPT ![p] = @ \ {"reader"}]
           /\ events' \in [Players -> BOOLEAN]
           /\ \A q \in Players : events'[q] <=> holders'[q] # {}
           /\ io' = [io EXCEPT ![p]["read"] = NoRequest]
BY ReleaseKeepsHandles DEF ReaderEnds

LEMMA ReaderStepEnds ==
    ASSUME NEW p \in Players,
           ReaderLeaves(p) \/ ReadClosed(p) \/ ReadFileFails(p) \/ ReadFails(p)
    PROVE  rpc[p] # "done" /\ ReaderEnds(p)
BY DEF ReaderLeaves, ReadClosed, ReadFileFails, ReadFails

LEMMA TypeStep == IndInv /\ [Next]_vars => TypeOK'
<1> SUFFICES ASSUME IndInv, [Next]_vars PROVE TypeOK'
  OBVIOUS
<1> USE DEF TypeOK, DGoto, RGoto, portVars, deviceVars, readerVars
<1>1. ASSUME NEW p \in Players, CreateFile(p) PROVE TypeOK'
  BY <1>1 DEF IndInv, CreateFile
<1>2. ASSUME NEW p \in Players, Opened(p) PROVE TypeOK'
  BY <1>2 DEF IndInv, Opened
<1>3. ASSUME NEW p \in Players, ConfigFails(p) \/ CloseFile(p) PROVE TypeOK'
  <2>1. dh[p] \in Handles /\ CloseHandle(dh[p], io)
    BY <1>3 DEF IndInv, HandleInPlace, ConfigFails, CloseFile
  <2>2. table' \in [Handles -> Players \cup {Free}] /\ io' \in [Players -> [Kinds -> Requests]]
    BY <2>1, CloseHandleKeeps DEF IndInv
  <2> QED
    BY <1>3, <2>2 DEF IndInv, ConfigFails, CloseFile
<1>4. ASSUME NEW p \in Players,
             Write(p) \/ WriteWaited(p) \/ WriteTimeout(p) \/ WriteDrained(p)
      PROVE  TypeOK'
  <2>1. io' \in [Players -> [Kinds -> Requests]]
    <3>1. CASE Write(p)
      <4>1. table[port[p]] \in Players \cup {Free}
        BY <1>4, <3>1 DEF IndInv, HandleInPlace, Write
      <4> QED
        BY <3>1, <4>1 DEF IndInv, Write, Submit, Kinds, Requests
    <3>2. CASE WriteTimeout(p)
      BY <3>2 DEF IndInv, WriteTimeout, Kinds, Requests
    <3>3. CASE WriteWaited(p) \/ WriteDrained(p)
      BY <3>3 DEF IndInv, WriteWaited, WriteDrained, WriteEnds, Kinds, Requests, NoRequest
    <3> QED
      BY <1>4, <3>1, <3>2, <3>3
  <2>2. dpc' \in [Players -> {"closed", "config", "open", "wait", "drain", "swap",
                              "cancel", "close", "release", "join", "drop"}]
    BY <1>4 DEF IndInv, Write, WriteWaited, WriteTimeout, WriteDrained, WriteEnds
  <2> QED
    BY <1>4, <2>1, <2>2
       DEF IndInv, Write, WriteWaited, WriteTimeout, WriteDrained, WriteEnds
<1>5. ASSUME NEW p \in Players,
             SessionClose(p) \/ CloseSwap(p) \/ CloneStays(p) \/ Join(p)
      PROVE  TypeOK'
  <2>1. CASE SessionClose(p) \/ CloseSwap(p)
    BY <2>1 DEF IndInv, SessionClose, CloseSwap
  <2>2. CASE CloneStays(p)
    BY <2>2 DEF IndInv, CloneStays
  <2>3. CASE Join(p)
    BY <2>3 DEF IndInv, Join
  <2> QED
    BY <1>5, <2>1, <2>2, <2>3
<1>6. ASSUME NEW p \in Players, CloseCancel(p) PROVE TypeOK'
  BY <1>6, CancelAllKeeps DEF IndInv, CloseCancel
<1>7. ASSUME NEW p \in Players, DeviceRelease(p) \/ CloneRelease(p) PROVE TypeOK'
  <2>1. /\ UNCHANGED <<table, port, io, active, dh, rpc, rh>>
        /\ holders' = [holders EXCEPT ![p] = @ \ {"device"}]
        /\ events' \in [Players -> BOOLEAN]
    BY <1>7, ReleaseKeepsHandles DEF DeviceRelease, CloneRelease
  <2>2. dpc' = [dpc EXCEPT ![p] = "join"] \/ dpc' = [dpc EXCEPT ![p] = "closed"]
    BY <1>7 DEF DeviceRelease, CloneRelease
  <2> QED
    BY <2>1, <2>2 DEF IndInv
<1>8. ASSUME NEW p \in Players, ReaderCheck(p) \/ ReadLoad(p) \/ ReadFileEmpty(p)
      PROVE  TypeOK'
  BY <1>8 DEF IndInv, ReaderCheck, ReadLoad, ReadFileEmpty
<1>9. ASSUME NEW p \in Players, ReadFile(p) PROVE TypeOK'
  <2>1. table[rh[p]] \in Players \cup {Free}
    BY <1>9 DEF IndInv, RequestsWaited, ReadFile
  <2> QED
    BY <1>9, <2>1 DEF IndInv, ReadFile, Submit, Kinds, Requests
<1>10. ASSUME NEW p \in Players, ReadReturns(p) PROVE TypeOK'
  BY <1>10 DEF IndInv, ReadReturns, Kinds, Requests, NoRequest
<1>11. ASSUME NEW p \in Players,
              ReaderLeaves(p) \/ ReadClosed(p) \/ ReadFileFails(p) \/ ReadFails(p)
       PROVE  TypeOK'
  <2>1. io' \in [Players -> [Kinds -> Requests]]
    <3>1. io' = [io EXCEPT ![p]["read"] = NoRequest]
      BY <1>11, ReaderStepEnds, ReaderEndsKeeps
    <3> QED
      BY <3>1 DEF IndInv, Kinds, Requests, NoRequest
  <2>2. /\ UNCHANGED <<table, port, dpc, dh>>
        /\ rpc' = [rpc EXCEPT ![p] = "done"]
        /\ rh' = [rh EXCEPT ![p] = Invalid]
        /\ active' = [active EXCEPT ![p] = FALSE]
        /\ holders' = [holders EXCEPT ![p] = @ \ {"reader"}]
    BY <1>11, ReaderStepEnds, ReaderEndsKeeps
  <2>3. events' \in [Players -> BOOLEAN]
    BY <1>11, ReaderStepEnds, ReaderEndsKeeps
  <2>4. /\ active' \in [Players -> BOOLEAN]
        /\ holders' \in [Players -> SUBSET {"device", "reader"}]
        /\ rpc' \in [Players -> {"done", "check", "load", "issue", "pending"}]
        /\ rh' \in [Players -> Handles \cup {Invalid}]
    BY <2>2 DEF IndInv
  <2> QED
    BY <2>1, <2>2, <2>3, <2>4 DEF IndInv
<1>12. ASSUME NEW p \in Players, NEW k \in Kinds, Retire(p, k) PROVE TypeOK'
  <2>1. PICK s \in {"ok", "aborted"} : io' = [io EXCEPT ![p][k].state = s]
    BY <1>12 DEF Retire
  <2>2. [io[p][k] EXCEPT !.state = s] \in Requests
    <3>1. io[p][k] \in Requests
      BY DEF IndInv
    <3> QED
      BY <3>1, SetState, Zenon
  <2>3. io' \in [Players -> [Kinds -> Requests]]
    BY <2>1, <2>2 DEF IndInv
  <2> QED
    BY <1>12, <2>3 DEF IndInv, Retire
<1>13. CASE UNCHANGED vars
  BY <1>13 DEF IndInv, vars
<1> QED
  BY <1>1, <1>2, <1>3, <1>4, <1>5, <1>6, <1>7, <1>8, <1>9, <1>10, <1>11, <1>12, <1>13
     DEF Next, DeviceStep, ReaderStep

(* Steps of the reader, of a write and of the driver leave handles alone.  *)
LEMMA HandlesAlone ==
    ASSUME IndInv, NEW p \in Players,
           \/ Write(p) \/ WriteWaited(p) \/ WriteTimeout(p) \/ WriteDrained(p)
           \/ ReaderStep(p) \/ SessionClose(p)
           \/ (\E k \in Kinds : Retire(p, k))
    PROVE  UNCHANGED <<table, port, dh>>
<1> USE DEF portVars, deviceVars
<1>1. CASE \/ Write(p) \/ WriteWaited(p) \/ WriteTimeout(p) \/ WriteDrained(p)
           \/ SessionClose(p) \/ \E k \in Kinds : Retire(p, k)
  BY <1>1 DEF Write, WriteWaited, WriteTimeout, WriteDrained, WriteEnds, SessionClose, Retire
<1>2. CASE ReaderStep(p)
  <2>1. CASE ReaderLeaves(p) \/ ReadClosed(p) \/ ReadFileFails(p) \/ ReadFails(p)
    BY <2>1, ReaderStepEnds, ReaderEndsKeeps
  <2>2. CASE \/ ReaderCheck(p) \/ ReadLoad(p) \/ ReadFile(p) \/ ReadFileEmpty(p)
             \/ ReadReturns(p)
    BY <2>2 DEF ReaderCheck, ReadLoad, ReadFile, ReadFileEmpty, ReadReturns
  <2> QED
    BY <1>2, <2>1, <2>2 DEF ReaderStep
<1> QED
  BY <1>1, <1>2

LEMMA HandleStep == IndInv /\ [Next]_vars => HandleInPlace'
<1> SUFFICES ASSUME IndInv, [Next]_vars PROVE HandleInPlace'
  OBVIOUS
<1> USE HandlesAssumption DEF IndInv, TypeOK, HandleInPlace, DGoto, RGoto
<1>1. ASSUME NEW p \in Players, CreateFile(p) PROVE HandleInPlace'
  BY <1>1 DEF CreateFile
<1>2. ASSUME NEW p \in Players, Opened(p) PROVE HandleInPlace'
  BY <1>2 DEF Opened
<1>3. ASSUME NEW p \in Players, ConfigFails(p) \/ CloseFile(p) PROVE HandleInPlace'
  <2>1. table' = [table EXCEPT ![dh[p]] = Free]
    BY <1>3 DEF ConfigFails, CloseFile, CloseHandle
  <2> QED
    BY <1>3, <2>1 DEF ConfigFails, CloseFile
<1>4. ASSUME NEW p \in Players, CloseSwap(p) PROVE HandleInPlace'
  BY <1>4 DEF CloseSwap
<1>5. ASSUME NEW p \in Players, CloseCancel(p) \/ CloneStays(p) \/ Join(p)
      PROVE  HandleInPlace'
  BY <1>5 DEF CloseCancel, CloneStays, Join, portVars
<1>6. ASSUME NEW p \in Players, DeviceRelease(p) \/ CloneRelease(p) PROVE HandleInPlace'
  BY <1>6, ReleaseKeepsHandles DEF DeviceRelease, CloneRelease
<1>7. ASSUME NEW p \in Players,
             \/ Write(p) \/ WriteWaited(p) \/ WriteTimeout(p) \/ WriteDrained(p)
             \/ SessionClose(p)
      PROVE  HandleInPlace'
  <2>1. UNCHANGED <<table, port, dh>>
    BY <1>7, HandlesAlone
  <2>2. \A q \in Players :
           /\ dpc'[q] \in {"open", "wait", "drain", "swap"}
                <=> dpc[q] \in {"open", "wait", "drain", "swap"}
           /\ dpc'[q] \in {"config", "cancel", "close"}
                <=> dpc[q] \in {"config", "cancel", "close"}
    BY <1>7 DEF Write, WriteWaited, WriteTimeout, WriteDrained, WriteEnds, SessionClose
  <2> QED
    BY <2>1, <2>2
<1>8. ASSUME NEW p \in Players, ReaderStep(p) \/ \E k \in Kinds : Retire(p, k)
      PROVE  HandleInPlace'
  <2>1. UNCHANGED <<table, port, dh>>
    BY <1>8, HandlesAlone
  <2>2. dpc' = dpc
    <3>1. CASE ReaderLeaves(p) \/ ReadClosed(p) \/ ReadFileFails(p) \/ ReadFails(p)
      BY <3>1, ReaderStepEnds, ReaderEndsKeeps DEF deviceVars
    <3> QED
      BY <1>8, <3>1 DEF ReaderStep, ReaderCheck, ReadLoad, ReadFile, ReadFileEmpty,
                        ReadReturns, Retire, deviceVars
  <2> QED
    BY <2>1, <2>2
<1>9. CASE UNCHANGED vars
  BY <1>9 DEF vars, portVars, deviceVars
<1> QED
  BY <1>1, <1>2, <1>3, <1>4, <1>5, <1>6, <1>7, <1>8, <1>9 DEF Next, DeviceStep

LEMMA ArcsStep == IndInv /\ [Next]_vars => ArcsHeld' /\ ActiveWhile'
<1> SUFFICES ASSUME IndInv, [Next]_vars PROVE ArcsHeld' /\ ActiveWhile'
  OBVIOUS
<1> USE DEF IndInv, TypeOK, ArcsHeld, ActiveWhile, DGoto, RGoto,
            portVars, deviceVars, readerVars
<1>1. ASSUME NEW p \in Players,
             CreateFile(p) \/ ConfigFails(p) \/ CloseSwap(p) \/ CloseCancel(p) \/ CloseFile(p)
      PROVE  ArcsHeld' /\ ActiveWhile'
  <2>1. UNCHANGED <<holders, events, active, rpc>>
    BY <1>1 DEF CreateFile, ConfigFails, CloseSwap, CloseCancel, CloseFile
  <2>2. PICK to \in {"closed", "config", "cancel", "close", "release"} :
           /\ dpc' = [dpc EXCEPT ![p] = to]
           /\ dpc[p] \in {"closed", "config"} <=> to \in {"closed", "config"}
           /\ dpc[p] \notin {"open", "wait", "drain", "join", "drop"}
    BY <1>1 DEF CreateFile, ConfigFails, CloseSwap, CloseCancel, CloseFile
  <2> QED
    BY <2>1, <2>2
<1>2. ASSUME NEW p \in Players, Opened(p) PROVE ArcsHeld' /\ ActiveWhile'
  BY <1>2 DEF Opened
<1>3. ASSUME NEW p \in Players,
             Write(p) \/ WriteWaited(p) \/ WriteTimeout(p) \/ WriteDrained(p)
      PROVE  ArcsHeld' /\ ActiveWhile'
  <2>1. UNCHANGED <<holders, events, active, rpc>>
    BY <1>3 DEF Write, WriteWaited, WriteTimeout, WriteDrained, WriteEnds
  <2>2. PICK to \in {"open", "wait", "drain"} :
           dpc' = [dpc EXCEPT ![p] = to] /\ dpc[p] \in {"open", "wait", "drain"}
    BY <1>3 DEF Write, WriteWaited, WriteTimeout, WriteDrained, WriteEnds
  <2> QED
    BY <2>1, <2>2
<1>4. ASSUME NEW p \in Players, SessionClose(p) \/ CloneStays(p) \/ Join(p)
      PROVE  ArcsHeld' /\ ActiveWhile'
  <2>1. CASE SessionClose(p)
    BY <2>1 DEF SessionClose
  <2>2. CASE Join(p)
    BY <2>2 DEF Join
  <2>3. CASE CloneStays(p)
    BY <2>3 DEF CloneStays
  <2> QED
    BY <1>4, <2>1, <2>2, <2>3
<1>5. ASSUME NEW p \in Players, DeviceRelease(p) \/ CloneRelease(p)
      PROVE  ArcsHeld' /\ ActiveWhile'
  <2>1. /\ holders' = [holders EXCEPT ![p] = @ \ {"device"}]
        /\ \A q \in Players : events'[q] <=> holders'[q] # {}
    BY <1>5, ReleaseKeepsHandles DEF DeviceRelease, CloneRelease
  <2> QED
    BY <1>5, <2>1 DEF DeviceRelease, CloneRelease
<1>6. ASSUME NEW p \in Players,
             \/ ReaderCheck(p) \/ ReadLoad(p) \/ ReadFile(p) \/ ReadFileEmpty(p)
             \/ ReadReturns(p)
      PROVE  ArcsHeld' /\ ActiveWhile'
  BY <1>6 DEF ReaderCheck, ReadLoad, ReadFile, ReadFileEmpty, ReadReturns
<1>7. ASSUME NEW p \in Players,
             ReaderLeaves(p) \/ ReadClosed(p) \/ ReadFileFails(p) \/ ReadFails(p)
      PROVE  ArcsHeld' /\ ActiveWhile'
  <2>1. /\ rpc' = [rpc EXCEPT ![p] = "done"] /\ dpc' = dpc
        /\ active' = [active EXCEPT ![p] = FALSE]
        /\ holders' = [holders EXCEPT ![p] = @ \ {"reader"}]
        /\ \A q \in Players : events'[q] <=> holders'[q] # {}
    BY <1>7, ReaderStepEnds, ReaderEndsKeeps
  <2> QED
    BY <2>1
<1>8. ASSUME NEW p \in Players, NEW k \in Kinds, Retire(p, k)
      PROVE  ArcsHeld' /\ ActiveWhile'
  BY <1>8 DEF Retire
<1>9. CASE UNCHANGED vars
  BY <1>9 DEF vars
<1> QED
  BY <1>1, <1>2, <1>3, <1>4, <1>5, <1>6, <1>7, <1>8, <1>9
     DEF Next, DeviceStep, ReaderStep

(* Retiring a request leaves every other one, and the file of each.        *)
LEMMA RetireKeeps ==
    ASSUME IndInv, NEW p \in Players, NEW k \in Kinds, Retire(p, k)
    PROVE  \A q \in Players, j \in Kinds :
              io'[q][j].on = io[q][j].on /\ (Live(io'[q][j]) => Live(io[q][j]))
<1>1. PICK s \in {"ok", "aborted"} : io' = [io EXCEPT ![p][k].state = s]
  BY DEF Retire
<1>2. io \in [Players -> [Kinds -> Requests]] /\ Live(io[p][k])
  BY DEF Retire, IndInv, TypeOK
<1>3. [io[p][k] EXCEPT !.state = s].on = io[p][k].on
  <2>1. io[p][k] \in Requests
    BY <1>2
  <2> QED
    BY <2>1, SetState, Zenon
<1> SUFFICES ASSUME NEW q \in Players, NEW j \in Kinds
             PROVE  io'[q][j].on = io[q][j].on /\ (Live(io'[q][j]) => Live(io[q][j]))
  OBVIOUS
<1>4. CASE q = p /\ j = k
  BY <1>1, <1>2, <1>3, <1>4
<1>5. CASE ~ (q = p /\ j = k)
  BY <1>1, <1>2, <1>5
<1> QED
  BY <1>4, <1>5

LEMMA RequestStep == IndInv /\ [Next]_vars => RequestsWaited'
<1> SUFFICES ASSUME IndInv, [Next]_vars PROVE RequestsWaited'
  OBVIOUS
<1> USE DEF IndInv, TypeOK, RequestsWaited, DGoto, RGoto, portVars, deviceVars,
            readerVars, Kinds
<1>1. ASSUME NEW p \in Players,
             CreateFile(p) \/ SessionClose(p) \/ CloneStays(p) \/ Join(p)
      PROVE  RequestsWaited'
  BY <1>1 DEF CreateFile, SessionClose, CloneStays, Join
<1>2. ASSUME NEW p \in Players, Opened(p) PROVE RequestsWaited'
  BY <1>2, HandlesAssumption DEF Opened, ArcsHeld
<1>3. ASSUME NEW p \in Players, CloseSwap(p) PROVE RequestsWaited'
  BY <1>3 DEF CloseSwap
<1>4. ASSUME NEW p \in Players, ConfigFails(p) \/ CloseFile(p) PROVE RequestsWaited'
  <2>1. dh[p] \in Handles /\ CloseHandle(dh[p], io)
    BY <1>4 DEF HandleInPlace, ConfigFails, CloseFile
  <2>2. \A q \in Players, k \in Kinds :
           io'[q][k].on = io[q][k].on /\ (Live(io'[q][k]) <=> Live(io[q][k]))
    BY <2>1, CloseHandleKeeps
  <2> QED
    BY <1>4, <2>2 DEF ConfigFails, CloseFile
<1>5. ASSUME NEW p \in Players, CloseCancel(p) PROVE RequestsWaited'
  <2>1. \A q \in Players, k \in Kinds :
           io'[q][k].on = io[q][k].on /\ (Live(io'[q][k]) <=> Live(io[q][k]))
    BY <1>5, CancelAllKeeps DEF CloseCancel
  <2> QED
    BY <1>5, <2>1 DEF CloseCancel
<1>6. ASSUME NEW p \in Players, DeviceRelease(p) \/ CloneRelease(p) PROVE RequestsWaited'
  <2>1. UNCHANGED <<table, port, io, rpc, rh>>
    BY <1>6, ReleaseKeepsHandles DEF DeviceRelease, CloneRelease
  <2>2. dpc[p] \in {"release", "drop"} /\ \A q \in Players : q # p => dpc'[q] = dpc[q]
    BY <1>6 DEF DeviceRelease, CloneRelease
  <2> QED
    BY <2>1, <2>2
<1>7. ASSUME NEW p \in Players, Write(p) PROVE RequestsWaited'
  BY <1>7 DEF Write, Submit
<1>8. ASSUME NEW p \in Players, WriteWaited(p) \/ WriteDrained(p) PROVE RequestsWaited'
  <2>1. /\ io' = [io EXCEPT ![p]["write"] = NoRequest] /\ UNCHANGED <<port, rpc, rh>>
        /\ dpc' = [dpc EXCEPT ![p] = "open"]
    BY <1>8 DEF WriteWaited, WriteDrained, WriteEnds
  <2>2. ~ Live(io'[p]["write"])
    BY <2>1 DEF NoRequest, Live
  <2>3. \A q \in Players : /\ io'[q]["read"] = io[q]["read"]
                           /\ q # p => io'[q] = io[q] /\ dpc'[q] = dpc[q]
    BY <2>1
  <2> QED
    BY <2>1, <2>2, <2>3
<1>9. ASSUME NEW p \in Players, WriteTimeout(p) PROVE RequestsWaited'
  BY <1>9 DEF WriteTimeout
<1>10. ASSUME NEW p \in Players, ReaderCheck(p) \/ ReadLoad(p) \/ ReadFileEmpty(p)
       PROVE  RequestsWaited'
  BY <1>10 DEF ReaderCheck, ReadLoad, ReadFileEmpty
<1>11. ASSUME NEW p \in Players, ReadFile(p) PROVE RequestsWaited'
  BY <1>11 DEF ReadFile, Submit, HandleInPlace
<1>12. ASSUME NEW p \in Players, ReadReturns(p) PROVE RequestsWaited'
  BY <1>12 DEF ReadReturns, NoRequest, Live
<1>13. ASSUME NEW p \in Players,
              ReaderLeaves(p) \/ ReadClosed(p) \/ ReadFileFails(p) \/ ReadFails(p)
       PROVE  RequestsWaited'
  <2>1. /\ UNCHANGED <<port, dpc>>
        /\ rpc' = [rpc EXCEPT ![p] = "done"] /\ rh' = [rh EXCEPT ![p] = Invalid]
        /\ io' = [io EXCEPT ![p]["read"] = NoRequest]
    BY <1>13, ReaderStepEnds, ReaderEndsKeeps
  <2> QED
    BY <2>1 DEF NoRequest, Live
<1>14. ASSUME NEW p \in Players, NEW k \in Kinds, Retire(p, k) PROVE RequestsWaited'
  BY <1>14, RetireKeeps DEF Retire
<1>15. CASE UNCHANGED vars
  BY <1>15 DEF vars
<1> QED
  BY <1>1, <1>2, <1>3, <1>4, <1>5, <1>6, <1>7, <1>8, <1>9, <1>10, <1>11, <1>12, <1>13,
     <1>14, <1>15 DEF Next, DeviceStep, ReaderStep

LEMMA InvStep == IndInv /\ [Next]_vars => IndInv'
BY TypeStep, HandleStep, ArcsStep, RequestStep DEF IndInv

LEMMA Invariant == Spec => []IndInv
BY InitInv, InvStep, PTL DEF Spec

(* No request outlives the call that owns its OVERLAPPED, and its event is *)
(* open as long as it lives, whoever drops the port.                       *)
THEOREM RequestsEndInTheirCall == Spec => []IoInCall
<1>1. IndInv => IoInCall
  BY DEF IndInv, RequestsWaited, ArcsHeld, IoInCall
<1> QED
  BY <1>1, Invariant, PTL

(* No handle is closed twice, used for the wrong port, or leaked by an     *)
(* open that fails half way.                                               *)
THEOREM HandlesAreMatched == Spec => []HandlesMatch
<1>1. IndInv => HandlesMatch
  BY DEF IndInv, HandleInPlace, HandlesMatch
<1> QED
  BY <1>1, Invariant, PTL

(* A reader reaches the other player's port by a handle value used again   *)
(* only while its own session closes.                                      *)
THEOREM ForeignReadsOnlyClosing == Spec => []ForeignReadOnlyWhenClosing
<1>1. IndInv => ForeignReadOnlyWhenClosing
  BY DEF IndInv, HandleInPlace, ActiveWhile, RequestsWaited, ForeignReadOnlyWhenClosing
<1> QED
  BY <1>1, Invariant, PTL
=============================================================================
