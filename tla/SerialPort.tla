----------------------------- MODULE SerialPort -----------------------------
(***************************************************************************)
(* crates/affine-core/src/serial.rs under the two threads that share one   *)
(* port: a player's device thread opens it, writes to it and closes it,    *)
(* the reader thread of its SerialSession (affine-mai2) reads from it.     *)
(* Both players' ports live in one process, whose handle values are used   *)
(* again once closed.  The kernel's side of overlapped I/O is external: a  *)
(* request stays with the driver until it is retired, cancelling only asks *)
(* for that, and closing a file cancels what is left on it.                *)
(*                                                                         *)
(* The read and write states' mutexes are taken by one thread each and are *)
(* left out, and so are the bytes.  The event handles are never touched    *)
(* but under those mutexes and by Drop, so only their life is modelled.    *)
(***************************************************************************)
CONSTANTS
    Players,      \* players, each with a board on a COM port
    Handles,      \* handle values of the process
    Free,         \* a value that is no open handle
    Invalid       \* INVALID_HANDLE_VALUE

ASSUME HandlesAssumption == Free \notin Players /\ Invalid \notin Handles

Kinds == {"read", "write"}

VARIABLES
    table,        \* whose COM port an open handle value refers to
    port,         \* SerialPort.handle
    events,       \* the port's two event handles are open
    active,       \* SerialSession.active
    holders,      \* the threads with an Arc of the session
    dpc, dh,      \* the device thread: where it is, and its local handle
    rpc, rh,      \* the reader thread
    io            \* the port's overlapped requests

portVars == <<table, port, events, active, holders>>
deviceVars == <<dpc, dh>>
readerVars == <<rpc, rh>>
vars == <<portVars, deviceVars, readerVars, io>>

NoRequest == [on |-> Free, state |-> "none"]
Requests == [on : Players \cup {Free},
             state : {"none", "pending", "cancelled", "ok", "aborted"}]

Live(request) == request.state \in {"pending", "cancelled"}

TypeOK ==
    /\ table \in [Handles -> Players \cup {Free}]
    /\ port \in [Players -> Handles \cup {Invalid}]
    /\ events \in [Players -> BOOLEAN] /\ active \in [Players -> BOOLEAN]
    /\ holders \in [Players -> SUBSET {"device", "reader"}]
    /\ dpc \in [Players -> {"closed", "config", "open", "wait", "drain", "swap",
                            "cancel", "close", "release", "join", "drop"}]
    /\ dh \in [Players -> Handles \cup {Invalid}]
    /\ rpc \in [Players -> {"done", "check", "load", "issue", "pending"}]
    /\ rh \in [Players -> Handles \cup {Invalid}]
    /\ io \in [Players -> [Kinds -> Requests]]

Init ==
    /\ table = [h \in Handles |-> Free]
    /\ port = [p \in Players |-> Invalid]
    /\ events = [p \in Players |-> FALSE] /\ active = [p \in Players |-> FALSE]
    /\ holders = [p \in Players |-> {}]
    /\ dpc = [p \in Players |-> "closed"] /\ dh = [p \in Players |-> Invalid]
    /\ rpc = [p \in Players |-> "done"] /\ rh = [p \in Players |-> Invalid]
    /\ io = [p \in Players |-> [k \in Kinds |-> NoRequest]]

DGoto(p, from, to) == dpc[p] = from /\ dpc' = [dpc EXCEPT ![p] = to]
RGoto(p, from, to) == rpc[p] = from /\ rpc' = [rpc EXCEPT ![p] = to]

----------------------------------------------------------------------------
(* The kernel (external).                                                  *)

(* Every live request on the file is to be cancelled.                      *)
CancelAll(requests, file) ==
    [p \in Players |-> [k \in Kinds |->
        IF requests[p][k].on = file /\ Live(requests[p][k])
        THEN [requests[p][k] EXCEPT !.state = "cancelled"] ELSE requests[p][k]]]

CloseHandle(h, requests) ==
    /\ table' = [table EXCEPT ![h] = Free]
    /\ io' = CancelAll(requests, table[h])

Submit(p, k, h) == io' = [io EXCEPT ![p][k] = [on |-> table[h], state |-> "pending"]]

(* The driver is done with a request: it completed, also by its timeout,   *)
(* or it failed or was cancelled.                                          *)
Retire(p, k) ==
    /\ Live(io[p][k])
    /\ \E s \in {"ok", "aborted"} : io' = [io EXCEPT ![p][k].state = s]
    /\ UNCHANGED <<portVars, deviceVars, readerVars>>

----------------------------------------------------------------------------
(* The device thread: open, set_timeouts and the session.                  *)

(* open finds no handle of its own to close: the port is a new one.        *)
CreateFile(p) ==
    /\ DGoto(p, "closed", "config")
    /\ \E h \in Handles :
          /\ table[h] = Free
          /\ table' = [table EXCEPT ![h] = p]
          /\ dh' = [dh EXCEPT ![p] = h]
    /\ UNCHANGED <<port, events, active, holders, readerVars, io>>

(* Faulty variant: the handle of a port that cannot be set up is not       *)
(* closed.                                                                 *)
ConfigFailsOpen(p) ==
    /\ DGoto(p, "config", "closed")
    /\ dh' = [dh EXCEPT ![p] = Invalid]
    /\ UNCHANGED <<portVars, readerVars, io>>

(* An event, GetCommState, SetCommState or SetCommTimeouts fails; the port *)
(* is dropped with the events it got.                                      *)
ConfigFails(p) ==
    /\ DGoto(p, "config", "closed")
    /\ CloseHandle(dh[p], io)
    /\ dh' = [dh EXCEPT ![p] = Invalid]
    /\ UNCHANGED <<port, events, active, holders, readerVars>>

Opened(p) ==
    /\ DGoto(p, "config", "open")
    /\ port' = [port EXCEPT ![p] = dh[p]]
    /\ dh' = [dh EXCEPT ![p] = Invalid]
    /\ events' = [events EXCEPT ![p] = TRUE]
    /\ active' = [active EXCEPT ![p] = TRUE]
    /\ holders' = [holders EXCEPT ![p] = {"device", "reader"}]
    /\ rpc' = [rpc EXCEPT ![p] = "check"]
    /\ UNCHANGED <<table, rh, io>>

(* write: nobody but this thread closes the port.  A write that ends at    *)
(* once, well or not, changes nothing.                                     *)
Write(p) ==
    /\ active[p]
    /\ DGoto(p, "open", "wait")
    /\ Submit(p, "write", port[p])
    /\ UNCHANGED <<portVars, dh, readerVars>>

WriteEnds(p, from) ==
    /\ DGoto(p, from, "open")
    /\ ~ Live(io[p]["write"])
    /\ io' = [io EXCEPT ![p]["write"] = NoRequest]
    /\ UNCHANGED <<portVars, dh, readerVars>>

WriteWaited(p) == WriteEnds(p, "wait")

(* Faulty variant: the wait gives up and the write returns.                *)
WriteTimeoutReturns(p) ==
    /\ DGoto(p, "wait", "open")
    /\ Live(io[p]["write"])
    /\ io' = [io EXCEPT ![p]["write"].state = "cancelled"]
    /\ UNCHANGED <<portVars, dh, readerVars>>

(* Faulty variant: ... or waits on without cancelling.                     *)
WriteTimeoutWaits(p) ==
    /\ DGoto(p, "wait", "drain")
    /\ Live(io[p]["write"])
    /\ UNCHANGED <<portVars, dh, readerVars, io>>

(* OVERLAPPED_WRITE_TIMEOUT_MS is over: CancelIoEx on this request ...     *)
WriteTimeout(p) ==
    /\ DGoto(p, "wait", "drain")
    /\ Live(io[p]["write"])
    /\ io' = [io EXCEPT ![p]["write"].state = "cancelled"]
    /\ UNCHANGED <<portVars, dh, readerVars>>

(* ... and GetOverlappedResult until it is retired.                        *)
WriteDrained(p) == WriteEnds(p, "drain")

----------------------------------------------------------------------------
(* The device thread: disconnect_session.                                  *)

(* Faulty variant: the session stays active until the port is closed.      *)
SessionCloseLate(p) ==
    /\ DGoto(p, "open", "swap")
    /\ UNCHANGED <<portVars, dh, readerVars, io>>

SessionClose(p) ==
    /\ DGoto(p, "open", "swap")
    /\ active' = [active EXCEPT ![p] = FALSE]
    /\ UNCHANGED <<table, port, events, holders, dh, readerVars, io>>

(* Faulty variant: close loads the handle and leaves it there.             *)
CloseLoad(p) ==
    /\ dh' = [dh EXCEPT ![p] = port[p]]
    /\ DGoto(p, "swap", "cancel")
    /\ UNCHANGED <<portVars, readerVars, io>>

CloseSwap(p) ==
    /\ dh' = [dh EXCEPT ![p] = port[p]]
    /\ port' = [port EXCEPT ![p] = Invalid]
    /\ DGoto(p, "swap", "cancel")
    /\ UNCHANGED <<table, events, active, holders, readerVars, io>>

CloseCancel(p) ==
    /\ DGoto(p, "cancel", "close")
    /\ io' = CancelAll(io, table[dh[p]])
    /\ UNCHANGED <<portVars, dh, readerVars>>

CloseFile(p) ==
    /\ DGoto(p, "close", "release")
    /\ CloseHandle(dh[p], io)
    /\ dh' = [dh EXCEPT ![p] = Invalid]
    /\ UNCHANGED <<port, events, active, holders, readerVars>>

(* An Arc of the session goes.  With the last one the port is dropped: it  *)
(* is closed once more, and the events are closed.                         *)
Release(p, thread, requests) ==
    /\ holders' = [holders EXCEPT ![p] = @ \ {thread}]
    /\ IF holders[p] = {thread}
       THEN /\ events' = [events EXCEPT ![p] = FALSE]
            /\ IF port[p] = Invalid
               THEN table' = table /\ io' = requests
               ELSE CloseHandle(port[p], requests)
            /\ port' = [port EXCEPT ![p] = Invalid]
       ELSE io' = requests /\ UNCHANGED <<table, port, events>>

(* disconnect_session at the top of the loop drops the only Arc ...        *)
DeviceRelease(p) ==
    /\ DGoto(p, "release", "join")
    /\ Release(p, "device", io)
    /\ UNCHANGED <<active, dh, readerVars>>

(* ... while further down active_session still holds a clone, which lives  *)
(* until the iteration ends.                                               *)
CloneStays(p) ==
    /\ DGoto(p, "release", "join")
    /\ UNCHANGED <<portVars, dh, readerVars, io>>

Join(p) ==
    /\ rpc[p] = "done"
    /\ DGoto(p, "join", IF "device" \in holders[p] THEN "drop" ELSE "closed")
    /\ UNCHANGED <<portVars, dh, readerVars, io>>

CloneRelease(p) ==
    /\ DGoto(p, "drop", "closed")
    /\ Release(p, "device", io)
    /\ UNCHANGED <<active, dh, readerVars>>

DeviceStep(p) ==
    \/ ConfigFails(p) \/ Opened(p) \/ WriteWaited(p) \/ WriteTimeout(p)
    \/ WriteDrained(p) \/ CloseSwap(p) \/ CloseCancel(p) \/ CloseFile(p)
    \/ DeviceRelease(p) \/ CloneStays(p) \/ Join(p) \/ CloneRelease(p)

----------------------------------------------------------------------------
(* The reader thread.                                                      *)

(* The thread ends; a failed read has also ended the session.              *)
ReaderEnds(p) ==
    /\ rpc' = [rpc EXCEPT ![p] = "done"]
    /\ rh' = [rh EXCEPT ![p] = Invalid]
    /\ active' = [active EXCEPT ![p] = FALSE]
    /\ Release(p, "reader", [io EXCEPT ![p]["read"] = NoRequest])
    /\ UNCHANGED deviceVars

ReaderCheck(p) ==
    /\ active[p]
    /\ RGoto(p, "check", "load")
    /\ UNCHANGED <<portVars, deviceVars, rh, io>>

ReaderLeaves(p) ==
    /\ rpc[p] = "check" /\ ~ active[p]
    /\ ReaderEnds(p)

ReadLoad(p) ==
    /\ port[p] # Invalid
    /\ RGoto(p, "load", "issue")
    /\ rh' = [rh EXCEPT ![p] = port[p]]
    /\ UNCHANGED <<portVars, deviceVars, io>>

ReadClosed(p) ==
    /\ rpc[p] = "load" /\ port[p] = Invalid
    /\ ReaderEnds(p)

(* ReadFile on whatever the handle value refers to by now.                 *)
ReadFile(p) ==
    /\ RGoto(p, "issue", "pending")
    /\ table[rh[p]] # Free
    /\ Submit(p, "read", rh[p])
    /\ UNCHANGED <<portVars, deviceVars, rh>>

(* It fails at once, as on a handle that is closed (ERROR_INVALID_HANDLE). *)
ReadFileFails(p) ==
    /\ rpc[p] = "issue"
    /\ ReaderEnds(p)

(* ... or in a way that read takes for no bytes.                           *)
ReadFileEmpty(p) ==
    /\ RGoto(p, "issue", "check")
    /\ table[rh[p]] # Free
    /\ rh' = [rh EXCEPT ![p] = Invalid]
    /\ UNCHANGED <<portVars, deviceVars, io>>

(* GetOverlappedResult has waited: bytes, none, or an error that is taken  *)
(* for none ...                                                            *)
ReadReturns(p) ==
    /\ io[p]["read"].state = "ok"
    /\ RGoto(p, "pending", "check")
    /\ io' = [io EXCEPT ![p]["read"] = NoRequest]
    /\ rh' = [rh EXCEPT ![p] = Invalid]
    /\ UNCHANGED <<portVars, deviceVars>>

(* ... or one that ends the session.                                       *)
ReadFails(p) ==
    /\ rpc[p] = "pending" /\ io[p]["read"].state = "aborted"
    /\ ReaderEnds(p)

ReaderStep(p) ==
    \/ ReaderCheck(p) \/ ReaderLeaves(p) \/ ReadLoad(p) \/ ReadClosed(p)
    \/ ReadFile(p) \/ ReadFileFails(p) \/ ReadFileEmpty(p)
    \/ ReadReturns(p) \/ ReadFails(p)

----------------------------------------------------------------------------
Next ==
    \E p \in Players :
        \/ CreateFile(p) \/ Write(p) \/ SessionClose(p) \/ DeviceStep(p)
        \/ ReaderStep(p)
        \/ \E k \in Kinds : Retire(p, k)

(* Threads run, and a timed wait ends.  The driver ends every read (the    *)
(* session sets a timeout of a millisecond) and whatever is cancelled; a   *)
(* write it may keep as long as it likes.                                  *)
Fairness ==
    \A p \in Players :
        /\ WF_vars(DeviceStep(p)) /\ WF_vars(ReaderStep(p))
        /\ WF_vars(Retire(p, "read"))
        /\ WF_vars(io[p]["write"].state = "cancelled" /\ Retire(p, "write"))

Spec == Init /\ [][Next]_vars /\ Fairness

----------------------------------------------------------------------------
(* Properties.                                                             *)

(* No request outlives the call that owns its OVERLAPPED and its buffer,   *)
(* whichever thread closes or drops the port meanwhile (the comment in     *)
(* wait_overlapped), and its event is open as long as the request lives.   *)
IoInCall ==
    \A p \in Players :
        /\ Live(io[p]["read"]) => rpc[p] = "pending" /\ events[p]
        /\ Live(io[p]["write"]) => dpc[p] \in {"wait", "drain"} /\ events[p]

(* A port's handle is that of its own COM port, and an open COM port is    *)
(* the handle of its port or of the open or close in progress: close and   *)
(* Drop never close a handle value twice (it may be the other player's by  *)
(* then), and an open that fails half way leaks nothing.                   *)
HandlesMatch ==
    /\ \A p \in Players : port[p] # Invalid => table[port[p]] = p
    /\ \A h \in Handles : table[h] # Free => h \in {port[table[h]], dh[table[h]]}

(* read copies the handle before it uses it, so it can reach the other     *)
(* player's port by a handle value used again; that happens to a session   *)
(* that is closing only, whose reader reads once more at most.             *)
ForeignReadOnlyWhenClosing ==
    \A p \in Players :
        Live(io[p]["read"]) /\ io[p]["read"].on # p => ~ active[p] /\ dpc[p] # "open"

(* The device thread is never stuck in a write or in joining its reader.   *)
DeviceReturns ==
    \A p \in Players :
        dpc[p] \in {"wait", "drain", "join"} ~> dpc[p] \in {"open", "closed"}
=============================================================================
