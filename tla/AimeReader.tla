----------------------------- MODULE AimeReader -----------------------------
(***************************************************************************)
(* The card reader (crates/affine-aime/src/lib.rs): one Reader behind a    *)
(* mutex, whose transact writes a command to the board and takes the next  *)
(* frame it reads as the answer, without a deadline and without comparing  *)
(* the sequence number it sent.  The game may call from several threads.   *)
(*                                                                         *)
(* Calls that return before the lock is taken (unit_no, buffer lengths)    *)
(* change nothing and are left out.  The commands without a card cache of  *)
(* their own (mifare_select, mifare_set_key, mifare_authenticate,          *)
(* mifare_read_block, felica_transact, send_hex_data, radio_on, radio_off, *)
(* to_update_mode, led_set_color) differ in the bytes they copy only and   *)
(* are the one operation "command".  An answer is its sequence number and  *)
(* what poll makes of its payload; the HRESULTs and the bytes returned to  *)
(* the game are left out.                                                  *)
(*                                                                         *)
(* A call may end while its command is still on the wire, and a process    *)
(* may be killed while one is: opening the port purges nothing, so the     *)
(* answer is there for a later call.  leftBehind follows such messages.    *)
(***************************************************************************)
EXTENDS Naturals, Sequences

CONSTANTS
    Threads,      \* threads of the game that call the reader
    Nobody,       \* the mutex is free
    Mifare,       \* cards by kind
    Felica,
    NoCard,       \* CachedCard::None, and an empty field
    SeqMod,       \* the sequence number wraps here (256 in the code)
    MaxPending    \* bound: commands and answers on the wire, of which all
                  \* but one may be left behind

ASSUME ThreadsAssumption == Nobody \notin Threads
ASSUME CardsAssumption == NoCard \notin Mifare \cup Felica /\ Mifare \cap Felica = {}
ASSUME SeqAssumption == SeqMod \in Nat \ {0} /\ MaxPending \in Nat \ {0}

Cards == Mifare \cup Felica
Ops == {"init", "poll", "get_aime_id", "get_card_id", "command"}

(* "other": the answer to another command, which is no card for poll.      *)
Payloads == Cards \cup {NoCard, "other"}
Answers == [seq : 0..(SeqMod - 1), payload : Payloads]
Commands == [seq : 0..(SeqMod - 1), poll : BOOLEAN]

VARIABLES
    lock,         \* who holds AIME_READER
    pc, op,       \* where each thread is, and in which call
    left,         \* commands init still has to send
    open,         \* Reader.port is open
    dead,         \* ... on a board that has gone away since
    seq,          \* Reader.seq
    initialized,  \* Reader.initialized
    card,         \* Reader.card
    plugged,      \* the board is there
    field,        \* the card held to it
    inbox,        \* commands the board has received and not yet answered
    outbox,       \* its answers not yet read
    saw,          \* history: the field when the board last answered a poll
    truth,        \* history: ... for the last poll that got an answer
    leftBehind,   \* history: a command that nobody waits for any more was put
                  \* or left on the wire, which has not been clear since
    doubtful      \* history: ... when the last poll took its answer

callVars == <<lock, pc, op, left>>
portVars == <<open, dead, seq>>
cacheVars == <<initialized, card>>
boardVars == <<plugged, field, inbox, outbox>>
histVars == <<saw, truth, leftBehind, doubtful>>
vars == <<callVars, portVars, cacheVars, boardVars, histVars>>

(* The state has its type.                                                 *)
TypeOK ==
    /\ lock \in Threads \cup {Nobody}
    /\ pc \in [Threads -> {"idle", "begin", "connect", "write", "read"}]
    /\ op \in [Threads -> Ops \cup {"none"}] /\ left \in [Threads -> 0..3]
    /\ open \in BOOLEAN /\ dead \in BOOLEAN /\ seq \in 0..(SeqMod - 1)
    /\ initialized \in BOOLEAN /\ card \in Cards \cup {NoCard}
    /\ plugged \in BOOLEAN /\ field \in Cards \cup {NoCard}
    /\ inbox \in Seq(Commands) /\ outbox \in Seq(Answers)
    /\ {saw, truth} \subseteq Cards \cup {NoCard}
    /\ leftBehind \in BOOLEAN /\ doubtful \in BOOLEAN

WireIsClear == inbox = <<>> /\ outbox = <<>>

(* Whoever adds a message that nobody waits for leaves room for one that   *)
(* somebody does.                                                          *)
RoomForOne == Len(inbox) + Len(outbox) < MaxPending

(* What a process that was killed has left behind.                         *)
Leftovers(S) == UNION {[1..n -> S] : n \in 0..(MaxPending - 1)}

Init ==
    /\ lock = Nobody
    /\ pc = [t \in Threads |-> "idle"] /\ op = [t \in Threads |-> "none"]
    /\ left = [t \in Threads |-> 0]
    /\ open = FALSE /\ dead = FALSE /\ seq = 0
    /\ initialized = FALSE /\ card = NoCard
    /\ plugged \in BOOLEAN /\ field = NoCard
    /\ inbox \in Leftovers(Commands) /\ outbox \in Leftovers(Answers)
    /\ RoomForOne /\ (plugged \/ WireIsClear)
    /\ saw = NoCard /\ truth = NoCard
    /\ leftBehind = ~WireIsClear /\ doubtful = FALSE

----------------------------------------------------------------------------
(* Calls, the mutex and their ends.                                        *)

Goto(t, from, to) == pc[t] = from /\ pc' = [pc EXCEPT ![t] = to]

(* Faulty variant: the mutex is not waited for.                            *)
LockAnyway(t) ==
    /\ Goto(t, "idle", "begin")
    /\ lock' = t
    /\ \E o \in Ops :
          /\ op' = [op EXCEPT ![t] = o]
          /\ left' = [left EXCEPT ![t] = IF o = "init" THEN 3 ELSE 1]
    /\ UNCHANGED <<portVars, cacheVars, boardVars, histVars>>

(* A call gets the mutex.  Until then it has changed nothing, so a call    *)
(* that waits is one that has not been made yet.                           *)
Lock(t) ==
    /\ lock = Nobody
    /\ Goto(t, "idle", "begin")
    /\ lock' = t
    /\ \E o \in Ops :
          /\ op' = [op EXCEPT ![t] = o]
          /\ left' = [left EXCEPT ![t] = IF o = "init" THEN 3 ELSE 1]
    /\ UNCHANGED <<portVars, cacheVars, boardVars, histVars>>

(* The call returns and the guard is dropped.                              *)
Return(t) ==
    /\ pc' = [pc EXCEPT ![t] = "idle"]
    /\ op' = [op EXCEPT ![t] = "none"]
    /\ left' = [left EXCEPT ![t] = 0]
    /\ lock' = Nobody

(* What was left behind is gone once the wire is clear.                    *)
KeepTrack == leftBehind' = (leftBehind /\ ~WireIsClear')

(* The port is open, or is found and opened now.  What the driver still    *)
(* held of an earlier session may survive: open does not purge.            *)
EnsureConnected ==
    /\ open \/ plugged
    /\ open' = TRUE
    /\ IF open
       THEN UNCHANGED <<dead, outbox>>
       ELSE dead' = FALSE /\ outbox' \in {outbox, <<>>}

ClosePort == open' = FALSE /\ dead' = FALSE

(* get_felica_id and get_mifare_uid answer from the cache.                 *)
GetCardId(t) ==
    /\ pc[t] = "begin" /\ op[t] = "get_card_id"
    /\ Return(t)
    /\ UNCHANGED <<portVars, cacheVars, boardVars, histVars>>

(* get_aime_id without a cached Mifare card.                               *)
NoMifare(t) ==
    /\ pc[t] = "begin" /\ op[t] = "get_aime_id" /\ card \notin Mifare
    /\ Return(t)
    /\ UNCHANGED <<portVars, cacheVars, boardVars, histVars>>

(* Everything that sends a command; init makes sure of the port first, and *)
(* has nothing to do a second time.                                        *)
Begin(t) ==
    /\ op[t] \in {"poll", "command"} \/ (op[t] = "get_aime_id" /\ card \in Mifare)
    /\ Goto(t, "begin", "connect")
    /\ UNCHANGED <<lock, op, left, portVars, cacheVars, boardVars, histVars>>

InitBegin(t) ==
    /\ pc[t] = "begin" /\ op[t] = "init"
    /\ EnsureConnected
    /\ IF initialized
       THEN Return(t)
       ELSE Goto(t, "begin", "connect") /\ UNCHANGED <<lock, op, left>>
    /\ UNCHANGED <<seq, cacheVars, plugged, field, inbox, saw, truth, doubtful>>
    /\ KeepTrack

InitFails(t) ==
    /\ pc[t] = "begin" /\ op[t] = "init" /\ ~open
    /\ Return(t)
    /\ UNCHANGED <<portVars, cacheVars, boardVars, histVars>>

----------------------------------------------------------------------------
(* transact.                                                               *)

(* The call goes on after a transact that ended in an error: init ignores  *)
(* it, the others return it and leave the cached card alone.               *)
TransactErr(t) ==
    /\ IF left[t] > 1
       THEN /\ pc' = [pc EXCEPT ![t] = "connect"]
            /\ left' = [left EXCEPT ![t] = @ - 1]
            /\ UNCHANGED <<lock, op>>
       ELSE Return(t)
    /\ initialized' = (initialized \/ (op[t] = "init" /\ left[t] = 1))
    /\ UNCHANGED card

(* Faulty variant: a poll that finds nothing leaves the cache alone.       *)
PollKeepsCard(payload) == IF payload \in Cards THEN payload ELSE card

(* The card poll caches.                                                   *)
PollCard(payload) == IF payload \in Cards THEN payload ELSE NoCard

(* ... and after one that got an answer.                                   *)
TransactOk(t, answer) ==
    /\ IF left[t] > 1
       THEN /\ pc' = [pc EXCEPT ![t] = "connect"]
            /\ left' = [left EXCEPT ![t] = @ - 1]
            /\ UNCHANGED <<lock, op>>
       ELSE Return(t)
    /\ initialized' = (initialized \/ (op[t] = "init" /\ left[t] = 1))
    /\ card' = IF op[t] = "poll" THEN PollCard(answer.payload) ELSE card

Connect(t) ==
    /\ Goto(t, "connect", "write")
    /\ EnsureConnected
    /\ UNCHANGED <<lock, op, left, seq, cacheVars, plugged, field, inbox, saw, truth,
                   doubtful>>
    /\ KeepTrack

(* No port of this board, or it cannot be opened.                          *)
ConnectFails(t) ==
    /\ pc[t] = "connect" /\ ~open
    /\ TransactErr(t)
    /\ UNCHANGED <<portVars, boardVars, histVars>>

Deliver(t) ==
    /\ Len(inbox) + Len(outbox) < MaxPending
    /\ inbox' = Append(inbox, [seq |-> seq, poll |-> op[t] = "poll"])

(* Faulty variant: the sequence number does not wrap.                      *)
NextSeqUnwrapped == seq' = seq + 1

NextSeq == seq' = (seq + 1) % SeqMod

Write(t) ==
    /\ Goto(t, "write", "read")
    /\ ~dead
    /\ Deliver(t)
    /\ NextSeq
    /\ UNCHANGED <<lock, op, left, open, dead, cacheVars, plugged, field,
                   outbox, histVars>>

(* Faulty variant: the port is not closed.                                 *)
WriteFailsOpen(t) ==
    /\ pc[t] = "write"
    /\ NextSeq
    /\ TransactErr(t)
    /\ UNCHANGED <<open, dead, plugged, field, outbox, saw, truth, doubtful>>
    /\ \/ UNCHANGED <<inbox, leftBehind>>
       \/ ~dead /\ Deliver(t) /\ RoomForOne' /\ leftBehind' = TRUE

(* The write fails; one that timed out may have reached the board.         *)
WriteFails(t) ==
    /\ pc[t] = "write"
    /\ NextSeq
    /\ ClosePort
    /\ TransactErr(t)
    /\ UNCHANGED <<plugged, field, outbox, saw, truth, doubtful>>
    /\ \/ UNCHANGED <<inbox, leftBehind>>
       \/ ~dead /\ Deliver(t) /\ RoomForOne' /\ leftBehind' = TRUE

(* read_frame returns the first frame of the bytes it reads; what came     *)
(* with it in the same read is dropped with the local buffer.              *)
TakeChunk ==
    /\ ~dead /\ outbox # <<>>
    /\ \E n \in 1..Len(outbox) : outbox' = SubSeq(outbox, n + 1, Len(outbox))

Read(t) ==
    /\ pc[t] = "read"
    /\ TakeChunk
    /\ TransactOk(t, Head(outbox))
    /\ IF op[t] = "poll"
       THEN truth' = saw /\ doubtful' = leftBehind
       ELSE UNCHANGED <<truth, doubtful>>
    /\ UNCHANGED <<portVars, plugged, field, inbox, saw>>
    /\ KeepTrack

(* An answer that has lost a byte, or whose length byte is too large or 0, *)
(* is never complete: read_frame goes on reading, and drops what it has at *)
(* the next start byte.                                                    *)
ReadBroken(t) ==
    /\ pc[t] = "read"
    /\ TakeChunk
    /\ UNCHANGED <<callVars, portVars, cacheVars, plugged, field, inbox, saw, truth,
                   doubtful>>
    /\ KeepTrack

(* The checksum is wrong: the port is closed.                              *)
ReadGarbled(t) ==
    /\ pc[t] = "read"
    /\ TakeChunk
    /\ ClosePort
    /\ TransactErr(t)
    /\ UNCHANGED <<seq, plugged, field, inbox, saw, truth, doubtful>>
    /\ KeepTrack

(* A frame too short for its payload is an error, but the port stays open. *)
ReadShort(t) ==
    /\ pc[t] = "read"
    /\ TakeChunk
    /\ TransactErr(t)
    /\ UNCHANGED <<portVars, plugged, field, inbox, saw, truth, doubtful>>
    /\ KeepTrack

(* Faulty variant: a failing read counts as an empty one.                  *)
ReadRetries(t) ==
    /\ pc[t] = "read" /\ dead
    /\ UNCHANGED vars

(* SerialPort::read gives up because the board is gone, or for another     *)
(* reason on one that is there.  Then the answer, or what had not been     *)
(* read of it yet, remains: nobody waits for it any more.  The rest of a   *)
(* frame without its start byte is skipped by the next read_frame.         *)
ReadFails(t) ==
    /\ pc[t] = "read"
    /\ ClosePort
    /\ TransactErr(t)
    /\ outbox' = outbox \/ TakeChunk
    /\ UNCHANGED <<seq, plugged, field, inbox, saw, truth, doubtful>>
    /\ RoomForOne' /\ leftBehind' = ~WireIsClear'

ReaderStep(t) ==
    \/ GetCardId(t) \/ NoMifare(t) \/ Begin(t) \/ InitBegin(t) \/ InitFails(t)
    \/ Connect(t) \/ ConnectFails(t) \/ Write(t) \/ WriteFails(t)
    \/ Read(t) \/ ReadBroken(t) \/ ReadGarbled(t) \/ ReadShort(t) \/ ReadFails(t)

----------------------------------------------------------------------------
(* The board (external): answers in order, poll with the card it sees.     *)

Answer ==
    /\ plugged /\ inbox # <<>>
    /\ outbox' = Append(outbox, [seq |-> Head(inbox).seq,
                                 payload |-> IF Head(inbox).poll THEN field ELSE "other"])
    /\ saw' = IF Head(inbox).poll THEN field ELSE saw
    /\ inbox' = Tail(inbox)
    /\ UNCHANGED <<callVars, portVars, cacheVars, plugged, field,
                   truth, leftBehind, doubtful>>

(* It answers nothing to a command that came broken.                       *)
Ignore ==
    /\ plugged /\ inbox # <<>>
    /\ inbox' = Tail(inbox)
    /\ UNCHANGED <<callVars, portVars, cacheVars, plugged, field, outbox,
                   saw, truth, doubtful>>
    /\ KeepTrack

Unplug ==
    /\ plugged
    /\ plugged' = FALSE
    /\ dead' = open
    /\ inbox' = <<>> /\ outbox' = <<>> /\ leftBehind' = FALSE
    /\ UNCHANGED <<callVars, open, seq, cacheVars, field, saw, truth, doubtful>>

Plug ==
    /\ ~plugged
    /\ plugged' = TRUE
    /\ UNCHANGED <<callVars, portVars, cacheVars, field, inbox, outbox, histVars>>

PlaceCard ==
    /\ field' \in (Cards \cup {NoCard}) \ {field}
    /\ UNCHANGED <<callVars, portVars, cacheVars, plugged, inbox, outbox, histVars>>

Next ==
    \/ \E t \in Threads : Lock(t) \/ ReaderStep(t)
    \/ Answer \/ Ignore \/ Unplug \/ Plug \/ PlaceCard

(* The thread inside the reader (there is one at most) runs, and the board *)
(* answers or ignores what it has received.  A read fails when the board   *)
(* has gone away; on a board that is there it need not, and opening,       *)
(* writing and reading do not fail for ever.                               *)
Fairness ==
    /\ WF_vars(\E t \in Threads : ReaderStep(t) /\ (ReadFails(t) => dead))
    /\ SF_vars(\E t \in Threads : Connect(t))
    /\ SF_vars(\E t \in Threads : Write(t))
    /\ SF_vars(\E t \in Threads : Read(t))
    /\ WF_vars(Answer \/ Ignore)

Spec == Init /\ [][Next]_vars /\ Fairness

----------------------------------------------------------------------------
(* Properties.                                                             *)

(* transact never compares sequence numbers, and need not as long as the   *)
(* wire is in step: because the mutex is held from the write to the        *)
(* answer, a call takes another command's answer only if one was left      *)
(* behind by a killed process, by a write that got through although it was *)
(* reported as failed, or by a read that failed on a live board -- and the *)
(* wire has not been clear since.                                          *)
OwnAnswer ==
    [][\A t \in Threads : Read(t) =>
          leftBehind \/ (Head(outbox).seq + 1) % SeqMod = seq]_vars

(* The cached card, which get_aime_id, get_felica_id and get_mifare_uid    *)
(* answer from, is the one the board saw for the last poll that got an     *)
(* answer, if that poll found the wire in step: no other command's answer  *)
(* and no failed poll changes it, and the first poll in step puts right    *)
(* what polls out of step have cached.                                     *)
CardIsWhatWasPolled == doubtful \/ card = truth

(* A call waits for an answer that will not come.                          *)
Stranded(t) == pc[t] = "read" /\ ~dead /\ WireIsClear

(* read_frame has no deadline, so a call whose command or answer comes     *)
(* broken waits with the mutex held.  Nothing else strands one: no other   *)
(* call takes its answer, no reopening purges it, and a board that goes    *)
(* away is noticed.                                                        *)
OnlyTheLineStrands ==
    [][\A t \in Threads : Stranded(t)' => Stranded(t) \/ ReadBroken(t) \/ Ignore]_vars

(* Whoever holds the reader's mutex lets go of it, unless it is stranded   *)
(* for ever, with every other call behind it; pulling the board out ends   *)
(* that, too.                                                              *)
HolderReturns == \A t \in Threads : lock = t ~> (lock # t \/ []Stranded(t))

(* After any failure the reader works again: while the board is there, the *)
(* game keeps sending commands and reads do not fail without reason,       *)
(* answers keep being taken.                                               *)
Recovers ==
    /\ <>[]plugged
    /\ <>[][\A t \in Threads : ReadFails(t) => dead]_vars
    /\ []<>(\E t \in Threads : pc[t] = "connect")
    => []<><<\E t \in Threads : Read(t)>>_vars

(* A failed poll leaves the cached card alone, so the getters may answer   *)
(* for one that is gone; but when the wire is in step and polls keep       *)
(* getting their answers, the cache settles on the card that stays at the  *)
(* board, or on none.                                                      *)
CardSettles ==
    /\ <>[]~leftBehind
    /\ <>[][UNCHANGED field]_vars
    /\ []<><<\E t \in Threads : op[t] = "poll" /\ Read(t)>>_vars
    => <>[](card = field)
=============================================================================
