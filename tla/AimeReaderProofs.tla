-------------------------- MODULE AimeReaderProofs --------------------------
(***************************************************************************)
(* The card reader: a call in step takes the answer to its own command,    *)
(* the cached card is the one that was polled, and only a broken message   *)
(* leaves a call waiting in vain, for any number of calling threads, any   *)
(* cards, any sequence space and any length of the wire.                   *)
(*                                                                         *)
(* The first two rest on what the wire may hold.  Unless something was     *)
(* left behind, transact sends its command on an empty wire, and the mutex *)
(* keeps others off it until the answer is read or broken, or the command  *)
(* is given up -- which is the case when something is left behind.         *)
(***************************************************************************)
EXTENDS AimeReader, SequenceTheorems, TLAPS

(* One thread is inside the reader, the one that holds its mutex; it has   *)
(* opened the port before it writes, and waits on an open port only.       *)
OneInside ==
    /\ \A t \in Threads : pc[t] # "idle" <=> lock = t
    /\ \A t \in Threads : pc[t] \in {"write", "read"} => open

(* Command s of thread t is on the wire, alone: at the board, or answered  *)
(* with what the board saw then.                                           *)
Asked(t, s) ==
    inbox = <<[seq |-> s, poll |-> op[t] = "poll"]>> /\ outbox = <<>>

Answered(t, s) ==
    /\ inbox = <<>>
    /\ outbox = <<[seq |-> s, payload |-> IF op[t] = "poll" THEN saw ELSE "other"]>>

Outstanding(t) ==
    /\ pc[t] = "read"
    /\ \E s \in 0..(SeqMod - 1) : /\ (s + 1) % SeqMod = seq
                                  /\ Asked(t, s) \/ Answered(t, s)

(* A board that went away took with it what was on the wire.               *)
WireHoldsOwn ==
    /\ leftBehind \/ WireIsClear \/ \E t \in Threads : Outstanding(t)
    /\ dead => WireIsClear

IndInv == TypeOK /\ OneInside /\ WireHoldsOwn /\ CardIsWhatWasPolled

LEMMA InitInv == Init => IndInv
<1> SUFFICES ASSUME Init PROVE IndInv
  OBVIOUS
<1>1. TypeOK
  <2>1. inbox \in Seq(Commands) /\ outbox \in Seq(Answers)
    BY SeqAssumption DEF Init, Leftovers
  <2>2. 0 \in 0..(SeqMod - 1)
    BY SeqAssumption
  <2>3. /\ pc \in [Threads -> {"idle", "begin", "connect", "write", "read"}]
        /\ op \in [Threads -> Ops \cup {"none"}] /\ left \in [Threads -> 0..3]
    BY DEF Init
  <2>4. {saw, truth} \subseteq Cards \cup {NoCard}
    BY DEF Init
  <2>5. leftBehind \in BOOLEAN /\ doubtful \in BOOLEAN
    BY DEF Init
  <2> QED
    BY <2>1, <2>2, <2>3, <2>4, <2>5 DEF Init, TypeOK
<1>2. OneInside /\ WireHoldsOwn /\ CardIsWhatWasPolled
  BY ThreadsAssumption
     DEF Init, OneInside, WireHoldsOwn, CardIsWhatWasPolled
<1> QED
  BY <1>1, <1>2 DEF IndInv

(* The sequence number stays in its range when it wraps.                   *)
LEMMA SeqWraps ==
    ASSUME NEW s \in 0..(SeqMod - 1)
    PROVE  (s + 1) % SeqMod \in 0..(SeqMod - 1)
BY SeqAssumption

(* The call returns, and nobody is inside any more.                        *)
LEMMA ReturnEnds ==
    ASSUME TypeOK, OneInside, NEW t \in Threads, pc[t] # "idle", Return(t)
    PROVE  /\ lock' \in Threads \cup {Nobody}
           /\ pc' \in [Threads -> {"idle", "begin", "connect", "write", "read"}]
           /\ op' \in [Threads -> Ops \cup {"none"}] /\ left' \in [Threads -> 0..3]
           /\ \A u \in Threads : (pc'[u] # "idle" <=> lock' = u) /\ pc'[u] \notin {"write", "read"}
<1> USE DEF TypeOK, OneInside, Return
<1>1. \A u \in Threads : (pc'[u] # "idle" <=> lock' = u) /\ pc'[u] \notin {"write", "read"}
  BY ThreadsAssumption
<1> QED
  BY <1>1

(* However a transact ends, the call goes on to its next command or        *)
(* returns, and nobody is waiting for an answer then.                      *)
LEMMA TransactEnds ==
    ASSUME TypeOK, OneInside, NEW t \in Threads, pc[t] # "idle",
           TransactErr(t) \/ \E answer \in Answers : TransactOk(t, answer)
    PROVE  /\ lock' \in Threads \cup {Nobody}
           /\ pc' \in [Threads -> {"idle", "begin", "connect", "write", "read"}]
           /\ op' \in [Threads -> Ops \cup {"none"}] /\ left' \in [Threads -> 0..3]
           /\ initialized' \in BOOLEAN /\ card' \in Cards \cup {NoCard}
           /\ \A u \in Threads : (pc'[u] # "idle" <=> lock' = u) /\ pc'[u] \notin {"write", "read"}
<1> USE DEF TypeOK, OneInside
<1>1. CASE left[t] > 1 /\ pc' = [pc EXCEPT ![t] = "connect"]
                       /\ left' = [left EXCEPT ![t] = @ - 1] /\ UNCHANGED <<lock, op>>
  <2>1. left' \in [Threads -> 0..3]
    BY <1>1
  <2>2. pc' \in [Threads -> {"idle", "begin", "connect", "write", "read"}]
    BY <1>1
  <2>3. \A u \in Threads : (pc'[u] # "idle" <=> lock' = u) /\ pc'[u] \notin {"write", "read"}
    BY <1>1, ThreadsAssumption
  <2>4. initialized' \in BOOLEAN /\ card' \in Cards \cup {NoCard}
    BY DEF TransactErr, TransactOk, PollCard
  <2> QED
    BY <1>1, <2>1, <2>2, <2>3, <2>4
<1>2. CASE Return(t)
  <2>1. initialized' \in BOOLEAN /\ card' \in Cards \cup {NoCard}
    BY DEF TransactErr, TransactOk, PollCard
  <2> QED
    BY <1>2, <2>1, ReturnEnds
<1> QED
  BY <1>1, <1>2 DEF TransactErr, TransactOk

(* What is left of the wire after a chunk has been read.                   *)
LEMMA ChunkTaken ==
    ASSUME TypeOK, TakeChunk
    PROVE  /\ outbox' \in Seq(Answers) /\ Head(outbox) \in Answers
           /\ Len(outbox) = 1 => outbox' = <<>>
<1>1. PICK n \in 1..Len(outbox) : outbox' = SubSeq(outbox, n + 1, Len(outbox))
  BY DEF TakeChunk
<1>2. outbox \in Seq(Answers) /\ outbox # <<>>
  BY DEF TypeOK, TakeChunk
<1>3. outbox' \in Seq(Answers)
  BY <1>1, <1>2
<1>4. Head(outbox) \in Answers
  BY <1>2
<1>5. ASSUME Len(outbox) = 1 PROVE outbox' = <<>>
  BY <1>1, <1>2, <1>5
<1> QED
  BY <1>3, <1>4, <1>5

(* A command delivered to the board.                                       *)
LEMMA Delivered ==
    ASSUME TypeOK, NEW t \in Threads, Deliver(t)
    PROVE  /\ inbox' \in Seq(Commands)
           /\ inbox = <<>> => inbox' = <<[seq |-> seq, poll |-> op[t] = "poll"]>>
<1> DEFINE command == [seq |-> seq, poll |-> op[t] = "poll"]
<1>1. command \in Commands
  BY DEF TypeOK, Commands
<1>2. inbox' = Append(inbox, command) /\ inbox \in Seq(Commands)
  BY DEF Deliver, TypeOK
<1> HIDE DEF command
<1>3. inbox' \in Seq(Commands)
  BY <1>1, <1>2
<1>4. inbox = <<>> => inbox' = <<command>>
  BY <1>2
<1> QED
  BY <1>3, <1>4 DEF command

LEMMA AnswerType ==
    ASSUME TypeOK, Answer
    PROVE  inbox' \in Seq(Commands) /\ outbox' \in Seq(Answers)
<1>1. inbox \in Seq(Commands) /\ inbox # <<>> /\ Head(inbox) \in Commands
  BY DEF TypeOK, Answer
<1> DEFINE answer == [seq |-> Head(inbox).seq,
                      payload |-> IF Head(inbox).poll THEN field ELSE "other"]
<1>2. answer \in Answers
  BY <1>1 DEF TypeOK, Answers, Commands, Payloads
<1>3. inbox' = Tail(inbox) /\ outbox' = Append(outbox, answer)
  BY DEF Answer
<1> HIDE DEF answer
<1> QED
  BY <1>1, <1>2, <1>3 DEF TypeOK

(* Opening the port.                                                       *)
LEMMA Connected ==
    ASSUME TypeOK, EnsureConnected
    PROVE  /\ open' = TRUE /\ dead' \in BOOLEAN
           /\ outbox' \in {outbox, <<>>} /\ outbox' \in Seq(Answers)
<1>1. <<>> \in Seq(Answers)
  OBVIOUS
<1>2. open' = TRUE /\ dead' \in BOOLEAN /\ outbox' \in {outbox, <<>>}
  BY DEF TypeOK, EnsureConnected
<1> QED
  BY <1>1, <1>2 DEF TypeOK

(* What was left behind is forgotten when the wire is clear, not before.   *)
LEMMA Tracked ==
    ASSUME TypeOK, KeepTrack
    PROVE  leftBehind' \in BOOLEAN /\ (WireIsClear' \/ leftBehind' = leftBehind)
BY DEF TypeOK, KeepTrack

(* A failing read takes some of the answers, or none.                      *)
LEMMA ReadGivenUp ==
    ASSUME TypeOK, NEW t \in Threads, ReadFails(t)
    PROVE  outbox' \in Seq(Answers) /\ leftBehind' \in BOOLEAN
<1>1. outbox' \in Seq(Answers)
  BY ChunkTaken DEF ReadFails, TypeOK
<1>2. leftBehind' \in BOOLEAN
  BY DEF ReadFails
<1> QED
  BY <1>1, <1>2

LEMMA TypeStep == IndInv /\ [Next]_vars => TypeOK' /\ OneInside'
<1> SUFFICES ASSUME IndInv, [Next]_vars PROVE TypeOK' /\ OneInside'
  OBVIOUS
<1>0. TypeOK /\ OneInside
  BY DEF IndInv
<1> USE DEF Goto, callVars, portVars, cacheVars, boardVars, histVars
<1>1. ASSUME NEW t \in Threads, Lock(t) PROVE TypeOK' /\ OneInside'
  <2>1. TypeOK'
    BY <1>0, <1>1 DEF Lock, TypeOK
  <2>2. OneInside'
    BY <1>0, <1>1, ThreadsAssumption DEF Lock, TypeOK, OneInside
  <2> QED
    BY <2>1, <2>2
<1>2. ASSUME NEW t \in Threads, GetCardId(t) \/ NoMifare(t) \/ InitFails(t)
      PROVE  TypeOK' /\ OneInside'
  <2>1. pc[t] # "idle" /\ Return(t) /\ UNCHANGED <<portVars, cacheVars, boardVars, histVars>>
    BY <1>2 DEF GetCardId, NoMifare, InitFails
  <2> QED
    BY <1>0, <2>1, ReturnEnds DEF TypeOK, OneInside
<1>3. ASSUME NEW t \in Threads, Begin(t) PROVE TypeOK' /\ OneInside'
  BY <1>0, <1>3 DEF Begin, TypeOK, OneInside
<1>4. ASSUME NEW t \in Threads, InitBegin(t) PROVE TypeOK' /\ OneInside'
  <2>1. /\ open' = TRUE /\ dead' \in BOOLEAN /\ outbox' \in Seq(Answers)
        /\ UNCHANGED <<seq, initialized, card, plugged, field, inbox, saw, truth, doubtful>>
        /\ leftBehind' \in BOOLEAN
    BY <1>0, <1>4, Connected, Tracked DEF InitBegin
  <2>2. CASE initialized
    BY <1>0, <1>4, <2>1, <2>2, ReturnEnds DEF InitBegin, TypeOK, OneInside
  <2>3. CASE ~initialized
    BY <1>0, <1>4, <2>1, <2>3 DEF InitBegin, TypeOK, OneInside
  <2> QED
    BY <2>2, <2>3
<1>5. ASSUME NEW t \in Threads, Connect(t) PROVE TypeOK' /\ OneInside'
  <2>1. /\ open' = TRUE /\ dead' \in BOOLEAN /\ outbox' \in Seq(Answers)
        /\ leftBehind' \in BOOLEAN
    BY <1>0, <1>5, Connected, Tracked DEF Connect
  <2> QED
    BY <1>0, <1>5, <2>1 DEF Connect, TypeOK, OneInside
<1>6. ASSUME NEW t \in Threads, ConnectFails(t) \/ ReadFails(t) PROVE TypeOK' /\ OneInside'
  <2>1. /\ pc[t] # "idle" /\ TransactErr(t)
        /\ UNCHANGED <<seq, plugged, field, inbox, saw, truth, doubtful>>
        /\ open' \in {open, FALSE} /\ dead' \in {dead, FALSE}
    BY <1>6 DEF ConnectFails, ReadFails, ClosePort
  <2>2. outbox' \in Seq(Answers) /\ leftBehind' \in BOOLEAN
    BY <1>0, <1>6, ReadGivenUp DEF ConnectFails, TypeOK
  <2> QED
    BY <1>0, <2>1, <2>2, TransactEnds DEF TypeOK, OneInside
<1>7. ASSUME NEW t \in Threads, Write(t) PROVE TypeOK' /\ OneInside'
  <2>1. inbox' \in Seq(Commands)
    BY <1>0, <1>7, Delivered DEF Write
  <2>2. seq' \in 0..(SeqMod - 1)
    BY <1>0, <1>7, SeqWraps DEF Write, NextSeq, TypeOK
  <2>3. TypeOK'
    BY <1>0, <1>7, <2>1, <2>2 DEF Write, TypeOK
  <2>4. OneInside'
    BY <1>0, <1>7 DEF Write, TypeOK, OneInside
  <2> QED
    BY <2>3, <2>4
<1>8. ASSUME NEW t \in Threads, WriteFails(t) PROVE TypeOK' /\ OneInside'
  <2>1. /\ inbox' \in Seq(Commands) /\ leftBehind' \in BOOLEAN
        /\ seq' \in 0..(SeqMod - 1)
    BY <1>0, <1>8, Delivered, SeqWraps DEF WriteFails, NextSeq, TypeOK
  <2>2. /\ pc[t] # "idle" /\ TransactErr(t)
        /\ open' = FALSE /\ dead' = FALSE
        /\ UNCHANGED <<plugged, field, outbox, saw, truth, doubtful>>
    BY <1>8 DEF WriteFails, ClosePort
  <2> QED
    BY <1>0, <2>1, <2>2, TransactEnds DEF TypeOK, OneInside
<1>9. ASSUME NEW t \in Threads, Read(t) PROVE TypeOK' /\ OneInside'
  <2>1. outbox' \in Seq(Answers) /\ Head(outbox) \in Answers
    BY <1>0, <1>9, ChunkTaken DEF Read
  <2>2. /\ pc[t] # "idle" /\ TransactOk(t, Head(outbox))
        /\ UNCHANGED <<portVars, plugged, field, inbox, saw>>
        /\ truth' \in {saw, truth} /\ doubtful' \in {leftBehind, doubtful}
    BY <1>9 DEF Read
  <2>3. leftBehind' \in BOOLEAN
    BY <1>0, <1>9, Tracked DEF Read
  <2> QED
    BY <1>0, <2>1, <2>2, <2>3, TransactEnds DEF TypeOK, OneInside
<1>10. ASSUME NEW t \in Threads, ReadGarbled(t) \/ ReadShort(t)
       PROVE  TypeOK' /\ OneInside'
  <2>1. outbox' \in Seq(Answers)
    BY <1>0, <1>10, ChunkTaken DEF ReadGarbled, ReadShort
  <2>2. /\ pc[t] # "idle" /\ TransactErr(t)
        /\ UNCHANGED <<seq, plugged, field, inbox, saw, truth, doubtful>>
        /\ open' \in {open, FALSE} /\ dead' \in {dead, FALSE}
    BY <1>10 DEF ReadGarbled, ReadShort, ClosePort
  <2>3. leftBehind' \in BOOLEAN
    BY <1>0, <1>10, Tracked DEF ReadGarbled, ReadShort
  <2> QED
    BY <1>0, <2>1, <2>2, <2>3, TransactEnds DEF TypeOK, OneInside
<1>11. CASE Answer
  <2>1. inbox' \in Seq(Commands) /\ outbox' \in Seq(Answers)
    BY <1>0, <1>11, AnswerType
  <2>2. {saw', truth'} \subseteq Cards \cup {NoCard}
    BY <1>0, <1>11 DEF Answer, TypeOK
  <2>3. UNCHANGED <<callVars, portVars, cacheVars, plugged, field, leftBehind, doubtful>>
    BY <1>11 DEF Answer
  <2> QED
    BY <1>0, <2>1, <2>2, <2>3 DEF TypeOK, OneInside
<1>12. CASE Unplug \/ Plug \/ PlaceCard
  <2>1. /\ inbox' \in Seq(Commands) /\ outbox' \in Seq(Answers)
        /\ dead' \in BOOLEAN /\ plugged' \in BOOLEAN /\ field' \in Cards \cup {NoCard}
        /\ leftBehind' \in BOOLEAN
    <3>1. CASE Unplug
      <4>1. inbox' = <<>> /\ outbox' = <<>>
        BY <3>1 DEF Unplug
      <4>2. inbox' \in Seq(Commands) /\ outbox' \in Seq(Answers)
        BY <4>1
      <4> QED
        BY <1>0, <3>1, <4>2 DEF Unplug, TypeOK
    <3>2. CASE Plug \/ PlaceCard
      BY <1>0, <3>2 DEF Plug, PlaceCard, TypeOK
    <3> QED
      BY <1>12, <3>1, <3>2
  <2>2. UNCHANGED <<callVars, open, seq, cacheVars, saw, truth, doubtful>>
    BY <1>12 DEF Unplug, Plug, PlaceCard
  <2> QED
    BY <1>0, <2>1, <2>2 DEF TypeOK, OneInside
<1>13. CASE UNCHANGED vars
  BY <1>0, <1>13 DEF vars, TypeOK, OneInside
<1>14. ASSUME NEW t \in Threads, ReadBroken(t) PROVE TypeOK' /\ OneInside'
  <2>1. outbox' \in Seq(Answers) /\ leftBehind' \in BOOLEAN
    BY <1>0, <1>14, ChunkTaken, Tracked DEF ReadBroken
  <2>2. UNCHANGED <<callVars, portVars, cacheVars, plugged, field, inbox, saw, truth, doubtful>>
    BY <1>14 DEF ReadBroken
  <2> QED
    BY <1>0, <2>1, <2>2 DEF TypeOK, OneInside
<1>15. CASE Ignore
  <2>1. inbox' \in Seq(Commands) /\ leftBehind' \in BOOLEAN
    BY <1>0, <1>15, Tracked DEF Ignore, TypeOK
  <2>2. UNCHANGED <<callVars, portVars, cacheVars, plugged, field, outbox, saw, truth, doubtful>>
    BY <1>15 DEF Ignore
  <2> QED
    BY <1>0, <2>1, <2>2 DEF TypeOK, OneInside
<1> QED
  BY <1>1, <1>2, <1>3, <1>4, <1>5, <1>6, <1>7, <1>8, <1>9, <1>10, <1>11, <1>12, <1>13,
     <1>14, <1>15
     DEF Next, ReaderStep

(* The wire is clear as long as nobody waits for an answer ...             *)
LEMMA ClearUnlessReading ==
    ASSUME IndInv, ~leftBehind, \A t \in Threads : pc[t] # "read"
    PROVE  WireIsClear
BY DEF IndInv, WireHoldsOwn, Outstanding

LEMMA ClearBefore ==
    ASSUME IndInv, ~leftBehind, NEW t \in Threads, lock \in {t, Nobody}, pc[t] # "read"
    PROVE  WireIsClear
BY ClearUnlessReading, ThreadsAssumption DEF IndInv, OneInside

(* ... and an answer there is to the command of whoever waits for it.      *)
LEMMA AnswerIsOwn ==
    ASSUME IndInv, ~leftBehind, NEW t \in Threads, pc[t] = "read", outbox # <<>>
    PROVE  \E s \in 0..(SeqMod - 1) : (s + 1) % SeqMod = seq /\ Answered(t, s)
<1>1. PICK u \in Threads : Outstanding(u)
  BY DEF IndInv, WireHoldsOwn, WireIsClear
<1>2. u = t
  BY <1>1 DEF IndInv, OneInside, Outstanding
<1> QED
  BY <1>1, <1>2 DEF Outstanding, Asked

LEMMA AnswerFields ==
    ASSUME NEW t \in Threads, NEW s \in 0..(SeqMod - 1), Answered(t, s)
    PROVE  /\ Len(outbox) = 1 /\ inbox = <<>>
           /\ Head(outbox).seq = s
           /\ Head(outbox).payload = IF op[t] = "poll" THEN saw ELSE "other"
BY DEF Answered

(* Taking the answer clears the wire.                                      *)
LEMMA TakingClears ==
    ASSUME IndInv, ~leftBehind, NEW t \in Threads, pc[t] = "read", TakeChunk, inbox' = inbox
    PROVE  WireIsClear'
<1>1. outbox # <<>>
  BY DEF TakeChunk
<1>2. PICK s \in 0..(SeqMod - 1) : Answered(t, s)
  BY <1>1, AnswerIsOwn
<1>3. Len(outbox) = 1 /\ inbox = <<>>
  BY <1>2, AnswerFields
<1> QED
  BY <1>3, ChunkTaken DEF IndInv, WireIsClear

LEMMA WireStep == IndInv /\ [Next]_vars => WireHoldsOwn'
<1> SUFFICES ASSUME IndInv, [Next]_vars PROVE WireHoldsOwn'
  OBVIOUS
<1>0. TypeOK /\ OneInside /\ (dead => WireIsClear)
  BY DEF IndInv, WireHoldsOwn
<1> USE DEF Goto, callVars, portVars, cacheVars, boardVars, histVars
<1>1. ASSUME NEW t \in Threads,
             \/ Lock(t) \/ GetCardId(t) \/ NoMifare(t) \/ Begin(t) \/ InitFails(t)
             \/ ConnectFails(t)
      PROVE  WireHoldsOwn'
  <2>1. lock \in {t, Nobody} /\ pc[t] # "read"
    BY <1>0, <1>1 DEF Lock, GetCardId, NoMifare, Begin, InitFails, ConnectFails, OneInside
  <2>2. UNCHANGED <<inbox, outbox, leftBehind, dead>>
    BY <1>1 DEF Lock, GetCardId, NoMifare, Begin, InitFails, ConnectFails
  <2> QED
    BY <1>0, <2>1, <2>2, ClearBefore DEF WireHoldsOwn, WireIsClear
<1>2. ASSUME NEW t \in Threads, InitBegin(t) \/ Connect(t) PROVE WireHoldsOwn'
  <2>1. lock = t /\ pc[t] # "read"
    BY <1>0, <1>2 DEF InitBegin, Connect, OneInside
  <2>2. /\ inbox' = inbox /\ outbox' \in {outbox, <<>>} /\ (dead' => dead)
        /\ WireIsClear' \/ leftBehind' = leftBehind
    BY <1>0, <1>2, Tracked DEF InitBegin, Connect, EnsureConnected
  <2> QED
    BY <1>0, <2>1, <2>2, ClearBefore DEF WireHoldsOwn, WireIsClear
<1>3. ASSUME NEW t \in Threads, Write(t) PROVE WireHoldsOwn'
  <2>1. lock = t /\ pc[t] # "read" /\ pc'[t] = "read" /\ ~dead'
    BY <1>0, <1>3 DEF Write, OneInside, TypeOK
  <2>2. UNCHANGED <<outbox, leftBehind, op>> /\ seq' = (seq + 1) % SeqMod
    BY <1>3 DEF Write, NextSeq
  <2>3. ASSUME ~leftBehind PROVE Outstanding(t)'
    <3>1. WireIsClear
      BY <2>1, <2>3, ClearBefore
    <3>2. inbox' = <<[seq |-> seq, poll |-> op[t] = "poll"]>> /\ outbox' = <<>>
      BY <1>0, <1>3, <2>2, <3>1, Delivered DEF Write, WireIsClear
    <3> QED
      BY <1>0, <2>1, <2>2, <3>2 DEF Outstanding, Asked, TypeOK
  <2> QED
    BY <2>1, <2>2, <2>3 DEF WireHoldsOwn
<1>4. ASSUME NEW t \in Threads, WriteFails(t) PROVE WireHoldsOwn'
  <2>1. lock = t /\ pc[t] # "read" /\ ~dead' /\ outbox' = outbox
    BY <1>0, <1>4 DEF WriteFails, ClosePort, OneInside
  <2>2. leftBehind' \/ UNCHANGED <<inbox, leftBehind>>
    BY <1>4 DEF WriteFails
  <2> QED
    BY <2>1, <2>2, ClearBefore DEF WireHoldsOwn, WireIsClear
<1>5. ASSUME NEW t \in Threads,
             Read(t) \/ ReadBroken(t) \/ ReadGarbled(t) \/ ReadShort(t)
      PROVE  WireHoldsOwn'
  <2>1. pc[t] = "read" /\ TakeChunk /\ inbox' = inbox /\ ~dead'
    BY <1>5 DEF Read, ReadBroken, ReadGarbled, ReadShort, TakeChunk, ClosePort
  <2>2. WireIsClear' \/ leftBehind' = leftBehind
    BY <1>0, <1>5, Tracked DEF Read, ReadBroken, ReadGarbled, ReadShort
  <2> QED
    BY <2>1, <2>2, TakingClears DEF WireHoldsOwn
<1>6. ASSUME NEW t \in Threads, ReadFails(t) PROVE WireHoldsOwn'
  BY <1>6 DEF ReadFails, ClosePort, WireHoldsOwn
<1>7. CASE Answer
  <2>1. inbox # <<>> /\ ~dead /\ dead' = dead /\ UNCHANGED <<pc, op, seq, leftBehind>>
    BY <1>0, <1>7 DEF Answer, WireIsClear
  <2>2. ASSUME ~leftBehind PROVE \E t \in Threads : Outstanding(t)'
    <3>1. PICK t \in Threads, s \in 0..(SeqMod - 1) :
             pc[t] = "read" /\ (s + 1) % SeqMod = seq /\ Asked(t, s)
      BY <2>1, <2>2 DEF IndInv, WireHoldsOwn, WireIsClear, Outstanding, Answered
    <3> DEFINE command == [seq |-> s, poll |-> op[t] = "poll"]
    <3>2. inbox = <<command>> /\ outbox = <<>>
      BY <3>1 DEF Asked
    <3>3. Head(inbox).seq = s /\ (Head(inbox).poll <=> op[t] = "poll") /\ Tail(inbox) = <<>>
      <4>1. command.seq = s /\ (command.poll <=> op[t] = "poll")
        OBVIOUS
      <4> HIDE DEF command
      <4>2. Head(inbox) = command /\ Tail(inbox) = <<>>
        BY <3>2
      <4> QED
        BY <4>1, <4>2
    <3>4. /\ inbox' = <<>>
          /\ outbox' = Append(<<>>, [seq |-> s, payload |-> IF op[t] = "poll"
                                                            THEN field ELSE "other"])
          /\ saw' = IF op[t] = "poll" THEN field ELSE saw
      BY <1>7, <3>2, <3>3 DEF Answer
    <3>5. outbox' = <<[seq |-> s, payload |-> IF op[t] = "poll" THEN saw' ELSE "other"]>>
      BY <3>4
    <3> QED
      BY <2>1, <3>1, <3>4, <3>5 DEF Outstanding, Answered
  <2> QED
    BY <2>1, <2>2 DEF WireHoldsOwn
<1>8. CASE Unplug
  BY <1>8 DEF Unplug, WireHoldsOwn, WireIsClear
<1>9. CASE Plug \/ PlaceCard \/ UNCHANGED vars
  <2>1. UNCHANGED <<inbox, outbox, leftBehind, dead, pc, op, seq, saw>>
    BY <1>9 DEF Plug, PlaceCard, vars
  <2> QED
    BY <2>1 DEF IndInv, WireHoldsOwn, WireIsClear, Outstanding, Asked, Answered
<1>10. CASE Ignore
  <2>1. inbox # <<>> /\ ~dead /\ dead' = dead /\ outbox' = outbox
    BY <1>0, <1>10 DEF Ignore, WireIsClear
  <2>2. WireIsClear' \/ leftBehind' = leftBehind
    BY <1>0, <1>10, Tracked DEF Ignore
  <2>3. ASSUME ~leftBehind PROVE WireIsClear'
    <3>1. PICK t \in Threads, s \in 0..(SeqMod - 1) : Asked(t, s)
      BY <2>1, <2>3 DEF IndInv, WireHoldsOwn, WireIsClear, Outstanding, Answered
    <3> DEFINE command == [seq |-> s, poll |-> op[t] = "poll"]
    <3>2. inbox = <<command>> /\ outbox = <<>>
      BY <3>1 DEF Asked
    <3> HIDE DEF command
    <3>3. Tail(inbox) = <<>>
      BY <3>2
    <3> QED
      BY <1>10, <2>1, <3>2, <3>3 DEF Ignore, WireIsClear
  <2> QED
    BY <2>1, <2>2, <2>3 DEF WireHoldsOwn
<1> QED
  BY <1>1, <1>2, <1>3, <1>4, <1>5, <1>6, <1>7, <1>8, <1>9, <1>10 DEF Next, ReaderStep

LEMMA CardStep == IndInv /\ [Next]_vars => CardIsWhatWasPolled'
<1> SUFFICES ASSUME IndInv, [Next]_vars PROVE CardIsWhatWasPolled'
  OBVIOUS
<1> USE DEF callVars, portVars, cacheVars, boardVars, histVars
<1>1. ASSUME NEW t \in Threads, Read(t) PROVE CardIsWhatWasPolled'
  <2>1. CASE op[t] # "poll"
    <3>1. UNCHANGED <<card, truth, doubtful>>
      BY <1>1, <2>1 DEF Read, TransactOk
    <3> QED
      BY <3>1 DEF IndInv, CardIsWhatWasPolled
  <2>2. CASE op[t] = "poll" /\ leftBehind
    BY <1>1, <2>2 DEF Read, CardIsWhatWasPolled
  <2>3. CASE op[t] = "poll" /\ ~leftBehind
    <3>1. PICK s \in 0..(SeqMod - 1) : Answered(t, s)
      BY <1>1, <2>3, AnswerIsOwn DEF Read, TakeChunk
    <3>2. Head(outbox).payload = saw
      BY <2>3, <3>1, AnswerFields
    <3>3. PollCard(saw) = saw
      BY DEF IndInv, TypeOK, PollCard
    <3>4. card' = PollCard(Head(outbox).payload) /\ truth' = saw
      BY <1>1, <2>3 DEF Read, TransactOk
    <3> QED
      BY <3>2, <3>3, <3>4 DEF CardIsWhatWasPolled
  <2> QED
    BY <2>1, <2>2, <2>3
<1>2. ASSUME NEW t \in Threads,
             \/ ConnectFails(t) \/ WriteFails(t) \/ ReadGarbled(t) \/ ReadShort(t)
             \/ ReadFails(t)
      PROVE  CardIsWhatWasPolled'
  <2>1. UNCHANGED <<card, truth, doubtful>>
    BY <1>2 DEF ConnectFails, WriteFails, ReadGarbled, ReadShort, ReadFails, TransactErr
  <2> QED
    BY <2>1 DEF IndInv, CardIsWhatWasPolled
<1>3. ASSUME NEW t \in Threads,
             \/ Lock(t) \/ GetCardId(t) \/ NoMifare(t) \/ Begin(t) \/ InitBegin(t)
             \/ InitFails(t) \/ Connect(t) \/ Write(t) \/ ReadBroken(t)
      PROVE  CardIsWhatWasPolled'
  <2>1. UNCHANGED <<card, truth, doubtful>>
    BY <1>3 DEF Lock, GetCardId, NoMifare, Begin, InitBegin, InitFails, Connect, Write,
                ReadBroken
  <2> QED
    BY <2>1 DEF IndInv, CardIsWhatWasPolled
<1>4. CASE Answer \/ Ignore \/ Unplug \/ Plug \/ PlaceCard \/ UNCHANGED vars
  <2>1. UNCHANGED <<card, truth, doubtful>>
    BY <1>4 DEF Answer, Ignore, Unplug, Plug, PlaceCard, vars
  <2> QED
    BY <2>1 DEF IndInv, CardIsWhatWasPolled
<1> QED
  BY <1>1, <1>2, <1>3, <1>4 DEF Next, ReaderStep

LEMMA InvStep == IndInv /\ [Next]_vars => IndInv'
BY TypeStep, WireStep, CardStep DEF IndInv

LEMMA Invariant == Spec => []IndInv
BY InitInv, InvStep, PTL DEF Spec

(* The state of the card reader has its type.                              *)
THEOREM AimeReaderType == Spec => []TypeOK
<1>1. IndInv => TypeOK
  BY DEF IndInv
<1> QED
  BY <1>1, Invariant, PTL

(* The cached card is the one the board saw for the last poll that got an  *)
(* answer, if nothing that had been left behind was on the wire when that  *)
(* poll took it.                                                           *)
THEOREM CardWasPolled == Spec => []CardIsWhatWasPolled
<1>1. IndInv => CardIsWhatWasPolled
  BY DEF IndInv
<1> QED
  BY <1>1, Invariant, PTL

(* transact, which never compares sequence numbers, takes the answer to    *)
(* the command it sent, unless a command left behind by a killed process,  *)
(* a failed write or a failed read, or its answer, is or was on the wire   *)
(* and the wire has not been clear since.                                  *)
THEOREM AnswersAreOwn == Spec => OwnAnswer
<1>1. ASSUME IndInv, NEW t \in Threads, Read(t)
      PROVE  leftBehind \/ (Head(outbox).seq + 1) % SeqMod = seq
  <2>1. CASE ~leftBehind
    <3>1. PICK s \in 0..(SeqMod - 1) : (s + 1) % SeqMod = seq /\ Answered(t, s)
      BY <1>1, <2>1, AnswerIsOwn DEF Read, TakeChunk
    <3> QED
      BY <3>1, AnswerFields
  <2> QED
    BY <2>1
<1>2. IndInv /\ [Next]_vars
        => [\A t \in Threads : Read(t) =>
              leftBehind \/ (Head(outbox).seq + 1) % SeqMod = seq]_vars
  BY <1>1
<1> QED
  BY <1>2, Invariant, PTL DEF Spec, OwnAnswer

(* Nobody inside the reader is waiting for an answer after a step that     *)
(* ends a transact or a call, or comes before its write.                   *)
LEMMA NotReading ==
    ASSUME IndInv, NEW u \in Threads,
           \/ Lock(u) \/ GetCardId(u) \/ NoMifare(u) \/ Begin(u) \/ InitBegin(u)
           \/ InitFails(u) \/ Connect(u) \/ ConnectFails(u) \/ WriteFails(u) \/ Read(u)
           \/ ReadGarbled(u) \/ ReadShort(u) \/ ReadFails(u)
    PROVE  \A t \in Threads : pc'[t] # "read"
<1>0. TypeOK /\ OneInside
  BY DEF IndInv
<1> USE DEF Goto
<1>1. CASE Lock(u)
  BY <1>0, <1>1, ThreadsAssumption DEF Lock, TypeOK, OneInside
<1>2. CASE GetCardId(u) \/ NoMifare(u) \/ InitFails(u)
  <2>1. pc[u] # "idle" /\ Return(u)
    BY <1>2 DEF GetCardId, NoMifare, InitFails
  <2> QED
    BY <1>0, <2>1, ReturnEnds
<1>3. CASE Begin(u) \/ Connect(u)
  BY <1>0, <1>3 DEF Begin, Connect, TypeOK, OneInside
<1>4. CASE InitBegin(u)
  <2>1. CASE Return(u)
    BY <1>0, <1>4, <2>1, ReturnEnds DEF InitBegin
  <2>2. CASE Goto(u, "begin", "connect")
    BY <1>0, <2>2 DEF TypeOK, OneInside
  <2> QED
    BY <1>4, <2>1, <2>2 DEF InitBegin
<1>5. CASE ConnectFails(u) \/ WriteFails(u) \/ ReadGarbled(u) \/ ReadShort(u) \/ ReadFails(u)
  <2>1. pc[u] # "idle" /\ TransactErr(u)
    BY <1>5 DEF ConnectFails, WriteFails, ReadGarbled, ReadShort, ReadFails
  <2> QED
    BY <1>0, <2>1, TransactEnds
<1>6. CASE Read(u)
  <2>1. pc[u] # "idle" /\ Head(outbox) \in Answers /\ TransactOk(u, Head(outbox))
    BY <1>0, <1>6, ChunkTaken DEF Read
  <2> QED
    BY <1>0, <2>1, TransactEnds
<1> QED
  BY <1>1, <1>2, <1>3, <1>4, <1>5, <1>6

(* Only a broken message strands a call that waits with the mutex held: no *)
(* other call takes its answer, no reopening purges it, and a board that   *)
(* goes away is noticed.                                                   *)
THEOREM StrandedByTheLine == Spec => OnlyTheLineStrands
<1>1. ASSUME IndInv, Next, NEW t \in Threads, Stranded(t)', ~Stranded(t)
      PROVE  ReadBroken(t) \/ Ignore
  <2>0. TypeOK /\ OneInside /\ pc'[t] = "read" /\ ~dead' /\ inbox' = <<>> /\ outbox' = <<>>
    BY <1>1 DEF IndInv, Stranded, WireIsClear
  <2>1. PICK u \in Threads : \/ Write(u) \/ ReadBroken(u)
                             \/ Answer \/ Ignore \/ Unplug \/ Plug \/ PlaceCard
    BY <1>1, <2>0, NotReading DEF Next, ReaderStep
  <2>2. CASE Write(u)
    <3>1. Deliver(u) /\ inbox \in Seq(Commands)
      BY <2>0, <2>2 DEF Write, TypeOK
    <3> DEFINE command == [seq |-> seq, poll |-> op[u] = "poll"]
    <3>2. inbox' = Append(inbox, command)
      BY <3>1 DEF Deliver
    <3> HIDE DEF command
    <3>3. inbox' # <<>>
      BY <3>1, <3>2
    <3> QED
      BY <2>0, <3>3
  <2>3. CASE ReadBroken(u)
    <3>1. pc[u] = "read" /\ pc[t] = "read"
      BY <2>0, <2>3 DEF ReadBroken, callVars
    <3>2. u = t
      BY <2>0, <3>1 DEF OneInside
    <3> QED
      BY <2>3, <3>2
  <2>4. CASE Answer
    <3> DEFINE answer == [seq |-> Head(inbox).seq,
                          payload |-> IF Head(inbox).poll THEN field ELSE "other"]
    <3>1. outbox' = Append(outbox, answer) /\ outbox \in Seq(Answers)
      BY <2>0, <2>4 DEF Answer, TypeOK
    <3> HIDE DEF answer
    <3>2. outbox' # <<>>
      BY <3>1
    <3> QED
      BY <2>0, <3>2
  <2>5. CASE Unplug
    <3>1. pc[t] = "read" /\ dead' = open
      BY <2>0, <2>5 DEF Unplug, callVars
    <3> QED
      BY <2>0, <3>1 DEF OneInside
  <2>6. CASE Plug \/ PlaceCard
    <3>1. UNCHANGED <<pc, dead, inbox, outbox>>
      BY <2>6 DEF Plug, PlaceCard, callVars, portVars
    <3> QED
      BY <1>1, <3>1 DEF Stranded, WireIsClear
  <2> QED
    BY <2>1, <2>2, <2>3, <2>4, <2>5, <2>6
<1>2. IndInv /\ [Next]_vars
        => [\A t \in Threads : Stranded(t)' => Stranded(t) \/ ReadBroken(t) \/ Ignore]_vars
  BY <1>1
<1> QED
  BY <1>2, Invariant, PTL DEF Spec, OnlyTheLineStrands
=============================================================================
