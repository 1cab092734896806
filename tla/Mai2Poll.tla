------------------------------ MODULE Mai2Poll ------------------------------
(***************************************************************************)
(* Mai2Runtime::poll, get_opbtns and get_gamebtns                          *)
(* (crates/affine-mai2/src/lib.rs): how the input pages of both players    *)
(* and the keyboard become operator and game buttons, and how a coin       *)
(* becomes one credit pulse.                                               *)
(*                                                                         *)
(* The DLL is loaded into several processes (init spawns the device        *)
(* threads only in Sinmai.exe) and the poll page, with the coin latch in   *)
(* it, is shared memory.  Each process runs frames of poll and get_opbtns; *)
(* a poll reads the two input pages first and updates the poll page under  *)
(* its mutex afterwards.                                                   *)
(*                                                                         *)
(* The input pages are inputs: the device side replaces one at any moment. *)
(* map_buttons renames bits one to one and is left out; the button bytes   *)
(* are one value "game" and the three operator bits a set "ops".           *)
(***************************************************************************)
EXTENDS Naturals

CONSTANTS
    Procs,        \* processes that poll
    P1Pages,      \* contents of player 1's input page
    P2Pages,      \* contents of player 2's input page
    KeySets,      \* sets of operator keys held on the keyboard
    MaxPresses    \* bound: coin presses in a behaviour

Ops == {"test", "service", "coin"}
InputPages == [connected : BOOLEAN, ops : SUBSET Ops, game : BOOLEAN]
DefaultInput == [connected |-> FALSE, ops |-> {}, game |-> FALSE]

ASSUME PagesAssumption ==
    /\ P1Pages \subseteq InputPages /\ P2Pages \subseteq InputPages
    /\ DefaultInput \in P1Pages \cap P2Pages
ASSUME KeysAssumption == KeySets \subseteq SUBSET Ops /\ {} \in KeySets
ASSUME PressesAssumption == MaxPresses \in Nat

VARIABLES
    p1, p2,      \* the input pages
    keys,        \* operator keys held down
    ppc,         \* where each process is in its frame
    local,       \* the input pages its poll has read
    poll_page,   \* Mai2PollPage
    presses,     \* history: presses of a coin source (page or keyboard)
    credits,     \* history: polls that asserted OPBTN_COIN
    observed     \* history: get_opbtns calls that returned OPBTN_COIN

vars == <<p1, p2, keys, ppc, local, poll_page, presses, credits, observed>>

PollPages == [opbtn : SUBSET Ops, player1_btn : BOOLEAN, player2_btn : BOOLEAN,
              affine_coin : BOOLEAN]

(* The state has its type.                                                 *)
TypeOK ==
    /\ p1 \in P1Pages /\ p2 \in P2Pages /\ keys \in KeySets
    /\ ppc \in [Procs -> {"idle", "read2", "update", "get"}]
    /\ local \in [Procs -> P1Pages \X P2Pages]
    /\ poll_page \in PollPages
    /\ presses \in 0..MaxPresses
    /\ credits \in Nat
    /\ observed \in Nat

NoLocal == <<DefaultInput, DefaultInput>>

(* The poll page is new, or kept alive by another process as an earlier    *)
(* game left it, its latch set or not.                                     *)
Init ==
    /\ p1 = DefaultInput /\ p2 = DefaultInput /\ keys = {}
    /\ ppc = [p \in Procs |-> "idle"]
    /\ local = [p \in Procs |-> NoLocal]
    /\ poll_page \in PollPages
    /\ presses = 0 /\ credits = 0 /\ observed = 0

----------------------------------------------------------------------------
(* The devices and the operator.                                           *)

CoinOn(p) == p.connected /\ "coin" \in p.ops

Rises(before, after) == IF ~before /\ after THEN 1 ELSE 0

SetInputs(q1, q2, k) ==
    LET n == presses + Rises(CoinOn(p1), CoinOn(q1)) + Rises("coin" \in keys, "coin" \in k)
    IN  /\ n <= MaxPresses
        /\ presses' = n
        /\ p1' = q1 /\ p2' = q2 /\ keys' = k
        /\ UNCHANGED <<ppc, local, poll_page, credits, observed>>

P1Changes == \E q \in P1Pages \ {p1} : SetInputs(q, p2, keys)
P2Changes == \E q \in P2Pages \ {p2} : SetInputs(p1, q, keys)
KeysChange == \E k \in KeySets \ {keys} : SetInputs(p1, p2, k)

----------------------------------------------------------------------------
(* poll and get_opbtns.                                                    *)

Step(p, from, to) == ppc[p] = from /\ ppc' = [ppc EXCEPT ![p] = to]

(* The two input pages are read one after the other.                       *)
PollRead1(p) ==
    /\ Step(p, "idle", "read2")
    /\ local' = [local EXCEPT ![p][1] = p1]
    /\ UNCHANGED <<p1, p2, keys, poll_page, presses, credits, observed>>

(* Faulty variant: player 1's page is read twice.                          *)
PollReadSame(p) ==
    /\ Step(p, "read2", "update")
    /\ local' = [local EXCEPT ![p][2] = p1]
    /\ UNCHANGED <<p1, p2, keys, poll_page, presses, credits, observed>>

PollRead2(p) ==
    /\ Step(p, "read2", "update")
    /\ local' = [local EXCEPT ![p][2] = p2]
    /\ UNCHANGED <<p1, p2, keys, poll_page, presses, credits, observed>>

(* Faulty variant: the bits of the previous poll are kept.                 *)
OpBitsSticky(q1, q2, k) ==
    poll_page.opbtn
      \cup (IF q1.connected THEN q1.ops \ {"coin"} ELSE {})
      \cup (IF q2.connected THEN q2.ops \ {"coin"} ELSE {})
      \cup (k \ {"coin"})

(* A coin is taken from player 1's page and the keyboard only.             *)
OpBits(q1, q2, k) ==
    (IF q1.connected THEN q1.ops \ {"coin"} ELSE {})
      \cup (IF q2.connected THEN q2.ops \ {"coin"} ELSE {})
      \cup (k \ {"coin"})

CoinPressed(q1, k) == CoinOn(q1) \/ "coin" \in k

(* map_buttons, for a connected player.                                    *)
GameButtons(q) == q.connected /\ q.game

(* Faulty variant: no edge detection.                                      *)
CoinLevel(latch, pressed) == pressed

CoinEdge(latch, pressed) == pressed /\ ~latch

(* The latch after a poll.  Faulty variant: it is never cleared.           *)
LatchSticks(latch, pressed) == latch \/ pressed

NewLatch(latch, pressed) == pressed

PollUpdate(p) ==
    LET q1 == local[p][1]
        q2 == local[p][2]
        pressed == CoinPressed(q1, keys)
        edge == CoinEdge(poll_page.affine_coin, pressed)
    IN  /\ Step(p, "update", "get")
        /\ poll_page' = [opbtn |-> OpBits(q1, q2, keys) \cup (IF edge THEN {"coin"} ELSE {}),
                         player1_btn |-> GameButtons(q1),
                         player2_btn |-> GameButtons(q2),
                         affine_coin |-> NewLatch(poll_page.affine_coin, pressed)]
        /\ local' = [local EXCEPT ![p] = NoLocal]
        /\ credits' = credits + (IF edge THEN 1 ELSE 0)
        /\ UNCHANGED <<p1, p2, keys, presses, observed>>

GetOpBtns(p) ==
    /\ Step(p, "get", "idle")
    /\ observed' = observed + (IF "coin" \in poll_page.opbtn THEN 1 ELSE 0)
    /\ UNCHANGED <<p1, p2, keys, local, poll_page, presses, credits>>

ProcStep(p) == PollRead1(p) \/ PollRead2(p) \/ PollUpdate(p) \/ GetOpBtns(p)

Next ==
    \/ P1Changes \/ P2Changes \/ KeysChange
    \/ \E p \in Procs : ProcStep(p)

(* The game polls every frame.                                             *)
Fairness == \A p \in Procs : WF_vars(ProcStep(p))

Spec == Init /\ [][Next]_vars /\ Fairness

----------------------------------------------------------------------------
(* Properties.                                                             *)

(* "A held coin source (hardware OR keyboard) registers a single credit    *)
(* instead of repeating every poll": there are never more credit pulses    *)
(* than presses of a coin source, although a poll may combine an old page  *)
(* with a newer keyboard state.                                            *)
SingleCredit == credits <= presses

(* Every credit pulse is returned by exactly one get_opbtns: between the   *)
(* poll that asserts OPBTN_COIN and the next one the game reads it once.   *)
EveryCreditObserved ==
    (\A p \in Procs : ppc[p] = "idle") => observed = credits

(* The latch follows the coin in both directions: a coin that stays in is  *)
(* taken by some poll, and a coin that stays out re-arms the latch, so     *)
(* that every press the game's polling can see apart becomes a credit.     *)
LatchFollowsCoin ==
    /\ CoinPressed(p1, keys) ~> (~CoinPressed(p1, keys) \/ poll_page.affine_coin)
    /\ ~CoinPressed(p1, keys) ~> (CoinPressed(p1, keys) \/ ~poll_page.affine_coin)
=============================================================================
