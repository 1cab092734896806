---------------------------- MODULE TouchHidCodec ---------------------------
(***************************************************************************)
(* Touch reports of the mai2 board over HID (crates/affine-mai2/src/       *)
(* lib.rs): a frame comes as two reports, each with all the sensors at the *)
(* moment it was made; parse_touch_hid_part and TouchHidAssembler::push.   *)
(* Sensors are sets of numbers; a packed touch is a set of pairs of a byte *)
(* and a bit of it.                                                        *)
(***************************************************************************)
EXTENDS Integers, Sequences

CONSTANT SeqMod       \* stream_seq wraps here, 256 in the code

PartCount == 2
Sensors == 0..33

(* The reports of a message (external): [seq, bits], the sensors at the    *)
(* first and at the second report.                                         *)
Wire(m) ==
    [i \in 1..PartCount |->
        [ok |-> TRUE, seq |-> m.seq, index |-> i - 1, bits |-> m.bits[i]]]

(* A report of another kind, too short, or without touch data.             *)
BadReport == [ok |-> FALSE, seq |-> 0, index |-> 0, bits |-> {}]

(* pack_legacy_touch_bits.                                                 *)
Pack(bits) == {<<i \div 5, i % 5>> : i \in bits \cap Sensors}

Idle == [seq |-> 0, mask |-> {}]

(* Faulty variant: parts of another frame complete this one.               *)
AssembleAnySeq(d, part) ==
    LET mask == d.mask \cup {part.index}
    IN IF mask = 0..(PartCount - 1)
       THEN [state |-> [seq |-> part.seq, mask |-> {}], out |-> <<Pack(part.bits)>>]
       ELSE [state |-> [seq |-> part.seq, mask |-> mask], out |-> <<>>]

(* The mask is kept for the sequence number it was begun with, and the     *)
(* sensors are those of the part that came last.                           *)
Assemble(d, part) ==
    LET mask == (IF d.seq = part.seq THEN d.mask ELSE {}) \cup {part.index}
    IN IF mask = 0..(PartCount - 1)
       THEN [state |-> [seq |-> part.seq, mask |-> {}], out |-> <<Pack(part.bits)>>]
       ELSE [state |-> [seq |-> part.seq, mask |-> mask], out |-> <<>>]

Push(d, report) ==
    IF report.ok THEN Assemble(d, report) ELSE [state |-> d, out |-> <<>>]
=============================================================================
