----------------------------- MODULE Segmentation -----------------------------
(***************************************************************************)
(* How a payload is cut into CAN frames (tx.go, txSpool and txSpoolV0) and *)
(* put together again (rx.go, rxSlotAdvance to rxSessionCompleteSlot),     *)
(* byte by byte, as pure operators.                                        *)
(*                                                                         *)
(* A byte is <<"data", i>>, the i-th of the payload, <<"pad", 0>>, or one  *)
(* of the two bytes of a CRC, <<"hi", c>> and <<"lo", c>>.  A CRC is the   *)
(* sequence of the bytes it was computed over: two of them are equal only  *)
(* if the bytes are.                                                       *)
(***************************************************************************)
EXTENDS Integers, Sequences, FiniteSets, FiniteSetsExt, SequencesExt

Nothing == <<<<"nothing", 0>>>>

Classic == 8            \* MTUClassic, and the only MTU of v0
crcSize == 2            \* crcBytes

DlcToLen == (0..8) \cup {12, 16, 20, 24, 32, 48, 64}

\* The smallest length that a DLC can stand for and that holds x bytes.
txCeilFramePayloadSize(x) == Min({l \in DlcToLen : l >= x})

FrameSize(mtu, x) == IF mtu = Classic THEN txCeilFramePayloadSize(x) ELSE x

Payload(size) == [i \in 1..size |-> <<"data", i>>]
Padding(n) == [i \in 1..n |-> <<"pad", 0>>]
Hi(crc) == <<"hi", crc>>
Lo(crc) == <<"lo", crc>>

\* A frame without its tail byte, and what the tail byte says.
Frame(data, start, end, toggle) ==
    [data |-> data, start |-> start, end |-> end, toggle |-> toggle]

-----------------------------------------------------------------------------
(* Sending.                                                                *)

\* Mutant: the room left in the frame is not looked at.
CrcPartOverrun(size, offset, room, crc) ==
    (IF offset = size THEN <<Hi(crc)>> ELSE <<>>) \o <<Lo(crc)>>

\* The CRC bytes that still fit behind the payload: a frame may end between
\* the two, and then the next one carries the second alone.
CrcPart(size, offset, room, crc) ==
    (IF room >= 1 /\ offset = size THEN <<Hi(crc)>> ELSE <<>>)
      \o (IF room >= 2 \/ (room >= 1 /\ offset > size) THEN <<Lo(crc)>> ELSE <<>>)

\* One round of the loop of txSpool, from the offset reached so far in the
\* payload and its CRC; crc covers the bytes of the earlier rounds.
SpoolFrame(mtu, size, offset, crc) ==
    LET left == size + crcSize - offset
        room == (IF left < mtu - 1 THEN FrameSize(mtu, left + 1) ELSE mtu) - 1
        moved == IF offset < size THEN SubSeq(Payload(size), offset + 1, Min({size, offset + room}))
                 ELSE <<>>
        reached == offset + Len(moved)
        pad == IF reached < size \/ room - Len(moved) <= crcSize THEN <<>>
               ELSE Padding(room - Len(moved) - crcSize)
        covered == crc \o moved \o pad
        check == IF reached < size THEN <<>>
                 ELSE CrcPart(size, reached, room - Len(moved) - Len(pad), covered)
    IN  [data |-> moved \o pad \o check, crc |-> covered,
         offset |-> reached + Len(check)]

\* At most one frame more than the bytes of the transfer are made.
txSpoolLoop(mtu, size) ==
    LET round(acc, i) ==
            LET step == SpoolFrame(mtu, size, acc.offset, acc.crc)
            IN  IF acc.offset >= size + crcSize THEN acc
                ELSE [offset |-> step.offset, crc |-> step.crc,
                      frames |-> Append(acc.frames,
                          Frame(step.data, acc.frames = <<>>, step.offset >= size + crcSize,
                                Len(acc.frames) % 2 = 0))]
    IN  FoldLeft(round, [offset |-> 0, crc |-> <<>>, frames |-> <<>>],
                 [i \in 1..(size + crcSize) |-> i]).frames

txSpool(mtu, size) ==
    IF size < mtu
    THEN <<Frame(Payload(size) \o Padding(FrameSize(mtu, size + 1) - 1 - size), TRUE, TRUE, TRUE)>>
    ELSE txSpoolLoop(mtu, size)

\* v0: the CRC, little-endian, comes first, and the toggle starts with 0.
txSpoolV0(size) ==
    LET crc == Payload(size)
        full == <<Lo(crc), Hi(crc)>> \o Payload(size)
        per == Classic - 1
        n == (Len(full) + per - 1) \div per
    IN  IF size < Classic
        THEN <<Frame(Payload(size), TRUE, TRUE, FALSE)>>
        ELSE [i \in 1..n |->
                Frame(SubSeq(full, per * (i - 1) + 1, Min({per * i, Len(full)})),
                      i = 1, i = n, i % 2 = 0)]

Spooled(v0, mtu, size) == IF v0 THEN txSpoolV0(size) ELSE txSpool(mtu, size)

-----------------------------------------------------------------------------
(* Receiving.  The receiver is [slot, out]: the slot that is open, if any, *)
(* and what OnMessage got.                                                 *)

rxSlotInit(v0, extent) ==
    [extent |-> IF v0 THEN extent + crcSize ELSE extent,
     totalSize |-> 0, payload |-> <<>>, crc |-> <<>>, expectedToggle |-> ~v0]

\* rxSlotAdvance, and the CRC that rxSessionAccept goes on with; the CRC bytes
\* that start a v0 transfer are not part of it.
SlotWith(v0, slot, fr) ==
    [slot EXCEPT
        !.payload = @ \o SubSeq(fr.data, 1, Min({Len(fr.data), slot.extent - Len(slot.payload)})),
        !.totalSize = @ + Len(fr.data),
        !.expectedToggle = ~@,
        !.crc = @ \o (IF v0 /\ fr.start THEN SubSeq(fr.data, crcSize + 1, Len(fr.data)) ELSE fr.data)]

\* The running CRC of v1 comes to the residue; that of v0 is compared with the
\* two bytes in front.
CrcRight(v0, slot) ==
    IF v0 THEN SubSeq(slot.payload, 1, crcSize) = <<Lo(slot.crc), Hi(slot.crc)>>
    ELSE LET body == SubSeq(slot.crc, 1, Len(slot.crc) - crcSize)
         IN  slot.crc = body \o <<Hi(body), Lo(body)>>

\* rxSessionCompleteSlot: what OnMessage is given.
View(v0, slot) ==
    LET first == IF v0 THEN crcSize ELSE 0
        size == Min({slot.totalSize - crcSize, slot.extent - first})
    IN  SubSeq(slot.payload, first + 1, first + size)

\* A start frame opens a slot; another one needs the slot with its toggle.
rxAccept(v0, extent, rx, fr) ==
    LET slots == IF fr.start THEN {rxSlotInit(v0, extent)}
                 ELSE {s \in rx.slot : s.expectedToggle = fr.toggle}
        slot == SlotWith(v0, CHOOSE s \in slots : TRUE, fr)
    IN  CASE fr.start /\ fr.end -> [slot |-> {}, out |-> fr.data]
          [] ~fr.start /\ slots = {} -> rx
          [] slots # {} /\ fr.end ->
                [slot |-> {}, out |-> IF CrcRight(v0, slot) THEN View(v0, slot) ELSE rx.out]
          [] OTHER -> [rx EXCEPT !.slot = {slot}]

\* What the application gets of the frames that arrive.
Reassembled(v0, extent, frames) ==
    LET accept(rx, fr) == rxAccept(v0, extent, rx, fr)
    IN  FoldLeft(accept, [slot |-> {}, out |-> Nothing], frames).out
=============================================================================
