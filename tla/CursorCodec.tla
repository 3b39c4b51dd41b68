------------------------------- MODULE CursorCodec -------------------------------
(***************************************************************************)
(* The bit-packed cursor frames of services/cursorCodec.service.ts: four   *)
(* fields of sixteen bits, the high byte first.  User hashes wrap, the     *)
(* other fields saturate.                                                   *)
(***************************************************************************)
EXTENDS Integers, Sequences, SequencesExt

CONSTANTS
    Hashes, Positions,  \* numbers a field is given
    MaxCursors          \* bound: cursors of a batch

VARIABLE cursors   \* the batch
codecVars == <<cursors>>

CURSOR_FRAME_BYTES == 8
Fields == 1..4
Wrap(n) == n % 65536

(* Mutant: a position wraps like the hash does. *)
Overflown(n) == Wrap(n)
Clamp(n) == IF n < 0 THEN 0 ELSE IF n > 65535 THEN 65535 ELSE n

(* setUint16, getUint16: big-endian. *)
Uint16(n) == <<n \div 256, n % 256>>
ReadUint16(bytes, at) == bytes[at] * 256 + bytes[at + 1]

(* hashUserIdToUint16 *)
HashUserId(codes) == FoldLeft(LAMBDA hash, code : Wrap(hash * 32 - hash + code), 0, codes)

EncodeBitPackedCursor(c) == Uint16(Wrap(c[1])) \o Uint16(Clamp(c[2])) \o Uint16(Clamp(c[3])) \o Uint16(Clamp(c[4]))
DecodeBitPackedCursor(bytes) == [f \in Fields |-> ReadUint16(bytes, 2 * f - 1)]

EncodeCursorBatch(batch) == FlattenSeq([k \in DOMAIN batch |-> EncodeBitPackedCursor(batch[k])])
DecodeCursorBatch(bytes) ==
    [k \in 1..(Len(bytes) \div CURSOR_FRAME_BYTES) |->
        [f \in Fields |-> ReadUint16(bytes, (k - 1) * CURSOR_FRAME_BYTES + 2 * f - 1)]]

-----------------------------------------------------------------------------
Init == cursors = <<>>
AddCursor ==
    \E hash \in Hashes, line, column, selection \in Positions :
        /\ Len(cursors) < MaxCursors
        /\ cursors' = Append(cursors, <<hash, line, column, selection>>)
Next == AddCursor
Spec == Init /\ [][Next]_codecVars

-----------------------------------------------------------------------------
(* Properties. *)

Distance(a, b) == IF a < b THEN b - a ELSE a - b
InRange(n) == 0 <= n /\ n <= 65535

(* Eight bytes a cursor; what fits in sixteen bits comes back unchanged,   *)
(* what does not comes back as the nearest position, in a batch as alone;  *)
(* a batch that was cut off gives its whole frames; hashes fit.            *)
FramesRoundTrip ==
    LET bytes == EncodeCursorBatch(cursors)  decoded == DecodeCursorBatch(bytes) IN
    /\ Len(bytes) = CURSOR_FRAME_BYTES * Len(cursors)
    /\ \A k \in DOMAIN bytes : bytes[k] \in 0..255
    /\ Len(decoded) = Len(cursors)
    /\ \A k \in DOMAIN cursors :
        /\ decoded[k] = DecodeBitPackedCursor(EncodeBitPackedCursor(cursors[k]))
        /\ \A f \in Fields :
            /\ InRange(cursors[k][f]) => decoded[k][f] = cursors[k][f]
            /\ f # 1 => \A n \in Positions : InRange(n) =>
                Distance(decoded[k][f], cursors[k][f]) <= Distance(n, cursors[k][f])
    /\ \A cut \in 0..Len(bytes) :
        DecodeCursorBatch(SubSeq(bytes, 1, cut)) = SubSeq(decoded, 1, cut \div CURSOR_FRAME_BYTES)
    /\ \A k \in DOMAIN cursors : InRange(HashUserId(Tail(cursors[k])))
=============================================================================
