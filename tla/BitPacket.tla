----------------------------- MODULE BitPacket -----------------------------
(***************************************************************************)
(* The bit-packet buffer of one protocol instance (struct protocol_state, *)
(* fields bits_buffer, bits_row_idx, bits_col_idx, bits_bit_col_idx) and  *)
(* its three primitives demod_reset_bits_packet, demod_add_bit and        *)
(* demod_next_bits_packet.                                                 *)
(*                                                                         *)
(* A byte of bits_buffer is represented by the set of its bit positions   *)
(* that are 1, so `byte |= 1 << k` is `byte \cup {k}`.  The width of a    *)
(* byte (8 in the code, whose bit cursor starts at 7) is the constant     *)
(* ByteBits so that small instances can reach the saturated cursor.       *)
(***************************************************************************)
EXTENDS Naturals

CONSTANTS BITBUF_ROWS, BITBUF_COLS, ByteBits

ASSUME BitPacketAssumption ==
  /\ BITBUF_ROWS \in Nat \ {0}
  /\ BITBUF_COLS \in Nat \ {0}
  /\ ByteBits \in Nat \ {0}

Rows == 0 .. BITBUF_ROWS - 1
Cols == 0 .. BITBUF_COLS - 1
BitIdx == 0 .. ByteBits - 1
Byte == SUBSET BitIdx
Buffers == [Rows -> [Cols -> Byte]]

(* The all-zero buffer left by memset(p->bits_buffer, 0, ...). *)
ZeroBuffer == [r \in Rows |-> [c \in Cols |-> {}]]

(* `if (i > max) i = max;`: the clamp of a cursor component. *)
ClampIdx(i, max) == IF i > max THEN max ELSE i

(* `byte |= bit << k` for bit \in {0, 1}. *)
OrBit(byte, k, bit) == IF bit = 1 THEN byte \cup {k} ELSE byte

(* demod_reset_bits_packet: clear the buffer, cursor to row 0, byte 0, *)
(* bit 7.                                                               *)
demod_reset_bits_packet(p) ==
  [p EXCEPT !.bits_buffer = ZeroBuffer,
            !.bits_col_idx = 0,
            !.bits_bit_col_idx = ByteBits - 1,
            !.bits_row_idx = 0]

(* demod_add_bit: OR the bit in at the cursor, move the bit cursor down; *)
(* below 0 it restarts at 7 in the next byte, the byte index being     *)
(* clamped to the last column (the diagnostic is not modelled).        *)
demod_add_bit(p, bit) ==
  LET k == p.bits_bit_col_idx - 1
  IN [p EXCEPT
        !.bits_buffer[p.bits_row_idx][p.bits_col_idx] =
            OrBit(@, p.bits_bit_col_idx, bit),
        !.bits_bit_col_idx = IF k < 0 THEN ByteBits - 1 ELSE k,
        !.bits_col_idx = IF k < 0 THEN ClampIdx(@ + 1, BITBUF_COLS - 1)
                                  ELSE @]

(* Mutant: demod_next_bits_packet without the clamp of the row index. *)
NextBitsPacketUnclamped(p) ==
  [p EXCEPT !.bits_col_idx = 0,
            !.bits_row_idx = @ + 1,
            !.bits_bit_col_idx = ByteBits - 1]

(* demod_next_bits_packet: start the next row, the row index clamped to *)
(* the last row.                                                         *)
demod_next_bits_packet(p) ==
  [p EXCEPT !.bits_col_idx = 0,
            !.bits_row_idx = ClampIdx(@ + 1, BITBUF_ROWS - 1),
            !.bits_bit_col_idx = ByteBits - 1]

=============================================================================
