-------------------------------- MODULE Isotp --------------------------------
(***************************************************************************)
(* The vocabulary the two halves of src/isotp/ share: the frames of ISO    *)
(* 15765-2 as the decoders of isotp.c read them, the sizes their headers   *)
(* leave for data, and the unsigned millisecond arithmetic of the timers.  *)
(*                                                                         *)
(* A frame is what is left of its eight bytes once the header is read:     *)
(* its kind, the numbers in its header, and the payload bytes really       *)
(* present.  A byte is an element of Byte; its value never matters, only   *)
(* which message and which position it came from.                          *)
(***************************************************************************)
EXTENDS Integers, Sequences

CONSTANTS
  FrameSize,    \* ISOTP_CAN_FRAME_SIZE, 8 in the code
  MaxPayload,   \* ISOTP_MAX_PAYLOAD_SIZE, 4095
  SnRange,      \* sequence numbers are counted modulo 16
  ByteRange,    \* the counters kept in one byte wrap at 256
  Byte,         \* the bytes a frame can carry, Pad included
  Pad,          \* ISOTP_PADDING_BYTE
  TimeRange,    \* the clock's period, 2^32
  N_Bs,         \* ISOTP_N_BS_TIMEOUT_MS
  N_Cr          \* ISOTP_N_CR_TIMEOUT_MS

ASSUME FrameAssumption ==
  /\ FrameSize \in Nat /\ FrameSize >= 3
  /\ MaxPayload \in Nat /\ MaxPayload >= FrameSize
  /\ SnRange \in Nat /\ SnRange >= 2
  /\ ByteRange \in Nat /\ ByteRange >= 2
  /\ Pad \in Byte

ASSUME TimerAssumption ==
  /\ TimeRange \in Nat /\ N_Bs \in Nat \ {0} /\ N_Cr \in Nat \ {0}
  /\ N_Bs < TimeRange /\ N_Cr < TimeRange

\* What one frame of each kind can carry, and the shortest message that may
\* not travel in a Single Frame.
SFMax  == FrameSize - 1
FFData == FrameSize - 2
CFData == FrameSize - 1
FFMin  == FrameSize

Time == 0 .. TimeRange - 1

AtMost(n) == {d \in Seq(Byte) : Len(d) <= n}

\* len is the announced length, data the bytes present behind the header.  A
\* First Frame too short to hold its length field counts as announcing 0:
\* both are ignored.
SingleFrames == [kind : {"SF"}, len : Nat, data : AtMost(SFMax)]
FirstFrames  == [kind : {"FF"}, len : Nat, data : AtMost(FFData)]
ConsecutiveFrames ==
  [kind : {"CF"}, sn : 0 .. SnRange - 1, data : AtMost(CFData)]

\* isotp_decode_flow_control: too few bytes and a reserved FlowStatus are
\* the same to its caller.  stmin is already in milliseconds.
FlowControls ==
  [kind   : {"FC"},
   status : {"continue", "wait", "overflow", "malformed"},
   bs     : 0 .. ByteRange - 1,
   stmin  : Time]

\* Frame types 4 to 15, and a CAN frame without a single byte.
OtherFrames == [kind : {"other", "empty"}]

Frame == SingleFrames \cup FirstFrames \cup ConsecutiveFrames
           \cup FlowControls \cup OtherFrames

\* A clock that does not wrap with its type.
AfterUnwrapped(t, d) == t + d

\* (uint32_t)(n - t), and the dates t + d and t - d.
Since(n, t) == IF n >= t THEN n - t ELSE n + TimeRange - t
After(t, d) == IF t + d < TimeRange THEN t + d ELSE t + d - TimeRange
Before(t, d) == IF t >= d THEN t - d ELSE t + TimeRange - d

\* The next sequence number, and the wrap of a one-byte counter.
NextSn(n) == IF n + 1 = SnRange THEN 0 ELSE n + 1
NextByte(n) == IF n + 1 = ByteRange THEN 0 ELSE n + 1

Smaller(a, b) == IF a < b THEN a ELSE b
=============================================================================
