----------------------------- MODULE FrameCodec -----------------------------
(***************************************************************************)
(* The length-prefixed frames of arena.agent.io.v1 at the level of bytes:  *)
(* encode_frame() and FrameDecoder.  The generator feed() is taken apart   *)
(* into its chunk and the frames its consumer asks for one by one.         *)
(* Headers have HeaderSize digits of base Base, 4 and 256 in the code.     *)
(***************************************************************************)
EXTENDS Integers, Sequences, SequencesExt

CONSTANTS HeaderSize, Base, MaxFrameSize

ASSUME CodecAssumption == HeaderSize \in Nat \ {0} /\ Base \in Nat \ {0, 1} /\ MaxFrameSize \in Nat \ {0}

Byte == 0..(Base - 1)

\* A length without its last k digits.
Shifted(length) ==
  LET shifted[k \in 0..HeaderSize] == IF k = 0 THEN length ELSE shifted[k - 1] \div Base IN shifted

encode_frame(payload) ==
  [n \in 1..HeaderSize |-> Shifted(Len(payload))[HeaderSize - n] % Base] \o payload

frame_length(header) ==
  LET length[n \in 0..Len(header)] == IF n = 0 THEN 0 ELSE Base * length[n - 1] + header[n]
  IN  length[Len(header)]

\* struct.pack raises for any other length.
Packable(payload) == Shifted(Len(payload))[HeaderSize] = 0

\* What _next_frame finds at the head of the buffer.
HasHeader(buffer) == Len(buffer) >= HeaderSize
Length(buffer) == frame_length(SubSeq(buffer, 1, HeaderSize))
TooLarge(buffer) == HasHeader(buffer) /\ Length(buffer) > MaxFrameSize
HasFrame(buffer) ==
  HasHeader(buffer) /\ ~TooLarge(buffer) /\ Len(buffer) >= HeaderSize + Length(buffer)

Frame(buffer) == SubSeq(buffer, HeaderSize + 1, HeaderSize + Length(buffer))
Rest(buffer) == SubSeq(buffer, HeaderSize + Length(buffer) + 1, Len(buffer))

\* finish() raises for a truncated frame.
BugTruncated(buffer) == HasHeader(buffer)
Truncated(buffer) == buffer # <<>>
=============================================================================
