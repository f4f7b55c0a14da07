----------------------------- MODULE FrameFormat -----------------------------
(***************************************************************************)
(* How AesCgmCryptor lays out an encrypted frame, and how the other side   *)
(* finds its parts again:                                                  *)
(*                                                                         *)
(*   header in the clear | sealed rest | IV | size of the IV | key index   *)
(*                                                                         *)
(* Everything behind the header of an H264 or H265 frame is escaped, so    *)
(* that it holds no start code. Both sides have encryption on and the key, *)
(* see FrameKeys for when they have not. Sealing is opaque: it yields any  *)
(* bytes, and only they, the IV and the header that were used open it; the *)
(* tag is a part of them.                                                  *)
(*                                                                         *)
(* External: FindNaluIndices, ParseNaluType, WriteRbsp of WebRTC.          *)
(***************************************************************************)
EXTENDS Integers, Sequences, FiniteSets

CONSTANTS
  FrameBytes,     \* what frames, sealed or not, consist of
  Ivs,            \* what makeIv may make
  IvSize,
  KeyIndexes,
  Sif,            \* the trailer of frames that the server injects
  MaxFrame,       \* bound: bytes of a frame
  DefaultHeader,  \* bytes in the clear if a frame has no slice, 12 in the code
  HeaderLimit     \* what a size of a header is below, 256 in the code

ASSUME FrameFormatAssumption ==
  /\ FrameBytes \subseteq 0..255 /\ KeyIndexes \subseteq 0..255 /\ Sif \in Seq(0..255)
  /\ IvSize \in 4..255 /\ Ivs \subseteq [1..IvSize -> FrameBytes]
  /\ MaxFrame \in Nat /\ DefaultHeader \in 1..MaxFrame /\ HeaderLimit \in Nat \ {0}

VARIABLE frame  \* a frame on its way, or NoFrame

NoFrame == [step |-> "none"]

----------------------------------------------------------------------------
(* The part in the clear.                                                  *)

Codecs == {"h264", "h265", "other"}
Escaped(codec) == codec \in {"h264", "h265"}

\* Where a start code 0 0 1 begins that something follows.
StartCodes(data) ==
  {i \in 1..(Len(data) - 3) : data[i] = 0 /\ data[i + 1] = 0 /\ data[i + 2] = 1}

\* A slice, IDR or not, of H264; IDR_W_RADL, IDR_N_LP and CRA of H265.
IsSlice(codec, byte) ==
  IF codec = "h264" THEN byte % 32 \in {1, 5} ELSE (byte \div 2) % 64 \in {19, 20, 21}

\* What of a slice is in the clear: its unit's header and one byte.
HeadOfSlice(codec) == IF codec = "h264" THEN 2 ELSE 3

Slices(codec, data) == {i \in StartCodes(data) : IsSlice(codec, data[i + 3])}

FirstSlice(codec, data) ==
  CHOOSE i \in Slices(codec, data) : \A j \in Slices(codec, data) : i <= j

FullHeader(codec, data) == FirstSlice(codec, data) + 2 + HeadOfSlice(codec)

\* unencryptedBytes, an uint8_t. The header of a frame of audio or of VP8 has one size.
HeaderSize(codec, data) ==
  IF codec = "other" THEN 1
  ELSE IF Slices(codec, data) = {} THEN DefaultHeader
  ELSE FullHeader(codec, data) % HeaderLimit

----------------------------------------------------------------------------
(* The sender.                                                             *)

\* WriteRbsp: a 3 goes before a byte up to 3 that two zeros precede, and the zeros are counted
\* anew behind it: it goes before those that an even number of zeros precedes.
ZerosBefore(data, i) == Cardinality({j \in 1..(i - 1) : \A k \in j..(i - 1) : data[k] = 0})
NeedsEscape(data) ==
  {i \in 1..Len(data) : data[i] <= 3 /\ ZerosBefore(data, i) > 0 /\ ZerosBefore(data, i) % 2 = 0}
PlaceOf(escapes, i) == i + Cardinality({j \in escapes : j <= i})

Escape(data) ==
  LET escapes == NeedsEscape(data)
      at == [i \in 1..Len(data) |-> PlaceOf(escapes, i)]
  IN  [n \in 1..(Len(data) + Cardinality(escapes)) |->
         IF \E i \in 1..Len(data) : at[i] = n THEN data[CHOOSE i \in 1..Len(data) : at[i] = n] ELSE 3]

\* Two bytes behind the IV.
Trailer(index) == <<IvSize, index>>

ClearFrames == UNION {[1..n -> FrameBytes] : n \in 1..MaxFrame}

\* Any frame that has the header that is looked for.
NewFrame ==
  /\ frame = NoFrame
  /\ \E codec \in Codecs, data \in ClearFrames :
       /\ HeaderSize(codec, data) <= Len(data)
       /\ frame' = [step |-> "clear", codec |-> codec, clear |-> data]

\* encryptFrame.
EncryptFrame ==
  /\ frame.step = "clear"
  /\ LET size == HeaderSize(frame.codec, frame.clear)
         head == SubSeq(frame.clear, 1, size)
     IN  \E sealed \in [1..(Len(frame.clear) - size) -> FrameBytes], iv \in Ivs, k \in KeyIndexes :
           LET rest == sealed \o iv \o Trailer(k)
           IN  frame' = [step |-> "sent", codec |-> frame.codec, clear |-> frame.clear,
                         with |-> [head |-> head, sealed |-> sealed, iv |-> iv, key |-> k],
                         data |-> head \o (IF Escaped(frame.codec) THEN Escape(rest) ELSE rest)]

\* A frame of the server, which has no key, says so by its last bytes.
Inject ==
  /\ frame.step = "clear"
  /\ frame' = [step |-> "injected", codec |-> frame.codec, clear |-> frame.clear,
               data |-> frame.clear \o Sif]

----------------------------------------------------------------------------
(* The receiver.                                                           *)

EndsWithSif(data) ==
  Sif # <<>> /\ Len(Sif) <= Len(data) /\ SubSeq(data, Len(data) - Len(Sif) + 1, Len(data)) = Sif

MutIvOf(data) == SubSeq(data, Len(data) - IvSize, Len(data) - 1)

\* The IV is taken out of the frame as it came.
IvOf(data) == SubSeq(data, Len(data) - 1 - IvSize, Len(data) - 2)

\* Behind the header: ParseRbsp is called and what it returns is dropped, so that the
\* escapes stay.
PayloadOf(data, size) == SubSeq(data, size + 1, Len(data) - 2 - IvSize)

\* decryptFrame.
PassInjected ==
  /\ frame.step \in {"sent", "injected"} /\ EndsWithSif(frame.data)
  /\ frame' = [step |-> "told", clear |-> frame.clear,
               data |-> SubSeq(frame.data, 1, Len(frame.data) - Len(Sif))]

Opens ==
  LET size == HeaderSize(frame.codec, frame.data)
  IN  /\ frame.data[Len(frame.data) - 1] = IvSize
      /\ frame.with = [head |-> SubSeq(frame.data, 1, size), sealed |-> PayloadOf(frame.data, size),
                       iv |-> IvOf(frame.data), key |-> frame.data[Len(frame.data)]]

DecryptFrame ==
  /\ frame.step = "sent" /\ ~EndsWithSif(frame.data)
  /\ frame' = IF Opens THEN [step |-> "told", clear |-> frame.clear, data |-> frame.clear]
                       ELSE [frame EXCEPT !.step = "lost"]

FrameInit == frame = NoFrame

FrameNext == NewFrame \/ EncryptFrame \/ Inject \/ PassInjected \/ DecryptFrame

FrameSpec == FrameInit /\ [][FrameNext]_frame

----------------------------------------------------------------------------
\* A 3 was put in: it is not taken out again.
WasEscaped ==
  Escaped(frame.codec) /\ frame.data # frame.with.head \o frame.with.sealed \o frame.with.iv
                                       \o Trailer(frame.with.key)

\* The first slice is so far behind that the size of the header wrapped.
Wrapped ==
  /\ Escaped(frame.codec) /\ Slices(frame.codec, frame.clear) # {}
  /\ FullHeader(frame.codec, frame.clear) >= HeaderLimit

\* The end of the header and what follows make up a slice that was none before.
NewSlice ==
  Escaped(frame.codec) /\
    ~(Slices(frame.codec, frame.data) \subseteq Slices(frame.codec, frame.clear))

\* encryptFrame and decryptFrame: a frame that is told is the one that was sent, and one that is
\* lost was escaped, had its first slice too far behind, or seemed to have another one.
FramesSurvive ==
  /\ frame.step = "told" => frame.data = frame.clear
  /\ frame.step = "lost" => WasEscaped \/ Wrapped \/ NewSlice
=============================================================================
