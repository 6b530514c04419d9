------------------------------ MODULE GifCheck ------------------------------
(* bounded_inline_gif of backend/media.rs: the scan that decides whether the  *)
(* GIF a transcoder produced may replace the original attachment. The bytes   *)
(* are not given in advance: each read chooses what it finds, so a behaviour  *)
(* is a scan of one of all the inputs of the chosen length. Offsets are those *)
(* of the code. One loop iteration is one step.                               *)
EXTENDS Integers

CONSTANTS
    MaxBytes,        \* MAX_INLINE_MEDIA_BYTES
    MaxEdge,         \* MAX_INLINE_GIF_EDGE
    MaxPixels,       \* MAX_INLINE_GIF_PIXELS
    MaxPixelFrames,  \* MAX_INLINE_GIF_PIXEL_FRAMES
    Lengths,         \* lengths of the data that is scanned
    Words,           \* what two bytes may encode: gif_u16
    Bytes,           \* what a length or code-size byte may hold
    TableBits        \* the low three bits of a packed field

ASSUME GifAssumption ==
    /\ {MaxBytes, MaxEdge, MaxPixels, MaxPixelFrames} \subseteq Nat
    /\ Lengths \subseteq Nat /\ Words \subseteq Nat /\ Bytes \subseteq Nat
    /\ TableBits \subseteq 0..7

VARIABLES
    scan,     \* "idle", "header", "blocks", "subblocks", "accepted" or "rejected"
    size,     \* data.len()
    offset,
    touched,  \* history: one past the last byte the scan has read
    canvas,   \* [width, height] of the logical screen
    frames

gifVars == <<scan, size, offset, touched, canvas, frames>>

Scanning == {"header", "blocks", "subblocks"}
NoCanvas == [width |-> 0, height |-> 0]
Pixels == canvas.width * canvas.height

GifInit ==
    /\ scan = "idle" /\ size = 0 /\ offset = 0 /\ touched = 0
    /\ canvas = NoCanvas /\ frames = 0

(* bounded_inline_gif is called on data of length n.                          *)
BeginScan(n) ==
    /\ scan \notin Scanning
    /\ scan' = "header" /\ size' = n
    /\ offset' = 0 /\ touched' = 0 /\ canvas' = NoCanvas /\ frames' = 0

(* The process that was scanning is gone.                                     *)
GifReset ==
    /\ scan' = "idle" /\ size' = 0 /\ offset' = 0 /\ touched' = 0
    /\ canvas' = NoCanvas /\ frames' = 0

Reject == scan' = "rejected" /\ UNCHANGED <<size, offset, touched, canvas, frames>>

(* Mutant: the amount is compared with the size, not with what is left of it. *)
AdvanceFitsWholly(from, amount) == from <= size /\ amount <= size

(* advance_gif_offset accepts the amount.                                     *)
AdvanceFits(from, amount) == from <= size /\ amount <= size - from

(* The color table of a packed field whose high bit is set: 3 << (bits + 1).  *)
PowersOfTwo == <<2, 4, 8, 16, 32, 64, 128, 256>>
ColorTable(bits) == 3 * PowersOfTwo[bits + 1]
Tables == {0} \cup {ColorTable(b) : b \in TableBits}

CanvasAllowed(w, h) ==
    /\ w # 0 /\ h # 0
    /\ w <= MaxEdge /\ h <= MaxEdge /\ w * h <= MaxPixels

(* The length, the signature, the logical screen and its global color table.  *)
ReadHeader ==
    /\ scan = "header"
    /\ \/ Reject
       \/ /\ size >= 13 /\ size <= MaxBytes
          /\ \E w, h \in Words, table \in Tables :
               /\ CanvasAllowed(w, h)
               /\ AdvanceFits(13, table)
               /\ canvas' = [width |-> w, height |-> h]
               /\ offset' = 13 + table
          /\ touched' = 11 /\ scan' = "blocks"
          /\ UNCHANGED <<size, frames>>

(* The loop ran out of data before the trailer, or met an unknown marker.     *)
ReadNoBlock ==
    /\ scan = "blocks"
    /\ IF offset >= size THEN Reject
       ELSE /\ scan' = "rejected" /\ offset' = offset + 1 /\ touched' = offset + 1
            /\ UNCHANGED <<size, canvas, frames>>

(* Marker 0x3b.                                                               *)
ReadTrailer ==
    /\ scan = "blocks" /\ offset < size
    /\ scan' = IF frames > 0 THEN "accepted" ELSE "rejected"
    /\ offset' = offset + 1 /\ touched' = offset + 1
    /\ UNCHANGED <<size, canvas, frames>>

(* Marker 0x21: the label is skipped unread.                                  *)
ReadExtension ==
    /\ scan = "blocks" /\ offset < size
    /\ touched' = offset + 1
    /\ IF AdvanceFits(offset + 1, 1)
       THEN scan' = "subblocks" /\ offset' = offset + 2
       ELSE scan' = "rejected" /\ offset' = offset + 1
    /\ UNCHANGED <<size, canvas, frames>>

FrameAllowed(n) == n <= MaxPixelFrames \div Pixels

(* Marker 0x2c: nine bytes of image descriptor, a local color table and the   *)
(* code size of the compressed data.                                          *)
ReadImage ==
    /\ scan = "blocks" /\ offset < size
    /\ IF 9 > size - (offset + 1)
       THEN scan' = "rejected" /\ touched' = offset + 1 /\ offset' = offset + 1 /\ UNCHANGED frames
       ELSE \E left, top, width, height \in Words, table \in Tables, code \in Bytes :
              LET data == offset + 10 + table
              IN  IF \/ width = 0 \/ left + width > canvas.width
                     \/ height = 0 \/ top + height > canvas.height
                  THEN /\ scan' = "rejected" /\ touched' = offset + 10
                       /\ offset' = offset + 10 /\ UNCHANGED frames
                  ELSE /\ frames' = frames + 1
                       /\ IF \/ ~FrameAllowed(frames + 1)
                             \/ ~AdvanceFits(offset + 10, table)
                             \/ data >= size
                          THEN /\ scan' = "rejected" /\ touched' = offset + 10
                               /\ offset' = offset + 10
                          ELSE /\ scan' = IF code \in 2..8 THEN "subblocks" ELSE "rejected"
                               /\ touched' = data + 1 /\ offset' = data + 1
    /\ UNCHANGED <<size, canvas>>

(* One iteration of skip_gif_sub_blocks.                                      *)
SkipSubBlock ==
    /\ scan = "subblocks"
    /\ IF offset >= size THEN Reject
       ELSE /\ \E length \in Bytes :
                 \/ /\ length = 0
                    /\ scan' = "blocks" /\ offset' = offset + 1
                 \/ /\ length > 0 /\ AdvanceFits(offset + 1, length)
                    /\ scan' = scan /\ offset' = offset + 1 + length
                 \/ /\ length > 0 /\ ~AdvanceFits(offset + 1, length)
                    /\ scan' = "rejected" /\ offset' = offset + 1
            /\ touched' = offset + 1
            /\ UNCHANGED <<size, canvas, frames>>

Scan ==
    \/ ReadHeader \/ ReadNoBlock \/ ReadTrailer \/ ReadExtension \/ ReadImage
    \/ SkipSubBlock

GifNext == (\E n \in Lengths : BeginScan(n)) \/ Scan \/ GifReset

GifSpec == GifInit /\ [][GifNext]_gifVars

-----------------------------------------------------------------------------
GifTypeOK ==
    /\ scan \in Scanning \cup {"idle", "accepted", "rejected"}
    /\ {size, offset, touched, frames} \subseteq Nat
    /\ canvas \in [width : Nat, height : Nat]

(* Whatever the bytes say, the scan reads none beyond the end of the data (an *)
(* index out of range would panic), and what it accepts is an image of at     *)
(* least one frame on a canvas within the limits whose frames together stay   *)
(* within the budget of pixels a decoder is given.                            *)
AcceptedIsBounded ==
    /\ touched <= size /\ offset <= size
    /\ scan = "accepted" =>
         /\ size <= MaxBytes
         /\ CanvasAllowed(canvas.width, canvas.height)
         /\ frames > 0 /\ frames * Pixels <= MaxPixelFrames

(* The scan ends on every input: as long as it goes on, each iteration        *)
(* consumes data, extensions and empty blocks included.                       *)
ScanAdvances ==
    [][(scan \in Scanning /\ scan' \in Scanning) => offset' > offset]_gifVars
=============================================================================
