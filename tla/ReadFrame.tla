------------------------------ MODULE ReadFrame ------------------------------
(***************************************************************************)
(* MjpegCodec::read_frame(): cutting the byte stream of an .mjpeg file     *)
(* into JPEG frames with a small read buffer.  A step is one turn of the   *)
(* search for the start marker or of the search for the end marker, each   *)
(* with the copying and the reading from the file that belongs to it.      *)
(* Bytes are the three that the searches look at, FF, D8 and D9, and XX    *)
(* for every other value.                                                  *)
(***************************************************************************)
EXTENDS Integers, Sequences

CONSTANTS
  BufSize,   \* READ_BUFFER_SIZE
  Films      \* the files: [bytes, frames, cut], frame k ends at byte cut[k]

Byte == {"FF", "D8", "D9", "XX"}

\* The file has the bytes FF b at position j.
Marker(f, j, b) == f.bytes[j] = "FF" /\ f.bytes[j + 1] = b

\* No end marker lies within the bytes a + 1 .. b of the file.
NoEndWithin(f, a, b) == \A j \in a + 1 .. b - 1 : ~Marker(f, j, "D9")

\* A file of frames one behind the other, each from FFD8 to the first FFD9 with
\* something in between, and perhaps a last one that is cut off in its body and
\* not directly behind an FF.
WellFormed(f) ==
  /\ f.bytes \in Seq(Byte) /\ f.frames \in Nat
  /\ f.cut \in [0 .. f.frames -> Nat] /\ f.cut[0] = 0
  /\ \A a, b \in 0 .. f.frames : a < b => f.cut[a] + 5 <= f.cut[b]
  /\ \A k \in 1 .. f.frames :
       /\ f.cut[k] <= Len(f.bytes)
       /\ Marker(f, f.cut[k - 1] + 1, "D8") /\ Marker(f, f.cut[k] - 1, "D9")
       /\ NoEndWithin(f, f.cut[k - 1], f.cut[k] - 1)
  /\ LET e == f.cut[f.frames]
     IN \/ Len(f.bytes) = e
        \/ /\ Len(f.bytes) >= e + 3 /\ Marker(f, e + 1, "D8")
           /\ NoEndWithin(f, e, Len(f.bytes))
           /\ f.bytes[Len(f.bytes)] # "FF"

ASSUME ReadAssumption ==
  /\ BufSize \in Nat /\ BufSize >= 4
  /\ \A f \in Films : WellFormed(f)

VARIABLES
  film,        \* the file
  pos,         \* bytes of it read so far
  m_read_buf,  \* the read buffer; at BufSize the byte that lies behind it
  m_buf_read,  \* unused bytes in the buffer
  m_input,     \* m_input_index > 0
  pc,          \* the loop the call is in: idle, start or end
  p, i,        \* _p - m_read_buf and i
  data,        \* what the call has copied
  out,         \* frames returned since the file was bound or rewound
  result       \* what the last call returned, "none" before the first

bufVars == <<pos, m_read_buf, m_buf_read>>
callVars == <<pc, p, i, data>>
vars == <<film, bufVars, m_input, callVars, out, result>>

\* Behind m_read_buf lies the low byte of an aligned pointer, an even number.
Init ==
  /\ film \in Films
  /\ pos = 0
  /\ m_read_buf \in {[j \in 0 .. BufSize |-> IF j < BufSize THEN "XX" ELSE b] :
                       b \in {"XX", "D8"}}
  /\ m_buf_read = 0 /\ m_input = FALSE
  /\ pc = "idle" /\ p = 0 /\ i = 0 /\ data = <<>>
  /\ out = <<>> /\ result = "none"
-----------------------------------------------------------------------------
\* Mutant: the bytes that are kept are not taken off the room there is.
GotWhole(at) ==
  LET left == Len(film.bytes) - pos IN IF left < BufSize THEN left ELSE BufSize

\* What input->readBytes() returns when the first at bytes are kept.
Got(at) ==
  LET left == Len(film.bytes) - pos
  IN IF left < BufSize - at THEN left ELSE BufSize - at

\* readBytes(m_read_buf + at, BufSize - at) into the buffer buf.
ReadBytes(buf, at) ==
  /\ m_read_buf' = [j \in 0 .. BufSize |->
                      IF j \in at .. at + Got(at) - 1
                      THEN film.bytes[pos + j - at + 1] ELSE buf[j]]
  /\ m_buf_read' = at + Got(at)
  /\ pos' = pos + Got(at)

\* Where a search from offset a on finds the marker FF b; it looks one byte
\* beyond the unused bytes.
Hits(a, b) == {j \in a .. m_buf_read - 1 :
                 m_read_buf[p + j] = "FF" /\ m_read_buf[p + j + 1] = b}

FirstHit(j, a, b) == j \in Hits(a, b) /\ \A k \in Hits(a, b) : j <= k
-----------------------------------------------------------------------------
\* read_frame() is called; only behind a reset it reads before it searches.
Call ==
  /\ pc = "idle"
  /\ pc' = "start" /\ p' = 0 /\ i' = 0 /\ data' = <<>>
  /\ \/ m_input /\ UNCHANGED <<bufVars, m_input>>
     \/ ~m_input /\ ReadBytes(m_read_buf, 0) /\ m_input' = (m_buf_read' > 0)
  /\ UNCHANGED <<film, out, result>>

\* There is no memory for the frame.
NoMemory ==
  /\ pc = "idle" /\ result' = "nomem"
  /\ UNCHANGED <<film, bufVars, m_input, callVars, out>>

\* FFD8 is in the buffer.
FoundStart ==
  /\ pc = "start"
  /\ \E j \in 0 .. m_buf_read - 1 :
       /\ FirstHit(j, 0, "D8")
       /\ p' = j /\ m_buf_read' = m_buf_read - j
  /\ i' = 3 /\ pc' = "end"
  /\ UNCHANGED <<film, pos, m_read_buf, m_input, data, out, result>>

\* It is not: the buffer is discarded.
NoStart ==
  /\ pc = "start" /\ m_buf_read > 0 /\ Hits(0, "D8") = {}
  /\ i' = m_buf_read
  /\ ReadBytes(m_read_buf, 0)
  /\ UNCHANGED <<film, m_input, pc, p, data, out, result>>

\* The file ends before the frame begins or before it ends.  The first search
\* also takes the size of the buffer it discarded last off m_buf_read.
NullFrame ==
  /\ pc \in {"start", "end"} /\ m_buf_read <= 0
  /\ m_buf_read' = IF pc = "start" THEN m_buf_read - i ELSE m_buf_read
  /\ result' = "null" /\ pc' = "idle"
  /\ UNCHANGED <<film, pos, m_read_buf, m_input, p, i, data, out>>

\* Mutant: a marker split between two buffers is not recognised.
NotSplit == FALSE

\* The marker is split: its FF was copied, its D9 comes first in the buffer.
Split == data # <<>> /\ data[Len(data)] = "FF" /\ m_read_buf[p] = "D9"

\* Mutant: what is left behind the frame is dropped.
TakeDrop(len) ==
  /\ data' = data \o [j \in 1 .. len |-> m_read_buf[p + j - 1]]
  /\ ReadBytes(m_read_buf, 0)
  /\ p' = 0 /\ i' = 0

\* The next len bytes are copied to the frame, what is left behind them moves
\* to the front of the buffer, and the rest of the buffer is filled.
Take(len) ==
  LET o == IF m_buf_read > len THEN m_buf_read - len ELSE 0
  IN /\ data' = data \o [j \in 1 .. len |-> m_read_buf[p + j - 1]]
     /\ ReadBytes([j \in 0 .. BufSize |->
          IF j < o THEN m_read_buf[p + len + j] ELSE m_read_buf[j]], o)
     /\ p' = 0 /\ i' = 0

\* FFD9 is found: the frame is returned.  Of a split marker the D9 stays in the
\* buffer and is not part of the frame.
FoundEnd ==
  /\ pc = "end" /\ m_buf_read > 0
  /\ \/ Split /\ Take(i)
     \/ ~Split /\ \E j \in i .. m_buf_read - 1 : FirstHit(j, i, "D9") /\ Take(j + 2)
  /\ out' = Append(out, data') /\ result' = "frame" /\ pc' = "idle"
  /\ UNCHANGED <<film, m_input>>

\* It is not in the buffer, all of which belongs to the frame.
NoEnd ==
  /\ pc = "end" /\ m_buf_read > 0 /\ ~Split /\ Hits(i, "D9") = {}
  /\ Take(IF i < m_buf_read THEN m_buf_read ELSE i)
  /\ UNCHANGED <<film, m_input, pc, out, result>>

\* seek(0) and reset_input_status(): the file is played again, possibly from
\* the middle; the old bytes stay in the buffer.
Rewind ==
  /\ pc = "idle"
  /\ pos' = 0 /\ m_buf_read' = 0 /\ m_input' = FALSE
  /\ out' = <<>> /\ result' = "none"
  /\ UNCHANGED <<film, m_read_buf, callVars>>

Next ==
  \/ Call \/ NoMemory \/ FoundStart \/ NoStart \/ NullFrame
  \/ FoundEnd \/ NoEnd \/ Rewind

Spec == Init /\ [][Next]_vars
-----------------------------------------------------------------------------
(* Properties. *)

\* The reader's variables keep their types; the pointer and the unused bytes
\* stay within the buffer, and m_buf_read may be negative at the end of a file.
TypeOK ==
  /\ pos \in 0 .. Len(film.bytes)
  /\ m_read_buf \in [0 .. BufSize -> Byte]
  /\ m_buf_read \in -BufSize .. BufSize /\ m_input \in BOOLEAN
  /\ pc \in {"idle", "start", "end"}
  /\ p \in 0 .. BufSize - 1 /\ i \in 0 .. BufSize /\ p + m_buf_read <= BufSize
  /\ data \in Seq(Byte) /\ out \in Seq(Seq(Byte))
  /\ result \in {"none", "frame", "null", "nomem"}

\* d is frame k of the file without its last lost bytes.
IsFrame(d, k, lost) ==
  d = SubSeq(film.bytes, film.cut[k - 1] + 1, film.cut[k] - lost)

\* For every well-formed file, whatever the position of the markers relative to
\* the buffer: read_frame() returns the frames in order, none is skipped,
\* merged, returned twice or mixed with bytes left in the buffer.  A frame is
\* whole but for its very last byte, which is missing when the end marker was
\* split between two buffers.
FramesInOrder ==
  /\ Len(out) <= film.frames
  /\ \A k \in DOMAIN out : \E lost \in {0, 1} : IsFrame(out[k], k, lost)

\* read_frame() only reports the end when every whole frame has been returned.
EndAfterLast == result = "null" => Len(out) = film.frames
=============================================================================
