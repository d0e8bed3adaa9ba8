---------------------------- MODULE ReadFrameProof ----------------------------
(***************************************************************************)
(* Proofs about read_frame(), for every size of the read buffer from four  *)
(* bytes on and every well-formed file: the frames come back in order and  *)
(* the end is reported behind the last one only.                           *)
(***************************************************************************)
EXTENDS ReadFrame, TLAPS

(***************************************************************************)
(* The inductive invariant.  The file is divided by two positions: base,   *)
(* up to which its bytes have left the buffer, and pos, up to which they   *)
(* have been read.                                                         *)
(***************************************************************************)

B == film.bytes
base == pos - m_buf_read
K == Len(out)

\* The unused bytes of the buffer are the bytes base + 1 .. pos of the file; the
\* buffer is full unless the file is at its end; behind it is no D9.
WindowInv ==
  /\ film \in Films
  /\ m_read_buf[BufSize] # "D9"
  /\ base >= 0
  /\ \A j \in 0 .. m_buf_read - 1 : m_read_buf[p + j] = B[base + j + 1]
  /\ m_input \/ pc # "idle" => p + m_buf_read = BufSize \/ pos = Len(B)

\* Before a frame is searched: the buffer begins where the next frame does, or
\* with the D9 that a split end marker has left, or the file is at its end.
BoundaryInv ==
  pc \in {"idle", "start"} =>
    /\ p = 0 /\ (pc = "start" => data = <<>>)
    /\ \/ m_buf_read >= 0 /\ base = film.cut[K]
       \/ m_buf_read >= 0 /\ base = film.cut[K] - 1 /\ K > 0
       \/ m_buf_read <= 0 /\ m_input /\ K = film.frames /\ pos = Len(B)
    /\ pc = "start" /\ m_buf_read < 0 => i = 0

\* While its end is searched: the bytes copied are those of the next frame up to
\* base, and the end marker is not among them.
CopyInv ==
  pc = "end" =>
    /\ m_buf_read >= 0
    /\ Len(data) = base - film.cut[K]
    /\ \A j \in 1 .. Len(data) : data[j] = B[film.cut[K] + j]
    /\ \/ data = <<>> /\ i = 3 /\ m_buf_read >= 3
       \/ Len(data) >= 3 /\ i = 0 /\ p = 0
    /\ \/ K < film.frames /\ base < film.cut[K + 1]
       \/ K = film.frames /\ Len(B) # film.cut[K]

\* Before the first call nothing is in the buffer.
InputInv ==
  ~m_input => m_buf_read = 0 /\ pc # "end" /\ (pc = "start" => i = 0)

ReadInv ==
  /\ TypeOK /\ FramesInOrder /\ EndAfterLast
  /\ WindowInv /\ BoundaryInv /\ CopyInv /\ InputInv
-----------------------------------------------------------------------------
(* The file. *)

\* What is known of the file that is played.
LEMMA FilmFacts ==
  ASSUME film \in Films
  PROVE  /\ B \in Seq(Byte) /\ Len(B) \in Nat /\ DOMAIN B = 1 .. Len(B)
         /\ film.frames \in Nat /\ film.cut \in [0 .. film.frames -> Nat]
         /\ film.cut[0] = 0
         /\ \A k \in 0 .. film.frames : film.cut[k] \in 0 .. Len(B)
         /\ \A a, b \in 0 .. film.frames : a < b => film.cut[a] + 5 <= film.cut[b]
         /\ \A k \in 1 .. film.frames :
              /\ B[film.cut[k] - 1] = "FF" /\ B[film.cut[k]] = "D9"
              /\ \A j \in film.cut[k - 1] + 1 .. film.cut[k] - 2 :
                   ~(B[j] = "FF" /\ B[j + 1] = "D9")
<1>1. WellFormed(film)
  BY ReadAssumption
<1>2. B \in Seq(Byte) /\ Len(B) \in Nat /\ DOMAIN B = 1 .. Len(B)
  BY <1>1 DEF WellFormed, B
<1>3. /\ film.frames \in Nat /\ film.cut \in [0 .. film.frames -> Nat]
      /\ film.cut[0] = 0
      /\ \A a, b \in 0 .. film.frames : a < b => film.cut[a] + 5 <= film.cut[b]
  BY <1>1 DEF WellFormed
<1>4. ASSUME NEW k \in 0 .. film.frames PROVE film.cut[k] \in 0 .. Len(B)
  BY <1>1, <1>2, <1>3 DEF WellFormed, B
<1>5. ASSUME NEW k \in 1 .. film.frames
      PROVE  /\ B[film.cut[k] - 1] = "FF" /\ B[film.cut[k]] = "D9"
             /\ \A j \in film.cut[k - 1] + 1 .. film.cut[k] - 2 :
                  ~(B[j] = "FF" /\ B[j + 1] = "D9")
  <2>1. film.cut[k] \in Nat /\ film.cut[k - 1] \in Nat
    BY <1>3
  <2>2. Marker(film, film.cut[k] - 1, "D9")
        /\ NoEndWithin(film, film.cut[k - 1], film.cut[k] - 1)
    BY <1>1 DEF WellFormed
  <2>3. film.cut[k] - 1 + 1 = film.cut[k] /\ film.cut[k] - 1 - 1 = film.cut[k] - 2
    BY <2>1
  <2>4. B[film.cut[k] - 1] = "FF" /\ B[film.cut[k]] = "D9"
    BY <2>2, <2>3 DEF Marker, B
  <2>5. \A j \in film.cut[k - 1] + 1 .. film.cut[k] - 2 :
          ~(B[j] = "FF" /\ B[j + 1] = "D9")
    BY <2>1, <2>2, <2>3 DEF NoEndWithin, Marker, B
  <2> QED
    BY <2>4, <2>5
<1> QED
  BY <1>2, <1>3, <1>4, <1>5

\* A frame begins at the end of frame k unless the file ends there.
LEMMA NextFrame ==
  ASSUME film \in Films, NEW k \in 0 .. film.frames, film.cut[k] # Len(B)
  PROVE  /\ film.cut[k] + 3 <= Len(B)
         /\ B[film.cut[k] + 1] = "FF" /\ B[film.cut[k] + 2] = "D8"
<1>1. WellFormed(film)
  BY ReadAssumption
<1>2. film.frames \in Nat /\ film.cut[k] \in Nat /\ Len(B) \in Nat
  BY FilmFacts
<1>3. film.cut[k] + 1 + 1 = film.cut[k] + 2
  BY <1>2
<1>4. CASE k < film.frames
  <2>1. k + 1 \in 1 .. film.frames /\ k + 1 - 1 = k /\ k + 1 \in 0 .. film.frames
    BY <1>2, <1>4
  <2>2. Marker(film, film.cut[k] + 1, "D8")
    BY <1>1, <2>1 DEF WellFormed
  <2>3. film.cut[k] + 5 <= film.cut[k + 1] /\ film.cut[k + 1] \in 0 .. Len(B)
    BY <1>2, <1>4, <2>1, FilmFacts
  <2>4. B[film.cut[k] + 1] = "FF" /\ B[film.cut[k] + 2] = "D8"
    BY <1>3, <2>2 DEF Marker, B
  <2>5. film.cut[k] + 3 <= Len(B)
    BY <1>2, <2>3
  <2> QED
    BY <2>4, <2>5
<1>5. CASE k = film.frames
  BY <1>1, <1>2, <1>3, <1>5 DEF WellFormed, Marker, B
<1> QED
  BY <1>2, <1>4, <1>5

\* The frame that is cut off has no end marker and does not end in FF.
LEMMA CutOff ==
  ASSUME film \in Films, film.cut[film.frames] # Len(B)
  PROVE  /\ B[Len(B)] # "FF"
         /\ \A j \in film.cut[film.frames] + 1 .. Len(B) - 1 :
              ~(B[j] = "FF" /\ B[j + 1] = "D9")
<1>1. WellFormed(film)
  BY ReadAssumption
<1> QED
  BY <1>1 DEF WellFormed, NoEndWithin, Marker, B
-----------------------------------------------------------------------------
(* The buffer. *)

\* readBytes() behind the at bytes that are kept.
LEMMA Filled ==
  ASSUME film \in Films, TypeOK, NEW buf \in [0 .. BufSize -> Byte],
         NEW at \in 0 .. BufSize, ReadBytes(buf, at)
  PROVE  /\ m_read_buf' \in [0 .. BufSize -> Byte]
         /\ m_read_buf'[BufSize] = buf[BufSize]
         /\ m_buf_read' \in at .. BufSize /\ pos' \in pos .. Len(B)
         /\ pos' - m_buf_read' = pos - at
         /\ m_buf_read' = BufSize \/ pos' = Len(B)
         /\ pos = Len(B) => pos' = pos /\ m_buf_read' = at
         /\ \A j \in 0 .. at - 1 : m_read_buf'[j] = buf[j]
         /\ \A j \in at .. m_buf_read' - 1 :
              m_read_buf'[j] = B[pos + 1 + (j - at)]
<1>1. BufSize \in Nat /\ BufSize >= 4
  BY ReadAssumption
<1>2. B \in Seq(Byte) /\ Len(B) \in Nat /\ pos \in 0 .. Len(B)
      /\ \A j \in 1 .. Len(B) : B[j] \in Byte
  BY FilmFacts DEF TypeOK, B
<1> DEFINE g == Got(at)
<1>3. g \in 0 .. BufSize - at /\ pos + g <= Len(B)
      /\ (g = BufSize - at \/ pos + g = Len(B))
  BY <1>1, <1>2 DEF Got, B
<1>4. m_buf_read' = at + g /\ pos' = pos + g
  BY DEF ReadBytes
<1>5. m_read_buf' = [j \in 0 .. BufSize |->
        IF j \in at .. at + g - 1 THEN B[pos + j - at + 1] ELSE buf[j]]
  BY DEF ReadBytes, B
<1> HIDE DEF g
<1>6. ASSUME NEW j \in 0 .. BufSize, j \in at .. at + g - 1
      PROVE  /\ pos + j - at + 1 \in 1 .. Len(B)
             /\ pos + j - at + 1 = pos + 1 + (j - at)
  BY <1>1, <1>2, <1>3, <1>6
<1>7. m_read_buf' \in [0 .. BufSize -> Byte]
  BY <1>2, <1>5, <1>6
<1>8. ASSUME NEW j \in at .. m_buf_read' - 1
      PROVE  m_read_buf'[j] = B[pos + 1 + (j - at)]
  <2>1. j \in 0 .. BufSize /\ j \in at .. at + g - 1
    BY <1>1, <1>3, <1>4
  <2> QED
    BY <1>5, <1>6, <2>1
<1>9. ASSUME NEW j \in 0 .. at - 1 PROVE m_read_buf'[j] = buf[j]
  BY <1>1, <1>5
<1>10. m_read_buf'[BufSize] = buf[BufSize]
  BY <1>1, <1>3, <1>5
<1>11. /\ m_buf_read' \in at .. BufSize /\ pos' \in pos .. Len(B)
       /\ pos' - m_buf_read' = pos - at
       /\ m_buf_read' = BufSize \/ pos' = Len(B)
       /\ pos = Len(B) => pos' = pos /\ m_buf_read' = at
  BY <1>1, <1>2, <1>3, <1>4
<1> QED
  BY <1>7, <1>8, <1>9, <1>10, <1>11

\* Arithmetic for the next lemma.
LEMMA UpperPart == \A a, b \in Nat : \A j \in 0 .. b - 1 : j >= a => j \in a .. b - 1
  OBVIOUS

LEMMA FromZero == \A a, b \in Nat : a >= 0 /\ 0 + b = b
  OBVIOUS

\* A turn of the search for the end marker copies the next len bytes of the
\* file to the frame and leaves the buffer with the ones behind them.
LEMMA Taken ==
  ASSUME TypeOK, WindowInv, m_buf_read > 0, NEW len \in 0 .. m_buf_read,
         Take(len), UNCHANGED film
  PROVE  /\ p' = 0 /\ i' = 0
         /\ m_read_buf' \in [0 .. BufSize -> Byte] /\ m_buf_read' \in 0 .. BufSize
         /\ pos' \in 0 .. Len(B) /\ WindowInv'
         /\ m_buf_read' = BufSize \/ pos' = Len(B)
         /\ base' = base + len
         /\ data' \in Seq(Byte) /\ Len(data') = Len(data) + len
         /\ \A j \in 1 .. Len(data) : data'[j] = data[j]
         /\ \A j \in 1 .. len : data'[Len(data) + j] = B[base + j]
<1> DEFINE o == IF m_buf_read > len THEN m_buf_read - len ELSE 0
           shifted == [j \in 0 .. BufSize |->
                         IF j < o THEN m_read_buf[p + len + j] ELSE m_read_buf[j]]
           part == [j \in 1 .. len |-> m_read_buf[p + j - 1]]
<1>1. BufSize \in Nat /\ BufSize >= 4 /\ film \in Films
  BY ReadAssumption DEF WindowInv
<1>2. /\ pos \in 0 .. Len(B) /\ Len(B) \in Nat
      /\ m_buf_read \in 0 .. BufSize /\ p \in 0 .. BufSize /\ p + m_buf_read <= BufSize
      /\ m_read_buf \in [0 .. BufSize -> Byte] /\ data \in Seq(Byte)
  BY <1>1, FilmFacts DEF TypeOK, B
<1>3. /\ base \in Nat /\ base = pos - m_buf_read
      /\ \A j \in 0 .. m_buf_read - 1 : m_read_buf[p + j] = B[base + j + 1]
  BY <1>2 DEF WindowInv, base
<1>4. o = m_buf_read - len /\ o \in 0 .. BufSize /\ len \in Nat
  <2>1. len \in Nat /\ m_buf_read \in Nat /\ len <= m_buf_read
    BY <1>1, <1>2
  <2>2. o = m_buf_read - len
    BY <2>1
  <2> HIDE DEF o
  <2> QED
    BY <1>1, <1>2, <2>1, <2>2
<1>5. ReadBytes(shifted, o) /\ data' = data \o part /\ p' = 0 /\ i' = 0
  BY DEF Take
<1>6. ASSUME NEW j \in 0 .. BufSize, j < o
      PROVE  p + len + j \in 0 .. BufSize /\ len + j \in 0 .. m_buf_read - 1
  BY <1>1, <1>2, <1>4, <1>6
<1> HIDE DEF o
<1>7. shifted \in [0 .. BufSize -> Byte] /\ shifted[BufSize] = m_read_buf[BufSize]
  <2>1. \A j \in 0 .. BufSize :
          (IF j < o THEN m_read_buf[p + len + j] ELSE m_read_buf[j]) \in Byte
    BY <1>2, <1>6
  <2>2. ~(BufSize < o) /\ BufSize \in 0 .. BufSize
    BY <1>1, <1>4
  <2> QED
    BY <2>1, <2>2
<1>8. ASSUME NEW j \in 0 .. o - 1 PROVE shifted[j] = B[base + len + j + 1]
  <2>1. j \in 0 .. BufSize /\ j < o
    BY <1>1, <1>4
  <2>2. shifted[j] = m_read_buf[p + len + j]
    BY <2>1
  <2>3. len + j \in 0 .. m_buf_read - 1 /\ p + (len + j) = p + len + j
        /\ base + (len + j) + 1 = base + len + j + 1
    BY <1>2, <1>3, <1>6, <2>1
  <2> QED
    BY <1>3, <2>2, <2>3
<1> HIDE DEF shifted
<1>9. /\ m_read_buf' \in [0 .. BufSize -> Byte]
      /\ m_read_buf'[BufSize] = shifted[BufSize]
      /\ m_buf_read' \in o .. BufSize /\ pos' \in pos .. Len(B)
      /\ pos' - m_buf_read' = pos - o
      /\ m_buf_read' = BufSize \/ pos' = Len(B)
      /\ \A j \in 0 .. o - 1 : m_read_buf'[j] = shifted[j]
      /\ \A j \in o .. m_buf_read' - 1 : m_read_buf'[j] = B[pos + 1 + (j - o)]
  BY <1>1, <1>4, <1>5, <1>7, Filled
<1>10. base' = base + len
  BY <1>2, <1>3, <1>4, <1>9 DEF base
<1>0. /\ m_buf_read' \in Nat /\ o \in Nat /\ base \in Nat /\ len \in Nat
      /\ base' \in Nat
  <2>1. m_buf_read' \in o .. BufSize
    BY <1>9
  <2>2. base \in Nat /\ len \in Nat /\ o \in 0 .. BufSize
    BY <1>3, <1>4
  <2>3. base' \in Nat
    BY <1>10, <2>2
  <2> QED
    BY <1>1, <2>1, <2>2, <2>3
<1>11. ASSUME NEW j \in 0 .. m_buf_read' - 1
       PROVE  m_read_buf'[p' + j] = B[base' + j + 1]
  <2>1. p' + j = j /\ j \in Nat
    BY <1>5, <1>9
  <2>2. CASE j < o
    <3>1. j \in 0 .. o - 1
      BY <1>4, <2>1, <2>2
    <3> QED
      BY <1>8, <1>9, <1>10, <2>1, <3>1
  <2>3. CASE j >= o
    <3>1. j \in o .. m_buf_read' - 1
      BY <1>0, <2>3, UpperPart, Zenon
    <3>2. pos + 1 + (j - o) = base' + j + 1
      BY <1>2, <1>3, <1>4, <1>10, <2>1
    <3> QED
      BY <1>9, <2>1, <3>1, <3>2
  <2> QED
    BY <1>4, <2>1, <2>2, <2>3
<1>12. B' = B
  BY DEF B
<1>13. WindowInv'
  <2>1. base' >= 0 /\ p' + m_buf_read' = m_buf_read'
    <3>1. p' = 0
      BY <1>5
    <3> QED
      BY <1>0, <3>1, FromZero, Zenon
  <2>2. m_read_buf'[BufSize] # "D9"
    BY <1>7, <1>9 DEF WindowInv
  <2> QED
    BY <1>1, <1>9, <1>11, <1>12, <2>1, <2>2 DEF WindowInv
<1>14. part \in Seq(Byte) /\ Len(part) = len /\ \A j \in 1 .. len : part[j] = B[base + j]
  <2>1. ASSUME NEW j \in 1 .. len
        PROVE  /\ p + j - 1 \in 0 .. BufSize /\ j - 1 \in 0 .. m_buf_read - 1
               /\ p + (j - 1) = p + j - 1 /\ base + (j - 1) + 1 = base + j
    BY <1>1, <1>2, <1>3
  <2>2. part \in [1 .. len -> Byte]
    BY <1>2, <2>1
  <2>3. len \in Nat
    BY <1>2
  <2>4. part \in Seq(Byte) /\ Len(part) = len
    BY <2>2, <2>3
  <2>5. ASSUME NEW j \in 1 .. len PROVE part[j] = B[base + j]
    BY <1>3, <2>1
  <2> QED
    BY <2>4, <2>5
<1> HIDE DEF part
<1>15. /\ data' \in Seq(Byte) /\ Len(data') = Len(data) + len
       /\ \A j \in 1 .. Len(data) : data'[j] = data[j]
       /\ \A j \in 1 .. len : data'[Len(data) + j] = part[j]
  BY <1>2, <1>5, <1>14
<1>16. pos' \in 0 .. Len(B) /\ m_buf_read' \in 0 .. BufSize
  BY <1>1, <1>2, <1>4, <1>9
<1> QED
  BY <1>5, <1>9, <1>10, <1>13, <1>14, <1>15, <1>16
-----------------------------------------------------------------------------
(* The searches. *)

\* What the invariant says of the numbers.
LEMMA Bounds ==
  ASSUME ReadInv
  PROVE  /\ BufSize \in Nat /\ BufSize >= 4 /\ film \in Films
         /\ Len(B) \in Nat /\ pos \in 0 .. Len(B)
         /\ m_buf_read \in -BufSize .. BufSize /\ p \in 0 .. BufSize - 1
         /\ base \in Nat /\ base = pos - m_buf_read
         /\ film.frames \in Nat /\ K \in 0 .. film.frames
         /\ film.cut[K] \in 0 .. Len(B)
         /\ K < film.frames => /\ film.cut[K + 1] \in 0 .. Len(B)
                               /\ film.cut[K] + 5 <= film.cut[K + 1]
<1>1. BufSize \in Nat /\ BufSize >= 4 /\ film \in Films
  BY ReadAssumption DEF ReadInv, WindowInv
<1>2. /\ Len(B) \in Nat /\ film.frames \in Nat
      /\ \A k \in 0 .. film.frames : film.cut[k] \in 0 .. Len(B)
      /\ \A a, b \in 0 .. film.frames : a < b => film.cut[a] + 5 <= film.cut[b]
  BY <1>1, FilmFacts
<1>3. /\ pos \in 0 .. Len(B) /\ m_buf_read \in -BufSize .. BufSize
      /\ p \in 0 .. BufSize - 1
  BY DEF ReadInv, TypeOK, B
<1>4. base \in Nat /\ base = pos - m_buf_read
  BY <1>1, <1>2, <1>3 DEF ReadInv, WindowInv, base
<1>5. K \in 0 .. film.frames
  <2>1. Len(out) \in Nat
    BY DEF ReadInv, TypeOK
  <2>2. Len(out) <= film.frames
    BY DEF ReadInv, FramesInOrder
  <2> QED
    BY <1>2, <2>1, <2>2 DEF K
<1>6. ASSUME K < film.frames
      PROVE  film.cut[K + 1] \in 0 .. Len(B) /\ film.cut[K] + 5 <= film.cut[K + 1]
  <2>1. K + 1 \in 0 .. film.frames /\ K < K + 1
    BY <1>2, <1>5, <1>6
  <2> QED
    BY <1>2, <1>5, <2>1
<1> QED
  BY <1>1, <1>2, <1>3, <1>4, <1>5, <1>6

\* The same without bounds: what arithmetic on the positions needs.
LEMMA Whole ==
  ASSUME ReadInv
  PROVE  /\ base \in Nat /\ p \in Nat /\ pos \in Nat /\ film.cut[K] \in Nat
         /\ m_buf_read \in Int /\ m_buf_read <= BufSize /\ BufSize \in Nat
         /\ Len(B) \in Nat /\ pos <= Len(B)
<1>1. /\ BufSize \in Nat /\ Len(B) \in Nat /\ base \in Nat /\ pos \in 0 .. Len(B)
      /\ m_buf_read \in -BufSize .. BufSize /\ p \in 0 .. BufSize - 1
      /\ film.cut[K] \in 0 .. Len(B)
  BY Bounds
<1> QED
  BY <1>1

\* No file ends in FF.
LEMMA LastByte ==
  ASSUME film \in Films, Len(B) > 0 PROVE B[Len(B)] # "FF"
<1>1. CASE film.cut[film.frames] = Len(B)
  <2>1. film.frames \in Nat /\ film.frames # 0
    BY <1>1, FilmFacts
  <2>2. film.frames \in 1 .. film.frames
    BY <2>1
  <2> QED
    BY <1>1, <2>2, FilmFacts
<1>2. CASE film.cut[film.frames] # Len(B)
  BY <1>2, CutOff
<1> QED
  BY <1>1, <1>2

\* A marker that a search finds is one of the file, and all of it is among the
\* unused bytes: the byte behind them never completes a marker FFD9.
LEMMA HitInFile ==
  ASSUME ReadInv, pc = "end", NEW j \in Hits(i, "D9")
  PROVE  /\ j \in Nat /\ j >= i /\ j + 2 <= m_buf_read
         /\ B[base + j + 1] = "FF" /\ B[base + j + 2] = "D9"
<1>1. /\ j \in i .. m_buf_read - 1
      /\ m_read_buf[p + j] = "FF" /\ m_read_buf[p + j + 1] = "D9"
  BY DEF Hits
<1>2. i \in Nat /\ p + m_buf_read <= BufSize
  BY DEF ReadInv, TypeOK
<1>3. /\ \A k \in 0 .. m_buf_read - 1 : m_read_buf[p + k] = B[base + k + 1]
      /\ p + m_buf_read = BufSize \/ pos = Len(B)
      /\ m_read_buf[BufSize] # "D9"
  BY DEF ReadInv, WindowInv
<1>4. j \in Nat /\ j \in 0 .. m_buf_read - 1 /\ m_buf_read \in Nat /\ j >= i
  BY <1>1, <1>2, Bounds
<1>5. B[base + j + 1] = "FF"
  BY <1>1, <1>3, <1>4
<1>6. j # m_buf_read - 1
  <2> SUFFICES ASSUME j = m_buf_read - 1 PROVE FALSE
    OBVIOUS
  <2>1. p + j + 1 = p + m_buf_read /\ base + j + 1 = pos /\ pos > 0
    BY <1>4, Bounds
  <2>2. CASE p + m_buf_read = BufSize
    BY <1>1, <1>3, <2>1, <2>2
  <2>3. CASE pos = Len(B)
    BY <1>5, <2>1, <2>3, LastByte, Bounds
  <2> QED
    BY <1>3, <2>2, <2>3
<1>7. j + 1 \in 0 .. m_buf_read - 1 /\ j + 2 <= m_buf_read
  BY <1>4, <1>6
<1>8. p + (j + 1) = p + j + 1 /\ base + (j + 1) + 1 = base + j + 2
  <2>1. p \in Nat /\ base \in Nat /\ j \in Nat
    BY <1>4, Whole
  <2> QED
    BY <2>1
<1>9. B[base + j + 2] = "D9"
  BY <1>1, <1>3, <1>7, <1>8
<1> QED
  BY <1>4, <1>5, <1>7, <1>9

\* Where a turn of the search for the end marker stands in the next frame.
LEMMA EndSearch ==
  ASSUME ReadInv, pc = "end", m_buf_read > 0
  PROVE  /\ i \in 0 .. m_buf_read
         /\ Split => K < film.frames /\ base = film.cut[K + 1] - 1 /\ i = 0
         /\ \A j \in i .. m_buf_read - 1 : ~Split /\ FirstHit(j, i, "D9") =>
              K < film.frames /\ base + j + 2 = film.cut[K + 1] /\ j + 2 <= m_buf_read
         /\ ~Split /\ Hits(i, "D9") = {} /\ K < film.frames => pos < film.cut[K + 1]
<1>0. /\ Len(B) \in Nat /\ pos \in Nat /\ pos <= Len(B) /\ base \in Nat
      /\ film.cut[K] \in Nat /\ K \in Nat /\ film.frames \in Nat /\ film \in Films
      /\ K < film.frames => /\ film.cut[K + 1] \in 0 .. Len(B)
                            /\ film.cut[K] + 5 <= film.cut[K + 1]
  BY Bounds
<1>1. /\ Len(data) = base - film.cut[K]
      /\ \A j \in 1 .. Len(data) : data[j] = B[film.cut[K] + j]
      /\ \/ data = <<>> /\ i = 3 /\ m_buf_read >= 3
         \/ Len(data) >= 3 /\ i = 0 /\ p = 0
      /\ \/ K < film.frames /\ base < film.cut[K + 1]
         \/ K = film.frames /\ Len(B) # film.cut[K]
  BY DEF ReadInv, CopyInv
<1>2. /\ m_buf_read \in 1 .. BufSize /\ pos = base + m_buf_read
      /\ Len(data) \in Nat /\ (data = <<>> <=> Len(data) = 0)
  <2>1. data \in Seq(Byte)
    BY DEF ReadInv, TypeOK
  <2>2. Len(data) \in Nat /\ (data = <<>> <=> Len(data) = 0)
    BY <2>1
  <2> QED
    BY <2>2, Bounds
<1>3. i \in 0 .. m_buf_read
  BY <1>1, <1>2
<1>4. \A j \in 0 .. m_buf_read - 1 : m_read_buf[p + j] = B[base + j + 1]
  BY DEF ReadInv, WindowInv
<1>5. m_read_buf[p] = B[base + 1]
  <2>1. 0 \in 0 .. m_buf_read - 1 /\ p + 0 = p /\ base + 0 + 1 = base + 1
    BY <1>2, Bounds
  <2> QED
    BY <1>4, <2>1
<1>6. data # <<>> => data[Len(data)] = B[base] /\ base >= film.cut[K] + 3
  <2> SUFFICES ASSUME data # <<>>
               PROVE  data[Len(data)] = B[base] /\ base >= film.cut[K] + 3
    OBVIOUS
  <2>1. Len(data) >= 3 /\ film.cut[K] + Len(data) = base /\ Len(data) \in 1 .. Len(data)
    <3>1. Len(data) >= 3 /\ Len(data) = base - film.cut[K]
      BY <1>1
    <3>2. Len(data) \in Nat /\ base \in Nat /\ film.cut[K] \in Nat
      BY <1>2, Whole
    <3> QED
      BY <3>1, <3>2
  <2>2. data[Len(data)] = B[film.cut[K] + Len(data)]
    BY <1>1, <2>1
  <2>3. base >= film.cut[K] + 3
    BY <1>2, <2>1, <1>0
  <2> QED
    BY <2>1, <2>2, <2>3
<1>7. Split => data # <<>> /\ B[base] = "FF" /\ B[base + 1] = "D9"
  BY <1>5, <1>6 DEF Split
<1>8. base >= film.cut[K]
  BY <1>1, <1>2, <1>0
<1>9. CASE K < film.frames
  <2> DEFINE e == film.cut[K + 1]
  <2>1. /\ e \in 0 .. Len(B) /\ film.cut[K] + 5 <= e /\ base < e
        /\ B[e - 1] = "FF" /\ B[e] = "D9"
        /\ \A j \in film.cut[K] + 1 .. e - 2 : ~(B[j] = "FF" /\ B[j + 1] = "D9")
    <3> DEFINE k == K + 1
    <3>1. k \in 1 .. film.frames /\ k - 1 = K
      BY <1>9, <1>0
    <3> HIDE DEF k
    <3>2. /\ B[film.cut[k] - 1] = "FF" /\ B[film.cut[k]] = "D9"
          /\ \A j \in film.cut[K] + 1 .. film.cut[k] - 2 :
               ~(B[j] = "FF" /\ B[j + 1] = "D9")
      BY <3>1, <1>0, FilmFacts
    <3>4. base < film.cut[K + 1]
      BY <1>1, <1>9, <1>0
    <3> QED
      BY <1>9, <3>2, <3>4, <1>0 DEF k
  <2> HIDE DEF e
  <2>2. film.cut[K] \in Nat /\ base \in Nat /\ pos \in Nat /\ m_buf_read \in Nat
    BY <1>2, <1>0
  <2>3. ASSUME Split PROVE base = e - 1 /\ i = 0
    <3>1. data # <<>> /\ B[base] = "FF" /\ B[base + 1] = "D9" /\ base >= film.cut[K] + 3
      BY <1>6, <1>7, <2>3
    <3>2. base \notin film.cut[K] + 1 .. e - 2
      BY <2>1, <3>1
    <3> QED
      BY SMTT(30), <1>1, <2>1, <2>2, <3>1, <3>2
  <2>4. ASSUME ~Split PROVE base <= e - 2
    <3> SUFFICES ASSUME base = e - 1 PROVE FALSE
      BY <2>1, <2>2
    <3>1. base + 1 = e /\ base # film.cut[K]
      BY <2>1, <2>2
    <3>2. data # <<>>
      BY <1>1, <1>2, <2>2, <3>1
    <3> QED
      BY <1>5, <1>6, <2>1, <2>4, <3>1, <3>2 DEF Split
  <2>5. ASSUME NEW j \in Hits(i, "D9") PROVE base + j + 2 >= e /\ j \in Nat
    <3>1. j \in Nat /\ B[base + j + 1] = "FF" /\ B[base + j + 2] = "D9"
      BY HitInFile
    <3>2. base + j + 1 + 1 = base + j + 2
      BY <2>2, <3>1
    <3>3. base + j + 1 \notin film.cut[K] + 1 .. e - 2
      BY <2>1, <3>1, <3>2
    <3> QED
      BY <1>8, <2>1, <2>2, <3>1, <3>3
  <2>6. ASSUME ~Split, pos >= e PROVE e - 2 - base \in Hits(i, "D9")
    <3> DEFINE j == e - 2 - base
    <3>1. j \in Nat /\ j \in i .. m_buf_read - 1 /\ j + 1 \in 0 .. m_buf_read - 1
      BY SMTT(30), <1>1, <1>2, <2>1, <2>2, <2>4, <2>6
    <3>2. /\ base + j + 1 = e - 1 /\ base + (j + 1) + 1 = e
          /\ j \in 0 .. m_buf_read - 1
      BY <2>1, <2>2, <3>1
    <3>3. p + (j + 1) = p + j + 1
      BY <3>1, Bounds
    <3> HIDE DEF j
    <3>4. m_read_buf[p + j] = "FF" /\ m_read_buf[p + j + 1] = "D9"
      BY <1>4, <2>1, <3>1, <3>2, <3>3
    <3>5. j \in Hits(i, "D9")
      BY <3>1, <3>4 DEF Hits
    <3> QED
      BY <3>5 DEF j
  <2>7. ASSUME NEW j \in i .. m_buf_read - 1, ~Split, FirstHit(j, i, "D9")
        PROVE  base + j + 2 = e /\ j + 2 <= m_buf_read
    <3>1. j \in Hits(i, "D9") /\ \A k \in Hits(i, "D9") : j <= k
      BY <2>7 DEF FirstHit
    <3>2. j \in Nat /\ j + 2 <= m_buf_read /\ base + j + 2 >= e
      BY <2>5, <3>1, HitInFile
    <3>3. pos >= e
      BY <1>2, <2>1, <2>2, <3>2
    <3>4. j <= e - 2 - base
      BY <2>6, <2>7, <3>1, <3>3
    <3> QED
      BY <2>1, <2>2, <3>2, <3>4
  <2>8. ASSUME ~Split, Hits(i, "D9") = {} PROVE pos < e
    BY <2>1, <2>2, <2>6, <2>8
  <2> QED
    BY <1>3, <1>9, <2>3, <2>7, <2>8 DEF e
<1>10. CASE K = film.frames
  <2>1. film.cut[film.frames] # Len(B) /\ film \in Films
    BY <1>1, <1>10, <1>0
  <2>2. \A j \in film.cut[K] + 1 .. Len(B) - 1 : ~(B[j] = "FF" /\ B[j + 1] = "D9")
    BY <1>10, <2>1, CutOff
  <2>3. ~Split
    <3> SUFFICES ASSUME Split PROVE FALSE
      OBVIOUS
    <3>1. base \in film.cut[K] + 1 .. Len(B) - 1
      <4>1. base >= film.cut[K] + 3
        BY <1>6, <1>7
      <4>2. pos = base + m_buf_read /\ m_buf_read >= 1 /\ m_buf_read \in Nat
        BY <1>2, Whole
      <4> QED
        BY SMTT(30), <4>1, <4>2, Whole
    <3> QED
      BY <1>7, <2>2, <3>1
  <2>4. ASSUME NEW j \in Hits(i, "D9") PROVE FALSE
    <3>1. /\ j \in Nat /\ j + 2 <= m_buf_read
          /\ B[base + j + 1] = "FF" /\ B[base + j + 2] = "D9"
      BY HitInFile
    <3>2. base + j + 1 \in film.cut[K] + 1 .. Len(B) - 1 /\ base + j + 1 + 1 = base + j + 2
      BY SMTT(30), <1>2, <1>8, <3>1, <1>0
    <3> QED
      BY <2>2, <3>1, <3>2
  <2> QED
    BY <1>3, <1>10, <2>3, <2>4, <1>0 DEF FirstHit
<1> QED
  BY <1>1, <1>9, <1>10
\* The search for the start marker finds that of the next frame, in the first
\* buffer it looks at, unless there is none.
LEMMA StartSearch ==
  ASSUME ReadInv, pc = "start", m_buf_read > 0
  PROVE  /\ \A j \in 0 .. m_buf_read - 1 : FirstHit(j, 0, "D8") =>
              /\ base + j = film.cut[K] /\ film.cut[K] # Len(B)
              /\ m_buf_read - j >= 3
         /\ Hits(0, "D8") = {} => K = film.frames /\ pos = Len(B)
<1> DEFINE d == film.cut[K] - base
<1>0. /\ Len(B) \in Nat /\ pos \in Nat /\ pos <= Len(B) /\ base \in Nat
      /\ film.cut[K] \in Nat /\ K \in Nat /\ film.frames \in Nat /\ film \in Films
      /\ K \in 0 .. film.frames /\ film.cut[K] <= Len(B) /\ pos = base + m_buf_read
      /\ m_buf_read \in Nat /\ BufSize \in Nat /\ BufSize >= 4
  BY Bounds
<1>1. p = 0 /\ (base = film.cut[K] \/ (base = film.cut[K] - 1 /\ K > 0))
  BY <1>0 DEF ReadInv, BoundaryInv
<1>2. /\ \A j \in 0 .. m_buf_read - 1 : m_read_buf[j] = B[base + j + 1]
      /\ m_buf_read = BufSize \/ pos = Len(B)
  BY <1>0, <1>1 DEF ReadInv, WindowInv
<1>3. d \in {0, 1} /\ base + d = film.cut[K]
  BY <1>0, <1>1
<1>4. \A j \in 0 .. m_buf_read - 1 :
        j \in Hits(0, "D8") <=> m_read_buf[j] = "FF" /\ m_read_buf[j + 1] = "D8"
  BY <1>0, <1>1 DEF Hits
<1>5. d = 1 => m_read_buf[0] = "D9"
  <2> SUFFICES ASSUME d = 1 PROVE m_read_buf[0] = "D9"
    OBVIOUS
  <2>1. K \in 1 .. film.frames /\ base + 0 + 1 = film.cut[K] /\ 0 \in 0 .. m_buf_read - 1
    BY <1>0, <1>1, <1>3
  <2>2. B[film.cut[K]] = "D9"
    BY <1>0, <2>1, FilmFacts
  <2> QED
    BY <1>2, <2>1, <2>2
<1> HIDE DEF d
<1>6. CASE film.cut[K] # Len(B)
  <2>1. /\ film.cut[K] + 3 <= Len(B)
        /\ B[film.cut[K] + 1] = "FF" /\ B[film.cut[K] + 2] = "D8"
    BY <1>0, <1>6, NextFrame
  <2>2. m_buf_read - d >= 3
    BY SMTT(30), <1>0, <1>2, <1>3, <2>1
  <2>3. /\ d \in 0 .. m_buf_read - 1 /\ d + 1 \in 0 .. m_buf_read - 1
        /\ base + d + 1 = film.cut[K] + 1 /\ base + (d + 1) + 1 = film.cut[K] + 2
    BY <1>0, <1>3, <2>2
  <2>4. d \in Hits(0, "D8")
    BY <1>2, <1>4, <2>1, <2>3
  <2>5. ASSUME NEW j \in 0 .. m_buf_read - 1, FirstHit(j, 0, "D8") PROVE j = d
    <3>1. j \in Hits(0, "D8") /\ j <= d
      BY <2>4, <2>5 DEF FirstHit
    <3>2. m_read_buf[j] = "FF"
      BY <1>4, <3>1
    <3> QED
      BY <1>3, <1>5, <3>1, <3>2
  <2> QED
    BY <1>3, <1>6, <2>2, <2>4, <2>5
<1>7. CASE film.cut[K] = Len(B)
  <2>1. d = 1 /\ m_buf_read = 1 /\ pos = Len(B)
    BY <1>0, <1>1, <1>3, <1>7
  <2>2. K = film.frames
    BY <1>0, <1>7, Bounds
  <2>3. ASSUME NEW j \in Hits(0, "D8") PROVE FALSE
    <3>1. j = 0
      BY <2>1 DEF Hits
    <3>2. m_read_buf[0] = "FF"
      BY <1>4, <2>1, <2>3, <3>1
    <3> QED
      BY <1>5, <2>1, <3>2
  <2> QED
    BY <2>1, <2>2, <2>3 DEF FirstHit
<1> QED
  BY <1>6, <1>7

\* The bytes copied are the frame.
LEMMA FrameCopied ==
  ASSUME film \in Films, NEW k \in 1 .. film.frames, NEW lost \in {0, 1},
         NEW d \in Seq(Byte), Len(d) = film.cut[k] - lost - film.cut[k - 1],
         \A j \in 1 .. Len(d) : d[j] = B[film.cut[k - 1] + j]
  PROVE  IsFrame(d, k, lost)
<1> DEFINE a == film.cut[k - 1]
           c == film.cut[k]
           e == c - lost
           s == SubSeq(B, a + 1, e)
<1>1. B \in Seq(Byte) /\ Len(B) \in Nat /\ c \in 0 .. Len(B) /\ a \in Nat /\ a + 5 <= c
  <2>1. /\ k \in 0 .. film.frames /\ k - 1 \in 0 .. film.frames /\ k - 1 < k
        /\ film.frames \in Nat
    BY FilmFacts
  <2> QED
    BY <2>1, FilmFacts
<1> HIDE DEF a, c
<1>2. a \in Nat /\ e \in Nat /\ a + 4 <= e /\ e <= Len(B)
  BY <1>1
<1> HIDE DEF e
<1>3. s \in Seq(Byte) /\ Len(s) = e - a /\ \A j \in 1 .. e - a : s[j] = B[a + j]
  <2>1. Len(s) = e - a
    BY <1>1, <1>2
  <2>2. s \in Seq(Byte)
    BY <1>1, <1>2
  <2>3. ASSUME NEW j \in 1 .. e - a PROVE s[j] = B[a + j]
    <3>1. s[j] = B[(a + 1) + j - 1]
      BY <1>1, <1>2
    <3>2. (a + 1) + j - 1 = a + j
      BY <1>2
    <3> QED
      BY <3>1, <3>2
  <2> QED
    BY <2>1, <2>2, <2>3
<1>4. Len(d) = e - a /\ \A j \in 1 .. Len(d) : d[j] = B[a + j]
  BY DEF a, c, e
<1> HIDE DEF s
<1>5. d = s
  <2>1. d \in [1 .. Len(d) -> Byte] /\ s \in [1 .. Len(s) -> Byte]
    BY <1>3
  <2> QED
    BY <1>3, <1>4, <2>1
<1> QED
  BY <1>5 DEF s, a, c, e, IsFrame, B
-----------------------------------------------------------------------------
(* One lemma for each action. *)

\* What has been returned stays as it is while a search goes on.
LEMMA OutKept ==
  ASSUME ReadInv, UNCHANGED <<film, out>>
  PROVE  /\ FramesInOrder' /\ B' = B /\ K' = K
         /\ result' = result => EndAfterLast'
BY DEF ReadInv, FramesInOrder, EndAfterLast, IsFrame, B, K

\* A call begins.
LEMMA CallStep ==
  ASSUME ReadInv, Call PROVE ReadInv'
<1>1. /\ pc = "idle" /\ pc' = "start" /\ p' = 0 /\ i' = 0 /\ data' = <<>> /\ p = 0
      /\ UNCHANGED <<film, out, result>>
  BY DEF Call, ReadInv, BoundaryInv
<1>2. FramesInOrder' /\ EndAfterLast' /\ B' = B /\ K' = K
  BY <1>1, OutKept
<1>3. <<>> \in Seq(Byte) /\ BufSize \in Nat /\ BufSize >= 4
  BY Bounds
<1>4. CASE m_input
  <2>1. UNCHANGED <<pos, m_read_buf, m_buf_read, m_input>>
    BY <1>4 DEF Call, bufVars
  <2>2. TypeOK'
    BY <1>1, <1>3, <2>1 DEF ReadInv, TypeOK
  <2>3. base' = base
    BY <2>1 DEF base
  <2>4. WindowInv' /\ BoundaryInv' /\ CopyInv' /\ InputInv'
    BY <1>1, <1>2, <1>4, <2>1, <2>3
    DEF ReadInv, WindowInv, BoundaryInv, CopyInv, InputInv
  <2> QED
    BY <1>2, <2>2, <2>4 DEF ReadInv
<1>5. CASE ~m_input
  <2>1. ReadBytes(m_read_buf, 0) /\ m_input' = (m_buf_read' > 0) /\ m_buf_read = 0
    BY <1>5 DEF Call, ReadInv, InputInv
  <2>2. /\ film \in Films /\ TypeOK /\ m_read_buf \in [0 .. BufSize -> Byte]
        /\ 0 \in 0 .. BufSize /\ Len(B) \in Nat /\ pos \in 0 .. Len(B)
        /\ base = pos /\ K \in 0 .. film.frames /\ film.cut[K] \in Nat
    BY <2>1, Bounds DEF ReadInv, TypeOK
  <2>3. /\ m_read_buf' \in [0 .. BufSize -> Byte]
        /\ m_read_buf'[BufSize] = m_read_buf[BufSize]
        /\ m_buf_read' \in 0 .. BufSize /\ pos' \in pos .. Len(B)
        /\ pos' - m_buf_read' = pos - 0
        /\ m_buf_read' = BufSize \/ pos' = Len(B)
        /\ \A j \in 0 .. m_buf_read' - 1 : m_read_buf'[j] = B[pos + 1 + (j - 0)]
    BY <2>1, <2>2, Filled
  <2>4. base' = base /\ m_buf_read' \in Nat
    BY <1>3, <2>1, <2>2, <2>3 DEF base
  <2>9. m_input' \in BOOLEAN /\ (~m_input' => m_buf_read' = 0)
    <3>1. m_input' = (m_buf_read' > 0)
      BY <2>1
    <3>2. (m_buf_read' > 0) \in BOOLEAN
      OBVIOUS
    <3>3. m_input' \in BOOLEAN
      BY <3>1, <3>2, Zenon
    <3>4. ~m_input' => ~(m_buf_read' > 0)
      BY <3>1, Zenon
    <3>5. ~(m_buf_read' > 0) => m_buf_read' = 0
      BY <2>4
    <3> QED
      BY <3>3, <3>4, <3>5
  <2>5. TypeOK'
    <3>1. m_buf_read' \in -BufSize .. BufSize /\ pos' \in 0 .. Len(B)
          /\ p' + m_buf_read' <= BufSize /\ p' \in 0 .. BufSize - 1 /\ i' \in 0 .. BufSize
      BY <1>1, <1>3, <2>2, <2>3
    <3> QED
      BY <1>1, <1>2, <1>3, <2>3, <2>4, <2>9, <3>1 DEF ReadInv, TypeOK, B
  <2>6. WindowInv'
    <3>1. ASSUME NEW j \in 0 .. m_buf_read' - 1
          PROVE  m_read_buf'[p' + j] = B[base' + j + 1]
      <4>1. p' + j = j /\ pos + 1 + (j - 0) = base' + j + 1
        BY <1>1, <2>2, <2>4
      <4> QED
        BY <2>3, <4>1
    <3>2. m_read_buf'[BufSize] # "D9" /\ base' >= 0
      BY <2>2, <2>3, <2>4 DEF ReadInv, WindowInv
    <3>3. p' + m_buf_read' = BufSize \/ pos' = Len(B)
      <4>1. \A n \in Nat : 0 + n = n
        OBVIOUS
      <4>2. p' = 0 /\ m_buf_read' \in Nat
        BY <1>1, <2>4
      <4>3. p' + m_buf_read' = m_buf_read'
        BY <4>1, <4>2, Zenon
      <4> QED
        BY <2>3, <4>3
    <3> QED
      BY <1>1, <1>2, <2>2, <3>1, <3>2, <3>3 DEF WindowInv
  <2>7. BoundaryInv'
    <3>1. base = film.cut[K] \/ (base = film.cut[K] - 1 /\ K > 0)
      BY <1>1, <1>5 DEF ReadInv, BoundaryInv
    <3> QED
      BY <1>1, <1>2, <2>4, <3>1 DEF BoundaryInv
  <2>8. CopyInv' /\ InputInv'
    BY <1>1, <2>9 DEF CopyInv, InputInv
  <2> QED
    BY <1>2, <2>5, <2>6, <2>7, <2>8 DEF ReadInv
<1> QED
  BY <1>4, <1>5

\* A call fails for want of memory.
LEMMA NoMemoryStep ==
  ASSUME ReadInv, NoMemory PROVE ReadInv'
<1>1. /\ UNCHANGED <<film, pos, m_read_buf, m_buf_read, m_input, pc, p, i, data, out>>
      /\ result' = "nomem"
  BY DEF NoMemory, bufVars, callVars
<1>2. FramesInOrder' /\ B' = B /\ K' = K
  BY <1>1, OutKept
<1>3. TypeOK' /\ EndAfterLast' /\ base' = base
  BY <1>1 DEF ReadInv, TypeOK, EndAfterLast, base
<1> QED
  BY <1>1, <1>2, <1>3
  DEF ReadInv, WindowInv, BoundaryInv, CopyInv, InputInv

\* The start of the next frame is found.
LEMMA FoundStartStep ==
  ASSUME ReadInv, FoundStart PROVE ReadInv'
<1>1. PICK j \in 0 .. m_buf_read - 1 :
        FirstHit(j, 0, "D8") /\ p' = j /\ m_buf_read' = m_buf_read - j
  BY DEF FoundStart
<1>2. /\ pc = "start" /\ pc' = "end" /\ i' = 3
      /\ UNCHANGED <<film, pos, m_read_buf, m_input, data, out, result>>
  BY DEF FoundStart
<1>3. FramesInOrder' /\ EndAfterLast' /\ B' = B /\ K' = K
  BY <1>2, OutKept
<1>4. /\ m_buf_read \in 0 .. BufSize /\ j \in Nat /\ j < m_buf_read
      /\ BufSize \in Nat /\ BufSize >= 4 /\ base \in Nat /\ base = pos - m_buf_read
      /\ pos \in Nat /\ film.cut[K] \in Nat /\ K \in Nat /\ film.frames \in Nat
      /\ K <= film.frames /\ film \in Films
      /\ K < film.frames => film.cut[K] < film.cut[K + 1]
  <2>1. K < film.frames => film.cut[K] < film.cut[K + 1]
    <3> SUFFICES ASSUME K < film.frames PROVE film.cut[K] < film.cut[K + 1]
      OBVIOUS
    <3>1. /\ film.cut[K] \in Nat /\ film.cut[K + 1] \in 0 .. Len(B)
          /\ film.cut[K] + 5 <= film.cut[K + 1] /\ Len(B) \in Nat
      BY SMTT(30), Bounds
    <3> QED
      BY <3>1
  <2>2. m_buf_read \in 0 .. BufSize /\ j \in Nat /\ j < m_buf_read
    BY Whole
  <2>3. /\ BufSize \in Nat /\ BufSize >= 4 /\ base \in Nat /\ base = pos - m_buf_read
        /\ film \in Films
    BY Bounds
  <2>4. K \in Nat /\ film.frames \in Nat /\ K <= film.frames
    BY Bounds
  <2> QED
    BY <2>1, <2>2, <2>3, <2>4, Whole
<1>5. base + j = film.cut[K] /\ film.cut[K] # Len(B) /\ m_buf_read' >= 3
  BY <1>1, <1>2, <1>4, StartSearch
<1>6. base' = base + j
  BY <1>1, <1>2, <1>4 DEF base
<1>7. p = 0 /\ data = <<>> /\ m_input
  BY <1>2, <1>4 DEF ReadInv, BoundaryInv, InputInv
<1>8. TypeOK'
  BY <1>1, <1>2, <1>4, <1>5 DEF ReadInv, TypeOK
<1>9. WindowInv'
  <2>1. ASSUME NEW k \in 0 .. m_buf_read' - 1
        PROVE  m_read_buf'[p' + k] = B[base' + k + 1]
    <3>1. /\ j + k \in 0 .. m_buf_read - 1 /\ p + (j + k) = p' + k
          /\ base + (j + k) + 1 = base' + k + 1
      BY <1>1, <1>4, <1>6, <1>7
    <3>2. m_read_buf[p + (j + k)] = B[base + (j + k) + 1]
      BY <3>1 DEF ReadInv, WindowInv
    <3> QED
      BY <1>2, <3>1, <3>2
  <2>2. p' + m_buf_read' = p + m_buf_read /\ base' >= 0
    BY <1>1, <1>4, <1>6, <1>7
  <2> QED
    BY <1>2, <1>3, <1>4, <2>1, <2>2 DEF ReadInv, WindowInv
<1>10. CopyInv'
  <2>1. Len(data') = 0 /\ base' - film.cut[K] = 0 /\ m_buf_read' >= 0
    BY <1>1, <1>2, <1>4, <1>5, <1>6, <1>7
  <2>2. \/ K < film.frames /\ base' < film.cut[K + 1]
        \/ K = film.frames /\ Len(B) # film.cut[K]
    BY <1>4, <1>5, <1>6
  <2> QED
    BY <1>2, <1>3, <1>5, <1>7, <2>1, <2>2 DEF CopyInv
<1>11. BoundaryInv' /\ InputInv'
  BY <1>2, <1>7 DEF BoundaryInv, InputInv
<1> QED
  BY <1>3, <1>8, <1>9, <1>10, <1>11 DEF ReadInv

\* There is no further frame: only at the end of the file is a buffer discarded.
LEMMA NoStartStep ==
  ASSUME ReadInv, NoStart PROVE ReadInv'
<1>1. /\ pc = "start" /\ m_buf_read > 0 /\ Hits(0, "D8") = {} /\ i' = m_buf_read
      /\ ReadBytes(m_read_buf, 0) /\ p = 0 /\ data = <<>> /\ m_input
      /\ UNCHANGED <<film, m_input, pc, p, data, out, result>>
  BY Bounds DEF NoStart, ReadInv, BoundaryInv, InputInv
<1>2. FramesInOrder' /\ EndAfterLast' /\ B' = B /\ K' = K
  BY <1>1, OutKept
<1>3. K = film.frames /\ pos = Len(B)
  BY <1>1, StartSearch
<1>4. /\ film \in Films /\ TypeOK /\ m_read_buf \in [0 .. BufSize -> Byte]
      /\ BufSize \in Nat /\ 0 \in 0 .. BufSize /\ pos \in Nat
  <2>1. film \in Films /\ TypeOK /\ m_read_buf \in [0 .. BufSize -> Byte]
    BY DEF ReadInv, TypeOK, WindowInv
  <2>2. BufSize \in Nat /\ 0 \in 0 .. BufSize
    BY ReadAssumption
  <2> QED
    BY <2>1, <2>2, Whole
<1>5. /\ m_read_buf' \in [0 .. BufSize -> Byte]
      /\ m_read_buf'[BufSize] = m_read_buf[BufSize] /\ pos' = pos /\ m_buf_read' = 0
  BY <1>1, <1>3, <1>4, Filled
<1>6. base' = pos
  BY <1>4, <1>5 DEF base
<1>7. TypeOK'
  BY <1>1, <1>4, <1>5, Bounds DEF TypeOK
<1>8. WindowInv'
  <2>1. m_read_buf'[BufSize] # "D9" /\ base' >= 0
    BY <1>4, <1>5, <1>6 DEF ReadInv, WindowInv
  <2>2. \A j \in 0 .. m_buf_read' - 1 : FALSE
    BY <1>5
  <2> QED
    BY <1>1, <1>2, <1>3, <1>4, <1>5, <2>1, <2>2 DEF WindowInv
<1>9. BoundaryInv' /\ CopyInv' /\ InputInv'
  BY <1>1, <1>2, <1>3, <1>5 DEF BoundaryInv, CopyInv, InputInv
<1> QED
  BY <1>2, <1>7, <1>8, <1>9 DEF ReadInv

\* A call returns nullptr.
LEMMA NullFrameStep ==
  ASSUME ReadInv, NullFrame PROVE ReadInv'
<1>1. /\ pc \in {"start", "end"} /\ pc' = "idle" /\ m_buf_read <= 0
      /\ m_buf_read' = (IF pc = "start" THEN m_buf_read - i ELSE m_buf_read)
      /\ result' = "null"
      /\ UNCHANGED <<film, pos, m_read_buf, m_input, p, i, data, out>>
  BY DEF NullFrame
<1>2. FramesInOrder' /\ B' = B /\ K' = K
  BY <1>1, OutKept
<1>3. /\ BufSize \in Nat /\ BufSize >= 4 /\ film \in Films
      /\ m_buf_read \in Int /\ m_buf_read >= -BufSize /\ base \in Nat
      /\ base = pos - m_buf_read /\ pos \in Nat /\ Len(B) \in Nat /\ pos <= Len(B)
      /\ film.frames \in Nat /\ K \in Nat /\ K <= film.frames
      /\ film.cut[K] \in Nat /\ film.cut[K] <= Len(B)
      /\ K < film.frames => /\ film.cut[K + 1] \in 0 .. Len(B)
                            /\ film.cut[K] + 5 <= film.cut[K + 1]
  BY <1>1, Bounds
<1>4. i \in 0 .. BufSize /\ p \in 0 .. BufSize - 1
  BY DEF ReadInv, TypeOK
<1>5. /\ p = 0 /\ K = film.frames /\ pos = Len(B)
      /\ m_buf_read' \in -BufSize .. 0
      /\ ~m_input => m_buf_read = 0 /\ m_buf_read' = 0 /\ base = film.cut[K]
  <2>1. p = 0
    <3>1. CASE pc = "start"
      BY <3>1 DEF ReadInv, BoundaryInv
    <3>2. CASE pc = "end"
      BY <1>1, <1>3, <3>2 DEF ReadInv, CopyInv
    <3> QED
      BY <1>1, <3>1, <3>2
  <2>2. pos = Len(B)
    <3>1. p + m_buf_read # BufSize
      BY <1>1, <1>3, <2>1
    <3> QED
      BY <1>1, <3>1 DEF ReadInv, WindowInv
  <2>3. CASE pc = "start"
    <3>1. \/ m_buf_read = 0 /\ base = film.cut[K]
          \/ m_buf_read = 0 /\ base = film.cut[K] - 1
          \/ m_input /\ K = film.frames
      BY <1>1, <1>3, <2>3 DEF ReadInv, BoundaryInv
    <3>2. K = film.frames
      BY <1>3, <2>2, <3>1
    <3>3. m_buf_read < 0 => i = 0
      BY <2>3 DEF ReadInv, BoundaryInv
    <3>4. m_buf_read' \in -BufSize .. 0
      BY <1>1, <1>3, <1>4, <2>3, <3>3
    <3>5. ~m_input => m_buf_read = 0 /\ i = 0
      BY <2>3 DEF ReadInv, InputInv
    <3>6. ~m_input => m_buf_read' = 0 /\ base = film.cut[K]
      BY <1>1, <1>3, <2>2, <2>3, <3>1, <3>5
    <3> QED
      BY <2>1, <2>2, <3>2, <3>4, <3>5, <3>6
  <2>4. CASE pc = "end"
    <3>1. /\ m_buf_read = 0 /\ m_input /\ m_buf_read' = 0
          /\ \/ K < film.frames /\ base < film.cut[K + 1]
             \/ K = film.frames
      BY <1>1, <1>3, <2>4 DEF ReadInv, CopyInv, InputInv
    <3>2. K = film.frames
      BY <1>3, <2>2, <3>1
    <3>3. m_buf_read' \in -BufSize .. 0
      BY <1>3, <3>1
    <3> QED
      BY <2>1, <2>2, <3>1, <3>2, <3>3
  <2> QED
    BY <1>1, <2>3, <2>4
<1>6. TypeOK'
  <2>1. /\ m_buf_read' \in -BufSize .. BufSize /\ p + m_buf_read' <= BufSize
        /\ result' \in {"none", "frame", "null", "nomem"}
        /\ pc' \in {"idle", "start", "end"}
    BY <1>1, <1>3, <1>5
  <2> QED
    BY <1>1, <2>1 DEF ReadInv, TypeOK
<1>7. EndAfterLast'
  BY <1>1, <1>2, <1>5 DEF EndAfterLast, K
<1>8. base' = pos - m_buf_read' /\ base' >= 0
  <2>1. base' = pos - m_buf_read'
    BY <1>1 DEF base
  <2> QED
    BY <1>3, <1>5, <2>1
<1>9. WindowInv'
  <2>1. \A j \in 0 .. m_buf_read' - 1 : FALSE
    <3>1. m_buf_read' \in Int /\ m_buf_read' <= 0
      BY <1>3, <1>5
    <3>2. \A n \in Int : n <= 0 => \A j \in 0 .. n - 1 : FALSE
      OBVIOUS
    <3> QED
      BY <3>1, <3>2, Zenon
  <2> QED
    BY <1>1, <1>2, <1>3, <1>5, <1>8, <2>1 DEF ReadInv, WindowInv
<1>10. BoundaryInv'
  <2>1. CASE m_input
    <3>1. m_buf_read' <= 0
      BY <1>3, <1>5
    <3> QED
      BY <1>1, <1>2, <1>5, <2>1, <3>1 DEF BoundaryInv
  <2>2. CASE ~m_input
    <3>1. m_buf_read' >= 0 /\ base' = film.cut[K]
      BY <1>3, <1>5, <1>8, <2>2
    <3> QED
      BY <1>1, <1>2, <1>5, <3>1 DEF BoundaryInv
  <2> QED
    BY <2>1, <2>2
<1>11. CopyInv' /\ InputInv'
  BY <1>1, <1>5 DEF CopyInv, InputInv
<1> QED
  BY <1>2, <1>6, <1>7, <1>9, <1>10, <1>11 DEF ReadInv

\* The file is played again.
LEMMA RewindStep ==
  ASSUME ReadInv, Rewind PROVE ReadInv'
<1>1. /\ pc = "idle" /\ pos' = 0 /\ m_buf_read' = 0 /\ m_input' = FALSE
      /\ out' = <<>> /\ result' = "none" /\ p = 0
      /\ UNCHANGED <<film, m_read_buf, pc, p, i, data>>
  BY DEF Rewind, callVars, ReadInv, BoundaryInv
<1>2. /\ BufSize \in Nat /\ BufSize >= 4 /\ film \in Films /\ film.frames \in Nat
      /\ Len(B) \in Nat /\ film.cut[0] = 0
  BY Bounds, FilmFacts
<1>3. K' = 0 /\ base' = 0 /\ B' = B
  BY <1>1 DEF K, base, B
<1>4. TypeOK'
  <2>1. /\ <<>> \in Seq(Seq(Byte)) /\ 0 \in 0 .. Len(B) /\ 0 \in -BufSize .. BufSize
        /\ 0 + 0 <= BufSize /\ FALSE \in BOOLEAN
    BY <1>2
  <2>2. /\ m_read_buf' \in [0 .. BufSize -> Byte] /\ pc' \in {"idle", "start", "end"}
        /\ p' \in 0 .. BufSize - 1 /\ i' \in 0 .. BufSize /\ data' \in Seq(Byte)
    BY <1>1 DEF ReadInv, TypeOK
  <2>3. pos' \in 0 .. Len(film.bytes') /\ m_buf_read' \in -BufSize .. BufSize
        /\ p' + m_buf_read' <= BufSize
    BY <1>1, <2>1 DEF B
  <2>4. m_input' \in BOOLEAN /\ out' \in Seq(Seq(Byte))
        /\ result' \in {"none", "frame", "null", "nomem"}
    BY <1>1, <2>1
  <2> QED
    BY <2>2, <2>3, <2>4 DEF TypeOK
<1>5. FramesInOrder' /\ EndAfterLast'
  <2>1. Len(<<>>) = 0 /\ DOMAIN <<>> = {}
    OBVIOUS
  <2> QED
    BY <1>1, <1>2, <2>1 DEF FramesInOrder, EndAfterLast
<1>6. WindowInv'
  <2>1. \A j \in 0 .. m_buf_read' - 1 : FALSE
    BY <1>1
  <2> QED
    BY <1>1, <1>2, <1>3, <2>1 DEF ReadInv, WindowInv
<1>7. BoundaryInv' /\ CopyInv' /\ InputInv'
  BY <1>1, <1>2, <1>3 DEF BoundaryInv, CopyInv, InputInv
<1> QED
  BY <1>4, <1>5, <1>6, <1>7 DEF ReadInv

\* What has been copied of the next frame is contiguous.
LEMMA CopiedOn ==
  ASSUME ReadInv, pc = "end", m_buf_read > 0, NEW len \in 0 .. m_buf_read,
         Take(len), UNCHANGED film
  PROVE  /\ Len(data') = base' - film.cut[K] /\ Len(data') = Len(data) + len
         /\ \A j \in 1 .. Len(data') : data'[j] = B[film.cut[K] + j]
<1>1. TypeOK /\ WindowInv
  BY DEF ReadInv
<1>2. /\ base' = base + len /\ Len(data') = Len(data) + len
      /\ \A j \in 1 .. Len(data) : data'[j] = data[j]
      /\ \A j \in 1 .. len : data'[Len(data) + j] = B[base + j]
  BY <1>1, Taken
<1>3. /\ Len(data) = base - film.cut[K]
      /\ \A j \in 1 .. Len(data) : data[j] = B[film.cut[K] + j]
  BY DEF ReadInv, CopyInv
<1>4. /\ Len(data) \in Nat /\ len \in Nat /\ base \in Nat /\ film.cut[K] \in Nat
  <2>1. data \in Seq(Byte)
    BY DEF ReadInv, TypeOK
  <2> QED
    BY <2>1, Bounds
<1>5. ASSUME NEW j \in 1 .. Len(data') PROVE data'[j] = B[film.cut[K] + j]
  <2>1. j \in Nat /\ j >= 1 /\ j <= Len(data) + len
    BY <1>2, <1>4
  <2>2. CASE j <= Len(data)
    <3>1. j \in 1 .. Len(data)
      BY <1>4, <2>1, <2>2
    <3> QED
      BY <1>2, <1>3, <3>1
  <2>3. CASE j > Len(data)
    <3> DEFINE k == j - Len(data)
    <3>1. k \in 1 .. len /\ Len(data) + k = j
      BY <1>4, <2>1, <2>3
    <3>2. base + k = film.cut[K] + j
      <4>1. base = Len(data) + film.cut[K]
        BY <1>3, <1>4
      <4> QED
        BY <1>4, <2>1, <4>1
    <3> HIDE DEF k
    <3> QED
      BY <1>2, <3>1, <3>2
  <2> QED
    BY <1>4, <2>1, <2>2, <2>3
<1>6. Len(data') = base' - film.cut[K]
  BY <1>2, <1>3, <1>4
<1> QED
  BY <1>2, <1>5, <1>6

\* A buffer in the middle of a frame is copied.
LEMMA NoEndStep ==
  ASSUME ReadInv, NoEnd PROVE ReadInv'
<1>1. /\ pc = "end" /\ m_buf_read > 0 /\ ~Split /\ Hits(i, "D9") = {}
      /\ Take(IF i < m_buf_read THEN m_buf_read ELSE i)
      /\ UNCHANGED <<film, m_input, pc, out, result>>
  BY DEF NoEnd
<1>2. FramesInOrder' /\ EndAfterLast' /\ B' = B /\ K' = K
  BY <1>1, OutKept
<1>3. i \in 0 .. m_buf_read /\ (K < film.frames => pos < film.cut[K + 1])
  BY <1>1, EndSearch
<1>4. /\ m_buf_read \in Nat /\ m_buf_read \in 0 .. m_buf_read /\ pos \in Nat
      /\ base = pos - m_buf_read /\ base \in Nat /\ BufSize \in Nat /\ BufSize >= 4
  BY <1>1, Bounds
<1>5. Take(m_buf_read)
  <2>1. (IF i < m_buf_read THEN m_buf_read ELSE i) = m_buf_read
    BY <1>3, <1>4
  <2> QED
    BY <1>1, <2>1
<1>6. TypeOK /\ WindowInv
  BY DEF ReadInv
<1>7. /\ p' = 0 /\ i' = 0
      /\ m_read_buf' \in [0 .. BufSize -> Byte] /\ m_buf_read' \in 0 .. BufSize
      /\ pos' \in 0 .. Len(B) /\ WindowInv' /\ base' = base + m_buf_read
      /\ data' \in Seq(Byte)
  BY <1>1, <1>4, <1>5, <1>6, Taken
<1>8. /\ Len(data') = base' - film.cut[K] /\ Len(data') = Len(data) + m_buf_read
      /\ \A j \in 1 .. Len(data') : data'[j] = B[film.cut[K] + j]
  BY <1>1, <1>4, <1>5, CopiedOn
<1>9. TypeOK'
  <2>1. m_buf_read' \in -BufSize .. BufSize /\ p' \in 0 .. BufSize - 1
        /\ i' \in 0 .. BufSize /\ p' + m_buf_read' <= BufSize
    BY <1>4, <1>7
  <2> QED
    BY <1>1, <1>2, <1>7, <2>1 DEF ReadInv, TypeOK, B
<1>10. CopyInv'
  <2>1. base' = pos /\ m_buf_read' >= 0
    BY <1>4, <1>7
  <2>2. Len(data') >= 3
    <3>1. data \in Seq(Byte) /\ (m_buf_read >= 3 \/ Len(data) >= 3)
      BY <1>1 DEF ReadInv, TypeOK, CopyInv
    <3>2. Len(data) \in Nat
      BY <3>1
    <3> QED
      BY <1>4, <1>8, <3>1, <3>2
  <2>3. \/ K < film.frames /\ base' < film.cut[K + 1]
        \/ K = film.frames /\ Len(B) # film.cut[K]
    BY <1>1, <1>3, <2>1 DEF ReadInv, CopyInv
  <2> QED
    BY <1>1, <1>2, <1>7, <1>8, <2>1, <2>2, <2>3 DEF CopyInv
<1>11. BoundaryInv' /\ InputInv'
  BY <1>1 DEF ReadInv, BoundaryInv, InputInv
<1> QED
  BY <1>2, <1>7, <1>9, <1>10, <1>11 DEF ReadInv

\* A frame behind those that were returned before.
LEMMA Appended ==
  ASSUME NEW S, NEW q \in Seq(S), NEW x \in S, NEW n \in Nat, Len(q) = n
  PROVE  /\ Append(q, x) \in Seq(S) /\ Len(Append(q, x)) = n + 1
         /\ Append(q, x)[n + 1] = x
         /\ \A j \in 1 .. n : Append(q, x)[j] = q[j]
OBVIOUS

\* A frame is returned.
LEMMA FoundEndStep ==
  ASSUME ReadInv, FoundEnd PROVE ReadInv'
<1>1. /\ pc = "end" /\ m_buf_read > 0 /\ pc' = "idle"
      /\ out' = Append(out, data') /\ result' = "frame"
      /\ UNCHANGED <<film, m_input>>
  BY DEF FoundEnd
<1>2. i \in 0 .. m_buf_read
  BY <1>1, EndSearch
<1>3. PICK len \in 0 .. m_buf_read :
        /\ Take(len) /\ K < film.frames
        /\ base + len = film.cut[K + 1] \/ base + len = film.cut[K + 1] - 1
  <2>1. CASE Split /\ Take(i)
    <3>1. K < film.frames /\ base = film.cut[K + 1] - 1 /\ i = 0
      BY <1>1, <2>1, EndSearch
    <3>2. base + i = film.cut[K + 1] - 1
      BY <3>1, Bounds
    <3> QED
      BY <1>2, <2>1, <3>1, <3>2
  <2>2. CASE ~Split /\ \E j \in i .. m_buf_read - 1 : FirstHit(j, i, "D9") /\ Take(j + 2)
    <3>1. PICK j \in i .. m_buf_read - 1 : FirstHit(j, i, "D9") /\ Take(j + 2)
      BY <2>2
    <3>2. K < film.frames /\ base + j + 2 = film.cut[K + 1] /\ j + 2 <= m_buf_read
      BY <1>1, <2>2, <3>1, EndSearch
    <3>3. j \in Nat /\ m_buf_read \in Nat /\ base \in Nat
      BY <1>1, <1>2, Bounds
    <3>4. j + 2 \in 0 .. m_buf_read /\ base + (j + 2) = film.cut[K + 1]
      BY <3>2, <3>3
    <3> QED
      BY <3>1, <3>2, <3>4
  <2> QED
    BY <2>1, <2>2 DEF FoundEnd
<1>4. TypeOK /\ WindowInv
  BY DEF ReadInv
<1>5. /\ p' = 0 /\ i' = 0
      /\ m_read_buf' \in [0 .. BufSize -> Byte] /\ m_buf_read' \in 0 .. BufSize
      /\ pos' \in 0 .. Len(B) /\ WindowInv' /\ base' = base + len
      /\ data' \in Seq(Byte)
  BY <1>1, <1>3, <1>4, Taken
<1>6. /\ Len(data') = base' - film.cut[K]
      /\ \A j \in 1 .. Len(data') : data'[j] = B[film.cut[K] + j]
  BY <1>1, <1>3, CopiedOn
<1>7. BufSize \in Nat /\ BufSize >= 4 /\ film \in Films /\ film.frames \in Nat /\ K \in Nat
  BY Bounds
<1> DEFINE k == K + 1
<1>8. k \in 1 .. film.frames /\ k - 1 = K /\ k \in Nat
  BY <1>3, <1>7
<1>9. out \in Seq(Seq(Byte)) /\ Len(out) = K
  BY DEF ReadInv, TypeOK, K
<1>10. /\ out' \in Seq(Seq(Byte)) /\ Len(out') = k /\ out'[k] = data'
       /\ \A n \in 1 .. K : out'[n] = out[n]
  <2>1. data' \in Seq(Byte) /\ K \in Nat /\ out' = Append(out, data')
    BY <1>1, <1>5, <1>7
  <2> QED
    BY <1>9, <2>1, Appended
<1>11. B' = B /\ K' = k
  BY <1>1, <1>10 DEF B, K
<1>12. base' = film.cut[k] \/ base' = film.cut[k] - 1
  BY <1>3, <1>5
<1> HIDE DEF k
<1>13. film.cut[k] \in Nat /\ film.cut[K] \in Nat
  <2>1. k \in 0 .. film.frames /\ K \in 0 .. film.frames
    BY <1>7, <1>8, Bounds
  <2> QED
    BY <1>7, <2>1, FilmFacts
<1>14. \E lost \in {0, 1} : IsFrame(data', k, lost)
  <2>1. PICK lost \in {0, 1} : base' = film.cut[k] - lost
    <3>1. film.cut[k] = film.cut[k] - 0
      BY <1>13
    <3> QED
      BY <1>12, <3>1
  <2>2. Len(data') = film.cut[k] - lost - film.cut[k - 1]
    BY <1>6, <1>8, <2>1
  <2>3. \A j \in 1 .. Len(data') : data'[j] = B[film.cut[k - 1] + j]
    BY <1>6, <1>8
  <2>4. IsFrame(data', k, lost)
    BY <1>5, <1>7, <1>8, <2>2, <2>3, FrameCopied
  <2> QED
    BY <2>4
<1>15. FramesInOrder'
  <2>1. ASSUME NEW n \in DOMAIN out'
        PROVE  \E lost \in {0, 1} : IsFrame(out'[n], n, lost)
    <3>1. n \in 1 .. k
      BY <1>10
    <3>2. CASE n = k
      BY <1>10, <1>14, <3>2
    <3>3. CASE n # k
      <4>1. n \in 1 .. K /\ n \in DOMAIN out
        BY <1>7, <1>8, <1>9, <3>1, <3>3
      <4>2. \E lost \in {0, 1} : IsFrame(out[n], n, lost)
        BY <4>1 DEF ReadInv, FramesInOrder
      <4> QED
        BY <1>10, <4>1, <4>2
    <3> QED
      BY <3>2, <3>3
  <2>2. Len(out') <= film.frames
    BY <1>7, <1>8, <1>10
  <2> QED
    BY <1>1, <2>1, <2>2 DEF FramesInOrder, IsFrame
<1>16. TypeOK'
  <2>1. m_buf_read' \in -BufSize .. BufSize /\ p' \in 0 .. BufSize - 1
        /\ i' \in 0 .. BufSize /\ p' + m_buf_read' <= BufSize
    <3>1. p' = 0 /\ i' = 0 /\ m_buf_read' \in 0 .. BufSize
      BY <1>5
    <3>2. /\ \A n \in 0 .. BufSize : n \in -BufSize .. BufSize /\ 0 + n <= BufSize
          /\ 0 \in 0 .. BufSize - 1 /\ 0 \in 0 .. BufSize
      BY <1>7
    <3> QED
      BY <3>1, <3>2, Zenon
  <2> QED
    BY <1>1, <1>5, <1>10, <1>11, <2>1 DEF ReadInv, TypeOK, B
<1>17. EndAfterLast' /\ CopyInv' /\ InputInv'
  BY <1>1 DEF EndAfterLast, CopyInv, InputInv, ReadInv
<1>18. BoundaryInv'
  <2>1. m_buf_read' >= 0 /\ k > 0
    BY <1>5, <1>7, <1>8
  <2> QED
    BY <1>1, <1>5, <1>11, <1>12, <2>1 DEF BoundaryInv
<1> QED
  BY <1>5, <1>15, <1>16, <1>17, <1>18 DEF ReadInv
-----------------------------------------------------------------------------
(* The invariant and what follows from it. *)

\* It holds before the first call.
LEMMA ReadInit == Init => ReadInv
<1> SUFFICES ASSUME Init PROVE ReadInv
  OBVIOUS
<1>1. /\ BufSize \in Nat /\ BufSize >= 4 /\ film \in Films /\ film.frames \in Nat
      /\ Len(B) \in Nat /\ film.cut[0] = 0
  BY ReadAssumption, FilmFacts DEF Init
<1>2. K = 0 /\ base = 0
  BY DEF Init, K, base
<1>3. PICK b \in {"XX", "D8"} :
        m_read_buf = [j \in 0 .. BufSize |-> IF j < BufSize THEN "XX" ELSE b]
  BY DEF Init
<1>4. m_read_buf \in [0 .. BufSize -> Byte] /\ m_read_buf[BufSize] # "D9"
  BY <1>1, <1>3 DEF Byte
<1>5. TypeOK
  <2>1. <<>> \in Seq(Seq(Byte)) /\ <<>> \in Seq(Byte) /\ 0 \in 0 .. Len(B)
        /\ 0 \in -BufSize .. BufSize /\ 0 \in 0 .. BufSize - 1 /\ 0 \in 0 .. BufSize
        /\ 0 + 0 <= BufSize
    BY <1>1
  <2> QED
    BY <1>4, <2>1 DEF Init, TypeOK, B
<1>6. FramesInOrder /\ EndAfterLast
  <2>1. Len(<<>>) = 0 /\ DOMAIN <<>> = {}
    OBVIOUS
  <2> QED
    BY <1>1, <2>1 DEF Init, FramesInOrder, EndAfterLast
<1>7. WindowInv
  <2>1. \A j \in 0 .. m_buf_read - 1 : FALSE
    BY DEF Init
  <2> QED
    BY <1>1, <1>2, <1>4, <2>1 DEF Init, WindowInv
<1>8. BoundaryInv /\ CopyInv /\ InputInv
  BY <1>1, <1>2 DEF Init, BoundaryInv, CopyInv, InputInv
<1> QED
  BY <1>5, <1>6, <1>7, <1>8 DEF ReadInv

\* Every step preserves it.
LEMMA ReadStep == ReadInv /\ [Next]_vars => ReadInv'
<1> SUFFICES ASSUME ReadInv, [Next]_vars PROVE ReadInv'
  OBVIOUS
<1>1. CASE UNCHANGED vars
  <2>1. UNCHANGED <<film, pos, m_read_buf, m_buf_read, m_input, pc, p, i, data, out,
                    result>>
    BY <1>1 DEF vars, bufVars, callVars
  <2>2. UNCHANGED <<B, K, base>>
    BY <2>1 DEF B, K, base
  <2>3. TypeOK' /\ FramesInOrder' /\ EndAfterLast'
    BY <2>1 DEF ReadInv, TypeOK, FramesInOrder, IsFrame, EndAfterLast
  <2>4. WindowInv' /\ InputInv'
    BY <2>1, <2>2 DEF ReadInv, WindowInv, InputInv
  <2>5. BoundaryInv' /\ CopyInv'
    BY <2>1, <2>2 DEF ReadInv, BoundaryInv, CopyInv
  <2> QED
    BY <2>3, <2>4, <2>5 DEF ReadInv
<1> QED
  BY <1>1, CallStep, NoMemoryStep, FoundStartStep, NoStartStep, NullFrameStep,
     FoundEndStep, NoEndStep, RewindStep
  DEF Next

\* It holds throughout, for every well-formed file.
LEMMA ReadInvariant == Spec => []ReadInv
BY ReadInit, ReadStep, PTL DEF Spec

\* The pointer and the counters of read_frame() stay within the read buffer.
THEOREM ReaderTyped == Spec => []TypeOK
<1>1. ReadInv => TypeOK
  BY DEF ReadInv
<1> QED
  BY <1>1, ReadInvariant, PTL

\* read_frame() returns the frames of every well-formed file in order.
THEOREM ReaderInOrder == Spec => []FramesInOrder
<1>1. ReadInv => FramesInOrder
  BY DEF ReadInv
<1> QED
  BY <1>1, ReadInvariant, PTL

\* read_frame() reports the end of a file behind its last whole frame only.
THEOREM ReaderComplete == Spec => []EndAfterLast
<1>1. ReadInv => EndAfterLast
  BY DEF ReadInv
<1> QED
  BY <1>1, ReadInvariant, PTL
=============================================================================
