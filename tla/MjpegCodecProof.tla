-------------------------- MODULE MjpegCodecProof --------------------------
(***************************************************************************)
(* Proofs about MjpegCodec for every capacity, number of frames and number *)
(* of pieces, in three parts: the order in which the tasks end when the    *)
(* codec is deleted; the buffers, each of which has one owner at any time  *)
(* and none of which is left behind; and the refinement of FramePipe.      *)
(***************************************************************************)
EXTENDS MjpegCodec, TLAPS

Carries(q, s) == \E i \in 1 .. Len(q) : q[i] = s

(***************************************************************************)
(* The inductive strengthening of NoTaskOutlivesCodec and                  *)
(* DrawOutlivesDecode.                                                     *)
(***************************************************************************)

\* Who holds a mutex is determined by where the threads are.
LockInv ==
  /\ decodeMutex = Owner <=>
       cpc \in {"lockDraw", "drainDecode", "drainDraw", "wait"}
  /\ decodeMutex = DecodeTask <=> dpc = "decode"
  /\ drawMutex = Owner <=> cpc \in {"drainDecode", "drainDraw", "wait"}
  /\ drawMutex = DrawTask <=> wpc = "push"

\* A "stopped" bit is set exactly while its task has not begun or has ended,
\* and a "finish" bit is only ever set by a task that has begun.
BitsInv ==
  /\ "decode_task_stopped" \in bits <=> dpc \in {"init", "dead"}
  /\ "draw_task_stopped" \in bits <=> wpc \in {"init", "dead"}
  /\ "decode_task_finish_processing" \in bits => dpc # "init"
  /\ "draw_task_finish_processing" \in bits => wpc # "init"

\* Both tasks have begun once a stop() has returned, so before any deletion.
StartedInv ==
  /\ stopCalled => dpc # "init" /\ wpc # "init"
  /\ exiting => stopCalled
  /\ cpc \in {"sendSig", "waitDecode", "sendDrawSig", "waitDraw", "free",
              "gone"} => stopCalled

\* Where the decode task's stop signal is, once it has been sent.
DecodeSignalled ==
  \/ Carries(decodeQ, StopSig)
  \/ dpc = "lock" /\ buf = StopSig
  \/ dpc \in {"cleanup", "dead"}
DrawSignalled ==
  \/ Carries(drawQ, DrawSig)
  \/ wpc = "lock" /\ pDraw = DrawSig
  \/ wpc \in {"cleanup", "dead"}

SignalInv ==
  /\ DecodeSignalled <=>
       cpc \in {"waitDecode", "sendDrawSig", "waitDraw", "free", "gone"}
  /\ DrawSignalled <=> cpc \in {"waitDraw", "free", "gone"}
  /\ cpc \in {"sendDrawSig", "waitDraw", "free", "gone"} => dpc = "dead"
  /\ cpc \in {"free", "gone"} => wpc = "dead"

ShutdownInv == LockInv /\ BitsInv /\ StartedInv /\ SignalInv
-----------------------------------------------------------------------------
(* What sending to and receiving from a queue does to the signals in it. *)

\* An empty queue carries no signal.
LEMMA CarriesEmpty ==
  ASSUME NEW q, q = <<>>, NEW s
  PROVE  ~Carries(q, s) /\ Len(q) = 0
BY DEF Carries

\* xQueueSend(): the queue carries what it carried and the new message.
LEMMA CarriesAppend ==
  ASSUME NEW S, NEW q \in Seq(S), NEW x \in S, NEW s
  PROVE  Carries(Append(q, x), s) <=> Carries(q, s) \/ x = s
BY DEF Carries

\* xQueueReceive(): what a queue carries is its first message or further back.
LEMMA CarriesTail ==
  ASSUME NEW S, NEW q \in Seq(S), q # <<>>, NEW s
  PROVE  /\ Head(q) \in S /\ Tail(q) \in Seq(S) /\ Len(Tail(q)) = Len(q) - 1
         /\ Carries(q, s) <=> Head(q) = s \/ Carries(Tail(q), s)
<1>1. Len(q) \in Nat /\ Len(q) > 0
  OBVIOUS
<1>2. Tail(q) \in Seq(S) /\ Len(Tail(q)) = Len(q) - 1 /\ Head(q) = q[1]
      /\ \A i \in 1 .. Len(q) - 1 : Tail(q)[i] = q[i + 1]
  BY <1>1
<1>3. Carries(q, s) => Head(q) = s \/ Carries(Tail(q), s)
  <2> SUFFICES ASSUME NEW i \in 1 .. Len(q), q[i] = s, Head(q) # s
               PROVE  \E j \in 1 .. Len(Tail(q)) : Tail(q)[j] = s
    BY DEF Carries
  <2>1. i - 1 \in 1 .. Len(Tail(q)) /\ Tail(q)[i - 1] = s
    BY <1>1, <1>2
  <2> QED BY <2>1
<1>4. Head(q) = s \/ Carries(Tail(q), s) => Carries(q, s)
  BY <1>1, <1>2 DEF Carries
<1> QED BY <1>1, <1>2, <1>3, <1>4
-----------------------------------------------------------------------------
\* Type correctness: the queues stay within their capacities and the locals,
\* bits and mutexes within their ranges, for every value of the constants.
THEOREM TypeCorrect == Spec => []TypeOK
<1> USE CodecAssumption
<1> USE DEF StopSig, NoFrame, Free, Owner, DecodeTask,
            DrawTask, Bits, StoppedBits, StopLabels, OwnerLabels,
            DecodeLabels, DrawLabels, TypeOK
<1> StopSig \in DecodeMsg /\ DrawSig \in DrawMsg
  BY DEF DecodeMsg, DrawMsg
<1>1. Init => TypeOK
  <2> SUFFICES ASSUME Init PROVE TypeOK
    OBVIOUS
  <2>1. cpc \in OwnerLabels /\ dpc \in DecodeLabels /\ wpc \in DrawLabels
    BY DEF Init
  <2>2. decodeQ \in Seq(DecodeMsg) /\ Len(decodeQ) <= DecodeCap
    BY DEF Init
  <2>3. drawQ \in Seq(DrawMsg) /\ Len(drawQ) <= DrawCap
    BY DEF Init
  <2>4. bits \subseteq Bits /\ frames \subseteq Frame /\ draws \subseteq Piece
    BY DEF Init
  <2>5. left \in 0 .. MaxPieces /\ lost \in 0 .. MaxLost
        /\ nframes \in 0 .. MaxFrames
    BY DEF Init
  <2> QED BY <2>1, <2>2, <2>3, <2>4, <2>5 DEF Init
<1>2. TypeOK /\ [Next]_vars => TypeOK'
  <2> SUFFICES ASSUME TypeOK, [Next]_vars PROVE TypeOK'
    OBVIOUS
  <2> USE DEF ownerVars, decodeVars, drawVars
  <2>1. CASE DecodeInit
    BY <2>1 DEF DecodeInit
  <2>2. CASE DecodeReceive
    BY <2>2, CarriesTail DEF DecodeReceive
  <2>3. CASE DecodeLock
    BY <2>3 DEF DecodeLock
  <2>4. CASE DecodePiece
    <3>1. <<buf, left>> \in Piece /\ <<buf, left>> \in DrawMsg
      BY <2>4 DEF DecodePiece, Piece, DecodeMsg, DrawMsg
    <3> QED BY SMTT(30), <2>4, <3>1 DEF DecodePiece
  <2>5. CASE DecodePieceLost
    BY <2>5 DEF DecodePieceLost
  <2>6. CASE DecodeFinish
    BY <2>6 DEF DecodeFinish
  <2>7. CASE DecodeCleanup
    BY <2>7 DEF DecodeCleanup
  <2>8. CASE DrawInit
    BY <2>8 DEF DrawInit
  <2>9. CASE DrawReceive
    BY <2>9, CarriesTail DEF DrawReceive
  <2>10. CASE DrawLock
    BY <2>10 DEF DrawLock
  <2>11. CASE DrawFinish
    BY <2>11 DEF DrawFinish
  <2>12. CASE DrawCleanup
    BY <2>12 DEF DrawCleanup
  <2>13. CASE ReadFrame
    BY <2>13 DEF ReadFrame, Frame
  <2>14. CASE DecodeFrame
    <3>1. nframes \in DecodeMsg
      BY <2>14 DEF DecodeFrame, DecodeMsg
    <3> QED BY <2>14, <3>1 DEF DecodeFrame
  <2>15. CASE SkipFrame
    BY <2>15 DEF SkipFrame
  <2>16. CASE StopCall
    BY <2>16 DEF StopCall
  <2>17. CASE StopLock
    BY <2>17 DEF StopLock
  <2>18. CASE StopDrainDecode
    <3>1. CASE decodeQ # <<>>
      <4>1. Tail(decodeQ) \in Seq(DecodeMsg)
            /\ Len(Tail(decodeQ)) = Len(decodeQ) - 1
        BY <3>1, CarriesTail
      <4>2. decodeQ' = Tail(decodeQ) /\ frames' \subseteq Frame /\ cpc' = cpc
        BY <2>18, <3>1 DEF StopDrainDecode
      <4>3. decodeQ' \in Seq(DecodeMsg) /\ Len(decodeQ') <= DecodeCap
        BY <4>1, <4>2
      <4> QED BY <2>18, <4>2, <4>3 DEF StopDrainDecode
    <3>2. CASE decodeQ = <<>>
      BY <2>18, <3>2 DEF StopDrainDecode
    <3> QED BY <3>1, <3>2
  <2>19. CASE StopDrainDraw
    <3>1. CASE drawQ # <<>>
      <4>1. Tail(drawQ) \in Seq(DrawMsg)
            /\ Len(Tail(drawQ)) = Len(drawQ) - 1
        BY <3>1, CarriesTail
      <4> QED BY <2>19, <3>1, <4>1 DEF StopDrainDraw
    <3>2. CASE drawQ = <<>>
      BY <2>19, <3>2 DEF StopDrainDraw
    <3> QED BY <3>1, <3>2
  <2>20. CASE StopWait
    BY <2>20 DEF StopWait
  <2>21. CASE Delete
    BY <2>21 DEF Delete, running
  <2>22. CASE ExitSendDecodeSig
    BY <2>22 DEF ExitSendDecodeSig
  <2>23. CASE ExitWaitDecode
    BY <2>23 DEF ExitWaitDecode
  <2>24. CASE ExitSendDrawSig
    <3>1. CASE Len(drawQ) < DrawCap /\ drawQ' = Append(drawQ, DrawSig)
      <4>1. drawQ' \in Seq(DrawMsg) /\ Len(drawQ') <= DrawCap
        BY <3>1
      <4> QED BY <2>24, <4>1 DEF ExitSendDrawSig
    <3>2. CASE UNCHANGED drawQ
      BY <2>24, <3>2 DEF ExitSendDrawSig
    <3> QED BY <2>24, <3>1, <3>2 DEF ExitSendDrawSig
  <2>25. CASE ExitWaitDraw
    BY <2>25 DEF ExitWaitDraw
  <2>26. CASE FreeCodec
    BY <2>26 DEF FreeCodec
  <2>27. CASE UNCHANGED vars
    BY <2>27 DEF vars
  <2> QED
    BY <2>1, <2>2, <2>3, <2>4, <2>5, <2>6, <2>7, <2>8, <2>9, <2>10, <2>11,
       <2>12, <2>13, <2>14, <2>15, <2>16, <2>17, <2>18, <2>19, <2>20, <2>21,
       <2>22, <2>23, <2>24, <2>25, <2>26, <2>27
    DEF Next, decode_task, draw_task, InCall, Calls, Deleted
<1> QED BY <1>1, <1>2, PTL DEF Spec
-----------------------------------------------------------------------------
\* The constructor leaves no signal in a queue and both tasks not yet begun.
LEMMA ShutdownInit == Init => ShutdownInv
<1> SUFFICES ASSUME Init PROVE ShutdownInv
  OBVIOUS
<1>1. ~Carries(decodeQ, StopSig) /\ ~Carries(drawQ, DrawSig)
  BY CarriesEmpty DEF Init
<1> QED
  BY <1>1 DEF Init, ShutdownInv, LockInv, BitsInv, StartedInv, SignalInv,
              DecodeSignalled, DrawSignalled, StoppedBits, Free, Owner,
              DecodeTask, DrawTask

\* ShutdownInv is preserved by every step, when waits are patient.
LEMMA ShutdownStep ==
  ASSUME Patient, TypeOK, ShutdownInv, [Next]_vars
  PROVE  ShutdownInv'
<1> USE CodecAssumption
<1> USE DEF StopSig, NoFrame, Free, Owner, DecodeTask, DrawTask, Bits,
            StoppedBits, FinishBits, StopLabels, OwnerLabels, DecodeLabels,
            DrawLabels, ownerVars, decodeVars, drawVars
<1> USE DEF ShutdownInv, LockInv, BitsInv, StartedInv, SignalInv,
            DecodeSignalled, DrawSignalled
<1> decodeQ \in Seq(DecodeMsg) /\ drawQ \in Seq(DrawMsg)
  BY DEF TypeOK
<1> StopSig \in DecodeMsg /\ DrawSig \in DrawMsg
  BY DEF DecodeMsg, DrawMsg
<1>1. CASE DecodeInit
  BY <1>1 DEF DecodeInit
<1>2. CASE DecodeReceive
  <2>1. decodeQ # <<>> => (Carries(decodeQ, StopSig) <=>
          Head(decodeQ) = StopSig \/ Carries(Tail(decodeQ), StopSig))
    BY CarriesTail
  <2> QED BY <1>2, <2>1 DEF DecodeReceive
<1>3. CASE DecodeLock
  BY <1>3 DEF DecodeLock
<1>4. CASE DecodePiece
  <2>1. <<buf, left>> \in DrawMsg /\ <<buf, left>> # DrawSig
    BY <1>4 DEF DecodePiece, TypeOK, DrawMsg, Piece, DecodeMsg, DrawSig
  <2>2. Carries(drawQ', DrawSig) <=> Carries(drawQ, DrawSig)
    BY <1>4, <2>1, CarriesAppend DEF DecodePiece
  <2> QED BY <1>4, <2>1, <2>2 DEF DecodePiece
<1>5. CASE DecodePieceLost
  BY <1>5 DEF DecodePieceLost
<1>6. CASE DecodeFinish
  BY <1>6 DEF DecodeFinish
<1>7. CASE DecodeCleanup
  BY <1>7 DEF DecodeCleanup
<1>8. CASE DrawInit
  BY <1>8 DEF DrawInit
<1>9. CASE DrawReceive
  <2>1. drawQ # <<>> => (Carries(drawQ, DrawSig) <=>
          Head(drawQ) = DrawSig \/ Carries(Tail(drawQ), DrawSig))
    BY CarriesTail
  <2> QED BY <1>9, <2>1 DEF DrawReceive
<1>10. CASE DrawLock
  BY <1>10 DEF DrawLock
<1>11. CASE DrawFinish
  BY <1>11 DEF DrawFinish
<1>12. CASE DrawCleanup
  BY <1>12 DEF DrawCleanup
<1>13. CASE ReadFrame
  BY <1>13 DEF ReadFrame
<1>14. CASE DecodeFrame
  <2>1. nframes \in DecodeMsg /\ nframes # StopSig
    BY <1>14 DEF DecodeFrame, TypeOK, DecodeMsg, Frame
  <2>2. Carries(decodeQ', StopSig) <=> Carries(decodeQ, StopSig)
    BY <1>14, <2>1, CarriesAppend DEF DecodeFrame
  <2> QED BY <1>14, <2>1, <2>2 DEF DecodeFrame
<1>15. CASE SkipFrame
  BY <1>15 DEF SkipFrame
<1>16. CASE StopCall
  BY <1>16 DEF StopCall
<1>17. CASE StopLock
  BY <1>17 DEF StopLock
<1>18. CASE StopDrainDecode
  <2>1. decodeQ # <<>> => (Carries(decodeQ, StopSig) <=>
          Head(decodeQ) = StopSig \/ Carries(Tail(decodeQ), StopSig))
    BY CarriesTail
  <2> QED BY <1>18, <2>1 DEF StopDrainDecode
<1>19. CASE StopDrainDraw
  <2>1. drawQ # <<>> => (Carries(drawQ, DrawSig) <=>
          Head(drawQ) = DrawSig \/ Carries(Tail(drawQ), DrawSig))
    BY CarriesTail
  <2> QED BY <1>19, <2>1 DEF StopDrainDraw
<1>20. CASE StopWait
  BY <1>20 DEF StopWait, Expired, DecodeBlocked, DrawBlocked
<1>21. CASE Delete
  BY <1>21 DEF Delete, running
<1>22. CASE ExitSendDecodeSig
  <2>1. Carries(decodeQ', StopSig)
    BY <1>22, CarriesAppend DEF ExitSendDecodeSig
  <2> QED BY <1>22, <2>1 DEF ExitSendDecodeSig
<1>23. CASE ExitWaitDecode
  \* A decode task that has been signalled can move until it has ended.
  <2>1. "decode_task_stopped" \notin bits => ~(DecodeBlocked /\ DrawBlocked)
    <3>1. decodeQ = <<>> => ~Carries(decodeQ, StopSig)
      BY CarriesEmpty
    <3>2. drawQ = <<>> => Len(drawQ) # DrawCap
      BY CarriesEmpty
    <3> QED BY <1>23, <3>1, <3>2 DEF ExitWaitDecode, DecodeBlocked, DrawBlocked,
                                     TypeOK
  <2> QED BY <1>23, <2>1 DEF ExitWaitDecode, Expired
<1>24. CASE ExitSendDrawSig
  <2>1. Carries(Append(drawQ, DrawSig), DrawSig)
    BY CarriesAppend
  \* The draw task empties a full queue.
  <2>2. Len(drawQ) = DrawCap => ~DrawBlocked
    <3>1. drawQ = <<>> => Len(drawQ) # DrawCap
      BY CarriesEmpty
    <3> QED BY <1>24, <3>1 DEF ExitSendDrawSig, DrawBlocked, TypeOK
  <2> QED BY <1>24, <2>1, <2>2 DEF ExitSendDrawSig, Expired
<1>25. CASE ExitWaitDraw
  <2>1. "draw_task_stopped" \notin bits => ~DrawBlocked
    <3>1. drawQ = <<>> => ~Carries(drawQ, DrawSig)
      BY CarriesEmpty
    <3> QED BY <1>25, <3>1 DEF ExitWaitDraw, DrawBlocked, TypeOK
  <2> QED BY <1>25, <2>1 DEF ExitWaitDraw, Expired, TypeOK
<1>26. CASE FreeCodec
  BY <1>26 DEF FreeCodec
<1>27. CASE UNCHANGED vars
  BY <1>27 DEF vars
<1> QED
  BY <1>1, <1>2, <1>3, <1>4, <1>5, <1>6, <1>7, <1>8, <1>9, <1>10, <1>11, <1>12,
     <1>13, <1>14, <1>15, <1>16, <1>17, <1>18, <1>19, <1>20, <1>21, <1>22,
     <1>23, <1>24, <1>25, <1>26, <1>27
  DEF Next, decode_task, draw_task, InCall, Calls, Deleted

\* Deleting the codec after a stop(), with waits that outlast the tasks' work:
\* no task is left running on the memory of the deleted codec, and the draw
\* task, which deletes the draw queue, never ends before the decode task, which
\* sends to it.
THEOREM ShutdownSafe ==
  Patient => (Spec => [](NoTaskOutlivesCodec /\ DrawOutlivesDecode))
<1> SUFFICES ASSUME Patient
             PROVE  Spec => [](NoTaskOutlivesCodec /\ DrawOutlivesDecode)
  OBVIOUS
<1>1. Init => ShutdownInv
  BY ShutdownInit
<1>2. TypeOK /\ ShutdownInv /\ [Next]_vars => ShutdownInv'
  BY ShutdownStep
<1>3. TypeOK /\ ShutdownInv => NoTaskOutlivesCodec /\ DrawOutlivesDecode
  BY DEF TypeOK, OwnerLabels, ShutdownInv, SignalInv, DrawSignalled,
         NoTaskOutlivesCodec, DrawOutlivesDecode
<1> QED BY <1>1, <1>2, <1>3, TypeCorrect, PTL DEF Spec
-----------------------------------------------------------------------------
(***************************************************************************)
(* The inductive strengthening of OwnedOnce.                               *)
(***************************************************************************)

\* A task holds a buffer only between receiving and freeing it.
HoldInv ==
  /\ dpc \notin {"lock", "decode"} => buf = NoFrame
  /\ wpc \notin {"lock", "push"} => pDraw = DrawSig

\* Frames are numbered as they are read: the one in the owner's hand is newer
\* than all others.
NumberInv ==
  \A f \in FramesQueued \cup {buf} :
    f <= nframes /\ (cpc = "send" => f < nframes)

\* Pieces come from frames that have left the queue; of the frame being decoded
\* there are only pieces with higher numbers than the ones left.
PieceInv ==
  \A p \in draws :
    /\ p[1] \notin FramesQueued
    /\ p[1] <= nframes /\ (cpc = "send" => p[1] < nframes)
    /\ p[1] = buf => dpc = "decode" /\ p[2] > left

BufferInv == OwnedOnce /\ HoldInv /\ NumberInv /\ PieceInv
-----------------------------------------------------------------------------
(* What sending and receiving does to the set of messages in a queue. *)

\* An empty queue holds nothing.
LEMMA RangeEmpty ==
  ASSUME NEW s PROVE Range(<<>>) = {} /\ Distinct(<<>>, s)
BY DEF Range, Distinct

\* xQueueSend() adds the message.
LEMMA RangeAppend ==
  ASSUME NEW S, NEW q \in Seq(S), NEW x \in S, NEW s
  PROVE  /\ Range(Append(q, x)) = Range(q) \cup {x}
         /\ Distinct(q, s) /\ (x \notin Range(q) \/ x = s)
              => Distinct(Append(q, x), s)
<1> DEFINE r == Append(q, x)
<1>1. /\ DOMAIN q = 1 .. Len(q) /\ DOMAIN r = 1 .. Len(q) + 1
      /\ Len(q) \in Nat /\ r[Len(q) + 1] = x
      /\ \A i \in 1 .. Len(q) : r[i] = q[i]
  OBVIOUS
<1> HIDE DEF r
<1>2. Range(r) = Range(q) \cup {x}
  BY <1>1 DEF Range
<1>3. ASSUME Distinct(q, s), x \notin Range(q) \/ x = s PROVE Distinct(r, s)
  BY <1>1, <1>3 DEF Distinct, Range
<1> QED
  BY <1>2, <1>3 DEF r

\* xQueueReceive() takes away the first message, and with it its buffer.
LEMMA RangeTail ==
  ASSUME NEW S, NEW q \in Seq(S), q # <<>>, NEW s
  PROVE  /\ Head(q) \in S /\ Tail(q) \in Seq(S)
         /\ Range(q) = Range(Tail(q)) \cup {Head(q)}
         /\ Distinct(q, s) => /\ Distinct(Tail(q), s)
                              /\ Head(q) \in Range(Tail(q)) => Head(q) = s
<1> DEFINE r == Tail(q)
<1>1. /\ Len(q) \in Nat /\ Len(q) > 0 /\ DOMAIN q = 1 .. Len(q)
      /\ Head(q) = q[1] /\ r \in Seq(S) /\ DOMAIN r = 1 .. Len(q) - 1
      /\ \A i \in 1 .. Len(q) - 1 : r[i] = q[i + 1]
  OBVIOUS
<1> HIDE DEF r
<1>2. Range(q) = Range(r) \cup {Head(q)}
  <2>1. \A i \in DOMAIN q : i = 1 \/ (i - 1 \in DOMAIN r /\ r[i - 1] = q[i])
    BY <1>1
  <2>2. \A i \in DOMAIN r : i + 1 \in DOMAIN q /\ r[i] = q[i + 1]
    BY <1>1
  <2>3. 1 \in DOMAIN q
    BY <1>1
  <2> QED
    BY <1>1, <2>1, <2>2, <2>3 DEF Range
<1>3. ASSUME Distinct(q, s)
      PROVE  Distinct(r, s) /\ (Head(q) \in Range(r) => Head(q) = s)
  <2>1. ASSUME NEW i \in DOMAIN r, NEW j \in DOMAIN r, r[i] = r[j], r[i] # s
        PROVE  i = j
    <3>1. i + 1 \in DOMAIN q /\ j + 1 \in DOMAIN q /\ q[i + 1] = q[j + 1]
          /\ q[i + 1] # s
      BY <1>1, <2>1
    <3>2. i + 1 = j + 1
      BY <1>3, <3>1 DEF Distinct
    <3> QED
      BY <1>1, <3>2
  <2>2. ASSUME NEW i \in DOMAIN r, r[i] = Head(q), Head(q) # s
        PROVE  FALSE
    <3>1. i + 1 \in DOMAIN q /\ 1 \in DOMAIN q /\ q[i + 1] = q[1] /\ q[i + 1] # s
      BY <1>1, <2>2
    <3>2. i + 1 = 1
      BY <1>3, <3>1 DEF Distinct
    <3> QED
      BY <1>1, <3>2
  <2> QED
    BY <2>1, <2>2 DEF Distinct, Range
<1> QED
  BY <1>1, <1>2, <1>3 DEF r
-----------------------------------------------------------------------------
\* A piece is a frame and a number; a stop signal is neither frame nor piece.
LEMMA Names ==
  /\ \A p \in Piece : p[1] \in Frame /\ p[2] \in Int
  /\ DrawSig \notin Piece /\ StopSig \notin Frame /\ Frame \subseteq Int
BY CodecAssumption DEF Piece, Frame, DrawSig, StopSig

\* A step that moves no buffer.
LEMMA BufferStutter ==
  ASSUME BufferInv, cpc' # "send", cpc # "send",
         UNCHANGED <<decodeQ, drawQ, frames, draws, buf, pDraw, left, nframes,
                     dpc, wpc>>
  PROVE  BufferInv'
BY DEF BufferInv, OwnedOnce, HoldInv, NumberInv, PieceInv, FramesQueued,
       FramesHeld, PiecesQueued, PiecesHeld

\* BufferInv is preserved by every step, whether waits are patient or not.
LEMMA BufferStep == TypeOK /\ BufferInv /\ [Next]_vars => BufferInv'
<1> SUFFICES ASSUME TypeOK, BufferInv, [Next]_vars PROVE BufferInv'
  OBVIOUS
<1> USE Names
<1> USE DEF BufferInv, OwnedOnce, HoldInv, NumberInv, PieceInv, FramesQueued,
            FramesHeld, PiecesQueued, PiecesHeld, NoFrame, StopSig,
            ownerVars, decodeVars, drawVars
<1> decodeQ \in Seq(DecodeMsg) /\ drawQ \in Seq(DrawMsg)
  BY DEF TypeOK
<1> /\ buf \in Int /\ nframes \in Int /\ left \in Int /\ frames \subseteq Frame
    /\ draws \subseteq Piece /\ nframes >= 0 /\ (cpc = "send" => nframes > 0)
  BY CodecAssumption DEF TypeOK, DecodeMsg, Frame
<1>1. CASE DecodeInit \/ DecodeCleanup \/ DrawInit \/ DrawCleanup
  BY <1>1 DEF DecodeInit, DecodeCleanup, DrawInit, DrawCleanup
<1>2. CASE DecodeReceive
  <2>1. decodeQ # <<>>
    BY <1>2 DEF DecodeReceive
  <2>2. /\ Range(decodeQ) = Range(decodeQ') \cup {buf'} /\ Distinct(decodeQ', StopSig)
        /\ buf' \in Range(decodeQ') => buf' = StopSig
        /\ buf = NoFrame
    BY <1>2, <2>1, RangeTail DEF DecodeReceive
  <2> QED
    BY <1>2, <2>2 DEF DecodeReceive
<1>3. CASE DecodeLock
  BY <1>3 DEF DecodeLock
<1>4. CASE DecodePiece
  <2> DEFINE piece == <<buf, left>>
  <2>1. piece \in Piece /\ piece \in DrawMsg /\ piece # DrawSig
    BY <1>4 DEF DecodePiece, TypeOK, DrawMsg, Piece, DecodeMsg
  <2>2. piece \notin draws /\ piece[1] = buf /\ piece[2] = left
    <3>1. piece[1] = buf /\ piece[2] = left
      OBVIOUS
    <3> HIDE DEF piece
    <3> QED
      BY <1>4, <3>1 DEF DecodePiece
  <2>3. /\ Range(drawQ') = Range(drawQ) \cup {piece} /\ Distinct(drawQ', DrawSig)
    BY <1>4, <2>1, <2>2, RangeAppend DEF DecodePiece
  <2> HIDE DEF piece
  <2>4. draws' = draws \cup {piece} /\ left' = left - 1 /\ dpc = "decode"
    BY <1>4 DEF DecodePiece, piece
  <2>5. UNCHANGED <<cpc, dpc, wpc, decodeQ, buf, frames, pDraw, nframes>>
    BY <1>4 DEF DecodePiece
  <2>6. PieceInv'
    BY <2>2, <2>4, <2>5
  <2> QED
    BY <2>1, <2>2, <2>3, <2>4, <2>5, <2>6
<1>5. CASE DecodePieceLost
  BY <1>5 DEF DecodePieceLost
<1>6. CASE DecodeFinish
  BY <1>6 DEF DecodeFinish
<1>7. CASE DrawReceive
  <2>1. drawQ # <<>>
    BY <1>7 DEF DrawReceive
  <2>2. /\ Range(drawQ) = Range(drawQ') \cup {pDraw'} /\ Distinct(drawQ', DrawSig)
        /\ pDraw' \in Range(drawQ') => pDraw' = DrawSig
        /\ pDraw = DrawSig
    BY <1>7, <2>1, RangeTail DEF DrawReceive
  <2> QED
    BY <1>7, <2>2 DEF DrawReceive
<1>8. CASE DrawLock
  BY <1>8 DEF DrawLock
<1>9. CASE DrawFinish
  BY <1>9 DEF DrawFinish
<1>10. CASE ReadFrame
  <2>1. /\ nframes' = nframes + 1 /\ frames' = frames \cup {nframes'} /\ cpc' = "send"
        /\ cpc = "idle"
        /\ UNCHANGED <<dpc, wpc, decodeQ, drawQ, buf, left, pDraw, draws>>
    BY <1>10 DEF ReadFrame
  <2>2. NumberInv'
    BY <2>1 DEF TypeOK, DecodeMsg
  <2>3. PieceInv'
    <3>1. \A p \in draws : p[1] \in Int /\ p[1] <= nframes
      OBVIOUS
    <3>2. \A p \in draws : p[1] <= nframes' /\ p[1] < nframes'
      BY <2>1, <3>1
    <3> QED
      BY <2>1, <3>2
  <2>4. OwnedOnce'
    BY <2>1, <2>2
  <2> QED
    BY <2>1, <2>2, <2>3, <2>4
<1>11. CASE DecodeFrame
  <2>1. nframes \in DecodeMsg /\ nframes # StopSig
    BY <1>11 DEF DecodeFrame, TypeOK, DecodeMsg
  <2>2. Range(decodeQ') = Range(decodeQ) \cup {nframes} /\ Distinct(decodeQ', StopSig)
    BY <1>11, <2>1, RangeAppend DEF DecodeFrame
  <2> QED
    BY <1>11, <2>1, <2>2 DEF DecodeFrame
<1>12. CASE SkipFrame
  BY <1>12 DEF SkipFrame
<1>13. CASE StopCall \/ StopLock \/ StopWait \/ Delete
  BY <1>13, BufferStutter DEF StopCall, StopLock, StopWait, Delete
<1>14. CASE StopDrainDecode
  <2>1. CASE decodeQ = <<>>
    BY <1>14, <2>1 DEF StopDrainDecode
  <2>2. CASE decodeQ # <<>>
    <3>1. /\ decodeQ' = Tail(decodeQ) /\ frames' = frames \ {Head(decodeQ)}
          /\ UNCHANGED <<cpc, drawQ, draws, buf, pDraw, left, nframes, dpc, wpc>>
      BY <1>14, <2>2 DEF StopDrainDecode
    <3>2. /\ Range(decodeQ) = Range(decodeQ') \cup {Head(decodeQ)}
          /\ Distinct(decodeQ', StopSig)
          /\ Head(decodeQ) \in Range(decodeQ') => Head(decodeQ) = StopSig
      BY <2>2, <3>1, RangeTail
    <3> QED
      BY <1>14, <3>1, <3>2 DEF StopDrainDecode
  <2> QED
    BY <2>1, <2>2
<1>15. CASE StopDrainDraw
  <2>1. CASE drawQ = <<>>
    BY <1>15, <2>1 DEF StopDrainDraw
  <2>2. CASE drawQ # <<>>
    <3>1. /\ drawQ' = Tail(drawQ) /\ draws' = draws \ {Head(drawQ)}
          /\ UNCHANGED <<cpc, decodeQ, frames, buf, pDraw, left, nframes, dpc, wpc>>
      BY <1>15, <2>2 DEF StopDrainDraw
    <3>2. /\ Range(drawQ) = Range(drawQ') \cup {Head(drawQ)}
          /\ Distinct(drawQ', DrawSig)
          /\ Head(drawQ) \in Range(drawQ') => Head(drawQ) = DrawSig
      BY <2>2, <3>1, RangeTail
    <3> QED
      BY <1>15, <3>1, <3>2 DEF StopDrainDraw
  <2> QED
    BY <2>1, <2>2
<1>16. CASE ExitSendDecodeSig
  <2>1. Range(decodeQ') = Range(decodeQ) \cup {StopSig} /\ Distinct(decodeQ', StopSig)
    BY <1>16, RangeAppend DEF ExitSendDecodeSig, DecodeMsg
  <2> QED
    BY <1>16, <2>1 DEF ExitSendDecodeSig
<1>17. CASE ExitSendDrawSig
  <2>1. /\ Range(drawQ') \in {Range(drawQ), Range(drawQ) \cup {DrawSig}}
        /\ Distinct(drawQ', DrawSig)
    <3>1. drawQ' = drawQ \/ drawQ' = Append(drawQ, DrawSig)
      BY <1>17 DEF ExitSendDrawSig
    <3>2. DrawSig \in DrawMsg
      BY DEF DrawMsg
    <3>3. /\ Range(Append(drawQ, DrawSig)) = Range(drawQ) \cup {DrawSig}
          /\ Distinct(Append(drawQ, DrawSig), DrawSig)
      BY <3>2, RangeAppend
    <3> QED
      BY <3>1, <3>3
  <2> QED
    BY <1>17, <2>1 DEF ExitSendDrawSig
<1>18. CASE ExitWaitDecode \/ ExitWaitDraw \/ FreeCodec
  BY <1>18, BufferStutter DEF ExitWaitDecode, ExitWaitDraw, FreeCodec
<1>19. CASE UNCHANGED vars
  BY <1>19 DEF vars
<1> QED
  BY <1>1, <1>2, <1>3, <1>4, <1>5, <1>6, <1>7, <1>8, <1>9, <1>10, <1>11, <1>12,
     <1>13, <1>14, <1>15, <1>16, <1>17, <1>18, <1>19
  DEF Next, decode_task, draw_task, InCall, Calls, Deleted

\* Nothing is allocated when the tasks are created.
LEMMA BufferInit == Init => BufferInv
BY RangeEmpty, Names
   DEF Init, BufferInv, OwnedOnce, HoldInv, NumberInv, PieceInv, FramesQueued,
       FramesHeld, PiecesQueued, PiecesHeld, NoFrame, StopSig

\* Every buffer has one owner at any time, for every capacity, every number of
\* frames and pieces, and waits that time out whenever they like.
THEOREM BuffersOwnedOnce == Spec => []OwnedOnce
<1>1. Init => BufferInv
  BY BufferInit
<1>2. TypeOK /\ BufferInv /\ [Next]_vars => BufferInv'
  BY BufferStep
<1>3. BufferInv => OwnedOnce
  BY DEF BufferInv
<1> QED
  BY <1>1, <1>2, <1>3, TypeCorrect, PTL DEF Spec
-----------------------------------------------------------------------------
(***************************************************************************)
(* Deletion.  The decode queue stays empty of frames from the moment it    *)
(* was drained, and the draw task's stop signal is behind every piece.     *)
(***************************************************************************)
OnlyLast(q, s) == \A i \in 1 .. Len(q) : q[i] = s => i = Len(q)

DrainInv ==
  /\ cpc \notin {"idle", "send", "lockDecode", "lockDraw", "drainDecode"}
       => FramesQueued = {}
  /\ OnlyLast(drawQ, DrawSig)
  /\ (wpc = "lock" /\ pDraw = DrawSig) \/ wpc \in {"cleanup", "dead"}
       => drawQ = <<>>

\* A message sent to a queue without the signal leaves at most a last signal.
LEMMA OnlyLastAppend ==
  ASSUME NEW S, NEW q \in Seq(S), NEW x \in S, NEW s, ~Carries(q, s)
  PROVE  OnlyLast(Append(q, x), s)
<1>1. Len(Append(q, x)) = Len(q) + 1 /\ \A i \in 1 .. Len(q) : Append(q, x)[i] = q[i]
  OBVIOUS
<1> QED
  BY <1>1 DEF OnlyLast, Carries

\* Receiving keeps a signal last, and one that is received was alone.
LEMMA OnlyLastTail ==
  ASSUME NEW S, NEW q \in Seq(S), q # <<>>, NEW s, OnlyLast(q, s)
  PROVE  OnlyLast(Tail(q), s) /\ (Head(q) = s => Tail(q) = <<>>)
<1> DEFINE r == Tail(q)
           n == Len(q)
<1>1. /\ n \in Nat /\ n > 0 /\ Head(q) = q[1]
      /\ r \in Seq(S) /\ Len(r) = n - 1
      /\ \A i \in 1 .. n - 1 : r[i] = q[i + 1]
  OBVIOUS
<1>2. \A i \in 1 .. n : q[i] = s => i = n
  BY DEF OnlyLast
<1> HIDE DEF r, n
<1>3. Len(r) = 0 => r = <<>>
  BY <1>1
<1>4. \A i \in 1 .. n - 1 : i \in Int /\ i + 1 \in 1 .. n
  BY <1>1
<1>5. ASSUME NEW i \in 1 .. n - 1, r[i] = s PROVE i = n - 1
  <2>1. i + 1 = n
    BY <1>1, <1>2, <1>4, <1>5
  <2> QED
    BY <1>1, <1>4, <2>1
<1>6. Head(q) = s => n = 1
  BY <1>1, <1>2
<1>7. OnlyLast(r, s)
  BY <1>1, <1>5 DEF OnlyLast
<1>8. n = 1 => r = <<>>
  BY <1>1, <1>3
<1> QED
  BY <1>6, <1>7, <1>8 DEF r

\* DrainInv is preserved by every step of a codec that shuts down in order.
LEMMA DrainStep ==
  ASSUME TypeOK, ShutdownInv, BufferInv, DrainInv, [Next]_vars
  PROVE  DrainInv'
<1> USE DEF DrainInv, FramesQueued, ownerVars, decodeVars, drawVars, StopSig
<1> decodeQ \in Seq(DecodeMsg) /\ drawQ \in Seq(DrawMsg)
  BY DEF TypeOK
<1> StopSig \in DecodeMsg /\ DrawSig \in DrawMsg
  BY DEF DecodeMsg, DrawMsg
<1>1. CASE DecodeInit \/ DecodeLock \/ DecodePieceLost \/ DecodeFinish \/ DecodeCleanup
  BY <1>1 DEF DecodeInit, DecodeLock, DecodePieceLost, DecodeFinish, DecodeCleanup
<1>2. CASE DecodeReceive
  <2>1. Range(decodeQ') \subseteq Range(decodeQ)
    BY <1>2, RangeTail DEF DecodeReceive
  <2> QED
    BY <1>2, <2>1 DEF DecodeReceive
<1>3. CASE DecodePiece
  <2>1. ~DrawSignalled
    BY <1>3 DEF DecodePiece, ShutdownInv, SignalInv
  <2>2. <<buf, left>> \in DrawMsg
    BY <1>3, CodecAssumption DEF DecodePiece, TypeOK, DrawMsg, Piece, DecodeMsg, NoFrame
  <2>3. OnlyLast(drawQ', DrawSig)
    BY <1>3, <2>1, <2>2, OnlyLastAppend DEF DecodePiece, DrawSignalled
  <2> QED
    BY <1>3, <2>1, <2>3 DEF DecodePiece, DrawSignalled
<1>4. CASE DrawInit \/ DrawLock \/ DrawFinish \/ DrawCleanup
  BY <1>4 DEF DrawInit, DrawLock, DrawFinish, DrawCleanup
<1>5. CASE DrawReceive
  <2>1. /\ OnlyLast(drawQ', DrawSig)
        /\ pDraw' = DrawSig => drawQ' = <<>>
    BY <1>5, OnlyLastTail DEF DrawReceive
  <2> QED
    BY <1>5, <2>1 DEF DrawReceive
<1>6. CASE ReadFrame \/ SkipFrame \/ StopCall \/ StopLock
  BY <1>6 DEF ReadFrame, SkipFrame, StopCall, StopLock
<1>7. CASE DecodeFrame
  BY <1>7 DEF DecodeFrame
<1>8. CASE StopDrainDecode
  <2>1. decodeQ = <<>> => FramesQueued = {}
    BY RangeEmpty
  <2> QED
    BY <1>8, <2>1 DEF StopDrainDecode
<1>9. CASE StopDrainDraw
  <2>1. ~DrawSignalled
    BY <1>9 DEF StopDrainDraw, ShutdownInv, SignalInv
  <2>2. drawQ # <<>> => OnlyLast(Tail(drawQ), DrawSig)
    BY OnlyLastTail
  <2> QED
    BY <1>9, <2>1, <2>2 DEF StopDrainDraw, DrawSignalled
<1>10. CASE StopWait \/ ExitWaitDecode \/ ExitWaitDraw \/ FreeCodec
  BY <1>10 DEF StopWait, ExitWaitDecode, ExitWaitDraw, FreeCodec
<1>11. CASE Delete
  <2>1. running
    BY <1>11 DEF Delete, running, StoppedBits, ShutdownInv, BitsInv, StartedInv,
                 SignalInv, DecodeSignalled
  <2> QED
    BY <1>11, <2>1 DEF Delete
<1>12. CASE ExitSendDecodeSig
  <2>1. Range(decodeQ') = Range(decodeQ) \cup {StopSig}
    BY <1>12, RangeAppend DEF ExitSendDecodeSig
  <2> QED
    BY <1>12, <2>1 DEF ExitSendDecodeSig
<1>13. CASE ExitSendDrawSig
  <2>1. ~DrawSignalled
    BY <1>13 DEF ExitSendDrawSig, ShutdownInv, SignalInv
  <2>2. OnlyLast(Append(drawQ, DrawSig), DrawSig)
    BY <2>1, OnlyLastAppend DEF DrawSignalled
  <2> QED
    BY <1>13, <2>1, <2>2 DEF ExitSendDrawSig, DrawSignalled
<1>14. CASE UNCHANGED vars
  BY <1>14 DEF vars
<1> QED
  BY <1>1, <1>2, <1>3, <1>4, <1>5, <1>6, <1>7, <1>8, <1>9, <1>10, <1>11, <1>12,
     <1>13, <1>14
  DEF Next, decode_task, draw_task, InCall, Calls, Deleted
\* Deleting the codec after a stop(), with waits that outlast the tasks' work,
\* frees every frame and every piece that was ever allocated.
THEOREM NothingLost == Patient => (Spec => []NothingLeftBehind)
<1> SUFFICES ASSUME Patient PROVE Spec => []NothingLeftBehind
  OBVIOUS
<1>1. Init => BufferInv /\ DrainInv
  <2>1. Init => DrainInv
    BY RangeEmpty DEF Init, DrainInv, OnlyLast, FramesQueued
  <2> QED
    BY <2>1, BufferInit
<1>2. TypeOK /\ ShutdownInv /\ BufferInv /\ DrainInv /\ [Next]_vars
        => ShutdownInv' /\ BufferInv' /\ DrainInv'
  BY ShutdownStep, BufferStep, DrainStep
<1>3. ShutdownInv /\ BufferInv /\ DrainInv => NothingLeftBehind
  <2> SUFFICES ASSUME ShutdownInv, BufferInv, DrainInv, cpc = "gone"
               PROVE  frames = {} /\ draws = {}
    BY DEF NothingLeftBehind
  <2>1. dpc = "dead" /\ wpc = "dead" /\ buf = NoFrame /\ pDraw = DrawSig
    BY DEF ShutdownInv, SignalInv, BufferInv, HoldInv
  <2>2. FramesQueued = {} /\ drawQ = <<>>
    BY <2>1 DEF DrainInv
  <2> QED
    BY <2>1, <2>2, RangeEmpty
       DEF BufferInv, OwnedOnce, FramesHeld, PiecesQueued, PiecesHeld
<1> QED
  BY <1>1, <1>2, <1>3, ShutdownInit, TypeCorrect, PTL DEF Spec
-----------------------------------------------------------------------------
(***************************************************************************)
(* The refinement of FramePipe.                                            *)
(***************************************************************************)

\* The decode queue is empty from the end of its draining to the stop signal,
\* which is alone in it.
FlightInv ==
  /\ cpc \in {"drainDraw", "wait", "sendSig"} => decodeQ = <<>>
  /\ \/ decodeQ \in Seq(Frame)
     \/ /\ decodeQ = <<StopSig>>
        /\ cpc \in {"waitDecode", "sendDrawSig", "waitDraw", "free", "gone"}

\* Sequences with a first element, taken off and put back.
LEMMA HeadFirst ==
  ASSUME NEW S, NEW q \in Seq(S), q # <<>>
  PROVE  /\ Head(q) \in S /\ Tail(q) \in Seq(S) /\ <<Head(q)>> \o Tail(q) = q
         /\ Pipe!RemoveAt(q, 1) = Tail(q) /\ 1 \in DOMAIN q
<1>1. Len(q) \in Nat /\ Len(q) > 0
  OBVIOUS
<1>2. Tail(q) \in Seq(S) /\ Len(Tail(q)) = Len(q) - 1
      /\ \A i \in 1 .. Len(q) - 1 : Tail(q)[i] = q[i + 1]
  BY <1>1
<1>3. Head(q) = q[1] /\ Head(q) \in S
  BY <1>1
<1>4. <<Head(q)>> \o Tail(q) = q
  BY <1>1, <1>2, <1>3
<1>5. SubSeq(q, 1, 0) = <<>> /\ SubSeq(q, 2, Len(q)) = Tail(q)
  BY <1>1, <1>2
<1>6. <<>> \o Tail(q) = Tail(q)
  BY <1>2
<1> QED
  BY <1>1, <1>2, <1>3, <1>4, <1>5, <1>6 DEF Pipe!RemoveAt

\* The same with a frame in front of the queue.
LEMMA InFront ==
  ASSUME NEW S, NEW q \in Seq(S), NEW x \in S
  PROVE  /\ <<x>> \o q \in Seq(S) /\ <<x>> \o q # <<>>
         /\ Len(<<x>> \o q) = Len(q) + 1
         /\ Tail(<<x>> \o q) = q
         /\ \A y \in S : Append(<<x>> \o q, y) = <<x>> \o Append(q, y)
         /\ q # <<>> => /\ Pipe!RemoveAt(<<x>> \o q, 2) = <<x>> \o Tail(q)
                        /\ 2 \in DOMAIN (<<x>> \o q)
         /\ Pipe!ToSet(<<x>> \o q) = {x} \cup Range(q)
<1> DEFINE r == <<x>> \o q
<1>1. /\ Len(q) \in Nat /\ r \in Seq(S) /\ Len(r) = Len(q) + 1 /\ r[1] = x
      /\ \A i \in 1 .. Len(q) : r[i + 1] = q[i]
      /\ DOMAIN q = 1 .. Len(q) /\ DOMAIN r = 1 .. Len(q) + 1
  OBVIOUS
<1>2. r # <<>> /\ Tail(r) = q
  BY <1>1
<1>3. \A y \in S : Append(r, y) = <<x>> \o Append(q, y)
  BY <1>1
<1>4. ASSUME q # <<>>
      PROVE  Pipe!RemoveAt(r, 2) = <<x>> \o Tail(q) /\ 2 \in DOMAIN r
  <2>1. Len(q) > 0 /\ 2 \in DOMAIN r
    BY <1>1, <1>4
  <2>2. SubSeq(r, 1, 1) = <<x>>
    <3> DEFINE u == SubSeq(r, 1, 1)
    <3>1. u \in Seq(S) /\ Len(u) = 1 /\ u[1] = x
      BY <1>1, <2>1
    <3> HIDE DEF u
    <3>2. u = <<x>>
      BY <3>1
    <3> QED
      BY <3>2 DEF u
  <2>3. SubSeq(r, 3, Len(r)) = Tail(q)
    BY <1>1, <2>1
  <2> QED
    BY <2>1, <2>2, <2>3 DEF Pipe!RemoveAt
<1> HIDE DEF r
<1>5. Pipe!ToSet(r) = {x} \cup Range(q)
  <2>1. \A i \in DOMAIN r : i = 1 \/ (i - 1 \in DOMAIN q /\ r[i] = q[i - 1])
    BY <1>1
  <2>2. \A i \in DOMAIN q : i + 1 \in DOMAIN r /\ r[i + 1] = q[i]
    BY <1>1
  <2>3. 1 \in DOMAIN r
    BY <1>1
  <2> QED
    BY <1>1, <2>1, <2>2, <2>3 DEF Pipe!ToSet, Range
<1> QED
  BY <1>1, <1>2, <1>3, <1>4, <1>5 DEF r

\* What the decode task has of the frames in flight.
InTask(b) == IF b = NoFrame THEN <<>> ELSE <<b>>

\* The frames in flight are the task's, then the queue's; a stop signal is none.
LEMMA FlightOf ==
  ASSUME NEW q, NEW b
  PROVE  /\ q = <<StopSig>> => InTask(b) \o (IF q = <<StopSig>> THEN <<>> ELSE q) = InTask(b)
         /\ q \in Seq(Frame) /\ b = NoFrame
              => InTask(b) \o (IF q = <<StopSig>> THEN <<>> ELSE q) = q
         /\ q \in Seq(Frame) /\ b # NoFrame
              => InTask(b) \o (IF q = <<StopSig>> THEN <<>> ELSE q) = <<b>> \o q
<1>1. InTask(b) \o <<>> = InTask(b)
  <2>1. CASE b = NoFrame
    BY <2>1 DEF InTask
  <2>2. CASE b # NoFrame
    <3>1. <<b>> \in Seq({b}) /\ <<b>> \o <<>> = <<b>>
      OBVIOUS
    <3> QED
      BY <2>2, <3>1 DEF InTask
  <2> QED
    BY <2>1, <2>2
<1>2. ASSUME q \in Seq(Frame) PROVE q # <<StopSig>> /\ <<>> \o q = q
  <2>1. StopSig \notin Frame
    BY Names
  <2>2. \A i \in 1 .. Len(q) : q[i] \in Frame
    BY <1>2
  <2>3. q = <<StopSig>> => Len(q) = 1 /\ q[1] = StopSig
    OBVIOUS
  <2>4. q # <<StopSig>>
    BY <2>1, <2>2, <2>3
  <2>5. <<>> \o q = q
    BY <1>2
  <2> QED
    BY <2>4, <2>5
<1> QED
  BY <1>1, <1>2 DEF InTask

\* FlightInv is preserved by every step, patient or not.
LEMMA FlightStep ==
  ASSUME TypeOK, FlightInv, [Next]_vars PROVE FlightInv'
<1> USE DEF FlightInv, ownerVars, decodeVars, drawVars
<1> SUFFICES ASSUME decodeQ' # decodeQ \/ cpc' # cpc PROVE FlightInv'
  OBVIOUS
<1>1. ASSUME decodeQ # <<>>, decodeQ' = Tail(decodeQ), cpc' = cpc
      PROVE  FlightInv'
  <2>1. decodeQ \in Seq(Frame) => Tail(decodeQ) \in Seq(Frame)
    BY <1>1, HeadFirst
  <2>2. decodeQ = <<StopSig>> => Tail(decodeQ) = <<>>
    OBVIOUS
  <2>3. <<>> \in Seq(Frame)
    OBVIOUS
  <2> QED
    BY <1>1, <2>1, <2>2, <2>3
<1>2. CASE DecodeReceive
  BY <1>1, <1>2 DEF DecodeReceive
<1>3. CASE DecodeFrame
  <2>1. nframes \in Frame
    BY <1>3 DEF DecodeFrame, TypeOK
  <2>2. decodeQ \in Seq(Frame)
    BY <1>3 DEF DecodeFrame
  <2>3. Append(decodeQ, nframes) \in Seq(Frame)
    BY <2>1, <2>2
  <2> QED
    BY <1>3, <2>3 DEF DecodeFrame
<1>4. CASE StopDrainDecode
  BY <1>1, <1>4 DEF StopDrainDecode
<1>5. CASE ExitSendDecodeSig
  <2>1. Append(<<>>, StopSig) = <<StopSig>>
    OBVIOUS
  <2> QED
    BY <1>5, <2>1 DEF ExitSendDecodeSig
<1>6. CASE ReadFrame \/ SkipFrame \/ StopCall \/ StopLock \/ StopDrainDraw \/ Delete
  BY <1>6 DEF ReadFrame, SkipFrame, StopCall, StopLock, StopDrainDraw, Delete
<1>7. CASE StopWait
  BY <1>7 DEF StopWait
<1>8. CASE ExitWaitDecode \/ ExitSendDrawSig \/ ExitWaitDraw \/ FreeCodec
  BY <1>8 DEF ExitWaitDecode, ExitSendDrawSig, ExitWaitDraw, FreeCodec
<1>9. CASE decode_task /\ ~DecodeReceive
  BY <1>9 DEF decode_task, DecodeInit, DecodeLock, DecodePiece, DecodePieceLost,
              DecodeFinish, DecodeCleanup
<1>10. CASE draw_task \/ Deleted \/ UNCHANGED vars
  BY <1>10 DEF draw_task, DrawInit, DrawReceive, DrawLock, DrawFinish,
               DrawCleanup, Deleted, vars
<1> QED
  BY <1>2, <1>3, <1>4, <1>5, <1>6, <1>7, <1>8, <1>9, <1>10
  DEF Next, InCall, Calls

\* Every step of the codec is a step of the pipeline or changes nothing there.
LEMMA PipeStep ==
  ASSUME TypeOK, BufferInv, FlightInv, FlightInv', [Next]_vars
  PROVE  [Pipe!PipeNext]_(Pipe!pipeVars)
<1> USE DEF ownerVars, decodeVars, drawVars, Pipe!pipeVars, Pipe!None
<1>1. InFlight = InTask(buf) \o (IF decodeQ = <<StopSig>> THEN <<>> ELSE decodeQ)
  BY DEF InFlight, InTask
<1>2. InFlight' = InTask(buf') \o (IF decodeQ' = <<StopSig>> THEN <<>> ELSE decodeQ')
  BY DEF InFlight, InTask
<1>3. UNCHANGED <<buf, decodeQ>> => UNCHANGED InFlight
  BY DEF InFlight
<1>4. buf # NoFrame => buf \in Frame
  BY DEF TypeOK, DecodeMsg, NoFrame, StopSig
<1>5. CASE UNCHANGED <<cpc, nframes, buf, decodeQ>>
  BY <1>3, <1>5
<1>6. CASE DecodeReceive
  <2>1. decodeQ # <<>> /\ buf = NoFrame /\ buf' = Head(decodeQ) /\ decodeQ' = Tail(decodeQ)
        /\ UNCHANGED <<cpc, nframes>>
    BY <1>6 DEF DecodeReceive, BufferInv, HoldInv
  <2>2. CASE decodeQ = <<StopSig>>
    <3>1. buf' = NoFrame /\ decodeQ' = <<>>
      BY <2>1, <2>2 DEF StopSig, NoFrame
    <3>2. decodeQ' \in Seq(Frame)
      BY <3>1
    <3>3. InFlight = InTask(buf) /\ InTask(buf) = <<>> /\ InFlight' = <<>>
      BY <1>1, <1>2, <2>1, <2>2, <3>1, <3>2, FlightOf DEF InTask
    <3> QED
      BY <2>1, <3>3
  <2>3. CASE decodeQ \in Seq(Frame)
    <3>1. Head(decodeQ) \in Frame /\ Tail(decodeQ) \in Seq(Frame)
          /\ <<Head(decodeQ)>> \o Tail(decodeQ) = decodeQ
      BY <2>1, <2>3, HeadFirst
    <3>2. Head(decodeQ) # NoFrame
      BY <3>1, Names DEF NoFrame, StopSig
    <3>3. InFlight = decodeQ /\ InFlight' = <<Head(decodeQ)>> \o Tail(decodeQ)
      BY <1>1, <1>2, <2>1, <2>3, <3>1, <3>2, FlightOf
    <3> QED
      BY <2>1, <3>1, <3>3
  <2> QED
    BY <2>2, <2>3 DEF FlightInv
<1>7. CASE DecodeFinish
  <2>1. /\ buf # NoFrame /\ buf' = NoFrame /\ buf \in Frame
        /\ UNCHANGED <<cpc, nframes, decodeQ>>
    BY <1>4, <1>7 DEF DecodeFinish, TypeOK
  <2>2. CASE decodeQ = <<StopSig>>
    <3>1. InFlight = <<buf>> /\ InFlight' = <<>>
      BY <1>1, <1>2, <2>1, <2>2, FlightOf DEF InTask
    <3>2. <<buf>> # <<>> /\ Tail(<<buf>>) = <<>>
      OBVIOUS
    <3> QED
      BY <2>1, <3>1, <3>2 DEF Pipe!PipeNext, Pipe!Release
  <2>3. CASE decodeQ \in Seq(Frame)
    <3>1. InFlight = <<buf>> \o decodeQ /\ InFlight' = decodeQ
      BY <1>1, <1>2, <2>1, <2>3, FlightOf
    <3>2. <<buf>> \o decodeQ # <<>> /\ Tail(<<buf>> \o decodeQ) = decodeQ
      BY <2>1, <2>3, InFront
    <3> QED
      BY <2>1, <3>1, <3>2 DEF Pipe!PipeNext, Pipe!Release
  <2> QED
    BY <2>2, <2>3 DEF FlightInv
<1>8. CASE ReadFrame
  <2>1. /\ cpc = "idle" /\ cpc' = "send" /\ nframes' = nframes + 1
        /\ UNCHANGED <<buf, decodeQ>> /\ nframes' \in Frame /\ decodeQ \in Seq(Frame)
    BY <1>8, CodecAssumption DEF ReadFrame, TypeOK, Frame, FlightInv
  <2>2. nframes' \notin Range(decodeQ) \cup {buf}
    <3>1. \A f \in FramesQueued \cup {buf} : f <= nframes
      BY DEF BufferInv, NumberInv
    <3>2. nframes' # StopSig
      BY <2>1, Names
    <3> QED
      BY <2>1, <3>1, <3>2 DEF FramesQueued, TypeOK
  <2>3. Pipe!ToSet(InFlight) \subseteq Range(decodeQ) \cup {buf}
    <3>1. CASE buf = NoFrame
      <4>1. InFlight = decodeQ
        BY <1>1, <2>1, <3>1, FlightOf
      <4> QED
        BY <4>1 DEF Pipe!ToSet, Range
    <3>2. CASE buf # NoFrame
      <4>1. InFlight = <<buf>> \o decodeQ
        BY <1>1, <2>1, <3>2, FlightOf
      <4>2. Pipe!ToSet(<<buf>> \o decodeQ) = {buf} \cup Range(decodeQ)
        BY <1>4, <2>1, <3>2, InFront
      <4> QED
        BY <4>1, <4>2
    <3> QED
      BY <3>1, <3>2
  <2> QED
    BY <1>3, <2>1, <2>2, <2>3 DEF Pipe!PipeNext, Pipe!Read, StopLabels
<1>9. CASE DecodeFrame
  <2>1. /\ cpc = "send" /\ cpc' = "idle" /\ decodeQ' = Append(decodeQ, nframes)
        /\ UNCHANGED <<buf, nframes>> /\ Len(decodeQ) < DecodeCap
        /\ nframes \in Frame /\ nframes # 0 /\ decodeQ \in Seq(Frame)
        /\ decodeQ' \in Seq(Frame)
    BY <1>9, Names DEF DecodeFrame, TypeOK, FlightInv, StopSig
  <2>2. Len(InFlight) <= DecodeCap /\ InFlight' = Append(InFlight, nframes)
    <3>1. CASE buf = NoFrame
      <4>1. InFlight = decodeQ /\ InFlight' = decodeQ'
        BY <1>1, <1>2, <2>1, <3>1, FlightOf
      <4>2. Len(decodeQ) \in Nat
        BY <2>1
      <4> QED
        BY <2>1, <4>1, <4>2, CodecAssumption
    <3>2. CASE buf # NoFrame
      <4>1. InFlight = <<buf>> \o decodeQ /\ InFlight' = <<buf>> \o decodeQ'
        BY <1>1, <1>2, <2>1, <3>2, FlightOf
      <4>2. Len(InFlight) = Len(decodeQ) + 1
        BY <1>4, <2>1, <3>2, <4>1, InFront
      <4>3. InFlight' = Append(InFlight, nframes)
        BY <1>4, <2>1, <3>2, <4>1, InFront
      <4>4. Len(decodeQ) \in Nat
        BY <2>1
      <4> QED
        BY <2>1, <4>2, <4>3, <4>4, CodecAssumption
    <3> QED
      BY <3>1, <3>2
  <2> QED
    BY <2>1, <2>2 DEF Pipe!PipeNext, Pipe!Submit, StopLabels
<1>10. CASE SkipFrame
  <2>1. /\ cpc = "send" /\ cpc' = "idle" /\ UNCHANGED <<buf, nframes, decodeQ>>
        /\ nframes # 0
    BY <1>10, Names DEF SkipFrame, TypeOK, StopSig
  <2> QED
    BY <1>3, <2>1 DEF Pipe!PipeNext, Pipe!Skip, StopLabels
<1>11. CASE StopCall \/ Delete
  <2>1. /\ cpc = "idle" /\ cpc' \in {"lockDecode", "free"}
        /\ UNCHANGED <<buf, nframes, decodeQ>>
    BY <1>11 DEF StopCall, Delete
  <2> QED
    BY <1>3, <2>1 DEF Pipe!PipeNext, Pipe!BeginStop, StopLabels
<1>12. CASE StopDrainDecode /\ decodeQ # <<>>
  <2>1. /\ cpc = "drainDecode" /\ decodeQ' = Tail(decodeQ)
        /\ UNCHANGED <<buf, nframes, cpc>> /\ decodeQ \in Seq(Frame)
    BY <1>12 DEF StopDrainDecode, FlightInv
  <2>2. decodeQ' \in Seq(Frame)
    BY <1>12, <2>1, HeadFirst
  <2>3. \E i \in DOMAIN InFlight :
          i \in {1, 2} /\ InFlight' = Pipe!RemoveAt(InFlight, i)
    <3>1. CASE buf = NoFrame
      <4>1. InFlight = decodeQ /\ InFlight' = Tail(decodeQ)
        BY <1>1, <1>2, <2>1, <2>2, <3>1, FlightOf
      <4>2. 1 \in DOMAIN decodeQ /\ Pipe!RemoveAt(decodeQ, 1) = Tail(decodeQ)
        BY <1>12, <2>1, HeadFirst
      <4> QED
        BY <4>1, <4>2
    <3>2. CASE buf # NoFrame
      <4>1. InFlight = <<buf>> \o decodeQ /\ InFlight' = <<buf>> \o Tail(decodeQ)
        BY <1>1, <1>2, <2>1, <2>2, <3>2, FlightOf
      <4>2. /\ 2 \in DOMAIN (<<buf>> \o decodeQ)
            /\ Pipe!RemoveAt(<<buf>> \o decodeQ, 2) = <<buf>> \o Tail(decodeQ)
        <5>1. decodeQ # <<>> /\ decodeQ \in Seq(Frame) /\ buf \in Frame
          BY <1>4, <1>12, <2>1, <3>2
        <5> QED
          BY <5>1, InFront, ZenonT(30)
      <4> QED
        BY <4>1, <4>2
    <3> QED
      BY <3>1, <3>2
  <2> QED
    BY <2>1, <2>3 DEF Pipe!PipeNext, Pipe!Drop, StopLabels
<1>13. CASE StopWait
  <2>1. /\ cpc = "wait" /\ cpc' \in {"sendSig", "idle"} /\ decodeQ = <<>>
        /\ UNCHANGED <<buf, nframes, decodeQ>>
    BY <1>13 DEF StopWait, FlightInv
  <2>2. Len(InFlight) <= 1
    <3>1. InFlight = InTask(buf)
      <4>1. <<>> \o <<>> = <<>> /\ <<buf>> \o <<>> = <<buf>> /\ <<>> # <<StopSig>>
        OBVIOUS
      <4> QED
        BY <1>1, <2>1, <4>1 DEF InTask
    <3>2. Len(<<>>) = 0 /\ Len(<<buf>>) = 1
      OBVIOUS
    <3> QED
      BY <3>1, <3>2 DEF InTask
  <2> QED
    BY <1>3, <2>1, <2>2 DEF Pipe!PipeNext, Pipe!EndStop, StopLabels
<1>14. CASE StopLock \/ (StopDrainDecode /\ decodeQ = <<>>) \/ StopDrainDraw
  <2>1. /\ cpc \in StopLabels /\ cpc' \in StopLabels
        /\ UNCHANGED <<buf, nframes, decodeQ>>
    BY <1>14 DEF StopLock, StopDrainDecode, StopDrainDraw, StopLabels
  <2> QED
    BY <1>3, <2>1 DEF StopLabels
<1>15. CASE ExitSendDecodeSig
  <2>1. /\ cpc = "sendSig" /\ cpc' = "waitDecode" /\ decodeQ = <<>>
        /\ decodeQ' = <<StopSig>> /\ UNCHANGED <<buf, nframes>>
    BY <1>15 DEF ExitSendDecodeSig, FlightInv
  <2>2. InFlight' = InFlight
    BY <2>1 DEF InFlight
  <2> QED
    BY <2>1, <2>2 DEF StopLabels
<1>16. CASE ExitWaitDecode \/ ExitSendDrawSig \/ ExitWaitDraw \/ FreeCodec
  <2>1. /\ cpc \notin StopLabels \cup {"send"} /\ cpc' \notin StopLabels \cup {"send"}
        /\ UNCHANGED <<buf, nframes, decodeQ>>
    BY <1>16 DEF ExitWaitDecode, ExitSendDrawSig, ExitWaitDraw, FreeCodec, StopLabels
  <2> QED
    BY <1>3, <2>1
<1>17. CASE decode_task /\ ~DecodeReceive /\ ~DecodeFinish
  <2>1. UNCHANGED <<cpc, nframes, buf, decodeQ>>
    BY <1>17 DEF decode_task, DecodeInit, DecodeLock, DecodePiece,
                 DecodePieceLost, DecodeCleanup
  <2> QED
    BY <1>5, <2>1
<1>18. CASE draw_task \/ Deleted \/ UNCHANGED vars
  <2>1. UNCHANGED <<cpc, nframes, buf, decodeQ>>
    BY <1>18 DEF draw_task, DrawInit, DrawReceive, DrawLock, DrawFinish,
                 DrawCleanup, Deleted, vars
  <2> QED
    BY <1>5, <2>1
<1> QED
  BY <1>6, <1>7, <1>8, <1>9, <1>10, <1>11, <1>12, <1>13, <1>14, <1>15, <1>16,
     <1>17, <1>18
  DEF Next, InCall, Calls

\* The two tasks, the queues and stop() implement the abstract pipeline, for
\* every capacity and however early the waits of stop() and exit() give up.
THEOREM PipeRefined == Spec => KeepsPipeOrder
<1>1. Init => Pipe!PipeInit /\ FlightInv
  <2>1. <<>> \in Seq(Frame) /\ <<>> # <<StopSig>> /\ <<>> \o <<>> = <<>>
    OBVIOUS
  <2> QED
    BY <2>1 DEF Init, Pipe!PipeInit, Pipe!None, FlightInv, InFlight, StopLabels,
                NoFrame
<1>2. TypeOK /\ FlightInv /\ [Next]_vars => FlightInv'
  BY FlightStep
<1>3. TypeOK /\ BufferInv /\ FlightInv /\ FlightInv' /\ [Next]_vars
        => [Pipe!PipeNext]_(Pipe!pipeVars)
  BY PipeStep
<1>4. TypeOK /\ BufferInv /\ [Next]_vars => BufferInv'
  BY BufferStep
<1> QED
  BY <1>1, <1>2, <1>3, <1>4, BufferInit, TypeCorrect, PTL
  DEF Spec, KeepsPipeOrder, Pipe!PipeSafety
=============================================================================
