----------------------------- MODULE MjpegCodec -----------------------------
(***************************************************************************)
(* The two-stage video pipeline of ivy/anim/video/MjpegCodec.cpp: the      *)
(* thread that owns the codec feeds JPEG frames into a bounded queue, the  *)
(* decode task turns each frame into pieces that it sends through a second *)
(* bounded queue, and the draw task pushes the pieces to the screen.  The  *)
(* owner may stop() the pipeline (drain both queues and wait for the work  *)
(* in progress) and finally deletes the codec, which exit()s both tasks.   *)
(*                                                                         *)
(* A frame buffer is named by the number of the read_frame() call that     *)
(* allocated it, a piece by its frame and its number in the frame; the     *)
(* pixels and bytes themselves are left out.                               *)
(***************************************************************************)
EXTENDS Integers, Sequences, Functions

CONSTANTS
  DecodeCap,   \* NUMBER_OF_DECODE_BUFFER, capacity of the decode queue
  DrawCap,     \* NUMBER_OF_DRAW_BUFFER, capacity of the draw queue
  MaxPieces,   \* pieces a frame is cut into, at most
  MaxFrames,   \* bound: frames the owner reads during a behaviour
  MaxLost,     \* bound: failed pixel allocations during a behaviour
  Patient      \* TRUE: a 2000-tick wait outlasts the work the tasks have left

ASSUME CodecAssumption ==
  /\ DecodeCap \in Nat \ {0}
  /\ DrawCap \in Nat \ {0}
  /\ MaxPieces \in Nat
  /\ MaxFrames \in Nat
  /\ MaxLost \in Nat
  /\ Patient \in BOOLEAN

VARIABLES
  cpc,         \* where the owner is in the codec's interface
  dpc,         \* where decode_task() is
  wpc,         \* where draw_task() is
  decodeQ,     \* m_decode_task_param.xqh
  drawQ,       \* m_draw_task_param.xqh
  decodeMutex, \* holder of m_decode_mutex
  drawMutex,   \* holder of m_draw_mutex
  bits,        \* m_event_group
  buf,         \* decode_task()'s local: the frame it received
  left,        \* pieces of buf still to be produced by decode()
  pDraw,       \* draw_task()'s local: the piece it received
  nframes,     \* frames read so far; the newest is the one in hand at "send"
  frames,      \* frame buffers allocated and not freed
  draws,       \* pieces (JPEGDRAW with pixels) allocated and not freed
  lost,        \* JPEGDRAW structures leaked by failed pixel allocations
  exiting,     \* stop() was called by exit(), the codec is being deleted
  stopCalled,  \* stop() has returned at least once
  stopOk       \* what the last stop() returned

vars == <<cpc, dpc, wpc, decodeQ, drawQ, decodeMutex, drawMutex, bits, buf,
          left, pDraw, nframes, frames, draws, lost, exiting, stopCalled,
          stopOk>>

ownerVars  == <<nframes, exiting, stopCalled, stopOk>>
decodeVars == <<dpc, buf, left, lost>>
drawVars   == <<wpc, pDraw>>

Bits == {"draw_task_stopped", "decode_task_stopped",
         "draw_task_finish_processing", "decode_task_finish_processing"}
StoppedBits == {"draw_task_stopped", "decode_task_stopped"}
FinishBits  == {"draw_task_finish_processing", "decode_task_finish_processing"}

Free  == "free"                        \* a mutex nobody holds
Owner == "owner"
DecodeTask == "decode"
DrawTask   == "draw"

StopSig   == 0                         \* decode_buf_t{0, nullptr}
NoFrame   == 0
DrawSig   == <<0, 0>>                  \* a JPEGDRAW whose pPixels is null
Frame     == 1 .. MaxFrames
Piece     == Frame \X (1 .. MaxPieces)
DecodeMsg == Frame \cup {StopSig}      \* what the decode queue carries
DrawMsg   == Piece \cup {DrawSig}      \* what the draw queue carries

StopLabels == {"lockDecode", "lockDraw", "drainDecode", "drainDraw", "wait"}
OwnerLabels == {"idle", "send", "sendSig", "waitDecode", "sendDrawSig", "waitDraw",
                "free", "gone"} \cup StopLabels
DecodeLabels == {"init", "recv", "lock", "decode", "cleanup", "dead"}
DrawLabels   == {"init", "recv", "lock", "push", "cleanup", "dead"}

(***************************************************************************)
(* The constructor has created both queues and both tasks and has set the  *)
(* two "stopped" bits; neither task has run yet.                           *)
(***************************************************************************)
Init ==
  /\ cpc = "idle" /\ dpc = "init" /\ wpc = "init"
  /\ decodeQ = <<>> /\ drawQ = <<>>
  /\ decodeMutex = Free /\ drawMutex = Free
  /\ bits = StoppedBits
  /\ buf = NoFrame /\ left = 0 /\ pDraw = DrawSig
  /\ nframes = 0 /\ frames = {} /\ draws = {} /\ lost = 0
  /\ exiting = FALSE /\ stopCalled = FALSE /\ stopOk = FALSE
-----------------------------------------------------------------------------
(* The decode task. *)

DecodeInit ==
  /\ dpc = "init"
  /\ bits' = bits \ {"decode_task_stopped"}
  /\ dpc' = "recv"
  /\ UNCHANGED <<cpc, decodeQ, drawQ, decodeMutex, drawMutex, buf, left,
                 frames, draws, lost, drawVars, ownerVars>>

\* xQueueReceive(..., portMAX_DELAY): the frame is out of the queue before
\* the mutex is taken.
DecodeReceive ==
  /\ dpc = "recv" /\ decodeQ # <<>>
  /\ buf' = Head(decodeQ)
  /\ decodeQ' = Tail(decodeQ)
  /\ dpc' = "lock"
  /\ UNCHANGED <<cpc, drawQ, decodeMutex, drawMutex, bits, left, frames,
                 draws, lost, drawVars, ownerVars>>

\* The lock_guard is scoped to one turn of the loop, so the break on the stop
\* signal releases the mutex at once.
DecodeLock ==
  /\ dpc = "lock" /\ decodeMutex = Free
  /\ bits' = bits \ {"decode_task_finish_processing"}
  /\ \/ /\ buf = StopSig
        /\ dpc' = "cleanup"
        /\ UNCHANGED <<decodeMutex, left>>
     \/ /\ buf # StopSig
        /\ decodeMutex' = DecodeTask
        /\ dpc' = "decode"
        /\ left' \in 0 .. MaxPieces
  /\ UNCHANGED <<cpc, decodeQ, drawQ, drawMutex, buf, frames, draws, lost,
                 drawVars, ownerVars>>

\* JPEGDEC::decode() produces one piece: allocated, copied and sent with
\* xQueueSend(..., portMAX_DELAY).
DecodePiece ==
  /\ dpc = "decode" /\ left > 0 /\ Len(drawQ) < DrawCap
  /\ draws' = draws \cup {<<buf, left>>}
  /\ drawQ' = Append(drawQ, <<buf, left>>)
  /\ left' = left - 1
  /\ UNCHANGED <<cpc, dpc, decodeQ, decodeMutex, drawMutex, bits, buf, frames,
                 lost, drawVars, ownerVars>>

\* The pixel buffer cannot be allocated: the piece is skipped and its JPEGDRAW
\* is neither sent nor freed.
DecodePieceLost ==
  /\ dpc = "decode" /\ left > 0 /\ lost < MaxLost
  /\ lost' = lost + 1
  /\ left' = left - 1
  /\ UNCHANGED <<cpc, dpc, decodeQ, drawQ, decodeMutex, drawMutex, bits, buf,
                 frames, draws, drawVars, ownerVars>>

\* Mutant: the frame is not freed.
DecodeFinishLeak ==
  /\ dpc = "decode" /\ left = 0
  /\ buf' = NoFrame
  /\ bits' = bits \cup {"decode_task_finish_processing"}
  /\ decodeMutex' = Free
  /\ dpc' = "recv"
  /\ UNCHANGED <<cpc, decodeQ, drawQ, drawMutex, left, frames, draws, lost,
                 drawVars, ownerVars>>

DecodeFinish ==
  /\ dpc = "decode" /\ left = 0
  /\ frames' = frames \ {buf}
  /\ buf' = NoFrame
  /\ bits' = bits \cup {"decode_task_finish_processing"}
  /\ decodeMutex' = Free
  /\ dpc' = "recv"
  /\ UNCHANGED <<cpc, decodeQ, drawQ, drawMutex, left, draws, lost, drawVars,
                 ownerVars>>

DecodeCleanup ==
  /\ dpc = "cleanup"
  /\ bits' = bits \cup {"decode_task_stopped"}
  /\ dpc' = "dead"
  /\ UNCHANGED <<cpc, decodeQ, drawQ, decodeMutex, drawMutex, buf, left,
                 frames, draws, lost, drawVars, ownerVars>>

\* Once the object is gone its tasks have no defined behaviour left.
decode_task ==
  /\ cpc # "gone"
  /\ \/ DecodeInit \/ DecodeReceive \/ DecodeLock \/ DecodePiece
     \/ DecodePieceLost \/ DecodeFinish \/ DecodeCleanup
-----------------------------------------------------------------------------
(* The draw task. *)

DrawInit ==
  /\ wpc = "init"
  /\ bits' = bits \ {"draw_task_stopped"}
  /\ wpc' = "recv"
  /\ UNCHANGED <<cpc, decodeQ, drawQ, decodeMutex, drawMutex, pDraw, frames,
                 draws, decodeVars, ownerVars>>

DrawReceive ==
  /\ wpc = "recv" /\ drawQ # <<>>
  /\ pDraw' = Head(drawQ)
  /\ drawQ' = Tail(drawQ)
  /\ wpc' = "lock"
  /\ UNCHANGED <<cpc, decodeQ, decodeMutex, drawMutex, bits, frames, draws,
                 decodeVars, ownerVars>>

DrawLock ==
  /\ wpc = "lock" /\ drawMutex = Free
  /\ bits' = bits \ {"draw_task_finish_processing"}
  /\ \/ /\ pDraw = DrawSig
        /\ wpc' = "cleanup"
        /\ UNCHANGED drawMutex
     \/ /\ pDraw # DrawSig
        /\ drawMutex' = DrawTask
        /\ wpc' = "push"
  /\ UNCHANGED <<cpc, decodeQ, drawQ, decodeMutex, pDraw, frames, draws,
                 decodeVars, ownerVars>>

\* The DMA transfer has ended: both buffers of the piece are freed.
DrawFinish ==
  /\ wpc = "push"
  /\ draws' = draws \ {pDraw}
  /\ pDraw' = DrawSig
  /\ bits' = bits \cup {"draw_task_finish_processing"}
  /\ drawMutex' = Free
  /\ wpc' = "recv"
  /\ UNCHANGED <<cpc, decodeQ, drawQ, decodeMutex, frames, decodeVars,
                 ownerVars>>

DrawCleanup ==
  /\ wpc = "cleanup"
  /\ bits' = bits \cup {"draw_task_stopped"}
  /\ wpc' = "dead"
  /\ UNCHANGED <<cpc, decodeQ, drawQ, decodeMutex, drawMutex, pDraw, frames,
                 draws, decodeVars, ownerVars>>

draw_task ==
  /\ cpc # "gone"
  /\ DrawInit \/ DrawReceive \/ DrawLock \/ DrawFinish \/ DrawCleanup
-----------------------------------------------------------------------------
(* The interface, called by the codec's owner. *)

\* read_frame() returned a buffer (how it finds it is module ReadFrame).
ReadFrame ==
  /\ cpc = "idle" /\ nframes < MaxFrames
  /\ nframes' = nframes + 1
  /\ frames' = frames \cup {nframes + 1}
  /\ cpc' = "send"
  /\ UNCHANGED <<decodeQ, drawQ, decodeMutex, drawMutex, bits, draws, exiting,
                 stopCalled, stopOk, decodeVars, drawVars>>

\* Mutant: the frame is stored without waiting for room.
DecodeFrameNoWait ==
  /\ cpc = "send"
  /\ decodeQ' = Append(decodeQ, nframes)
  /\ cpc' = "idle"
  /\ UNCHANGED <<drawQ, decodeMutex, drawMutex, bits, frames, draws,
                 decodeVars, drawVars, ownerVars>>

\* decode_frame(): xQueueSend(..., portMAX_DELAY).
DecodeFrame ==
  /\ cpc = "send" /\ Len(decodeQ) < DecodeCap
  /\ decodeQ' = Append(decodeQ, nframes)
  /\ cpc' = "idle"
  /\ UNCHANGED <<drawQ, decodeMutex, drawMutex, bits, frames, draws,
                 decodeVars, drawVars, ownerVars>>

\* The owner is late and skips the frame: free(data).
SkipFrame ==
  /\ cpc = "send"
  /\ frames' = frames \ {nframes}
  /\ cpc' = "idle"
  /\ UNCHANGED <<decodeQ, drawQ, decodeMutex, drawMutex, bits, draws,
                 decodeVars, drawVars, ownerVars>>

StopCall ==
  /\ cpc = "idle"
  /\ cpc' = "lockDecode"
  /\ UNCHANGED <<decodeQ, drawQ, decodeMutex, drawMutex, bits, frames, draws,
                 decodeVars, drawVars, ownerVars>>

\* stop() takes the two mutexes, the decode task's first.
StopLock ==
  /\ \/ /\ cpc = "lockDecode" /\ decodeMutex = Free
        /\ decodeMutex' = Owner
        /\ cpc' = "lockDraw"
        /\ UNCHANGED drawMutex
     \/ /\ cpc = "lockDraw" /\ drawMutex = Free
        /\ drawMutex' = Owner
        /\ cpc' = "drainDecode"
        /\ UNCHANGED decodeMutex
  /\ UNCHANGED <<decodeQ, drawQ, bits, frames, draws, decodeVars, drawVars,
                 ownerVars>>

\* Mutant: drained frames are not freed.
StopDrainDecodeLeak ==
  /\ cpc = "drainDecode"
  /\ decodeQ' = <<>>
  /\ cpc' = "drainDraw"
  /\ UNCHANGED <<drawQ, decodeMutex, drawMutex, bits, frames, draws,
                 decodeVars, drawVars, ownerVars>>

\* Mutant: the decode queue is not drained.
StopDrainDecodeNot ==
  /\ cpc = "drainDecode"
  /\ cpc' = "drainDraw"
  /\ UNCHANGED <<decodeQ, drawQ, decodeMutex, drawMutex, bits, frames, draws,
                 decodeVars, drawVars, ownerVars>>

\* xQueueReceive(..., 0) until the queue is empty; each receive is a step.
StopDrainDecode ==
  /\ cpc = "drainDecode"
  /\ \/ /\ decodeQ # <<>>
        /\ frames' = frames \ {Head(decodeQ)}
        /\ decodeQ' = Tail(decodeQ)
        /\ UNCHANGED cpc
     \/ /\ decodeQ = <<>>
        /\ cpc' = "drainDraw"
        /\ UNCHANGED <<decodeQ, frames>>
  /\ UNCHANGED <<drawQ, decodeMutex, drawMutex, bits, draws, decodeVars,
                 drawVars, ownerVars>>

\* Mutant: the pieces that are drained are not freed.
StopDrainDrawLeak ==
  /\ cpc = "drainDraw"
  /\ drawQ' = <<>>
  /\ cpc' = "wait"
  /\ UNCHANGED <<decodeQ, decodeMutex, drawMutex, bits, frames, draws,
                 decodeVars, drawVars, ownerVars>>

StopDrainDraw ==
  /\ cpc = "drainDraw"
  /\ \/ /\ drawQ # <<>>
        /\ draws' = draws \ {Head(drawQ)}
        /\ drawQ' = Tail(drawQ)
        /\ UNCHANGED cpc
     \/ /\ drawQ = <<>>
        /\ cpc' = "wait"
        /\ UNCHANGED <<drawQ, draws>>
  /\ UNCHANGED <<decodeQ, decodeMutex, drawMutex, bits, frames, decodeVars,
                 drawVars, ownerVars>>

\* Neither task can take a step: it waits for a queue, for a mutex, or is gone.
DecodeBlocked ==
  \/ dpc = "recv" /\ decodeQ = <<>>
  \/ dpc = "lock" /\ decodeMutex # Free
  \/ dpc = "decode" /\ left > 0 /\ Len(drawQ) = DrawCap
  \/ dpc = "dead"
DrawBlocked ==
  \/ wpc = "recv" /\ drawQ = <<>>
  \/ wpc = "lock" /\ drawMutex # Free
  \/ wpc = "dead"

\* A wait of 2000 ticks (two seconds) may time out.  Decoding and drawing what
\* the two queues hold takes milliseconds, so a patient wait only times out
\* when the tasks have nothing left that they could do.
Expired == Patient => DecodeBlocked /\ DrawBlocked

\* Mutant: a wait that times out is repeated, with both mutexes held.
StopWaitAgain ==
  /\ cpc = "wait"
  /\ \/ /\ FinishBits \subseteq bits
        /\ decodeMutex' = Free /\ drawMutex' = Free
        /\ stopCalled' = TRUE /\ stopOk' = TRUE
        /\ cpc' = IF exiting THEN "sendSig" ELSE "idle"
     \/ /\ ~(FinishBits \subseteq bits) /\ Expired
        /\ cpc' = "drainDecode"
        /\ UNCHANGED <<decodeMutex, drawMutex, stopCalled, stopOk>>
  /\ UNCHANGED <<decodeQ, drawQ, bits, nframes, frames, draws, exiting,
                 decodeVars, drawVars>>

\* Mutant: exit() repeats stop() until it succeeds.
StopWaitUntilOk ==
  /\ cpc = "wait"
  /\ \/ FinishBits \subseteq bits /\ stopOk' = TRUE
     \/ ~(FinishBits \subseteq bits) /\ Expired /\ stopOk' = FALSE
  /\ decodeMutex' = Free
  /\ drawMutex' = Free
  /\ stopCalled' = TRUE
  /\ cpc' = IF ~exiting THEN "idle"
            ELSE IF stopOk' THEN "sendSig" ELSE "lockDecode"
  /\ UNCHANGED <<decodeQ, drawQ, bits, nframes, frames, draws, exiting,
                 decodeVars, drawVars>>

\* wait_processing(), then the two lock_guards are destroyed; exit() goes on
\* with the stop signal, any other caller returns.
StopWait ==
  /\ cpc = "wait"
  /\ \/ FinishBits \subseteq bits /\ stopOk' = TRUE
     \/ ~(FinishBits \subseteq bits) /\ Expired /\ stopOk' = FALSE
  /\ decodeMutex' = Free
  /\ drawMutex' = Free
  /\ stopCalled' = TRUE
  /\ cpc' = IF exiting THEN "sendSig" ELSE "idle"
  /\ UNCHANGED <<decodeQ, drawQ, bits, nframes, frames, draws, exiting,
                 decodeVars, drawVars>>

running == ~(StoppedBits \subseteq bits)

\* The destructor.  "call stop before delete instance" (MjpegCodec.h).
Delete ==
  /\ cpc = "idle" /\ stopCalled
  /\ exiting' = running
  /\ cpc' = IF running THEN "lockDecode" ELSE "free"
  /\ UNCHANGED <<decodeQ, drawQ, decodeMutex, drawMutex, bits, nframes,
                 frames, draws, stopCalled, stopOk, decodeVars, drawVars>>

\* The queue has just been drained and nobody else sends to it: there is room.
ExitSendDecodeSig ==
  /\ cpc = "sendSig" /\ Len(decodeQ) < DecodeCap
  /\ decodeQ' = Append(decodeQ, StopSig)
  /\ cpc' = "waitDecode"
  /\ UNCHANGED <<drawQ, decodeMutex, drawMutex, bits, frames, draws,
                 decodeVars, drawVars, ownerVars>>

\* Mutant: exit() does not wait for the decode task.
ExitWaitDecodeNot ==
  /\ cpc = "waitDecode"
  /\ cpc' = "sendDrawSig"
  /\ UNCHANGED <<decodeQ, drawQ, decodeMutex, drawMutex, bits, frames, draws,
                 decodeVars, drawVars, ownerVars>>

\* exit() gives up when the decode task has not ended in time.
ExitWaitDecode ==
  /\ cpc = "waitDecode"
  /\ \/ /\ "decode_task_stopped" \in bits
        /\ cpc' = "sendDrawSig"
     \/ /\ "decode_task_stopped" \notin bits /\ Expired
        /\ cpc' = "free"
  /\ UNCHANGED <<decodeQ, drawQ, decodeMutex, drawMutex, bits, frames, draws,
                 decodeVars, drawVars, ownerVars>>

\* The draw queue may still be full of the last frame's pieces: the signal is
\* sent when there is room, or not at all if the send times out.
ExitSendDrawSig ==
  /\ cpc = "sendDrawSig"
  /\ \/ Len(drawQ) < DrawCap /\ drawQ' = Append(drawQ, DrawSig)
     \/ Len(drawQ) = DrawCap /\ Expired /\ UNCHANGED drawQ
  /\ cpc' = "waitDraw"
  /\ UNCHANGED <<decodeQ, decodeMutex, drawMutex, bits, frames, draws,
                 decodeVars, drawVars, ownerVars>>

\* Mutant: exit() does not wait for the draw task.
ExitWaitDrawNot ==
  /\ cpc = "waitDraw"
  /\ cpc' = "free"
  /\ UNCHANGED <<decodeQ, drawQ, decodeMutex, drawMutex, bits, frames, draws,
                 decodeVars, drawVars, ownerVars>>

ExitWaitDraw ==
  /\ cpc = "waitDraw"
  /\ "draw_task_stopped" \in bits \/ Expired
  /\ cpc' = "free"
  /\ UNCHANGED <<decodeQ, drawQ, decodeMutex, drawMutex, bits, frames, draws,
                 decodeVars, drawVars, ownerVars>>

\* vEventGroupDelete(), and the memory of the object is released.
FreeCodec ==
  /\ cpc = "free"
  /\ cpc' = "gone"
  /\ UNCHANGED <<decodeQ, drawQ, decodeMutex, drawMutex, bits, frames, draws,
                 decodeVars, drawVars, ownerVars>>

\* Steps the owner takes once it is inside a call; the calls themselves are
\* its own choice.
InCall ==
  \/ DecodeFrame \/ StopLock \/ StopDrainDecode \/ StopDrainDraw \/ StopWait
  \/ ExitSendDecodeSig \/ ExitWaitDecode \/ ExitSendDrawSig \/ ExitWaitDraw
  \/ FreeCodec

Calls == ReadFrame \/ SkipFrame \/ StopCall \/ Delete

\* The codec is deleted: nothing is left to do.
Deleted == cpc = "gone" /\ UNCHANGED vars

Next == decode_task \/ draw_task \/ InCall \/ Calls \/ Deleted

Spec == Init /\ [][Next]_vars

\* Both tasks are scheduled whenever they are runnable (they have the highest
\* application priority, one core each), a mutex that is given goes to its
\* highest-priority waiter, which is the task and not the owner, and a call
\* once begun is carried on; that calls are made is not assumed.
Fairness ==
  /\ WF_vars(decode_task) /\ WF_vars(draw_task) /\ WF_vars(InCall)
  /\ SF_vars(DecodeLock /\ cpc # "gone") /\ SF_vars(DrawLock /\ cpc # "gone")

FairSpec == Spec /\ Fairness
-----------------------------------------------------------------------------
(* Properties. *)

\* Every variable of the pipeline keeps its type; the queues never hold more
\* than the capacity they were created with.
TypeOK ==
  /\ cpc \in OwnerLabels /\ dpc \in DecodeLabels /\ wpc \in DrawLabels
  /\ decodeQ \in Seq(DecodeMsg) /\ Len(decodeQ) <= DecodeCap
  /\ drawQ \in Seq(DrawMsg) /\ Len(drawQ) <= DrawCap
  /\ decodeMutex \in {Free, Owner, DecodeTask}
  /\ drawMutex \in {Free, Owner, DrawTask}
  /\ bits \subseteq Bits
  /\ buf \in DecodeMsg /\ (dpc = "decode" => buf # NoFrame)
  /\ left \in 0 .. MaxPieces
  /\ pDraw \in DrawMsg
  /\ nframes \in 0 .. MaxFrames /\ (cpc = "send" => nframes \in Frame)
  /\ frames \subseteq Frame
  /\ draws \subseteq Piece /\ lost \in 0 .. MaxLost
  /\ exiting \in BOOLEAN /\ stopCalled \in BOOLEAN /\ stopOk \in BOOLEAN

\* Once the destructor has released the codec, neither task is still running
\* on its memory (patient waits, stop() called before delete).
NoTaskOutlivesCodec == cpc = "gone" => dpc = "dead" /\ wpc = "dead"

\* The decode task sends to the draw queue, which the draw task deletes when it
\* ends: the draw task never ends while the decode task can still send.
DrawOutlivesDecode == wpc \in {"cleanup", "dead"} => dpc = "dead"

\* The frame buffers and the pieces each place of the pipeline owns.
FramesQueued == Range(decodeQ) \ {StopSig}
FramesHeld ==
  (IF cpc = "send" THEN {nframes} ELSE {}) \cup ({buf} \ {NoFrame})
PiecesQueued == Range(drawQ) \ {DrawSig}
PiecesHeld   == {pDraw} \ {DrawSig}

\* A queue does not hold a buffer twice; a stop signal is no buffer.
Distinct(queue, signal) ==
  \A i, j \in DOMAIN queue : queue[i] = queue[j] /\ queue[i] # signal => i = j

\* Every allocated buffer has exactly one owner (a queue slot, a task or the
\* codec's owner) and every owner's buffer is allocated: whatever the races
\* between stop() and the tasks, nothing is leaked and nothing is freed twice.
OwnedOnce ==
  /\ frames = FramesQueued \cup FramesHeld
  /\ Distinct(decodeQ, StopSig) /\ buf \notin FramesQueued
  /\ cpc = "send" => nframes \notin FramesQueued \cup {buf}
  /\ draws = PiecesQueued \cup PiecesHeld
  /\ Distinct(drawQ, DrawSig) /\ pDraw \notin PiecesQueued

\* Deleting the codec leaves no buffer behind (patient waits).
NothingLeftBehind == cpc = "gone" => frames = {} /\ draws = {}

\* stop() returns, however the tasks and the two mutexes interleave.
StopReturns == cpc = "lockDecode" ~> cpc \in {"idle", "sendSig"}

\* The destructor ends once it has been entered.
DeleteReturns == exiting ~> cpc = "gone"

\* A frame that was read is not held forever: it is decoded, skipped or drained.
FrameReleased == \A f \in Frame : f \in FramesQueued ~> f \notin frames

\* The frames in the decode task's hands and in its queue, oldest first.  The
\* stop signal is sent to a drained queue and so is alone in it.
InFlight ==
  (IF buf = NoFrame THEN <<>> ELSE <<buf>>)
    \o (IF decodeQ = <<StopSig>> THEN <<>> ELSE decodeQ)

Pipe == INSTANCE FramePipe WITH
  hand     <- IF cpc = "send" THEN nframes ELSE 0,
  flight   <- InFlight,
  stopping <- cpc \in StopLabels

\* The two tasks, their queues and stop() implement the abstract pipeline: FIFO
\* order, bounded flight, progress, and at most one frame survives a stop().
ImplementsFramePipe == Pipe!PipeSpec

\* The safety half of it, which needs no patience: however early the waits give
\* up, frames keep their order, the flight is bounded, and a stop() that returns
\* has dropped all frames but the one the decode task had taken.
KeepsPipeOrder == Pipe!PipeSafety
=============================================================================
