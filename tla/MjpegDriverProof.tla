-------------------------- MODULE MjpegDriverProof --------------------------
(***************************************************************************)
(* Proofs about the video player, for any files, any repeat counts and any *)
(* length of the decode queue: the play task and the control thread use    *)
(* the codec in turn.                                                      *)
(***************************************************************************)
EXTENDS MjpegDriver, TLAPS

\* What the play task holds while it is inside play_frame(), from its first test
\* to the stop() it may end with.
Inside == InBody \/ pc[PlayTask] = "stopLock"

\* m_lock belongs to the play task exactly there, and its own stop() never gets
\* past the lock.
LockInv ==
  /\ m_lock = PlayTask <=> Inside
  /\ pc[PlayTask] \notin {"codecStop", "codecWait", "reset"}

\* Inside play_frame() something is being played; a stop() that has had the lock
\* has ended it.
PlayInv ==
  /\ Inside => m_playing
  /\ pc[Control] = "open" => m_playing
  /\ pc[Control] \in {"codecStop", "codecWait", "reset"} => ~m_playing

\* A frame read is handed over before anything else happens.
OrderInv == hand # None => pc[PlayTask] = "send"

DriverInv == TypeOK /\ LockInv /\ PlayInv /\ OrderInv
-----------------------------------------------------------------------------
USE DEF Free, PlayTask, Control, Threads, Goto

\* A sequence of frames stays one when stop() drops a frame of it.
LEMMA DropType == ASSUME flight \in Seq(Frame), Drop PROVE flight' \in Seq(Frame)
<1>1. PICK i \in DOMAIN flight : flight' = RemoveAt(flight, i)
  BY DEF Drop
<1>2. i \in 1 .. Len(flight)
  BY <1>1
<1>3. /\ SubSeq(flight, 1, i - 1) \in Seq(Frame)
      /\ SubSeq(flight, i + 1, Len(flight)) \in Seq(Frame)
  BY <1>2
<1> QED
  BY <1>1, <1>3 DEF RemoveAt

\* The steps of the codec leave the type of its state alone.
LEMMA PipeType ==
  ASSUME hand \in Frame \cup {None}, flight \in Seq(Frame), stopping \in BOOLEAN,
         Read \/ Submit \/ Skip \/ Release \/ Drop \/ BeginStop \/ EndStop
  PROVE  /\ hand' \in Frame \cup {None} /\ flight' \in Seq(Frame)
         /\ stopping' \in BOOLEAN
<1>1. CASE Drop
  BY <1>1, DropType DEF Drop
<1>2. CASE Submit
  BY <1>2 DEF Submit
<1>3. CASE Release
  BY <1>3 DEF Release
<1>4. CASE Read \/ Skip \/ BeginStop \/ EndStop
  BY <1>4 DEF Read, Skip, BeginStop, EndStop
<1> QED
  BY <1>1, <1>2, <1>3, <1>4

USE DEF Inside, InBody
\* Every step keeps the types.
LEMMA TypeStep == TypeOK /\ [Next]_vars => TypeOK'
<1> SUFFICES ASSUME TypeOK, [Next]_vars PROVE TypeOK'
  OBVIOUS
<1> USE DEF TypeOK, PlayLabels, ControlLabels, StopLabels, playState, pipeVars
<1>1. CASE PlayEnter
  BY <1>1 DEF PlayEnter
<1>2. CASE PlayCheckEof
  <2>1. NextRepeat \in Nat
    BY DEF NextRepeat
  <2>2. CASE /\ m_is_image' = TRUE
             /\ UNCHANGED <<m_current_repeat, m_current_frames, pos>>
    <3>1. m_is_image' \in BOOLEAN
      BY <2>2
    <3>2. /\ \/ pc' = [pc EXCEPT ![PlayTask] = "delay"]
             \/ pc' = [pc EXCEPT ![PlayTask] = "read"]
             \/ pc' = [pc EXCEPT ![PlayTask] = "stopLock"]
          /\ m_lock' \in {m_lock, Free}
      BY <1>2 DEF PlayCheckEof
    <3>3. /\ UNCHANGED <<m_playing, m_repeat, m_anim_file, shown>>
          /\ UNCHANGED <<hand, flight, stopping>>
          /\ UNCHANGED <<m_current_repeat, m_current_frames, pos>>
      BY <1>2, <2>2 DEF PlayCheckEof
    <3> QED
      BY <3>1, <3>2, <3>3
  <2>3. CASE UNCHANGED m_is_image
    BY <1>2, <2>1, <2>3 DEF PlayCheckEof
  <2> QED
    BY <1>2, <2>2, <2>3 DEF PlayCheckEof
<1>3. CASE PlayReadFrame
  BY <1>3, PipeType DEF PlayReadFrame
<1>4. CASE PlayDecodeOrSkip
  BY <1>4, PipeType DEF PlayDecodeOrSkip
<1>5. CASE PlayCount
  BY <1>5 DEF PlayCount
<1>6. CASE Decoder
  BY <1>6, PipeType DEF Decoder, driverVars
<1>7. ASSUME NEW t \in Threads, StopLock(t) PROVE TypeOK'
  BY <1>7, ZenonT(30) DEF StopLock
<1>8. ASSUME NEW t \in Threads, StopCodec(t) PROVE TypeOK'
  BY <1>8, PipeType DEF StopCodec
<1>9. ASSUME NEW t \in Threads, StopReset(t) PROVE TypeOK'
  BY <1>9 DEF StopReset
<1>11. CASE Begin
  BY <1>11 DEF Begin
<1>12. CASE BindAssets
  BY <1>12 DEF BindAssets
<1>13. CASE BindOpen
  BY <1>13 DEF BindOpen
<1>14. CASE SetRepeat
  BY <1>14 DEF SetRepeat
<1>15. CASE StopCall
  BY <1>15 DEF StopCall
<1>16. CASE UNCHANGED vars
  BY <1>16 DEF vars, driverVars
<1> QED
  BY <1>1, <1>2, <1>3, <1>4, <1>5, <1>6, <1>7, <1>8, <1>9, <1>11, <1>12,
     <1>13, <1>14, <1>15, <1>16
     DEF Next, PlayFrame, Stop

\* Every step keeps what ties the lock, m_playing and the two threads together.
LEMMA OwnerStep ==
  DriverInv /\ [Next]_vars => (LockInv /\ PlayInv /\ OrderInv)'
<1> SUFFICES ASSUME DriverInv, [Next]_vars PROVE (LockInv /\ PlayInv /\ OrderInv)'
  OBVIOUS
<1> USE DEF DriverInv, LockInv, PlayInv, OrderInv, TypeOK, playState, pipeVars
<1>1. CASE PlayEnter
  BY <1>1 DEF PlayEnter
<1>2. CASE PlayCheckEof
  BY <1>2 DEF PlayCheckEof
<1>3. CASE PlayReadFrame
  BY <1>3 DEF PlayReadFrame, Read
<1>4. CASE PlayDecodeOrSkip
  BY <1>4 DEF PlayDecodeOrSkip, Submit, Skip
<1>5. CASE PlayCount
  BY <1>5 DEF PlayCount
<1>6. CASE Decoder
  BY <1>6 DEF Decoder, driverVars, Release, Drop
<1>7. ASSUME NEW t \in Threads, StopLock(t) PROVE (LockInv /\ PlayInv /\ OrderInv)'
  BY <1>7 DEF StopLock
<1>8. ASSUME NEW t \in Threads, StopCodec(t) PROVE (LockInv /\ PlayInv /\ OrderInv)'
  BY <1>8 DEF StopCodec, BeginStop, EndStop
<1>9. ASSUME NEW t \in Threads, StopReset(t) PROVE (LockInv /\ PlayInv /\ OrderInv)'
  BY <1>9 DEF StopReset
<1>10. CASE Begin \/ BindAssets \/ BindOpen
  BY <1>10 DEF Begin, BindAssets, BindOpen
<1>11. CASE SetRepeat \/ StopCall
  BY <1>11 DEF SetRepeat, StopCall
<1>12. CASE UNCHANGED vars
  BY <1>12 DEF vars, driverVars
<1> QED
  BY <1>1, <1>2, <1>3, <1>4, <1>5, <1>6, <1>7, <1>8, <1>9, <1>10, <1>11, <1>12
     DEF Next, PlayFrame, Stop

\* DriverInv is an invariant of the player, whatever the files and repeat counts.
THEOREM DriverInvariant == Spec => []DriverInv
<1>1. Init => DriverInv
  <2> SUFFICES ASSUME Init PROVE DriverInv
    OBVIOUS
  <2> USE DEF Init, DriverInit, PreparedAndBound, PipeInit
  <2>1. TypeOK
    <3>1. flight \in Seq(Frame) /\ m_anim_file \in Assets \cup {NoFile}
      OBVIOUS
    <3>2. /\ m_playing \in BOOLEAN /\ m_is_image \in BOOLEAN
          /\ shown \in BOOLEAN
          /\ stopping \in BOOLEAN
      OBVIOUS
    <3> QED
      BY <3>1, <3>2 DEF TypeOK, PlayLabels, ControlLabels, StopLabels
  <2>2. LockInv /\ PlayInv /\ OrderInv
    BY DEF LockInv, PlayInv, OrderInv
  <2> QED
    BY <2>1, <2>2 DEF DriverInv
<1>2. DriverInv /\ [Next]_vars => DriverInv'
  BY TypeStep, OwnerStep DEF DriverInv
<1> QED
  BY <1>1, <1>2, PTL DEF Spec

\* Type correctness of the player's state, for any files and repeat counts.
THEOREM DriverTypeCorrect == Spec => []TypeOK
BY DriverInvariant, PTL DEF DriverInv

\* stop() drains the codec and resets the play state without m_lock, and yet
\* never while play_frame() is at work with the codec or holds a frame.
THEOREM OneOwner == Spec => []OwnerSerialized
<1>1. DriverInv => OwnerSerialized
  BY DEF DriverInv, LockInv, PlayInv, OrderInv, TypeOK, OwnerSerialized
<1> QED
  BY <1>1, DriverInvariant, PTL

\* A playback that has come to its end stays in stop(), which waits for the lock
\* that play_frame() holds itself, and no other thread gets the play task out of
\* it: PlaybackEnds fails whenever a playback comes to its end.
THEOREM EndIsStuck ==
  Spec => [][pc[PlayTask] = "stopLock" =>
               pc'[PlayTask] = "stopLock" /\ m_playing']_vars
<1>1. DriverInv /\ [Next]_vars =>
        (pc[PlayTask] = "stopLock" => pc'[PlayTask] = "stopLock" /\ m_playing')
  <2> SUFFICES ASSUME DriverInv, [Next]_vars, pc[PlayTask] = "stopLock"
               PROVE  pc'[PlayTask] = "stopLock" /\ m_playing'
    OBVIOUS
  <2> USE DEF DriverInv, LockInv, PlayInv, TypeOK
  <2>1. m_lock = PlayTask /\ m_playing
    BY DEF Inside
  <2>2. CASE PlayFrame
    BY <2>2 DEF PlayFrame, PlayEnter, PlayCheckEof, PlayReadFrame,
                PlayDecodeOrSkip, PlayCount
  <2>3. CASE Decoder \/ UNCHANGED vars
    BY <2>1, <2>3 DEF Decoder, driverVars, vars
  <2>4. ASSUME NEW t \in Threads, StopLock(t) PROVE FALSE
    BY <2>1, <2>4 DEF StopLock
  <2>5. ASSUME NEW t \in Threads, StopCodec(t) \/ StopReset(t)
        PROVE  pc'[PlayTask] = "stopLock" /\ m_playing'
    BY <2>1, <2>5 DEF StopCodec, StopReset
  <2>6. CASE Begin \/ BindAssets \/ BindOpen
    BY <2>1, <2>6 DEF Begin, BindAssets, BindOpen
  <2>7. CASE SetRepeat \/ StopCall
    BY <2>1, <2>7 DEF SetRepeat, StopCall
  <2> QED
    BY <2>2, <2>3, <2>4, <2>5, <2>6, <2>7 DEF Next, Stop
<1> QED
  BY <1>1, DriverInvariant, PTL DEF Spec
=============================================================================
