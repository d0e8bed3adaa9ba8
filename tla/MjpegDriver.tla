----------------------------- MODULE MjpegDriver -----------------------------
(***************************************************************************)
(* The video player of ivy/anim/MjpegDriver.cpp: the play task repeats     *)
(* play_frame(), a control thread binds a video file, begins and stops     *)
(* playback and changes the repeat count.  The decoder itself is the       *)
(* abstract pipeline FramePipe, which MjpegCodec implements.  The model    *)
(* starts where IvyAnim::bind_assets() leaves a new driver, its decoder    *)
(* prepared and a file bound; nothing in the repository calls              *)
(* release_resource(), so the decoder stays.                               *)
(*                                                                         *)
(* A video file is a record: frames in the file, ahead (how many of the    *)
(* following frames the 1024-byte read buffer swallows whole while a frame *)
(* is being read), and whether the last frame is cut off.  Times only      *)
(* matter through skip, which is a choice once the first frame has set the *)
(* clock.                                                                  *)
(***************************************************************************)
EXTENDS FramePipe

CONSTANTS
  Assets,   \* the video files that may be bound
  Repeats   \* the values set_repeat() is called with; -1 is "forever"

Asset == [frames : Nat, ahead : Nat, cut : BOOLEAN]
NoFile == [frames |-> 0, ahead |-> 0, cut |-> FALSE]   \* closed or empty

ASSUME DriverAssumption ==
  /\ Assets \subseteq Asset
  /\ Repeats \subseteq Nat \cup {-1}

VARIABLES
  pc,              \* where the play task and the control thread are
  m_lock,          \* holder of m_lock, a std::mutex: not recursive
  m_playing, m_is_image, m_repeat, m_current_repeat, m_current_frames,
  m_anim_file,     \* the bound file
  pos,             \* frames of m_anim_file read in this pass
  shown            \* the last frame read went to the decoder (not skipped)

driverVars == <<pc, m_lock, m_playing, m_is_image, m_repeat,
                m_current_repeat, m_current_frames, m_anim_file, pos, shown>>
vars == <<driverVars, pipeVars>>

playState == <<m_is_image, m_current_repeat, m_current_frames, pos>>

Free == "free"
PlayTask == "play"
Control  == "control"

Threads  == {PlayTask, Control}
StopLabels == {"stopLock", "codecStop", "codecWait", "reset"}
PlayLabels == {"none", "delay", "eof", "read", "send", "count"} \cup StopLabels
ControlLabels == {"idle", "open"} \cup StopLabels

Goto(t, label) == pc' = [pc EXCEPT ![t] = label]

DriverInit ==
  /\ pc = [t \in Threads |-> IF t = PlayTask THEN "none" ELSE "idle"]
  /\ m_lock = Free
  /\ m_is_image = FALSE
  /\ m_repeat = 0 /\ m_current_repeat = 0 /\ m_current_frames = 0
  /\ pos = 0 /\ shown = FALSE

\* prepare_resource() and anim_bind_assets(), called by IvyAnim::bind_assets().
PreparedAndBound == m_playing = TRUE /\ m_anim_file \in Assets

Init == DriverInit /\ PreparedAndBound /\ PipeInit
-----------------------------------------------------------------------------
(* The play task. *)

\* play_frame() is entered: it takes m_lock and holds it until it returns.
PlayEnter ==
  /\ pc[PlayTask] = "delay" /\ m_lock = Free
  /\ \/ /\ ~m_playing \/ m_is_image
        /\ UNCHANGED <<pc, m_lock>>
     \/ /\ m_playing /\ ~m_is_image
        /\ m_lock' = PlayTask
        /\ Goto(PlayTask, "eof")
  /\ UNCHANGED <<m_playing, m_repeat, m_anim_file, shown, playState,
                 pipeVars>>

\* File::available(): bytes not yet moved to the read buffer.
available == IF pos = 0 THEN m_anim_file.frames > 0
             ELSE pos + m_anim_file.ahead < m_anim_file.frames

repeating == m_repeat = -1 \/ m_current_repeat < m_repeat

\* Counts beyond every repeat count in use cannot be told apart.
NextRepeat == IF m_current_repeat < Max(Repeats \cup {0})
              THEN m_current_repeat + 1 ELSE m_current_repeat

\* Mutant: m_lock is unlocked by hand and the image's way out forgets it.
PlayCheckEofLocked ==
  /\ pc[PlayTask] = "eof"
  /\ \/ /\ available
        /\ Goto(PlayTask, "read")
        /\ UNCHANGED <<m_lock, playState>>
     \/ /\ ~available /\ repeating /\ m_current_frames = 1
        /\ m_is_image' = TRUE
        /\ Goto(PlayTask, "delay")
        /\ UNCHANGED <<m_lock, m_current_repeat, m_current_frames, pos>>
     \/ /\ ~available /\ repeating /\ m_current_frames # 1
        /\ m_current_frames' = 0
        /\ m_current_repeat' = NextRepeat
        /\ pos' = 0
        /\ Goto(PlayTask, "read")
        /\ UNCHANGED <<m_lock, m_is_image>>
     \/ /\ ~available /\ ~repeating
        /\ Goto(PlayTask, "stopLock")
        /\ UNCHANGED <<m_lock, playState>>
  /\ UNCHANGED <<m_playing, m_repeat, m_anim_file, shown, pipeVars>>

\* The end-of-file test at the top of the loop; both ways out of a failed
\* playback call stop() with m_lock still held.
PlayCheckEof ==
  /\ pc[PlayTask] = "eof"
  /\ \/ /\ available
        /\ Goto(PlayTask, "read")
        /\ UNCHANGED <<m_lock, playState>>
     \/ /\ ~available /\ repeating /\ m_current_frames = 1
        /\ m_is_image' = TRUE
        /\ m_lock' = Free
        /\ Goto(PlayTask, "delay")
        /\ UNCHANGED <<m_current_repeat, m_current_frames, pos>>
     \/ /\ ~available /\ repeating /\ m_current_frames # 1
        /\ m_current_frames' = 0
        /\ m_current_repeat' = NextRepeat
        /\ pos' = 0
        /\ Goto(PlayTask, "read")
        /\ UNCHANGED <<m_lock, m_is_image>>
     \/ /\ ~available /\ ~repeating
        /\ Goto(PlayTask, "stopLock")
        /\ UNCHANGED <<m_lock, playState>>
  /\ UNCHANGED <<m_playing, m_repeat, m_anim_file, shown, pipeVars>>

\* read_frame() finds no complete frame when none is left or it is cut off.
readable == pos < m_anim_file.frames
            /\ ~(m_anim_file.cut /\ pos + 1 = m_anim_file.frames)

PlayReadFrame ==
  /\ pc[PlayTask] = "read"
  /\ \/ /\ readable
        /\ Read
        /\ pos' = pos + 1
        /\ Goto(PlayTask, "send")
     \/ /\ ~readable
        /\ Goto(PlayTask, "stopLock")
        /\ UNCHANGED <<pos, pipeVars>>
  /\ UNCHANGED <<m_lock, m_playing, m_is_image, m_repeat, m_current_repeat,
                 m_current_frames, m_anim_file, shown>>

\* decode_frame() while m_lock is held, or free(data) when the frame is late;
\* the first frame of a pass (m_start_ms = 0) is never late.
PlayDecodeOrSkip ==
  /\ pc[PlayTask] = "send"
  /\ \/ Submit /\ shown' = TRUE
     \/ m_current_frames > 0 /\ Skip /\ shown' = FALSE
  /\ Goto(PlayTask, "count")
  /\ UNCHANGED <<m_lock, m_playing, m_repeat, m_anim_file, playState>>

\* Mutant: play_frame() goes on after a frame that was shown.
PlayCountGoesOn ==
  /\ pc[PlayTask] = "count"
  /\ m_current_frames' = m_current_frames + 1
  /\ Goto(PlayTask, "eof")
  /\ UNCHANGED <<m_lock, m_playing, m_is_image, m_repeat, m_current_repeat,
                 m_anim_file, pos, shown, pipeVars>>

\* ++m_current_frames; a shown frame ends the call, a skipped one does not.
PlayCount ==
  /\ pc[PlayTask] = "count"
  /\ m_current_frames' = m_current_frames + 1
  /\ \/ shown /\ m_lock' = Free /\ Goto(PlayTask, "delay")
     \/ ~shown /\ Goto(PlayTask, "eof") /\ UNCHANGED m_lock
  /\ UNCHANGED <<m_playing, m_is_image, m_repeat, m_current_repeat,
                 m_anim_file, pos, shown, pipeVars>>

-----------------------------------------------------------------------------
(***************************************************************************)
(* stop(), run by the control thread or by play_frame() itself.            *)
(***************************************************************************)

\* m_playing is read without the lock (the play task has just seen it set).
StopCall ==
  /\ pc[Control] = "idle" /\ m_playing
  /\ Goto(Control, "stopLock")
  /\ UNCHANGED <<m_lock, m_playing, m_repeat, m_anim_file, shown, playState,
                 pipeVars>>

\* Mutant: stop() does not take m_lock.
StopLockNot(t) ==
  /\ pc[t] = "stopLock"
  /\ m_playing' = FALSE
  /\ Goto(t, "codecStop")
  /\ UNCHANGED <<m_lock, m_repeat, m_anim_file, shown, playState, pipeVars>>

\* The lock_guard inside stop(); m_lock is not recursive.
StopLock(t) ==
  /\ pc[t] = "stopLock" /\ m_lock = Free
  /\ m_playing' = FALSE
  /\ Goto(t, "codecStop")
  /\ UNCHANGED <<m_lock, m_repeat, m_anim_file, shown, playState, pipeVars>>

StopCodec(t) ==
  /\ \/ pc[t] = "codecStop" /\ BeginStop /\ Goto(t, "codecWait")
     \/ pc[t] = "codecWait" /\ EndStop /\ Goto(t, "reset")
  /\ UNCHANGED <<m_lock, m_playing, m_repeat, m_anim_file, shown, playState>>

\* reset_play_status(), which holds no lock; play_frame() then returns.
StopReset(t) ==
  /\ pc[t] = "reset"
  /\ m_is_image' = FALSE
  /\ m_current_repeat' = 0
  /\ m_current_frames' = 0
  /\ pos' = 0
  /\ m_anim_file' = NoFile
  /\ Goto(t, IF t = PlayTask THEN "delay" ELSE "idle")
  /\ m_lock' = IF t = PlayTask THEN Free ELSE m_lock
  /\ UNCHANGED <<m_playing, m_repeat, shown, pipeVars>>

Stop(t) == StopLock(t) \/ StopCodec(t) \/ StopReset(t)
-----------------------------------------------------------------------------
(* The control thread. *)

\* begin(), which IvyAnim::play() calls once for a driver.
Begin ==
  /\ pc[Control] = "idle" /\ pc[PlayTask] = "none"
  /\ Goto(PlayTask, "delay")
  /\ UNCHANGED <<m_lock, m_playing, m_repeat, m_anim_file, shown, playState,
                 pipeVars>>

\* anim_bind_assets(): m_playing is set, without the lock, before the file is
\* opened; a play task that already runs finds no file in between.
BindAssets ==
  /\ pc[Control] = "idle" /\ ~m_playing
  /\ m_playing' = TRUE
  /\ Goto(Control, "open")
  /\ UNCHANGED <<m_lock, m_repeat, m_anim_file, shown, playState, pipeVars>>

BindOpen ==
  /\ pc[Control] = "open"
  /\ m_anim_file' \in Assets
  /\ Goto(Control, "idle")
  /\ UNCHANGED <<m_lock, m_playing, m_repeat, shown, playState, pipeVars>>

SetRepeat ==
  /\ pc[Control] = "idle"
  /\ m_repeat' \in Repeats
  /\ UNCHANGED <<pc, m_lock, m_playing, m_anim_file, shown, playState,
                 pipeVars>>

\* The decoder works on its own.
Decoder == (Release \/ Drop) /\ UNCHANGED driverVars

PlayFrame == PlayEnter \/ PlayCheckEof \/ PlayReadFrame \/ PlayDecodeOrSkip
             \/ PlayCount

Next ==
  \/ PlayFrame \/ Decoder \/ BindOpen
  \/ \E t \in Threads : Stop(t)
  \/ Begin \/ BindAssets \/ SetRepeat \/ StopCall

Spec == Init /\ [][Next]_vars

\* Both threads run whenever they can and the decoder works.  The play task
\* sleeps ten ticks with m_lock free between two frames, so neither thread is
\* kept from the lock forever.
Fairness ==
  /\ WF_vars(PlayFrame) /\ SF_vars(PlayEnter)
  /\ WF_vars(Decoder) /\ WF_vars(BindOpen)
  /\ \A t \in Threads : SF_vars(StopLock(t)) /\ WF_vars(StopCodec(t))
                        /\ WF_vars(StopReset(t))

FairSpec == Spec /\ Fairness
-----------------------------------------------------------------------------
(* Properties. *)

InBody == pc[PlayTask] \in {"eof", "read", "send", "count"}

\* Every variable of the player keeps its type.
TypeOK ==
  /\ pc \in [Threads -> PlayLabels \cup ControlLabels]
  /\ pc[PlayTask] \in PlayLabels /\ pc[Control] \in ControlLabels
  /\ m_lock \in {Free, PlayTask}
  /\ m_playing \in BOOLEAN /\ m_is_image \in BOOLEAN
  /\ m_repeat \in Repeats \cup {0} /\ m_current_repeat \in Nat
  /\ m_current_frames \in Nat
  /\ m_anim_file \in Assets \cup {NoFile}
  /\ pos \in Nat /\ shown \in BOOLEAN
  /\ hand \in Frame \cup {None} /\ flight \in Seq(Frame)
  /\ stopping \in BOOLEAN

\* While stop() drains the decoder and resets the play state without a lock,
\* the play task is not inside play_frame()'s loop: the two threads are, for
\* the codec, the single owner it is written for.
OwnerSerialized ==
  pc[Control] \in {"codecStop", "codecWait", "reset"} =>
    ~InBody /\ hand = None

\* play_frame() ends a playback whose frames have been read, or whose next frame
\* is cut off, with stop(): after that nothing is playing.
PlaybackEnds == pc[PlayTask] = "stopLock" /\ pos > 0 ~> ~m_playing

\* Unless a playback has ended by itself, the play task leaves play_frame()
\* whenever it has entered it, although decode_frame() may block in it ...
PlayFrameReturns ==
  [](pc[PlayTask] # "stopLock") =>
    (InBody ~> pc[PlayTask] = "delay")

\* ... and a stop() of the control thread returns.
StopReturns ==
  [](pc[PlayTask] # "stopLock") =>
    (pc[Control] = "stopLock" ~> pc[Control] = "idle")
=============================================================================
