------------------------------ MODULE FramePipe ------------------------------
(***************************************************************************)
(* What MjpegCodec promises its owner, without tasks, mutexes, event bits  *)
(* or pieces: frames that are handed over leave in the order they came,    *)
(* no more than the decode queue and the decode task hold are in flight,   *)
(* and a stop() that returns has left at most one frame in flight.         *)
(***************************************************************************)
EXTENDS Integers, Sequences, SequencesExt

CONSTANTS
  DecodeCap,  \* NUMBER_OF_DECODE_BUFFER
  Frame       \* names of frame buffers

ASSUME PipeAssumption == DecodeCap \in Nat \ {0} /\ 0 \notin Frame

VARIABLES
  hand,       \* the frame read and not yet handed over, None if none
  flight,     \* frames handed over and not yet released, oldest first
  stopping    \* a stop() is in progress

None == 0

pipeVars == <<hand, flight, stopping>>

PipeInit == hand = None /\ flight = <<>> /\ stopping = FALSE

\* read_frame() allocates a buffer that is not in use.
Read ==
  /\ hand = None
  /\ hand' \in Frame \ ToSet(flight)
  /\ UNCHANGED <<flight, stopping>>

\* decode_frame() waits for room: the queue and the frame being decoded.
Submit ==
  /\ hand # None /\ Len(flight) <= DecodeCap
  /\ flight' = Append(flight, hand)
  /\ hand' = None
  /\ UNCHANGED stopping

\* The owner frees the frame instead.
Skip ==
  /\ hand # None
  /\ hand' = None
  /\ UNCHANGED <<flight, stopping>>

\* The oldest frame has been decoded.
Release ==
  /\ flight # <<>>
  /\ flight' = Tail(flight)
  /\ UNCHANGED <<hand, stopping>>

BeginStop ==
  /\ ~stopping
  /\ stopping' = TRUE
  /\ UNCHANGED <<hand, flight>>

\* stop() drops the oldest frame the decode task has not taken out of the
\* queue: the first in flight, or the second when the task has one.
Drop ==
  /\ stopping
  /\ \E i \in DOMAIN flight : i <= 2 /\ flight' = RemoveAt(flight, i)
  /\ UNCHANGED <<hand, stopping>>

EndStop ==
  /\ stopping /\ Len(flight) <= 1
  /\ stopping' = FALSE
  /\ UNCHANGED <<hand, flight>>

PipeNext ==
  Read \/ Submit \/ Skip \/ Release \/ BeginStop \/ Drop \/ EndStop

\* The pipeline works off what it was given, and a stop() comes to its end.
PipeFairness ==
  /\ WF_pipeVars(Release \/ Drop)
  /\ WF_pipeVars(EndStop)

\* What never happens, and what does happen.
PipeSafety == PipeInit /\ [][PipeNext]_pipeVars
PipeSpec   == PipeSafety /\ PipeFairness
=============================================================================
