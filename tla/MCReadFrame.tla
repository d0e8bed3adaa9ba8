----------------------------- MODULE MCReadFrame -----------------------------
(* ReadFrame for TLC: films of up to MaxFilm frames with bodies of up to      *)
(* MaxBody bytes, the last of them perhaps cut off.                           *)
EXTENDS ReadFrame, SequencesExt

CONSTANTS MaxBody, MaxFilm

\* What may stand between the FFD8 and the FFD9 of a frame.
Bodies ==
  {b \in UNION {[1 .. n -> Byte] : n \in 1 .. MaxBody} :
     \A j \in 1 .. Len(b) - 1 : b[j] = "FF" => b[j + 1] # "D9"}

JpegFrame(body) == <<"FF", "D8">> \o body \o <<"FF", "D9">>

\* A cut-off frame ends in its body, not behind an FF.
Tails == {<<>>} \cup {<<"FF", "D8">> \o b : b \in {c \in Bodies : Last(c) # "FF"}}

\* Films are built front to back: a frame more behind the whole frames of f.
AddFrame(f, frame) ==
  LET end == Len(f.bytes) + Len(frame)
  IN [bytes  |-> f.bytes \o frame,
      frames |-> f.frames + 1,
      cut    |-> [k \in 0 .. f.frames + 1 |->
                    IF k <= f.frames THEN f.cut[k] ELSE end]]

WholeFilms[n \in 0 .. MaxFilm] ==
  IF n = 0 THEN {[bytes |-> <<>>, frames |-> 0, cut |-> [k \in 0 .. 0 |-> 0]]}
  ELSE {AddFrame(f, JpegFrame(b)) : f \in WholeFilms[n - 1], b \in Bodies}

SmallFilms ==
  {[f EXCEPT !.bytes = f.bytes \o t] :
     f \in UNION {WholeFilms[n] : n \in 0 .. MaxFilm}, t \in Tails}
=============================================================================
