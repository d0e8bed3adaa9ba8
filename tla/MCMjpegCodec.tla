---------------------------- MODULE MCMjpegCodec ----------------------------
(* MjpegCodec for TLC; the configurations give the constants their values. *)
EXTENDS MjpegCodec
=============================================================================
