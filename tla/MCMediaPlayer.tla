---------------------------- MODULE MCMediaPlayer ---------------------------
(* The media player over its video transport, for model checking.          *)
EXTENDS MediaPlayer

MCStreams == <<"low", "high">>

FairSpec == PlayerSpec /\ PlayerFairness
=============================================================================
