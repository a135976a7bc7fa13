---------------------------- MODULE MCVoiceLink ----------------------------
(* Recordings of one and of two chunks, through a socket that holds one.   *)
(* Each scene has the presses and the events of one kind of trouble.       *)
EXTENDS VoiceLink

Calm == [presses |-> 2, taps |-> 0, cancels |-> 0, resets |-> 0, faults |-> 0]

AllScenes ==
  {[Calm EXCEPT !.faults = 2],
   [Calm EXCEPT !.taps = 2],
   [Calm EXCEPT !.resets = 1, !.faults = 1],
   [Calm EXCEPT !.resets = 1, !.cancels = 1],
   [Calm EXCEPT !.cancels = 1, !.taps = 1]}
=============================================================================
