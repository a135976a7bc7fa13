---------------------------- MODULE MCVoiceTurn ----------------------------
(* Three callers and two worker threads; what may happen is split into     *)
(* scenes, each with the actors of one kind of conflict.                   *)
EXTENDS VoiceTurn

CONSTANTS shapla, nahid, rahman, w1, w2

Panel(talk, caller) ==
  [talk |-> talk, caller |-> caller, operator |-> TRUE, called |-> TRUE,
   connected |-> FALSE, tap |-> FALSE]
CordOut == [Panel("None", NoOne) EXCEPT !.operator = FALSE]

Talks(caller, buttons) ==
  {Panel(b, caller) : b \in buttons \cup {"None"}} \cup {CordOut}

\* two workers at a time
Voices == [inputs |-> Talks(shapla, {"Ptt"}), threads |-> {w1, w2},
           texts |-> {}, presses |-> 2, resets |-> 0]
\* a worker and text turns that want the dialogue process, in a run that is reset
Dialogues == [inputs |-> Talks(shapla, {"Ptt"}), threads |-> {w1},
              texts |-> {"None"}, presses |-> 1, resets |-> 1]
\* reports by voice and by text, which want the mutex and the buttons
Reports == [inputs |-> Talks(shapla, {"Ptt", "Ems"}), threads |-> {w1},
            texts |-> {"Police"}, presses |-> 1, resets |-> 0]
\* Rahman interrogated by text
Interrogation == [inputs |-> {Panel("None", rahman), CordOut}, threads |-> {},
                  texts |-> {"None", "Ems"}, presses |-> 0, resets |-> 1]
\* Nahid reported; his call is connected or gone, or a tap is heard
Lines == [inputs |-> Talks(nahid, {"Police"})
            \cup {[CordOut EXCEPT !.connected = TRUE],
                  [Panel("Police", nahid) EXCEPT !.tap = TRUE],
                  [Panel("None", nahid) EXCEPT !.called = FALSE]},
          threads |-> {w1}, texts |-> {}, presses |-> 1, resets |-> 0]

AllScenes == {Voices, Dialogues, Reports, Interrogation, Lines}
=============================================================================
