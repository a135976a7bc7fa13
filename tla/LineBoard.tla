----------------------------- MODULE LineBoard -----------------------------
(***************************************************************************)
(* What the exchange promises its subscribers: a call appears on lines     *)
(* nobody uses, moves on only the way a call is served, and ends alone     *)
(* unless its callers were never served, or all calls are over.            *)
(*                                                                         *)
(* Exchange implements this board stage by stage; snapshots, clocks,       *)
(* shifts, gates and the debug surface are its business.                   *)
(***************************************************************************)
CONSTANTS
  Lines, NoLine,
  Placeholder, PlaceholderCallers,  \* callers without a destination name it
  BelaCallers                       \* callers who may be led to another line

VARIABLE board                      \* [Lines -> [phase, callee]]

Quiet == [phase |-> "None", callee |-> NoLine]
Busy == {l \in Lines : board[l].phase # "None"}
Served == {"OperatorSession", "Connected"}

Uses(caller, line) ==
  \/ caller = line
  \/ /\ board[caller].callee = line
     /\ ~(line = Placeholder /\ caller \in PlaceholderCallers)

IsFree(line) == \A l \in Busy : ~Uses(l, line)

\* the phases a call may take next: a tap connects without a ring
MovesOn ==
  [Waiting |-> {"OperatorSession", "Connected"},
   OperatorSession |-> {"AwaitingRouting", "Ringing", "Connected"},
   AwaitingRouting |-> {"Ringing", "Connected"},
   Ringing |-> {"AwaitingRouting", "Connected"},
   Connected |-> {}]

Init == board = [l \in Lines |-> Quiet]

Offer(caller, callee) ==
  /\ IsFree(caller)
  /\ IsFree(callee) \/ (caller \in PlaceholderCallers /\ callee = Placeholder)
  /\ board' = [board EXCEPT ![caller] = [phase |-> "Waiting", callee |-> callee]]

\* the operator's move on one call
Serve(l) ==
  \E phase \in {board[l].phase} \cup MovesOn[board[l].phase],
     callee \in {board[l].callee} \cup (IF l \in BelaCallers THEN Lines ELSE {}) :
    board' = [board EXCEPT ![l] = [phase |-> phase, callee |-> callee]]

\* patched calls that ring are connected together
PatchThrough ==
  \E through \in SUBSET {l \in Busy : board[l].phase = "Ringing"} :
    board' = [l \in Lines |-> IF l \in through
                             THEN [board[l] EXCEPT !.phase = "Connected"] ELSE board[l]]

\* a call ends alone; several at once are callers nobody serves, calls that
\* have been connected, or all there are
EndTogether(gone) ==
  \/ \E l \in gone : gone = {l}
  \/ \A l \in gone : board[l].phase \notin Served
  \/ \A l \in gone : board[l].phase = "Connected"
  \/ gone = Busy

End ==
  \E gone \in SUBSET Busy :
    /\ EndTogether(gone)
    /\ board' = [l \in Lines |-> IF l \in gone THEN Quiet ELSE board[l]]

Next ==
  \/ \E l \in Busy : Serve(l)
  \/ PatchThrough
  \/ End
  \/ \E caller, callee \in Lines : Offer(caller, callee)

Spec == Init /\ [][Next]_board
=============================================================================
