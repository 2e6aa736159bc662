---------------------------- MODULE FrameChannel ----------------------------
(***************************************************************************)
(* What one direction of the Ethernet core promises to the software above  *)
(* it: a channel that may lose frames but never damages, duplicates or     *)
(* reorders them.  Frames are numbered in the order in which they enter    *)
(* the channel; a frame that was damaged before it entered may be lost but *)
(* never comes out.                                                        *)
(***************************************************************************)
EXTENDS Naturals, Sequences

VARIABLES
  entered,   \* for each frame put into the channel so far: is it undamaged?
  out        \* the numbers of the frames that came out, oldest first

vars == <<entered, out>>

Init ==
  /\ entered = <<>>
  /\ out = <<>>

(* A frame enters the channel. *)
Enter ==
  /\ \E good \in BOOLEAN : entered' = Append(entered, good)
  /\ out' = out

(* An undamaged frame younger than everything that came out comes out;     *)
(* the frames in between are lost.                                         *)
Deliver ==
  /\ \E f \in DOMAIN entered :
       /\ entered[f]
       /\ \A i \in DOMAIN out : out[i] < f
       /\ out' = Append(out, f)
  /\ entered' = entered

Next == Enter \/ Deliver

Spec == Init /\ [][Next]_vars
=============================================================================
