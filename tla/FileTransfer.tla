---------------------------- MODULE FileTransfer ----------------------------
(***************************************************************************)
(* Stop-and-wait transfer of a file between the host scripts (ethBase.py,  *)
(* ethSendData.py, ethRcvData.py and their variable-size versions) and the *)
(* board (eth_rcv_file, eth_send_file of iob_eth.c), over a line that may  *)
(* lose frames, with time-outs that may be too short.                      *)
(*                                                                         *)
(* Either end can be the sender.  Both start with a synchronisation frame  *)
(* and its answer; then each frame is echoed by the receiver.  Frames      *)
(* carry no sequence number and no kind: the receiver takes whatever comes *)
(* next, the sender takes any frame as the echo of its last one.           *)
(*                                                                         *)
(* Foreign frames (dropped by RecvFrame and eth_rcv_frame) are left out.   *)
(***************************************************************************)
EXTENDS Integers, SequencesExt, FiniteSetsExt

CONSTANTS
  ETH_NBYTES,          \* payload of a full frame
  ETH_MINIMUM_NBYTES,  \* shortest payload on the line
  Files,               \* files to transfer: sequences of bytes
  Junk,                \* what the board's memory held before
  MaxLosses,           \* bound: frames lost
  MaxEarly             \* bound: time-outs with the answer still on its way

ASSUME TransferAssumption ==
  /\ ETH_NBYTES \in Nat \ {0} /\ ETH_MINIMUM_NBYTES \in 1..ETH_NBYTES
  /\ Junk \in Nat \ {0} /\ \A f \in Files : f \in Seq(Nat) /\ Len(f) > 0
  /\ MaxLosses \in Nat /\ MaxEarly \in Nat

VARIABLES
  dir,    \* "send": host to board; "receive": board to host
  sized,  \* the size goes first (the variable-size scripts)
  file,   \* the sender's file
  sst,    \* the sender: "sync", "pinged", "send", "wait", "done"
  k,      \* items acknowledged
  errs,   \* byte errors the sender reports at the end
  rst,    \* the receiver: "sync", "size", "data", "done"
  size,   \* the file size the receiver goes by
  got,    \* what it has stored, frame by frame
  there,  \* frames on their way to the receiver
  back,   \* frames on their way to the sender
  losses, \* frames lost, by kind
  early   \* time-outs that were too short

vars == <<dir, sized, file, sst, k, errs, rst, size, got, there, back, losses, early>>
sender == <<sst, k, errs>>
receiver == <<rst, size, got>>
setting == <<dir, sized, file>>

HostSends == dir = "send"

(* A block of n bytes of the board's memory that starts with s. *)
Memory(s, n) == [i \in 1..n |-> IF i <= Len(s) THEN s[i] ELSE Junk]

(* The host pads a short payload with zeros ...                            *)
FormPacket(payload) ==
  payload \o [i \in 1..Max({0, ETH_MINIMUM_NBYTES - Len(payload)}) |-> 0]

(* ... the board sends what lies behind it. *)
BoardPacket(s) == Memory(s, Max({Len(s), ETH_MINIMUM_NBYTES}))

Packet(host, s) == IF host THEN FormPacket(s) ELSE BoardPacket(s)

NumFrames(bytes) == (bytes - 1) \div ETH_NBYTES + 1

Chunk(j) == SubSeq(file, (j - 1) * ETH_NBYTES + 1, Min({j * ETH_NBYTES, Len(file)}))

(* What the sender has to send: the size, if it is to go first, and the    *)
(* file in frames.                                                         *)
SizeItems == IF sized THEN <<<<Len(file)>>>> ELSE <<>>
Items == SizeItems \o [j \in 1..NumFrames(Len(file)) |-> Chunk(j)]

DifferNothing(a, b) == 0  \* mutant: the echo is not looked at

Differ(a, b) == Cardinality({i \in 1..Min({Len(a), Len(b)}) : a[i] # b[i]})

(* Byte errors of an echo: the host compares as far as both go (zip), the  *)
(* board what it has sent with what it has received into its buffer.       *)
EchoErrors(item, echo) ==
  IF HostSends THEN Differ(item, echo) ELSE Differ(item, Memory(echo, Len(item)))

(* Errors of the size are reported at once and not counted. *)
Counted(item) == IF k < Len(SizeItems) THEN 0 ELSE item

Send(frame) == there' = Append(there, frame)

(* Any frame is the answer to the last one. *)
RecvFrame(q) == Head(q)

Answered == back # <<>>

-----------------------------------------------------------------------------
(* The sender. *)

\* SyncAckFirst: ping
SyncPing ==
  /\ sst = "sync"
  /\ Send(Packet(HostSends, <<>>))
  /\ sst' = "pinged"
  /\ UNCHANGED <<setting, k, errs, receiver, back, losses, early>>

\* SyncAckFirst: any answer ends it
SyncAnswered ==
  /\ sst = "pinged" /\ Answered
  /\ back' = Tail(back)
  /\ sst' = "send"
  /\ UNCHANGED <<setting, k, errs, receiver, there, losses, early>>

(* A time-out comes when nothing is on its way, or too early. *)
Expires ==
  \/ there = <<>> /\ back = <<>> /\ early' = early
  \/ (there # <<>> \/ back # <<>>) /\ early < MaxEarly /\ early' = early + 1

\* SyncAckFirst: no answer in time, ping again
SyncTimeout ==
  /\ sst = "pinged"
  /\ Expires
  /\ sst' = "sync"
  /\ UNCHANGED <<setting, k, errs, receiver, there, back, losses>>

\* SendAndAck, eth_send_file_impl: the next frame
SendItem ==
  /\ sst = "send" /\ k < Len(Items)
  /\ Send(Packet(HostSends, Items[k + 1]))
  /\ sst' = "wait"
  /\ UNCHANGED <<setting, k, errs, receiver, back, losses, early>>

\* SendFile ends: report the errors
SendDone ==
  /\ sst = "send" /\ k = Len(Items)
  /\ sst' = "done"
  /\ UNCHANGED <<setting, k, errs, receiver, there, back, losses, early>>

\* SendAndAck, eth_send_file_impl: a frame comes back
AckItem ==
  /\ sst = "wait" /\ Answered
  /\ errs' = errs + Counted(EchoErrors(Items[k + 1], RecvFrame(back)))
  /\ back' = Tail(back)
  /\ k' = k + 1
  /\ sst' = "send"
  /\ UNCHANGED <<setting, receiver, there, losses, early>>

\* SendAndAck: no echo in time, count the payload and send it again.  The
\* board, as the sender, waits for ever.
Resend ==
  /\ sst = "wait" /\ HostSends
  /\ Expires
  /\ errs' = errs + Counted(Len(Items[k + 1]))
  /\ Send(FormPacket(Items[k + 1]))
  /\ UNCHANGED <<setting, sst, k, receiver, back, losses>>

Sender ==
  \/ SyncPing \/ SyncAnswered \/ SyncTimeout
  \/ SendItem \/ SendDone \/ AckItem \/ Resend

-----------------------------------------------------------------------------
(* The receiver: it may look for a frame as long as it likes. *)

LastFrameMore == Max({1, size \div ETH_NBYTES + 1})  \* mutant: at a multiple

LastFrame == Max({1, NumFrames(size)})

(* bytes_to_receive of the board's next frame *)
Wanted ==
  IF Len(got) + 1 = LastFrame THEN size - (LastFrame - 1) * ETH_NBYTES ELSE ETH_NBYTES

(* Where the receiver starts once it knows the size: ethRcvData.py does    *)
(* nothing for an empty file, the board waits for one frame all the same.  *)
Start(n) == IF HostSends \/ n > 0 THEN "data" ELSE "done"

Reply(frame) == there' = Tail(there) /\ back' = Append(back, frame)

\* SyncAckLast
SyncReply ==
  /\ rst = "sync" /\ there # <<>>
  /\ Reply(Packet(~HostSends, <<>>))
  /\ rst' = IF sized THEN "size" ELSE "data"
  /\ UNCHANGED <<setting, sender, size, got, losses, early>>

\* RcvVariableFile, eth_rcv_variable_file
ReceiveSize ==
  /\ rst = "size" /\ there # <<>>
  /\ size' = Head(there)[1]
  /\ rst' = Start(Head(there)[1])
  /\ Reply(IF HostSends THEN Memory(Head(there), ETH_MINIMUM_NBYTES)
                        ELSE FormPacket(Head(there)))
  /\ UNCHANGED <<setting, sender, got, losses, early>>

\* RcvFile with RcvAndAck: the payload as it came, padding included.
\* eth_rcv_file_impl: as many bytes as it wants.
Stored(frame) == IF HostSends THEN Memory(SubSeq(frame, 1, Min({Wanted, Len(frame)})), Wanted)
                              ELSE frame

ReceiveItem ==
  /\ rst = "data" /\ there # <<>>
  /\ got' = Append(got, Stored(Head(there)))
  /\ rst' = IF Len(got) + 1 = LastFrame THEN "done" ELSE "data"
  /\ Reply(Packet(~HostSends, Stored(Head(there))))
  /\ UNCHANGED <<setting, sender, size, losses, early>>

Receiver == SyncReply \/ ReceiveSize \/ ReceiveItem

-----------------------------------------------------------------------------
(* The line loses a frame. *)
Lost == losses.ping + losses.frame + losses.echo

LoseThere ==
  /\ there # <<>> /\ Lost < MaxLosses
  /\ there' = Tail(there)
  /\ losses' = IF sst \in {"sync", "pinged"} THEN [losses EXCEPT !.ping = @ + 1]
                                             ELSE [losses EXCEPT !.frame = @ + 1]
  /\ UNCHANGED <<setting, sender, receiver, back, early>>

LoseBack ==
  /\ back # <<>> /\ Lost < MaxLosses
  /\ back' = Tail(back)
  /\ losses' = [losses EXCEPT !.echo = @ + 1]
  /\ UNCHANGED <<setting, sender, receiver, there, early>>

Init ==
  /\ dir \in {"send", "receive"} /\ sized \in BOOLEAN /\ file \in Files
  /\ sst = "sync" /\ k = 0 /\ errs = 0
  /\ rst = "sync" /\ size = (IF sized THEN 0 ELSE Len(file)) /\ got = <<>>
  /\ there = <<>> /\ back = <<>>
  /\ losses = [ping |-> 0, frame |-> 0, echo |-> 0] /\ early = 0

Next == Sender \/ Receiver \/ LoseThere \/ LoseBack

Spec == Init /\ [][Next]_vars

(* Both programs run; a time-out comes in the end. *)
FairSpec == Spec /\ WF_vars(Sender) /\ WF_vars(Receiver)
-----------------------------------------------------------------------------
(***************************************************************************)
(* Properties.                                                             *)
(***************************************************************************)
Intact == SubSeq(FlattenSeq(got), 1, Len(file)) = file

(* A sender that ends and reports no errors has delivered the file: every  *)
(* byte of it is in the receiver's memory or file, whatever was lost,      *)
(* repeated or taken for something else before.  This is for files without *)
(* the bytes that lay in the board's memory (Junk): behind a short echo    *)
(* the board compares with those (iob_eth.c:651), and finds such a file    *)
(* delivered when it was not.  And it is not so when the board sends the   *)
(* size first: eth_send_variable_file does not look at the echo of the     *)
(* size, and a ping taken for the size goes unnoticed.                     *)
CleanMeansIntact ==
  sst = "done" /\ errs = 0 /\ (HostSends \/ ~sized) => rst = "done" /\ Intact

(* A line that loses no echo, with time-outs longer than the round trip:   *)
(* the transfer ends at both ends and the file is intact, even when the    *)
(* host, which repeats frames, or the board, which repeats pings, lost     *)
(* some.                                                                   *)
Benign == early = 0 /\ losses.echo = 0 /\ (HostSends \/ losses.frame = 0)

TransferEnds == []Benign => <>(sst = "done" /\ rst = "done" /\ Intact)
=============================================================================
