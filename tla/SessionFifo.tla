---------------------------- MODULE SessionFifo ----------------------------
(***************************************************************************)
(* What the WeCom adapter promises for the messages of one chat session:   *)
(* they stand in line in the order the socket delivered them, the handler  *)
(* is given only the message at the head of the line, and one at a time;   *)
(* a message may also leave the head of the line without being handled     *)
(* (duplicate, slash command, blocked user, /stop).  The adapter's queue   *)
(* of slots, worker tasks and cancellations is shown to implement this     *)
(* in InboundQueue.                                                        *)
(***************************************************************************)
EXTENDS Sequences

CONSTANTS Frames,   \* the callback frames of the session
          None      \* stands for "no frame"

VARIABLES line,     \* the frames that still hold a place, oldest first
          running   \* the frame the handler works on, or None

vars == <<line, running>>

Init == /\ line = <<>>
        /\ running = None

\* The socket delivers f: it takes the last place.
Arrive(f) == /\ \A i \in DOMAIN line : line[i] # f
             /\ line' = Append(line, f)
             /\ UNCHANGED running

\* The handler starts on the oldest frame.
Begin == /\ running = None
         /\ line # <<>>
         /\ running' = Head(line)
         /\ UNCHANGED line

\* The handler returns, fails or is cancelled.
End == /\ running # None
       /\ running' = None
       /\ line' = Tail(line)

\* The oldest frame leaves without having been handled.
Discard == /\ running = None
           /\ line # <<>>
           /\ line' = Tail(line)
           /\ UNCHANGED running

Next == \/ \E f \in Frames : Arrive(f)
        \/ Begin
        \/ End
        \/ Discard

Spec == Init /\ [][Next]_vars
=============================================================================
