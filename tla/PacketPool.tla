----------------------------- MODULE PacketPool -----------------------------
(***************************************************************************)
(* What the receive-buffer pool promises, without lists or interrupts: a   *)
(* frame that fits is accepted whenever a buffer is free, is copied, waits,*)
(* is handled once and gives its buffer back; of the frames that wait, the *)
(* newest is handled first.                                                *)
(***************************************************************************)
EXTENDS Naturals, Sequences

CONSTANTS Slots, MaxFrames, Oversize, NoFrame

VARIABLES
  free,      \* the slots that hold nothing
  filling,   \* the slots the driver copies a frame into
  waiting,   \* the slots whose frame waits to be handled, newest last
  handling,  \* the slots whose frame is being handled: one at most
  holds,     \* the frame of each slot
  offered    \* number of frames offered so far

pool == <<free, filling, waiting, handling, holds, offered>>

Init == /\ free = Slots /\ filling = {} /\ waiting = <<>> /\ handling = {}
        /\ holds = [s \in Slots |-> NoFrame]
        /\ offered = 0

(* The newest frame is refused only for want of a slot or for its length. *)
Refuse == /\ offered < MaxFrames
          /\ free = {} \/ offered + 1 \in Oversize
          /\ offered' = offered + 1
          /\ UNCHANGED <<free, filling, waiting, handling, holds>>

Accept(s) == /\ offered < MaxFrames
             /\ s \in free /\ offered + 1 \notin Oversize
             /\ offered' = offered + 1
             /\ free' = free \ {s}
             /\ filling' = filling \cup {s}
             /\ holds' = [holds EXCEPT ![s] = offered + 1]
             /\ UNCHANGED <<waiting, handling>>

Complete(s) == /\ s \in filling
               /\ filling' = filling \ {s}
               /\ waiting' = Append(waiting, s)
               /\ UNCHANGED <<free, handling, holds, offered>>

Handle == /\ handling = {} /\ waiting # <<>>
          /\ handling' = {waiting[Len(waiting)]}
          /\ waiting'  = SubSeq(waiting, 1, Len(waiting) - 1)
          /\ UNCHANGED <<free, filling, holds, offered>>

Finish(s) == /\ s \in handling
             /\ handling' = {}
             /\ free' = free \cup {s}
             /\ holds' = [holds EXCEPT ![s] = NoFrame]
             /\ UNCHANGED <<filling, waiting, offered>>

Next == \/ Refuse \/ Handle
        \/ \E s \in Slots : Accept(s) \/ Complete(s) \/ Finish(s)

Spec == Init /\ [][Next]_pool
=============================================================================
