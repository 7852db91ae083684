------------------------------- MODULE BufMgr -------------------------------
(***************************************************************************)
(* The receive-buffer pool of the resident server: server/bufmgr.c, the    *)
(* packet driver's two upcalls (server/pktdrv.c) that fill it and the      *)
(* drain loop of the timer handler (server/protocol.c) that empties it.    *)
(*                                                                         *)
(* Two interrupt contexts share the two linked lists.  The packet driver   *)
(* calls up once to ask for a buffer and once more when it has copied the  *)
(* frame.  The timer handler pops ready buffers one at a time, each pop    *)
(* and each release between cli and sti.  The upcalls have no cli of their *)
(* own, so an upcall is modelled as two steps with its racy store between: *)
(* UpcallsMasked says whether the driver keeps interrupts off around it.   *)
(***************************************************************************)
EXTENDS Naturals, Sequences

CONSTANTS
  BufferCount,    (* buffer_init's count: server/main.c clamps it to 1..10  *)
  MaxFrames,      (* bound: frames the wire offers in one behaviour         *)
  Oversize,       (* the frames longer than BUFFER_MAX_SIZE                 *)
  UpcallsMasked,  (* the driver calls up with interrupts disabled           *)
  NestedUpcalls   (* a frame may arrive while the timer handler runs: the   *)
                  (* driver may enable interrupts while it sends a reply    *)

ASSUME BufMgrAssumption ==
  /\ BufferCount \in Nat \ {0}
  /\ MaxFrames \in Nat
  /\ Oversize \subseteq 1..MaxFrames
  /\ UpcallsMasked \in BOOLEAN
  /\ NestedUpcalls \in BOOLEAN

Buffers == 1..BufferCount   \* the elements of g_buffers, as pointers
NULL    == 0
Frames  == 1..MaxFrames     \* frames, numbered as the wire offers them

BufferState == {"FREE", "PENDING", "READY", "USER"}

VARIABLES
  g_free_list,   \* head of the free list
  g_ready_list,  \* head of the ready list
  next,          \* Buffer.next
  state,         \* Buffer.state
  data,          \* the frame in Buffer.data and Buffer.bytes, NULL when clear
  running,       \* the context the CPU executes
  upcallPc,      \* where an unfinished upcall stands
  node,          \* the upcall's local: node in buffer_acquire, buf in buffer_mark_ready
  tickPc,        \* where protocol_process stands
  buffer,        \* protocol_process's local
  arrived,       \* number of frames offered so far
  packets_recv,  \* the frames counted by g_pktdrv_stats.packets_recv
  delivered,     \* history: the frames protocol_process has been given
  freeSeq,       \* history: the free list as a stack, its head last
  readySeq       \* history: the ready list as a stack, its head last

lists   == <<g_free_list, g_ready_list, next, state, data>>
history == <<freeSeq, readySeq>>
vars == <<lists, running, upcallPc, node, tickPc, buffer, arrived,
          packets_recv, delivered, history>>

Push(s, b) == Append(s, b)
Pop(s)     == SubSeq(s, 1, Len(s) - 1)

-----------------------------------------------------------------------------
(* buffer_init: one free list through the whole array. *)
buffer_init ==
  /\ g_free_list  = 1
  /\ g_ready_list = NULL
  /\ next  = [b \in Buffers |-> IF b = BufferCount THEN NULL ELSE b + 1]
  /\ state = [b \in Buffers |-> "FREE"]
  /\ data  = [b \in Buffers |-> NULL]
  /\ freeSeq  = [i \in 1..BufferCount |-> BufferCount + 1 - i]
  /\ readySeq = <<>>

Init ==
  /\ buffer_init
  /\ running = "program" /\ upcallPc = "idle" /\ tickPc = "idle"
  /\ node = NULL /\ buffer = NULL
  /\ arrived = 0 /\ packets_recv = {} /\ delivered = {}

-----------------------------------------------------------------------------
(* Interrupt nesting.  The driver is not re-entrant and the timer handler  *)
(* runs before the end-of-interrupt, so each context is active at most     *)
(* once; the context that interrupts runs to its end first.                *)

CanUpcall == /\ upcallPc = "idle"
             /\ running = "program" \/ (NestedUpcalls /\ running = "tick")

CanTick == /\ tickPc = "idle"
           /\ running = "program" \/ (~UpcallsMasked /\ running = "upcall")

UpcallReturns == /\ upcallPc' = "idle"
                 /\ node' = NULL
                 /\ running' = IF tickPc = "idle" THEN "program" ELSE "tick"

-----------------------------------------------------------------------------
(* pktdrv_receive_func, first call: buffer_acquire.                        *)

Bug_NoFreeCheck(f) == f \in Oversize      \* mutant: the empty pool is not tested
Bug_NoSizeCheck(f) == g_free_list = NULL  \* mutant: the length is not tested

NoBuffer(f) == g_free_list = NULL \/ f \in Oversize

(* buffer_acquire returns NULL: packets_dropped, and the driver is given   *)
(* es:di = 0 and discards the frame.                                       *)
AcquireFails ==
  /\ CanUpcall
  /\ arrived < MaxFrames
  /\ NoBuffer(arrived + 1)
  /\ arrived' = arrived + 1
  /\ UNCHANGED <<lists, running, upcallPc, node, tickPc, buffer,
                 packets_recv, delivered, history>>

(* The checks, and node = g_free_list. *)
AcquireBegin ==
  /\ CanUpcall
  /\ arrived < MaxFrames
  /\ ~NoBuffer(arrived + 1)
  /\ node' = g_free_list
  /\ arrived' = arrived + 1
  /\ upcallPc' = "unlink"
  /\ running' = "upcall"
  /\ UNCHANGED <<lists, tickPc, buffer, packets_recv, delivered, history>>

(* Mutant: the buffer handed to the driver stays on the free list. *)
Bug_NotUnlinked ==
  /\ running = "upcall" /\ upcallPc = "unlink"
  /\ state' = [state EXCEPT ![node] = "PENDING"]
  /\ data'  = [data EXCEPT ![node] = arrived]
  /\ packets_recv' = packets_recv \cup {arrived}
  /\ UpcallReturns
  /\ UNCHANGED <<g_free_list, g_ready_list, next, tickPc, buffer, arrived,
                 delivered, history>>

(* g_free_list = g_free_list->next, and the rest; the driver then copies   *)
(* the frame into the buffer it was given.                                 *)
AcquireEnd ==
  /\ running = "upcall" /\ upcallPc = "unlink"
  /\ g_free_list' = next[g_free_list]
  /\ state' = [state EXCEPT ![node] = "PENDING"]
  /\ next'  = [next EXCEPT ![node] = NULL]
  /\ data'  = [data EXCEPT ![node] = arrived]
  /\ packets_recv' = packets_recv \cup {arrived}
  /\ freeSeq' = Pop(freeSeq)
  /\ UpcallReturns
  /\ UNCHANGED <<g_ready_list, tickPc, buffer, arrived, delivered, readySeq>>

(* Mutant: the rest of the ready list is not linked behind the buffer. *)
Bug_ReadyListCut(b) ==
  /\ CanUpcall
  /\ state[b] = "PENDING"
  /\ state' = [state EXCEPT ![b] = "READY"]
  /\ node' = b
  /\ upcallPc' = "link"
  /\ running' = "upcall"
  /\ UNCHANGED <<g_free_list, g_ready_list, next, data, tickPc, buffer,
                 arrived, packets_recv, delivered, history>>

(* Second call, buffer_mark_ready: the buffer is linked in front of the    *)
(* ready list, first its next pointer and then the head.                   *)
MarkReadyBegin(b) ==
  /\ CanUpcall
  /\ state[b] = "PENDING"
  /\ state' = [state EXCEPT ![b] = "READY"]
  /\ next'  = [next EXCEPT ![b] = g_ready_list]
  /\ node' = b
  /\ upcallPc' = "link"
  /\ running' = "upcall"
  /\ UNCHANGED <<g_free_list, g_ready_list, data, tickPc, buffer, arrived,
                 packets_recv, delivered, history>>

MarkReadyEnd ==
  /\ running = "upcall" /\ upcallPc = "link"
  /\ g_ready_list' = node
  /\ readySeq' = Push(readySeq, node)
  /\ UpcallReturns
  /\ UNCHANGED <<g_free_list, next, state, data, tickPc, buffer, arrived,
                 packets_recv, delivered, freeSeq>>

-----------------------------------------------------------------------------
(* int08_handler -> protocol_process.                                      *)

TickBegin ==
  /\ CanTick
  /\ tickPc' = "loop"
  /\ running' = "tick"
  /\ UNCHANGED <<lists, upcallPc, node, buffer, arrived, packets_recv,
                 delivered, history>>

(* buffer_get_ready; the handler of the packet type then runs on it. *)
buffer_get_ready ==
  /\ running = "tick" /\ tickPc = "loop"
  /\ g_ready_list # NULL
  /\ buffer' = g_ready_list
  /\ g_ready_list' = next[g_ready_list]
  /\ state' = [state EXCEPT ![g_ready_list] = "USER"]
  /\ next'  = [next EXCEPT ![g_ready_list] = NULL]
  /\ delivered' = delivered \cup {data[g_ready_list]}
  /\ readySeq' = Pop(readySeq)
  /\ tickPc' = "handle"
  /\ UNCHANGED <<g_free_list, data, running, upcallPc, node, arrived,
                 packets_recv, freeSeq>>

buffer_release ==
  /\ running = "tick" /\ tickPc = "handle"
  /\ data'  = [data EXCEPT ![buffer] = NULL]
  /\ state' = [state EXCEPT ![buffer] = "FREE"]
  /\ next'  = [next EXCEPT ![buffer] = g_free_list]
  /\ g_free_list' = buffer
  /\ freeSeq' = Push(freeSeq, buffer)
  /\ buffer' = NULL
  /\ tickPc' = "loop"
  /\ UNCHANGED <<g_ready_list, running, upcallPc, node, arrived,
                 packets_recv, delivered, readySeq>>

(* buffer_get_ready returns NULL and the loop ends. *)
TickEnd ==
  /\ running = "tick" /\ tickPc = "loop"
  /\ g_ready_list = NULL
  /\ tickPc' = "idle"
  /\ running' = IF upcallPc = "idle" THEN "program" ELSE "upcall"
  /\ UNCHANGED <<lists, upcallPc, node, buffer, arrived, packets_recv,
                 delivered, history>>

-----------------------------------------------------------------------------
Upcall == \/ AcquireFails \/ AcquireBegin \/ AcquireEnd
          \/ \E b \in Buffers : MarkReadyBegin(b)
          \/ MarkReadyEnd

Tick == TickBegin \/ buffer_get_ready \/ buffer_release \/ TickEnd

Next == Upcall \/ Tick

Spec == Init /\ [][Next]_vars

(* The timer keeps ticking, and an upcall that has begun returns; the      *)
(* driver promises nothing about the frames it has not finished copying.   *)
Fairness == /\ WF_vars(Tick)
            /\ WF_vars(AcquireEnd \/ MarkReadyEnd)

FairSpec == Spec /\ Fairness

-----------------------------------------------------------------------------
(* Properties.                                                             *)

(* Types: every pointer is a buffer of the array or NULL, and the locals   *)
(* hold a buffer exactly while their context needs one.                    *)
TypeOK ==
  /\ g_free_list \in Buffers \cup {NULL}
  /\ g_ready_list \in Buffers \cup {NULL}
  /\ next \in [Buffers -> Buffers \cup {NULL}]
  /\ state \in [Buffers -> BufferState]
  /\ data \in [Buffers -> Frames \cup {NULL}]
  /\ running \in {"program", "upcall", "tick"}
  /\ upcallPc \in {"idle", "unlink", "link"}
  /\ node \in Buffers \cup {NULL}
  /\ node = NULL <=> upcallPc = "idle"
  /\ tickPc \in {"idle", "loop", "handle"}
  /\ buffer \in Buffers \cup {NULL}
  /\ buffer = NULL <=> tickPc # "handle"
  /\ arrived \in 0..MaxFrames
  /\ packets_recv \subseteq 1..arrived
  /\ delivered \subseteq packets_recv
  /\ freeSeq \in Seq(Buffers)
  /\ readySeq \in Seq(Buffers)

(* The chain of nxt pointers from head spells s, and does not loop. *)
Spells(nxt, head, s) ==
  /\ \A i, j \in 1..Len(s) : s[i] = s[j] => i = j
  /\ head = IF s = <<>> THEN NULL ELSE s[Len(s)]
  /\ \A i \in 1..Len(s) : nxt[s[i]] = IF i = 1 THEN NULL ELSE s[i - 1]

Members(s) == {s[i] : i \in 1..Len(s)}

InState(st) == {b \in Buffers : state[b] = st}

(* The buffer that buffer_mark_ready has marked and not yet linked. *)
Unlinked == IF upcallPc = "link" THEN {node} ELSE {}

(* The two lists and the two holders partition the pool: the free list     *)
(* links exactly the FREE buffers and the ready list exactly the READY     *)
(* ones, neither loops, and a PENDING or USER buffer is on no list.  It is *)
(* what buffer_acquire, buffer_mark_ready, buffer_get_ready and            *)
(* buffer_release rely on from each other when upcalls are masked.         *)
ListsPartitionPool ==
  /\ Spells(next, g_free_list, freeSeq)
  /\ Members(freeSeq) = InState("FREE")
  /\ Spells(next, g_ready_list, readySeq)
  /\ Members(readySeq) = InState("READY") \ Unlinked
  /\ InState("USER") = {buffer} \ {NULL}
  /\ \A b \in InState("PENDING") \cup InState("USER") : next[b] = NULL

(* No frame is lost or handled twice between the packet driver and the     *)
(* protocol: each frame that packets_recv counted is either still in one   *)
(* PENDING or READY buffer or has been given to protocol_process, never    *)
(* both and never in two buffers, and a FREE buffer is clear.              *)
Held == InState("PENDING") \cup InState("READY")

FrameConservation ==
  /\ \A b, c \in Buffers : data[b] = data[c] /\ data[b] # NULL => b = c
  /\ \A b \in Buffers : data[b] = NULL <=> state[b] = "FREE"
  /\ packets_recv = delivered \cup {data[b] : b \in Held}
  /\ delivered \cap {data[b] : b \in Held} = {}
  /\ \A b \in InState("USER") : data[b] \in delivered

(* With masked upcalls the contexts nest: an upcall runs to its end before *)
(* anything else, so what it read at its beginning still holds at its end. *)
MaskedContexts ==
  /\ running = "upcall" <=> upcallPc # "idle"
  /\ running = "program" => tickPc = "idle"
  /\ running = "tick" => tickPc # "idle"
  /\ upcallPc = "unlink" => /\ node = g_free_list
                            /\ arrived \in Frames \ (Oversize \cup packets_recv)
  /\ upcallPc = "link" => state[node] = "READY" /\ next[node] = g_ready_list

(* The inductive invariant behind ListsPartitionPool and FrameConservation.*)
IInv == TypeOK /\ MaskedContexts /\ ListsPartitionPool /\ FrameConservation

(* A frame that the driver has finished copying reaches protocol_process,  *)
(* however many frames of the (finite) burst overtake it on the ready list.*)
ReadyIsDelivered ==
  \A f \in Frames :
    (\E b \in Buffers : state[b] = "READY" /\ data[b] = f) ~> f \in delivered

(* The lists, the states and the interrupt steps implement the pool of     *)
(* PacketPool; a buffer changes hands there at the store that links or     *)
(* unlinks it here.                                                        *)
Pool == INSTANCE PacketPool WITH
          Slots    <- Buffers,
          NoFrame  <- NULL,
          free     <- InState("FREE"),
          filling  <- InState("PENDING") \cup Unlinked,
          waiting  <- readySeq,
          handling <- InState("USER"),
          holds    <- data,
          offered  <- IF upcallPc = "unlink" THEN arrived - 1 ELSE arrived

PoolSpec == Pool!Spec
=============================================================================
