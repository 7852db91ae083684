---------------------------- MODULE BufMgrProofs ----------------------------
(***************************************************************************)
(* Proofs about BufMgr for any number of buffers and frames: with the      *)
(* driver's upcalls masked, the two lists and the two holders always       *)
(* partition the pool, no frame is lost or handled twice, and the lists    *)
(* implement PacketPool.                                                   *)
(***************************************************************************)
EXTENDS BufMgr, SequenceTheorems, TLAPS

-----------------------------------------------------------------------------
(* Linked lists and the sequences they spell.                              *)

LEMMA PushSeq ==
  ASSUME NEW S, NEW s \in Seq(S), NEW b \in S
  PROVE  /\ Push(s, b) \in Seq(S)
         /\ Len(Push(s, b)) = Len(s) + 1
         /\ \A i \in 1..Len(s) : Push(s, b)[i] = s[i]
         /\ Push(s, b)[Len(s) + 1] = b
BY DEF Push

LEMMA PopSeq ==
  ASSUME NEW S, NEW s \in Seq(S), s # <<>>
  PROVE  /\ Len(s) \in Nat \ {0}
         /\ Pop(s) \in Seq(S)
         /\ Len(Pop(s)) = Len(s) - 1
         /\ \A i \in 1..Len(s) - 1 : Pop(s)[i] = s[i]
<1>1. Len(s) \in Nat \ {0}
  BY EmptySeq, LenProperties
<1>2. \A i \in 1..Len(s) - 1 : s[i] \in S
  BY <1>1, ElementOfSeq
<1>3. /\ SubSeq(s, 1, Len(s) - 1) \in Seq(S)
      /\ Len(SubSeq(s, 1, Len(s) - 1))
           = IF 1 <= Len(s) - 1 THEN (Len(s) - 1) - 1 + 1 ELSE 0
      /\ \A i \in 1..(Len(s) - 1) - 1 + 1 : SubSeq(s, 1, Len(s) - 1)[i] = s[1 + i - 1]
  <2>1. 1 \in Int /\ Len(s) - 1 \in Int
    BY <1>1
  <2> QED
    BY ONLY <1>2, <2>1, SubSeqProperties
<1>4. /\ Len(SubSeq(s, 1, Len(s) - 1)) = Len(s) - 1
      /\ \A i \in 1..Len(s) - 1 : SubSeq(s, 1, Len(s) - 1)[i] = s[i]
  <2> DEFINE p == SubSeq(s, 1, Len(s) - 1)
             n == Len(s)
  <2>1. /\ n \in Nat \ {0}
        /\ Len(p) = IF 1 <= n - 1 THEN (n - 1) - 1 + 1 ELSE 0
        /\ \A i \in 1..(n - 1) - 1 + 1 : p[i] = s[1 + i - 1]
    BY <1>1, <1>3
  <2> HIDE DEF p, n
  <2>2. /\ Len(p) = n - 1
        /\ \A i \in 1..n - 1 : p[i] = s[i]
    BY <2>1
  <2> QED
    BY <2>2 DEF p, n
<1> QED
  BY <1>1, <1>3, <1>4 DEF Pop

(* Unlinking the head of a list leaves the rest of it. *)
LEMMA PopSpells ==
  ASSUME NEW nxt, NEW head, NEW s \in Seq(Buffers),
         Spells(nxt, head, s), head # NULL
  PROVE  /\ Pop(s) \in Seq(Buffers)
         /\ Spells(nxt, nxt[head], Pop(s))
         /\ head \in Members(s)
         /\ Members(Pop(s)) = Members(s) \ {head}
<1>1. s # <<>> /\ head = s[Len(s)]
  BY DEF Spells
<1>2. /\ Len(s) \in Nat \ {0}
      /\ Pop(s) \in Seq(Buffers)
      /\ Len(Pop(s)) = Len(s) - 1
      /\ \A i \in 1..Len(s) - 1 : Pop(s)[i] = s[i]
  BY <1>1, PopSeq
<1>3. Members(Pop(s)) = Members(s) \ {head}
  <2>1. \A i \in 1..Len(s) - 1 : s[i] # head
    BY <1>1, <1>2 DEF Spells
  <2>2. Members(Pop(s)) = {s[i] : i \in 1..Len(s) - 1}
    BY <1>2 DEF Members
  <2>3. 1..Len(s) = (1..Len(s) - 1) \cup {Len(s)}
    BY <1>2
  <2>4. Members(s) = {s[i] : i \in 1..Len(s) - 1} \cup {head}
    BY <1>1, <2>3 DEF Members
  <2> QED
    BY <2>1, <2>2, <2>4
<1>4. nxt[head] = IF Pop(s) = <<>> THEN NULL ELSE Pop(s)[Len(Pop(s))]
  BY <1>1, <1>2, EmptySeq DEF Spells
<1>5. Spells(nxt, nxt[head], Pop(s))
  BY <1>2, <1>4 DEF Spells
<1>6. head \in Members(s)
  BY <1>1, <1>2 DEF Members
<1> QED
  BY <1>2, <1>3, <1>5, <1>6

(* Linking a buffer in front of a list it is not on. *)
LEMMA PushSpells ==
  ASSUME NEW nxt, NEW head, NEW s \in Seq(Buffers), NEW b \in Buffers,
         Spells(nxt, head, s), b \notin Members(s), nxt[b] = head
  PROVE  /\ Push(s, b) \in Seq(Buffers)
         /\ Spells(nxt, b, Push(s, b))
         /\ Members(Push(s, b)) = Members(s) \cup {b}
<1>1. /\ Push(s, b) \in Seq(Buffers)
      /\ Len(Push(s, b)) = Len(s) + 1
      /\ \A i \in 1..Len(s) : Push(s, b)[i] = s[i]
      /\ Push(s, b)[Len(s) + 1] = b
      /\ Len(s) \in Nat
  <2>1. Len(s) \in Nat
    BY LenProperties
  <2> QED
    BY <2>1, PushSeq
<1>2. Members(Push(s, b)) = Members(s) \cup {b}
  BY <1>1 DEF Members
<1>3. Push(s, b) # <<>>
  BY <1>1, EmptySeq
<1>4. \A i, j \in 1..Len(Push(s, b)) : Push(s, b)[i] = Push(s, b)[j] => i = j
  <2>1. \A i \in 1..Len(s) : s[i] # b
    BY DEF Members
  <2>2. \A i, j \in 1..Len(s) : s[i] = s[j] => i = j
    BY DEF Spells
  <2> QED
    BY <1>1, <2>1, <2>2
<1>5. \A i \in 1..Len(Push(s, b)) :
        nxt[Push(s, b)[i]] = IF i = 1 THEN NULL ELSE Push(s, b)[i - 1]
  BY <1>1, EmptySeq DEF Spells
<1> QED
  BY <1>1, <1>2, <1>3, <1>4, <1>5 DEF Spells

(* A list does not notice a store to a buffer that is not on it. *)
LEMMA SpellsElsewhere ==
  ASSUME NEW nxt, NEW nxt2, NEW head, NEW s \in Seq(Buffers),
         Spells(nxt, head, s), \A b \in Members(s) : nxt2[b] = nxt[b]
  PROVE  Spells(nxt2, head, s)
BY DEF Spells, Members

-----------------------------------------------------------------------------
(* The inductive invariant: initially.                                     *)

LEMMA InitInvariant == Init => IInv
<1> SUFFICES ASSUME Init PROVE IInv
  OBVIOUS
<1> USE BufMgrAssumption DEF Init, buffer_init
<1>1. freeSeq \in Seq(Buffers) /\ Len(freeSeq) = BufferCount
  BY DEF Buffers
<1>2. readySeq \in Seq(Buffers) /\ Len(readySeq) = 0 /\ Members(readySeq) = {}
  BY DEF Members
<1>3. TypeOK
  BY <1>1, <1>2 DEF TypeOK, Buffers, NULL, Frames, BufferState
<1>4. MaskedContexts
  BY DEF MaskedContexts
<1>5. Members(freeSeq) = Buffers
  <2>1. \A b \in Buffers : BufferCount + 1 - b \in 1..BufferCount
                           /\ freeSeq[BufferCount + 1 - b] = b
    BY DEF Buffers
  <2>2. \A i \in 1..BufferCount : freeSeq[i] \in Buffers
    BY DEF Buffers
  <2> QED
    BY <1>1, <2>1, <2>2 DEF Members
<1>6. Spells(next, g_free_list, freeSeq)
  <2>1. freeSeq # <<>> /\ freeSeq[Len(freeSeq)] = 1
    <3>1. freeSeq # <<>>
      BY <1>1, EmptySeq
    <3>2. freeSeq[Len(freeSeq)] = 1
      BY <1>1
    <3> QED
      BY <3>1, <3>2
  <2>2. \A i \in 1..Len(freeSeq) :
          next[freeSeq[i]] = IF i = 1 THEN NULL ELSE freeSeq[i - 1]
    BY <1>1 DEF Buffers
  <2>3. \A i, j \in 1..Len(freeSeq) : freeSeq[i] = freeSeq[j] => i = j
    BY <1>1
  <2> QED
    BY <2>1, <2>2, <2>3 DEF Spells
<1>7. Spells(next, g_ready_list, readySeq)
  BY <1>2 DEF Spells
<1>8. ListsPartitionPool
  BY <1>2, <1>5, <1>6, <1>7 DEF ListsPartitionPool, InState, Unlinked, NULL
<1>9. FrameConservation
  BY DEF FrameConservation, InState, Held
<1> QED
  BY <1>3, <1>4, <1>8, <1>9 DEF IInv

-----------------------------------------------------------------------------
(* The inductive invariant: one lemma per action that changes a list.      *)

LEMMA AcquireEndInvariant ==
  ASSUME IInv, UpcallsMasked, AcquireEnd
  PROVE  IInv'
<1> USE DEF IInv, AcquireEnd
<1>1. /\ node \in Buffers /\ node = g_free_list /\ node # NULL
      /\ arrived \in Frames /\ arrived \notin packets_recv
      /\ freeSeq \in Seq(Buffers) /\ readySeq \in Seq(Buffers)
      /\ state \in [Buffers -> BufferState]
      /\ next \in [Buffers -> Buffers \cup {NULL}]
  BY DEF TypeOK, MaskedContexts
<1>2. /\ Pop(freeSeq) \in Seq(Buffers)
      /\ Spells(next, next[node], Pop(freeSeq))
      /\ node \in Members(freeSeq)
      /\ Members(Pop(freeSeq)) = Members(freeSeq) \ {node}
  <2>1. Spells(next, g_free_list, freeSeq)
    BY DEF ListsPartitionPool
  <2> QED
    BY ONLY <1>1, <2>1, PopSpells
<1>3. state[node] = "FREE"
  BY <1>2 DEF ListsPartitionPool, InState
<1>4. /\ InState("FREE")' = InState("FREE") \ {node}
      /\ InState("PENDING")' = InState("PENDING") \cup {node}
      /\ InState("READY")' = InState("READY")
      /\ InState("USER")' = InState("USER")
  BY <1>1, <1>3 DEF InState
<1>5. TypeOK'
  BY <1>1, <1>2 DEF TypeOK, UpcallReturns, BufferState, NULL, Frames
<1>6. MaskedContexts'
  BY DEF MaskedContexts, UpcallReturns, TypeOK
<1>7. ListsPartitionPool'
  <2>1. Spells(next', g_free_list', freeSeq')
    <3>1. \A b \in Members(Pop(freeSeq)) : next'[b] = next[b]
      BY <1>1, <1>2
    <3>2. Spells(next', next[node], Pop(freeSeq))
      BY ONLY <1>2, <3>1, SpellsElsewhere
    <3> QED
      BY <1>1, <3>2
  <2>2. Spells(next', g_ready_list', readySeq')
    <3>1. node \notin Members(readySeq)
      BY <1>3 DEF ListsPartitionPool, InState
    <3>2. \A b \in Members(readySeq) : next'[b] = next[b]
      BY <1>1, <3>1
    <3>3. Spells(next, g_ready_list, readySeq)
      BY DEF ListsPartitionPool
    <3>4. Spells(next', g_ready_list, readySeq)
      BY ONLY <1>1, <3>2, <3>3, SpellsElsewhere
    <3> QED
      BY <3>4
  <2>3. Members(freeSeq') = InState("FREE")'
    BY <1>2, <1>4 DEF ListsPartitionPool
  <2>4. Members(readySeq') = InState("READY")' \ Unlinked'
    BY <1>4 DEF ListsPartitionPool, Unlinked, UpcallReturns
  <2>5. InState("USER")' = {buffer'} \ {NULL}
    BY <1>4 DEF ListsPartitionPool
  <2>6. \A b \in InState("PENDING")' \cup InState("USER")' : next'[b] = NULL
    BY <1>1, <1>4 DEF ListsPartitionPool, InState
  <2> QED
    BY <2>1, <2>2, <2>3, <2>4, <2>5, <2>6 DEF ListsPartitionPool
<1>8. FrameConservation'
  <2>1. data' = [data EXCEPT ![node] = arrived] /\ data \in [Buffers -> Frames \cup {NULL}]
    BY DEF TypeOK
  <2>2. Held' = Held \cup {node} /\ node \notin Held
    BY <1>3, <1>4 DEF Held, InState
  <2>3. \A b \in Buffers : data[b] # arrived
    <3>1. \A b \in Buffers : data[b] # NULL => data[b] \in packets_recv
      <4> SUFFICES ASSUME NEW b \in Buffers, data[b] # NULL
                   PROVE  data[b] \in packets_recv
        OBVIOUS
      <4>1. state[b] \in {"PENDING", "READY", "USER"}
        BY <1>1 DEF FrameConservation, BufferState
      <4>2. CASE b \in Held
        BY <4>2 DEF FrameConservation
      <4>3. CASE state[b] = "USER"
        BY <4>3 DEF TypeOK, FrameConservation, InState
      <4> QED
        BY <4>1, <4>2, <4>3 DEF Held, InState
    <3> QED
      BY <1>1, <3>1 DEF Frames, NULL
  <2>4. \A b \in Buffers : data'[b] = IF b = node THEN arrived ELSE data[b]
    BY <1>1, <2>1
  <2>5. \A b, c \in Buffers : data'[b] = data'[c] /\ data'[b] # NULL => b = c
    BY <2>3, <2>4 DEF FrameConservation
  <2>6. \A b \in Buffers : data'[b] = NULL <=> state'[b] = "FREE"
    BY <1>1, <2>4 DEF FrameConservation, Frames, NULL
  <2>7. {data'[b] : b \in Held'} = {data[b] : b \in Held} \cup {arrived}
    BY <1>1, <2>2, <2>4 DEF Held, InState
  <2>8. /\ packets_recv' = delivered' \cup {data'[b] : b \in Held'}
        /\ delivered' \cap {data'[b] : b \in Held'} = {}
    <3>1. arrived \notin delivered
      BY <1>1 DEF TypeOK
    <3> QED
      BY <2>7, <3>1 DEF FrameConservation
  <2>9. \A b \in InState("USER")' : data'[b] \in delivered'
    BY <1>3, <1>4, <2>4 DEF FrameConservation, InState
  <2> QED
    BY <2>5, <2>6, <2>8, <2>9 DEF FrameConservation
<1> QED
  BY <1>5, <1>6, <1>7, <1>8

LEMMA MarkReadyBeginInvariant ==
  ASSUME IInv, UpcallsMasked, NEW b \in Buffers, MarkReadyBegin(b)
  PROVE  IInv'
<1> USE DEF IInv, MarkReadyBegin
<1>1. /\ state[b] = "PENDING" /\ b # NULL /\ upcallPc = "idle"
      /\ freeSeq \in Seq(Buffers) /\ readySeq \in Seq(Buffers)
      /\ state \in [Buffers -> BufferState]
      /\ next \in [Buffers -> Buffers \cup {NULL}]
      /\ g_ready_list \in Buffers \cup {NULL}
  BY DEF TypeOK, CanUpcall, Buffers, NULL
<1>2. /\ InState("FREE")' = InState("FREE")
      /\ InState("PENDING")' = InState("PENDING") \ {b}
      /\ InState("READY")' = InState("READY") \cup {b}
      /\ InState("USER")' = InState("USER")
      /\ b \notin InState("READY") /\ b \in InState("PENDING")
  BY <1>1 DEF InState
<1>3. TypeOK'
  BY <1>1 DEF TypeOK, BufferState, history
<1>4. MaskedContexts'
  BY <1>1 DEF MaskedContexts, TypeOK, CanUpcall
<1>5. ListsPartitionPool'
  <2>1. b \notin Members(freeSeq) /\ b \notin Members(readySeq)
    BY <1>1 DEF ListsPartitionPool, InState
  <2>2. /\ \A c \in Members(freeSeq) : next'[c] = next[c]
        /\ \A c \in Members(readySeq) : next'[c] = next[c]
    BY <1>1, <2>1
  <2>3. Spells(next', g_free_list', freeSeq')
    <3>1. Spells(next, g_free_list, freeSeq)
      BY DEF ListsPartitionPool
    <3>2. Spells(next', g_free_list, freeSeq)
      BY ONLY <1>1, <2>2, <3>1, SpellsElsewhere
    <3> QED
      BY <3>2 DEF history
  <2>4. Spells(next', g_ready_list', readySeq')
    <3>1. Spells(next, g_ready_list, readySeq)
      BY DEF ListsPartitionPool
    <3>2. Spells(next', g_ready_list, readySeq)
      BY ONLY <1>1, <2>2, <3>1, SpellsElsewhere
    <3> QED
      BY <3>2 DEF history
  <2>5. Members(freeSeq') = InState("FREE")'
    BY <1>2 DEF ListsPartitionPool, history
  <2>6. Members(readySeq') = InState("READY")' \ Unlinked'
    BY <1>1, <1>2 DEF ListsPartitionPool, history, Unlinked
  <2>7. InState("USER")' = {buffer'} \ {NULL}
    BY <1>2 DEF ListsPartitionPool
  <2>8. \A c \in InState("PENDING")' \cup InState("USER")' : next'[c] = NULL
    BY <1>1, <1>2 DEF ListsPartitionPool, InState
  <2> QED
    BY <2>3, <2>4, <2>5, <2>6, <2>7, <2>8 DEF ListsPartitionPool
<1>6. FrameConservation'
  <2>1. Held' = Held
    BY <1>2 DEF Held
  <2>2. \A c \in Buffers : state'[c] = "FREE" <=> state[c] = "FREE"
    BY <1>1
  <2> QED
    BY <1>2, <2>1, <2>2 DEF FrameConservation
<1> QED
  BY <1>3, <1>4, <1>5, <1>6

LEMMA MarkReadyEndInvariant ==
  ASSUME IInv, UpcallsMasked, MarkReadyEnd
  PROVE  IInv'
<1> USE DEF IInv, MarkReadyEnd
<1>1. /\ node \in Buffers /\ node # NULL
      /\ state[node] = "READY" /\ next[node] = g_ready_list
      /\ readySeq \in Seq(Buffers)
  BY DEF TypeOK, MaskedContexts
<1>2. /\ InState("FREE")' = InState("FREE")
      /\ InState("PENDING")' = InState("PENDING")
      /\ InState("READY")' = InState("READY")
      /\ InState("USER")' = InState("USER")
      /\ node \in InState("READY")
  BY <1>1 DEF InState
<1>3. /\ Push(readySeq, node) \in Seq(Buffers)
      /\ Spells(next, node, Push(readySeq, node))
      /\ Members(Push(readySeq, node)) = Members(readySeq) \cup {node}
  <2>1. node \notin Members(readySeq)
    BY DEF ListsPartitionPool, Unlinked
  <2>2. Spells(next, g_ready_list, readySeq)
    BY DEF ListsPartitionPool
  <2> QED
    BY ONLY <1>1, <2>1, <2>2, PushSpells
<1>4. TypeOK'
  BY <1>1, <1>3 DEF TypeOK, UpcallReturns
<1>5. MaskedContexts'
  BY DEF MaskedContexts, UpcallReturns, TypeOK
<1>6. ListsPartitionPool'
  <2>1. Spells(next', g_free_list', freeSeq') /\ Members(freeSeq') = InState("FREE")'
    BY <1>2 DEF ListsPartitionPool
  <2>2. Spells(next', g_ready_list', readySeq')
    BY <1>3
  <2>3. Members(readySeq') = InState("READY")' \ Unlinked'
    BY <1>2, <1>3 DEF ListsPartitionPool, Unlinked, UpcallReturns
  <2>4. /\ InState("USER")' = {buffer'} \ {NULL}
        /\ \A c \in InState("PENDING")' \cup InState("USER")' : next'[c] = NULL
    BY <1>2 DEF ListsPartitionPool
  <2> QED
    BY <2>1, <2>2, <2>3, <2>4 DEF ListsPartitionPool
<1>7. FrameConservation'
  BY <1>2 DEF FrameConservation, Held
<1> QED
  BY <1>4, <1>5, <1>6, <1>7

LEMMA GetReadyInvariant ==
  ASSUME IInv, UpcallsMasked, buffer_get_ready
  PROVE  IInv'
<1> USE DEF IInv, buffer_get_ready
<1> DEFINE b == g_ready_list
<1>1. /\ b \in Buffers /\ b # NULL /\ buffer = NULL
      /\ upcallPc = "idle"
      /\ freeSeq \in Seq(Buffers) /\ readySeq \in Seq(Buffers)
      /\ state \in [Buffers -> BufferState]
      /\ next \in [Buffers -> Buffers \cup {NULL}]
  BY DEF TypeOK, MaskedContexts
<1>2. /\ Pop(readySeq) \in Seq(Buffers)
      /\ Spells(next, next[b], Pop(readySeq))
      /\ b \in Members(readySeq)
      /\ Members(Pop(readySeq)) = Members(readySeq) \ {b}
  <2>1. Spells(next, g_ready_list, readySeq)
    BY DEF ListsPartitionPool
  <2> QED
    BY ONLY <1>1, <2>1, PopSpells
<1>3. state[b] = "READY"
  BY <1>2 DEF ListsPartitionPool, InState
<1>4. /\ InState("FREE")' = InState("FREE")
      /\ InState("PENDING")' = InState("PENDING")
      /\ InState("READY")' = InState("READY") \ {b}
      /\ InState("USER")' = InState("USER") \cup {b}
  BY <1>1, <1>3 DEF InState
<1>5. /\ data[b] \in packets_recv /\ data[b] # NULL
      /\ \A c \in Held \ {b} : data[c] # data[b]
  BY <1>1, <1>3 DEF FrameConservation, Held, InState
<1>6. TypeOK'
  BY <1>1, <1>2, <1>5 DEF TypeOK, BufferState
<1>7. MaskedContexts'
  BY <1>1 DEF MaskedContexts
<1>8. ListsPartitionPool'
  <2>1. /\ \A c \in Members(freeSeq) : next'[c] = next[c]
        /\ \A c \in Members(Pop(readySeq)) : next'[c] = next[c]
    <3>1. b \notin Members(freeSeq)
      BY <1>3 DEF ListsPartitionPool, InState
    <3> QED
      BY <1>1, <1>2, <3>1
  <2>2. Spells(next', g_free_list', freeSeq')
    <3>1. Spells(next, g_free_list, freeSeq)
      BY DEF ListsPartitionPool
    <3>2. Spells(next', g_free_list, freeSeq)
      BY ONLY <1>1, <2>1, <3>1, SpellsElsewhere
    <3> QED
      BY <3>2
  <2>3. Spells(next', g_ready_list', readySeq')
    <3>1. Spells(next', next[b], Pop(readySeq))
      BY ONLY <1>2, <2>1, SpellsElsewhere
    <3> QED
      BY <3>1
  <2>4. Members(freeSeq') = InState("FREE")'
    BY <1>4 DEF ListsPartitionPool
  <2>5. Members(readySeq') = InState("READY")' \ Unlinked'
    BY <1>1, <1>2, <1>4 DEF ListsPartitionPool, Unlinked
  <2>6. InState("USER")' = {buffer'} \ {NULL}
    BY <1>1, <1>4 DEF ListsPartitionPool
  <2>7. \A c \in InState("PENDING")' \cup InState("USER")' : next'[c] = NULL
    BY <1>1, <1>4 DEF ListsPartitionPool, InState
  <2> QED
    BY <2>2, <2>3, <2>4, <2>5, <2>6, <2>7 DEF ListsPartitionPool
<1>9. FrameConservation'
  <2>1. Held' = Held \ {b} /\ b \in Held
    BY <1>1, <1>3, <1>4 DEF Held, InState
  <2>2. {data[c] : c \in Held} = {data[c] : c \in Held'} \cup {data[b]}
    BY <2>1
  <2>3. /\ packets_recv' = delivered' \cup {data'[c] : c \in Held'}
        /\ delivered' \cap {data'[c] : c \in Held'} = {}
    BY <1>5, <2>1, <2>2 DEF FrameConservation
  <2>4. \A c \in Buffers : state'[c] = "FREE" <=> state[c] = "FREE"
    BY <1>1, <1>3
  <2>5. \A c \in InState("USER")' : data'[c] \in delivered'
    BY <1>4 DEF FrameConservation
  <2> QED
    BY <2>3, <2>4, <2>5 DEF FrameConservation
<1> QED
  BY <1>6, <1>7, <1>8, <1>9

LEMMA ReleaseInvariant ==
  ASSUME IInv, UpcallsMasked, buffer_release
  PROVE  IInv'
<1> USE DEF IInv, buffer_release
<1>1. /\ buffer \in Buffers /\ buffer # NULL
      /\ upcallPc = "idle"
      /\ freeSeq \in Seq(Buffers) /\ readySeq \in Seq(Buffers)
      /\ state \in [Buffers -> BufferState]
      /\ next \in [Buffers -> Buffers \cup {NULL}]
      /\ data \in [Buffers -> Frames \cup {NULL}]
  BY DEF TypeOK, MaskedContexts
<1>2. state[buffer] = "USER"
  BY <1>1 DEF ListsPartitionPool, InState
<1>3. /\ InState("FREE")' = InState("FREE") \cup {buffer}
      /\ InState("PENDING")' = InState("PENDING")
      /\ InState("READY")' = InState("READY")
      /\ InState("USER")' = InState("USER") \ {buffer}
  BY <1>1, <1>2 DEF InState
<1>4. buffer \notin Members(freeSeq) /\ buffer \notin Members(readySeq)
  BY <1>2 DEF ListsPartitionPool, InState
<1>5. /\ \A c \in Members(freeSeq) : next'[c] = next[c]
      /\ \A c \in Members(readySeq) : next'[c] = next[c]
      /\ next'[buffer] = g_free_list
  BY <1>1, <1>4
<1>6. /\ Push(freeSeq, buffer) \in Seq(Buffers)
      /\ Spells(next', buffer, Push(freeSeq, buffer))
      /\ Members(Push(freeSeq, buffer)) = Members(freeSeq) \cup {buffer}
  <2>1. Spells(next, g_free_list, freeSeq)
    BY DEF ListsPartitionPool
  <2>2. Spells(next', g_free_list, freeSeq)
    BY ONLY <1>1, <1>5, <2>1, SpellsElsewhere
  <2> QED
    BY ONLY <1>1, <1>4, <1>5, <2>2, PushSpells
<1>7. TypeOK'
  BY <1>1, <1>6 DEF TypeOK, BufferState
<1>8. MaskedContexts'
  BY <1>1 DEF MaskedContexts
<1>9. ListsPartitionPool'
  <2>1. Spells(next', g_free_list', freeSeq')
    BY <1>6
  <2>2. Spells(next', g_ready_list', readySeq')
    <3>1. Spells(next, g_ready_list, readySeq)
      BY DEF ListsPartitionPool
    <3>2. Spells(next', g_ready_list, readySeq)
      BY ONLY <1>1, <1>5, <3>1, SpellsElsewhere
    <3> QED
      BY <3>2
  <2>3. Members(freeSeq') = InState("FREE")'
    BY <1>3, <1>6 DEF ListsPartitionPool
  <2>4. Members(readySeq') = InState("READY")' \ Unlinked'
    BY <1>3 DEF ListsPartitionPool, Unlinked
  <2>5. InState("USER")' = {buffer'} \ {NULL}
    BY <1>3 DEF ListsPartitionPool
  <2>6. \A c \in InState("PENDING")' \cup InState("USER")' : next'[c] = NULL
    BY <1>1, <1>2, <1>3 DEF ListsPartitionPool, InState
  <2> QED
    BY <2>1, <2>2, <2>3, <2>4, <2>5, <2>6 DEF ListsPartitionPool
<1>10. FrameConservation'
  <2>1. Held' = Held /\ buffer \notin Held
    BY <1>2, <1>3 DEF Held, InState
  <2>2. \A c \in Buffers : data'[c] = IF c = buffer THEN NULL ELSE data[c]
    BY <1>1
  <2>3. {data'[c] : c \in Held'} = {data[c] : c \in Held}
    BY <2>1, <2>2 DEF Held, InState
  <2>4. \A c \in Buffers : data'[c] = NULL <=> state'[c] = "FREE"
    BY <1>1, <2>2 DEF FrameConservation
  <2>5. \A c, d \in Buffers : data'[c] = data'[d] /\ data'[c] # NULL => c = d
    BY <2>2 DEF FrameConservation
  <2>6. \A c \in InState("USER")' : data'[c] \in delivered'
    BY <1>3, <2>2 DEF FrameConservation, InState
  <2> QED
    BY <2>3, <2>4, <2>5, <2>6 DEF FrameConservation
<1> QED
  BY <1>7, <1>8, <1>9, <1>10

-----------------------------------------------------------------------------
(* The other steps leave the lists, the states and the frames alone.       *)

LEMMA ListsUnchangedInvariant ==
  ASSUME IInv, UNCHANGED <<lists, buffer, packets_recv, delivered, history>>,
         Unlinked' = Unlinked
  PROVE  ListsPartitionPool' /\ FrameConservation'
<1> USE DEF IInv, lists, history
<1>1. \A st : InState(st)' = InState(st)
  BY DEF InState
<1>2. ListsPartitionPool'
  BY <1>1 DEF ListsPartitionPool
<1>3. FrameConservation'
  BY <1>1 DEF FrameConservation, Held
<1> QED
  BY <1>2, <1>3

LEMMA NextInvariant ==
  ASSUME IInv, UpcallsMasked, [Next]_vars
  PROVE  IInv'
<1> USE DEF Unlinked
<1>1. CASE AcquireFails
  <2>1. UNCHANGED <<lists, buffer, packets_recv, delivered, history>> /\ Unlinked' = Unlinked
    BY <1>1 DEF AcquireFails
  <2>2. TypeOK'
    BY <1>1, BufMgrAssumption DEF IInv, TypeOK, AcquireFails, lists, history, Frames
  <2>3. MaskedContexts'
    BY <1>1 DEF IInv, MaskedContexts, AcquireFails, CanUpcall, lists, history
  <2> QED
    BY <2>1, <2>2, <2>3, ListsUnchangedInvariant DEF IInv
<1>2. CASE AcquireBegin
  <2>1. UNCHANGED <<lists, buffer, packets_recv, delivered, history>> /\ Unlinked' = Unlinked
    BY <1>2 DEF AcquireBegin, CanUpcall
  <2>2. TypeOK'
    BY <1>2, BufMgrAssumption DEF IInv, TypeOK, AcquireBegin, NoBuffer, lists, history, Frames, NULL
  <2>3. MaskedContexts'
    <3>1. arrived + 1 \in Frames \ (Oversize \cup packets_recv)
      BY <1>2, BufMgrAssumption DEF IInv, TypeOK, AcquireBegin, NoBuffer, Frames
    <3>2. running = "tick" => tickPc # "idle"
      BY DEF IInv, MaskedContexts
    <3> QED
      BY <1>2, <3>1, <3>2 DEF MaskedContexts, AcquireBegin, lists
  <2> QED
    BY <2>1, <2>2, <2>3, ListsUnchangedInvariant DEF IInv
<1>3. CASE AcquireEnd
  BY <1>3, AcquireEndInvariant
<1>4. CASE \E b \in Buffers : MarkReadyBegin(b)
  BY <1>4, MarkReadyBeginInvariant
<1>5. CASE MarkReadyEnd
  BY <1>5, MarkReadyEndInvariant
<1>6. CASE TickBegin
  <2>1. UNCHANGED <<lists, buffer, packets_recv, delivered, history>> /\ Unlinked' = Unlinked
    BY <1>6 DEF TickBegin
  <2>2. TypeOK'
    BY <1>6 DEF IInv, TypeOK, TickBegin, CanTick, lists, history
  <2>3. MaskedContexts'
    BY <1>6 DEF IInv, MaskedContexts, TickBegin, CanTick, lists
  <2> QED
    BY <2>1, <2>2, <2>3, ListsUnchangedInvariant DEF IInv
<1>7. CASE buffer_get_ready
  BY <1>7, GetReadyInvariant
<1>8. CASE buffer_release
  BY <1>8, ReleaseInvariant
<1>9. CASE TickEnd
  <2>1. UNCHANGED <<lists, buffer, packets_recv, delivered, history>> /\ Unlinked' = Unlinked
    BY <1>9 DEF TickEnd
  <2>2. TypeOK'
    BY <1>9 DEF IInv, TypeOK, TickEnd, lists, history
  <2>3. MaskedContexts'
    BY <1>9 DEF IInv, MaskedContexts, TickEnd, lists
  <2> QED
    BY <2>1, <2>2, <2>3, ListsUnchangedInvariant DEF IInv
<1>10. CASE UNCHANGED vars
  <2>1. UNCHANGED <<lists, buffer, packets_recv, delivered, history>> /\ Unlinked' = Unlinked
    BY <1>10 DEF vars
  <2>2. TypeOK' /\ MaskedContexts'
    BY <1>10 DEF IInv, TypeOK, MaskedContexts, vars, lists, history
  <2> QED
    BY <2>1, <2>2, ListsUnchangedInvariant DEF IInv
<1> QED
  BY <1>1, <1>2, <1>3, <1>4, <1>5, <1>6, <1>7, <1>8, <1>9, <1>10
     DEF Next, Upcall, Tick

-----------------------------------------------------------------------------
(* The theorems.                                                           *)

(* Every pointer of bufmgr.c is NULL or an element of g_buffers, and the   *)
(* locals of the upcalls and of protocol_process hold a buffer exactly     *)
(* while they need one.                                                    *)
THEOREM TypeCorrect == UpcallsMasked => (Spec => []TypeOK)
<1> SUFFICES ASSUME UpcallsMasked PROVE Spec => []TypeOK
  OBVIOUS
<1>1. Init => IInv
  BY InitInvariant
<1>2. IInv /\ [Next]_vars => IInv'
  BY NextInvariant
<1>3. IInv => TypeOK
  BY DEF IInv
<1> QED
  BY <1>1, <1>2, <1>3, PTL DEF Spec

(* With masked upcalls the free list, the ready list, the driver and       *)
(* protocol_process always partition the pool, for any number of buffers:  *)
(* buffer_acquire, buffer_mark_ready, buffer_get_ready and buffer_release  *)
(* neither leak a buffer, nor link one twice, nor close a cycle.           *)
THEOREM PoolIsPartitioned == UpcallsMasked => (Spec => []ListsPartitionPool)
<1> SUFFICES ASSUME UpcallsMasked PROVE Spec => []ListsPartitionPool
  OBVIOUS
<1>1. Init => IInv
  BY InitInvariant
<1>2. IInv /\ [Next]_vars => IInv'
  BY NextInvariant
<1>3. IInv => ListsPartitionPool
  BY DEF IInv
<1> QED
  BY <1>1, <1>2, <1>3, PTL DEF Spec

(* With masked upcalls every frame that packets_recv counts is in exactly  *)
(* one PENDING or READY buffer or has been given to protocol_process, once.*)
THEOREM FramesAreConserved == UpcallsMasked => (Spec => []FrameConservation)
<1> SUFFICES ASSUME UpcallsMasked PROVE Spec => []FrameConservation
  OBVIOUS
<1>1. Init => IInv
  BY InitInvariant
<1>2. IInv /\ [Next]_vars => IInv'
  BY NextInvariant
<1>3. IInv => FrameConservation
  BY DEF IInv
<1> QED
  BY <1>1, <1>2, <1>3, PTL DEF Spec

-----------------------------------------------------------------------------
(* BufMgr implements PacketPool: what the lists of pointers do in several  *)
(* stores is, seen from outside, one step of a pool.                       *)

LEMMA EmptyFreeList ==
  ASSUME IInv, g_free_list = NULL
  PROVE  InState("FREE") = {}
<1>1. freeSeq \in Seq(Buffers) /\ Spells(next, g_free_list, freeSeq)
  BY DEF IInv, TypeOK, ListsPartitionPool
<1>2. Len(freeSeq) \in Nat /\ (freeSeq # <<>> => freeSeq[Len(freeSeq)] \in Buffers)
  BY <1>1, EmptySeq, LenProperties, ElementOfSeq
<1>3. freeSeq = <<>>
  BY <1>1, <1>2 DEF Spells, Buffers, NULL
<1>4. Members(freeSeq) = {}
  BY <1>3 DEF Members
<1> QED
  BY <1>4 DEF IInv, ListsPartitionPool

LEMMA ReadyHead ==
  ASSUME IInv, g_ready_list # NULL
  PROVE  /\ readySeq # <<>>
         /\ g_ready_list = readySeq[Len(readySeq)]
         /\ g_ready_list \in InState("READY")
<1>1. readySeq \in Seq(Buffers) /\ Spells(next, g_ready_list, readySeq)
  BY DEF IInv, TypeOK, ListsPartitionPool
<1>2. g_ready_list \in Members(readySeq)
  BY <1>1, PopSpells
<1> QED
  BY <1>1, <1>2 DEF IInv, ListsPartitionPool, Spells

-----------------------------------------------------------------------------
(* The initial states and the steps.                                       *)

LEMMA InitImplements == Init => Pool!Init
BY DEF Init, buffer_init, Pool!Init, InState, Unlinked

(* Steps that the pool does not see. *)
LEMMA StutterImplements ==
  ASSUME UNCHANGED <<state, data, readySeq>>, Unlinked' = Unlinked,
         (IF upcallPc = "unlink" THEN arrived - 1 ELSE arrived)'
           = IF upcallPc = "unlink" THEN arrived - 1 ELSE arrived
  PROVE  UNCHANGED Pool!pool
BY DEF Pool!pool, InState

LEMMA AcquireFailsImplements == ASSUME IInv, AcquireFails  PROVE Pool!Refuse
<1>1. upcallPc = "idle" /\ upcallPc' = "idle" /\ arrived' = arrived + 1
      /\ arrived < MaxFrames
  BY DEF AcquireFails, CanUpcall
<1>2. InState("FREE") = {} \/ arrived + 1 \in Oversize
  BY EmptyFreeList DEF AcquireFails, NoBuffer
<1>3. UNCHANGED <<state, data, node, readySeq>>
  BY DEF AcquireFails, lists, history
<1> QED
  BY <1>1, <1>2, <1>3 DEF Pool!Refuse, InState, Unlinked

LEMMA AcquireEndImplements ==
  ASSUME IInv, UpcallsMasked, AcquireEnd
  PROVE  Pool!Accept(node)
<1>1. /\ node \in Buffers /\ node = g_free_list /\ node # NULL
      /\ arrived \in Nat /\ arrived <= MaxFrames /\ arrived \notin Oversize
      /\ freeSeq \in Seq(Buffers)
      /\ state \in [Buffers -> BufferState]
  BY BufMgrAssumption DEF IInv, TypeOK, MaskedContexts, AcquireEnd, Frames
<1>2. state[node] = "FREE"
  <2>1. Spells(next, g_free_list, freeSeq) /\ Members(freeSeq) = InState("FREE")
    BY DEF IInv, ListsPartitionPool
  <2>2. node \in Members(freeSeq)
    BY ONLY <1>1, <2>1, PopSpells
  <2> QED
    BY <2>1, <2>2 DEF InState
<1>3. /\ InState("FREE")' = InState("FREE") \ {node}
      /\ InState("PENDING")' = InState("PENDING") \cup {node}
      /\ InState("USER")' = InState("USER")
      /\ node \in InState("FREE")
  BY <1>1, <1>2 DEF AcquireEnd, InState
<1>4. /\ upcallPc = "unlink" /\ upcallPc' = "idle"
      /\ arrived' = arrived /\ readySeq' = readySeq
      /\ data' = [data EXCEPT ![node] = arrived]
  BY DEF AcquireEnd, UpcallReturns
<1>5. (arrived - 1) + 1 = arrived /\ arrived - 1 < MaxFrames
  BY <1>1, BufMgrAssumption
<1> QED
  BY <1>1, <1>3, <1>4, <1>5 DEF Pool!Accept, Unlinked

LEMMA MarkReadyBeginImplements ==
  ASSUME IInv, NEW b \in Buffers, MarkReadyBegin(b)
  PROVE  UNCHANGED Pool!pool
<1>1. /\ state[b] = "PENDING" /\ state' = [state EXCEPT ![b] = "READY"]
      /\ state \in [Buffers -> BufferState]
      /\ upcallPc = "idle" /\ upcallPc' = "link" /\ node' = b
      /\ UNCHANGED <<data, arrived, readySeq>>
  BY DEF IInv, TypeOK, MarkReadyBegin, CanUpcall, history
<1>2. /\ InState("FREE")' = InState("FREE")
      /\ InState("PENDING")' = InState("PENDING") \ {b}
      /\ InState("USER")' = InState("USER")
      /\ b \in InState("PENDING")
  BY <1>1 DEF InState
<1> QED
  BY <1>1, <1>2 DEF Pool!pool, Unlinked

LEMMA MarkReadyEndImplements ==
  ASSUME IInv, UpcallsMasked, MarkReadyEnd
  PROVE  Pool!Complete(node)
<1>1. /\ upcallPc = "link" /\ upcallPc' = "idle"
      /\ state[node] = "READY" /\ readySeq' = Append(readySeq, node)
      /\ UNCHANGED <<state, data, arrived>>
  BY DEF IInv, MaskedContexts, MarkReadyEnd, UpcallReturns, Push
<1>2. \A st \in BufferState : InState(st)' = InState(st)
  BY <1>1 DEF InState
<1>3. node \notin InState("PENDING")
  BY <1>1 DEF InState
<1> QED
  BY <1>1, <1>2, <1>3 DEF Pool!Complete, Unlinked, BufferState

LEMMA GetReadyImplements ==
  ASSUME IInv, UpcallsMasked, buffer_get_ready
  PROVE  Pool!Handle
<1> DEFINE b == g_ready_list
<1>1. b \in Buffers /\ state[b] = "READY" /\ readySeq # <<>> /\ b = readySeq[Len(readySeq)]
  BY ReadyHead DEF buffer_get_ready, InState
<1>2. /\ state \in [Buffers -> BufferState] /\ state' = [state EXCEPT ![b] = "USER"]
      /\ readySeq' = SubSeq(readySeq, 1, Len(readySeq) - 1)
      /\ UNCHANGED <<data, arrived, upcallPc, node>>
  BY DEF IInv, TypeOK, buffer_get_ready, Pop
<1>3. InState("USER") = {}
  BY DEF IInv, TypeOK, ListsPartitionPool, buffer_get_ready
<1>4. /\ InState("FREE")' = InState("FREE")
      /\ InState("PENDING")' = InState("PENDING")
      /\ InState("USER")' = {b}
  BY <1>1, <1>2, <1>3 DEF InState
<1> QED
  BY <1>1, <1>2, <1>3, <1>4 DEF Pool!Handle, Unlinked

LEMMA ReleaseImplements ==
  ASSUME IInv, buffer_release
  PROVE  Pool!Finish(buffer)
<1>1. /\ buffer \in Buffers /\ buffer # NULL
      /\ state \in [Buffers -> BufferState] /\ state' = [state EXCEPT ![buffer] = "FREE"]
      /\ data' = [data EXCEPT ![buffer] = NULL]
      /\ UNCHANGED <<arrived, upcallPc, node, readySeq>>
  BY DEF IInv, TypeOK, buffer_release
<1>2. InState("USER") = {buffer}
  BY <1>1 DEF IInv, ListsPartitionPool
<1>3. /\ InState("FREE")' = InState("FREE") \cup {buffer}
      /\ InState("PENDING")' = InState("PENDING")
      /\ InState("USER")' = {}
  BY <1>1, <1>2 DEF InState
<1> QED
  BY <1>1, <1>2, <1>3 DEF Pool!Finish, Unlinked

LEMMA StepImplements ==
  ASSUME IInv, UpcallsMasked, [Next]_vars
  PROVE  [Pool!Next]_(Pool!pool)
<1>1. CASE AcquireFails
  BY <1>1, AcquireFailsImplements DEF Pool!Next
<1>2. CASE AcquireBegin
  <2>1. /\ upcallPc = "idle" /\ upcallPc' = "unlink"
        /\ arrived' - 1 = arrived /\ UNCHANGED <<state, data, readySeq>>
    BY <1>2 DEF IInv, TypeOK, AcquireBegin, CanUpcall, lists, history
  <2> QED
    BY <2>1, StutterImplements DEF Unlinked
<1>3. CASE AcquireEnd
  <2>1. node \in Buffers
    BY <1>3 DEF IInv, TypeOK, AcquireEnd
  <2> QED
    BY <1>3, <2>1, AcquireEndImplements DEF Pool!Next
<1>4. CASE \E b \in Buffers : MarkReadyBegin(b)
  BY <1>4, MarkReadyBeginImplements
<1>5. CASE MarkReadyEnd
  <2>1. node \in Buffers
    BY <1>5 DEF IInv, TypeOK, MarkReadyEnd
  <2> QED
    BY <1>5, <2>1, MarkReadyEndImplements DEF Pool!Next
<1>6. CASE TickBegin \/ TickEnd \/ UNCHANGED vars
  <2>1. UNCHANGED <<state, data, readySeq, arrived, upcallPc, node>>
    BY <1>6 DEF TickBegin, TickEnd, vars, lists, history
  <2> QED
    BY <2>1, StutterImplements DEF Unlinked
<1>7. CASE buffer_get_ready
  BY <1>7, GetReadyImplements DEF Pool!Next
<1>8. CASE buffer_release
  <2>1. buffer \in Buffers
    BY <1>8 DEF IInv, TypeOK, buffer_release
  <2> QED
    BY <1>8, <2>1, ReleaseImplements DEF Pool!Next
<1> QED
  BY <1>1, <1>2, <1>3, <1>4, <1>5, <1>6, <1>7, <1>8 DEF Next, Upcall, Tick

-----------------------------------------------------------------------------
(* With masked upcalls, the linked lists of bufmgr.c are the pool that the *)
(* driver and protocol_process take them for: a frame that fits is taken   *)
(* whenever a buffer is free, and the newest that waits is handled first.  *)
THEOREM PoolIsImplemented == UpcallsMasked => (Spec => PoolSpec)
<1> SUFFICES ASSUME UpcallsMasked PROVE Spec => PoolSpec
  OBVIOUS
<1>1. IInv /\ [Next]_vars => IInv'
  BY NextInvariant
<1>2. IInv /\ [Next]_vars => [Pool!Next]_(Pool!pool)
  BY StepImplements
<1> QED
  BY <1>1, <1>2, InitInvariant, InitImplements, PTL DEF Spec, PoolSpec, Pool!Spec
===============================================================================
