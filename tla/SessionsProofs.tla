--------------------------- MODULE SessionsProofs ---------------------------
(***************************************************************************)
(* Proofs about Sessions for any set of clients, size of the table,        *)
(* lifetime, length of the day and video modes: the cursors stay inside    *)
(* the frame, no client holds two slots, and nobody's session is taken     *)
(* before it has been silent for a lifetime.                               *)
(***************************************************************************)
EXTENDS Sessions, FiniteSetTheorems, TLAPS

USE SessionsAssumption, NoClientAssumption

Table == [Slots -> [client : Clients \cup {NoClient}, t_last_recv : 0..(Day - 1)]]

-----------------------------------------------------------------------------
(* The pruned table.                                                       *)

LEMMA PrunedTable ==
  ASSUME g_sessions \in Table
  PROVE  /\ Pruned \in Table
         /\ \A s \in Slots :
              \/ Pruned[s] = g_sessions[s] /\ ~Expired(s)
              \/ Pruned[s] = Unused /\ Expired(s)
         /\ Active \subseteq Clients
BY DEF Table, Pruned, Unused, Active

(* A packet sends no more lines than the frame has left. *)
LEMMA LengthInFrame ==
  ASSUME TypeOK, NEW cursor \in Nat
  PROVE  /\ From(cursor) \in Nat
         /\ From(cursor) + Length(From(cursor)) \in 1..Lines[mode]
<1>1. Lines[mode] \in Nat \ {0}
  BY DEF TypeOK, Modes
<1>2. From(cursor) \in Nat /\ From(cursor) < Lines[mode]
  BY <1>1 DEF From
<1> QED
  BY <1>1, <1>2 DEF Length

LEMMA LinesOfMode ==
  ASSUME NEW m \in Modes
  PROVE  1..Lines[m] \subseteq LinesOf(Kind(m))
BY DEF LinesOf

LEMMA CursorsAreNat ==
  ASSUME TypeOK
  PROVE  video_next_row \in Nat /\ cga_next_offset \in Nat
<1>1. \A kind : LinesOf(kind) \subseteq Nat
  BY DEF LinesOf, Modes
<1> QED
  BY <1>1 DEF TypeOK

(* Sending counts the clients a packet does not reach, within the bound. *)
LEMMA SendCountsLosses ==
  ASSUME TypeOK, NEW from, NEW n, Send(from, n)
  PROVE  losses' \in 0..MaxLosses
<1>1. g_sessions \in Table
  BY DEF TypeOK, Table
<1>2. PICK lost \in SUBSET Active :
        losses' = losses + Cardinality(lost) /\ losses' <= MaxLosses
  BY DEF Send
<1>3. Cardinality(lost) \in Nat
  BY <1>1, PrunedTable, FS_Subset, FS_CardinalityType
<1> QED
  BY <1>2, <1>3 DEF TypeOK

-----------------------------------------------------------------------------
(* Each action preserves the inductive invariant, and prunes only sessions *)
(* that have been silent.                                                  *)

NoneTaken == \A c \in Clients : Has(c) /\ ~Has(c)' => age[c] > Lifetime

LEMMA InitEstablishes == Init => IInv
<1> SUFFICES ASSUME Init PROVE IInv
  OBVIOUS
<1>1. TypeOK
  BY DEF Init, Cleared, TypeOK, Unused, Modes
<1>2. OneSlotEach /\ AgesOnTheClock
  BY DEF Init, OneSlotEach, AgesOnTheClock, Unused
<1> QED
  BY <1>1, <1>2 DEF IInv

(* A tick, whatever it sends. *)
LEMMA TickPreserves ==
  ASSUME IInv, Ticked
  PROVE  /\ g_sessions' \in Table /\ clock' \in 0..(Day - 1)
         /\ age' \in [Clients -> 0..(Lifetime + 1)]
         /\ OneSlotEach' /\ AgesOnTheClock' /\ NoneTaken
<1>1. /\ g_sessions \in Table /\ clock \in 0..(Day - 1)
      /\ age \in [Clients -> 0..(Lifetime + 1)]
  BY DEF IInv, TypeOK, Table
<1>2. /\ g_sessions' \in Table
      /\ \A s \in Slots : \/ g_sessions'[s] = g_sessions[s] /\ ~Expired(s)
                          \/ g_sessions'[s] = Unused /\ Expired(s)
  BY <1>1, PrunedTable DEF Ticked
<1>3. clock' \in 0..(Day - 1) /\ (clock' = 0 \/ clock' = clock + 1)
  BY <1>1 DEF Ticked
<1>4. age' \in [Clients -> 0..(Lifetime + 1)]
  BY <1>1 DEF Ticked
<1>5. OneSlotEach'
  BY <1>2 DEF IInv, OneSlotEach, Unused
<1>6. AgesOnTheClock'
  <2> SUFFICES ASSUME NEW s \in Slots,
                      g_sessions'[s].client # NoClient,
                      g_sessions'[s].t_last_recv <= clock'
               PROVE  \/ age'[g_sessions'[s].client] > Lifetime
                      \/ age'[g_sessions'[s].client] >= clock' - g_sessions'[s].t_last_recv
    BY DEF AgesOnTheClock
  <2> DEFINE c == g_sessions[s].client
             t == g_sessions[s].t_last_recv
  <2>1. g_sessions'[s] = g_sessions[s]
    BY <1>2 DEF Unused
  <2>2. c \in Clients /\ t \in 0..(Day - 1)
    BY <1>1, <2>1 DEF Table
  <2>3. c \in Active
    BY <2>1, <2>2 DEF Ticked, Active
  <2>4. age'[c] = IF age[c] <= Lifetime THEN age[c] + 1 ELSE age[c]
    BY <2>2, <2>3 DEF Ticked
  <2>5. t <= clock => age[c] > Lifetime \/ age[c] >= clock - t
    BY <2>1 DEF IInv, AgesOnTheClock
  <2>6. age[c] \in Nat
    BY <1>1, <2>2
  <2> HIDE DEF c, t
  <2>7. t <= clock' => age'[c] > Lifetime \/ age'[c] >= clock' - t
    BY <1>1, <1>3, <2>2, <2>4, <2>5, <2>6
  <2> QED
    BY <2>1, <2>7 DEF c, t
<1>7. NoneTaken
  <2> SUFFICES ASSUME NEW c \in Clients, Has(c), ~Has(c)'
               PROVE  age[c] > Lifetime
    BY DEF NoneTaken
  <2>1. PICK s \in Slots : g_sessions[s].client = c
    BY DEF Has
  <2>2. Expired(s)
    BY <1>2, <2>1 DEF Has
  <2>3. g_sessions[s].t_last_recv \in Nat
    BY <1>1 DEF Table
  <2>4. age[c] > Lifetime \/ age[c] >= clock - g_sessions[s].t_last_recv
    BY <1>1, <2>1, <2>2, <2>3 DEF IInv, AgesOnTheClock, Expired
  <2> QED
    BY <1>1, <2>2, <2>3, <2>4 DEF Expired
<1> QED
  BY <1>2, <1>3, <1>4, <1>5, <1>6, <1>7

LEMMA UpdateAllPreserves ==
  ASSUME IInv, session_mgr_update_all
  PROVE  IInv' /\ NoneTaken
<1> USE DEF IInv
<1>1. Ticked /\ (SendNothing \/ \E from, n : Send(from, n))
  BY DEF session_mgr_update_all, UpdateNobody, session_mgr_send_cga_graphics, UpdateText
<1>2. /\ g_sessions' \in Table /\ clock' \in 0..(Day - 1)
      /\ age' \in [Clients -> 0..(Lifetime + 1)]
      /\ OneSlotEach' /\ AgesOnTheClock' /\ NoneTaken
  BY <1>1, TickPreserves
<1>3. losses' \in 0..MaxLosses
  BY <1>1, SendCountsLosses DEF SendNothing, TypeOK
<1>4. mode' = mode /\ screen' = screen /\ changes' = changes /\ connected' = connected
  BY <1>1 DEF Ticked, display
<1>5. mode \in Modes
  BY DEF TypeOK
<1>6. /\ video_next_row' \in LinesOf("text") \cup {0}
      /\ cga_next_offset' \in LinesOf("graphics") \cup {0}
  <2>1. CASE UpdateNobody
    BY <2>1 DEF UpdateNobody
  <2>2. CASE session_mgr_send_cga_graphics
    <3>1. From(cga_next_offset) + Length(From(cga_next_offset)) \in LinesOf("graphics")
      BY <2>2, <1>5, CursorsAreNat, LengthInFrame, LinesOfMode
      DEF session_mgr_send_cga_graphics
    <3> QED
      BY <2>2, <3>1 DEF session_mgr_send_cga_graphics
  <2>3. CASE UpdateText
    <3>1. From(video_next_row) + Length(From(video_next_row)) \in LinesOf("text")
      BY <2>3, <1>5, CursorsAreNat, LengthInFrame, LinesOfMode DEF UpdateText
    <3> QED
      BY <2>3, <3>1 DEF UpdateText
  <2> QED
    BY <2>1, <2>2, <2>3 DEF session_mgr_update_all
<1>7. TypeOK'
  BY <1>2, <1>3, <1>4, <1>6 DEF TypeOK, Table
<1> QED
  BY <1>2, <1>7

LEMMA RefreshPreserves ==
  ASSUME IInv, NEW c \in Clients, Refresh(c)
  PROVE  IInv' /\ NoneTaken
<1>1. PICK s \in Slots :
        /\ IsFirst(s, c)
        /\ g_sessions' = [g_sessions EXCEPT ![s].t_last_recv = clock]
  BY DEF Refresh
<1>2. /\ g_sessions \in Table /\ clock \in 0..(Day - 1)
      /\ age \in [Clients -> 0..(Lifetime + 1)] /\ clock' = clock
      /\ age' = [age EXCEPT ![c] = 0]
  BY DEF IInv, TypeOK, Table, Refresh
<1>3. /\ g_sessions' \in Table
      /\ g_sessions'[s].client = c /\ g_sessions'[s].t_last_recv = clock
      /\ \A t \in Slots : g_sessions'[t].client = g_sessions[t].client
      /\ \A t \in Slots \ {s} : g_sessions'[t] = g_sessions[t]
  BY <1>1, <1>2 DEF Table, IsFirst
<1>4. OneSlotEach'
  BY <1>3 DEF IInv, OneSlotEach
<1>5. AgesOnTheClock'
  <2> SUFFICES ASSUME NEW t \in Slots,
                      g_sessions'[t].client # NoClient, g_sessions'[t].t_last_recv <= clock
               PROVE  \/ age'[g_sessions'[t].client] > Lifetime
                      \/ age'[g_sessions'[t].client] >= clock - g_sessions'[t].t_last_recv
    BY <1>2 DEF AgesOnTheClock
  <2>1. CASE t = s
    BY <1>2, <1>3, <2>1
  <2>2. CASE t # s
    <3>1. g_sessions'[t] = g_sessions[t] /\ g_sessions[t].client # c
      BY <1>3, <2>2 DEF IInv, OneSlotEach
    <3>2. age'[g_sessions[t].client] = age[g_sessions[t].client]
      BY <1>2, <1>3, <3>1 DEF Table
    <3> QED
      BY <3>1, <3>2 DEF IInv, AgesOnTheClock
  <2> QED
    BY <2>1, <2>2
<1>6. TypeOK'
  <2>1. UNCHANGED <<video_next_row, cga_next_offset, mode, screen, changes, connected, losses>>
    BY DEF Refresh, cursors, display, peers
  <2>2. 0 \in 0..(Lifetime + 1)
    BY SessionsAssumption
  <2>3. age' \in [Clients -> 0..(Lifetime + 1)]
    BY <1>2, <2>2
  <2> QED
    BY <1>2, <1>3, <2>1, <2>3 DEF IInv, TypeOK, Table
<1>7. NoneTaken
  BY <1>3 DEF NoneTaken, Has
<1> QED
  BY <1>4, <1>5, <1>6, <1>7 DEF IInv

LEMMA AdmitPreserves ==
  ASSUME IInv, NEW c \in Clients, Admit(c)
  PROVE  IInv' /\ NoneTaken
<1>1. PICK s \in Slots :
        /\ IsFirst(s, NoClient)
        /\ g_sessions' = [g_sessions EXCEPT ![s] = [client |-> c, t_last_recv |-> clock]]
  BY DEF Admit
<1>2. /\ g_sessions \in Table /\ clock \in 0..(Day - 1)
      /\ age \in [Clients -> 0..(Lifetime + 1)] /\ clock' = clock
      /\ age' = [age EXCEPT ![c] = 0]
      /\ \A t \in Slots : g_sessions[t].client # c
  BY DEF IInv, TypeOK, Table, Admit, Has
<1>3. /\ g_sessions' \in Table
      /\ g_sessions[s].client = NoClient
      /\ g_sessions'[s].client = c /\ g_sessions'[s].t_last_recv = clock
      /\ \A t \in Slots \ {s} : g_sessions'[t] = g_sessions[t]
  BY <1>1, <1>2 DEF Table, IsFirst
<1>4. OneSlotEach'
  BY <1>2, <1>3 DEF IInv, OneSlotEach
<1>5. AgesOnTheClock'
  <2> SUFFICES ASSUME NEW t \in Slots,
                      g_sessions'[t].client # NoClient, g_sessions'[t].t_last_recv <= clock
               PROVE  \/ age'[g_sessions'[t].client] > Lifetime
                      \/ age'[g_sessions'[t].client] >= clock - g_sessions'[t].t_last_recv
    BY <1>2 DEF AgesOnTheClock
  <2>1. CASE t = s
    BY <1>2, <1>3, <2>1
  <2>2. CASE t # s
    <3>1. g_sessions'[t] = g_sessions[t] /\ g_sessions[t].client # c
      BY <1>2, <1>3, <2>2
    <3>2. age'[g_sessions[t].client] = age[g_sessions[t].client]
      BY <1>2, <1>3, <3>1 DEF Table
    <3> QED
      BY <3>1, <3>2 DEF IInv, AgesOnTheClock
  <2> QED
    BY <2>1, <2>2
<1>6. TypeOK'
  <2>1. UNCHANGED <<video_next_row, cga_next_offset, mode, screen, changes, connected, losses>>
    BY DEF Admit, cursors, display, peers
  <2>2. 0 \in 0..(Lifetime + 1)
    BY SessionsAssumption
  <2>3. age' \in [Clients -> 0..(Lifetime + 1)]
    BY <1>2, <2>2
  <2> QED
    BY <1>2, <1>3, <2>1, <2>3 DEF IInv, TypeOK, Table
<1>7. NoneTaken
  <2> SUFFICES ASSUME NEW d \in Clients, Has(d) PROVE Has(d)'
    BY DEF NoneTaken
  <2>1. PICK t \in Slots : g_sessions[t].client = d
    BY DEF Has
  <2>2. t # s
    BY <1>3, <2>1
  <2> QED
    BY <1>3, <2>1, <2>2 DEF Has
<1> QED
  BY <1>4, <1>5, <1>6, <1>7 DEF IInv

(* The steps that leave the table, the clock and the ages alone. *)
LEMMA OthersPreserve ==
  ASSUME IInv,
         \/ \E c \in Clients : start_remote_control(c) \/ Leave(c)
         \/ \E i \in DOMAIN screen : Draw(i)
         \/ \E m \in Modes : SetMode(m)
         \/ UNCHANGED vars
  PROVE  IInv' /\ NoneTaken
<1>1. UNCHANGED <<table, clock, age>>
  BY DEF start_remote_control, Leave, Draw, SetMode, vars
<1>2. (OneSlotEach /\ AgesOnTheClock)' /\ NoneTaken
  BY <1>1 DEF IInv, OneSlotEach, AgesOnTheClock, NoneTaken, Has, table
<1>3. UNCHANGED cursors
  BY DEF start_remote_control, Leave, Draw, SetMode, vars
<1>4. TypeOK'
  <2>1. CASE \E c \in Clients : start_remote_control(c) \/ Leave(c)
    BY <1>1, <1>3, <2>1
    DEF IInv, TypeOK, start_remote_control, Leave, table, cursors, display
  <2>2. CASE \E i \in DOMAIN screen : Draw(i)
    <3>1. PICK i \in DOMAIN screen : Draw(i)
      BY <2>2
    <3>2. changes' \in 0..MaxChanges
      <4>1. changes' = changes + 1 /\ changes < MaxChanges
        BY <3>1 DEF Draw, Changed
      <4>2. changes \in 0..MaxChanges
        BY DEF IInv, TypeOK
      <4> QED
        BY <4>1, <4>2, SessionsAssumption
    <3>3. DOMAIN screen' = DOMAIN screen /\ UNCHANGED <<mode, connected, losses>>
      BY <3>1 DEF Draw, peers
    <3> QED
      BY <1>1, <1>3, <3>2, <3>3 DEF IInv, TypeOK, table, cursors
  <2>3. CASE \E m \in Modes : SetMode(m)
    BY <1>1, <1>3, <2>3 DEF IInv, TypeOK, SetMode, Cleared, Changed, table, cursors, peers
  <2>4. CASE UNCHANGED vars
    BY <2>4 DEF IInv, TypeOK, vars, table, cursors, display, peers
  <2> QED
    BY <2>1, <2>2, <2>3, <2>4
<1> QED
  BY <1>2, <1>4 DEF IInv

LEMMA StepPreserves ==
  IInv /\ [Next]_vars => IInv' /\ NoneTaken
<1> SUFFICES ASSUME IInv, [Next]_vars PROVE IInv' /\ NoneTaken
  OBVIOUS
<1>1. CASE session_mgr_update_all
  BY <1>1, UpdateAllPreserves
<1>2. CASE \E c \in Clients : Refresh(c)
  BY <1>2, RefreshPreserves
<1>3. CASE \E c \in Clients : Admit(c)
  BY <1>3, AdmitPreserves
<1>4. CASE \/ \E c \in Clients : start_remote_control(c) \/ Leave(c)
           \/ \E i \in DOMAIN screen : Draw(i)
           \/ \E m \in Modes : SetMode(m)
           \/ UNCHANGED vars
  BY <1>4, OthersPreserve
<1> QED
  BY <1>1, <1>2, <1>3, <1>4 DEF Next, session_mgr_start

-----------------------------------------------------------------------------
LEMMA Invariance == Spec => []IInv
<1>1. IInv /\ [Next]_vars => IInv'
  BY StepPreserves
<1> QED
  BY InitEstablishes, <1>1, PTL DEF Spec

(* Every packet of session_mgr_update_all ends inside the frame, in every  *)
(* mode and after every switch of modes, and the table keeps its types.    *)
THEOREM TypeCorrect == Spec => []TypeOK
<1>1. IInv => TypeOK
  BY DEF IInv
<1> QED
  BY Invariance, <1>1, PTL

(* session_mgr_start never gives a client a second slot. *)
THEOREM NoSecondSlot == Spec => []OneSlotEach
<1>1. IInv => OneSlotEach
  BY DEF IInv
<1> QED
  BY Invariance, <1>1, PTL

(* Nobody loses its session before it has been silent for a lifetime, with *)
(* any length of the day, any lifetime and any number of midnights.        *)
THEOREM SilentSessionsOnly == Spec => KeptAlive
<1>1. IInv /\ [Next]_vars =>
        [\A c \in Clients : Has(c) /\ ~Has(c)' => age[c] > Lifetime]_vars
  BY StepPreserves DEF NoneTaken
<1> QED
  BY Invariance, <1>1, PTL DEF Spec, KeptAlive
=============================================================================
