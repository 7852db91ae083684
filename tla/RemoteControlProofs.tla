------------------------- MODULE RemoteControlProofs -------------------------
(***************************************************************************)
(* Proofs about the host lists of RemoteControl, for any set of hosts, any *)
(* length of the list, of the pools and of the keyboard buffer, and any    *)
(* number of keys, runs, browsers and losses: no host is listed twice, the *)
(* pointer g_active_host is never left dangling, and a host keeps its      *)
(* number while the list is in use.                                        *)
(***************************************************************************)
EXTENDS RemoteControl, SeqLemmas, WellFoundedInduction, TLAPS

-----------------------------------------------------------------------------
(* Slots are natural numbers, so a nonempty set of them has a least one.   *)
LEMMA LeastIsMember ==
  ASSUME NEW slots \in SUBSET Slots, slots # {}
  PROVE  Least(slots) \in slots
<1>1. slots \subseteq Nat
  BY DEF Slots
<1>2. PICK i \in slots : \A j \in slots : ~ (<<j, i>> \in OpToRel(<, Nat))
  BY <1>1, NatLessThanWellFounded, WFMin
<1>3. ASSUME NEW j \in slots  PROVE i <= j
  <2>1. OpToRel(<, Nat) = {ss \in Nat \X Nat : ss[1] < ss[2]}
    BY Zenon DEF OpToRel
  <2>2. j \in Nat /\ i \in Nat /\ <<j, i>> \in Nat \X Nat
    BY <1>1
  <2>3. ~ (j < i)
    BY <1>2, <2>1, <2>2
  <2> QED
    BY <2>2, <2>3
<1> QED
  BY <1>2, <1>3 DEF Least

-----------------------------------------------------------------------------
(* The inductive invariant.  HostListIsSound says nothing of a pointer that *)
(* is not in use; what it points to when the client gives it a host hangs  *)
(* on the host that the launcher chose, which must be one.                 *)
IsList(l) == l = [i \in Slots |-> l[i]]

NoHostTwice(l) == \A i, j \in Slots : l[i] = l[j] /\ l[i] # NULL => i = j

HostListIInv ==
  /\ IsList(list)
  /\ active \in Slots \cup {NULL}
  /\ mode \in {"select_mode", "shell"} => chosen # NULL
  /\ HostListIsSound

(* hostlist_register adds a host that is not listed where no host is.      *)
LEMMA RegisterAdds ==
  ASSUME HostListIInv, NEW mac
  PROVE  /\ IsList(hostlist_register(mac))
         /\ NoHostTwice(hostlist_register(mac))
         /\ \A i \in Slots : list[i] # NULL => hostlist_register(mac)[i] = list[i]
<1>1. CASE Known(mac) # {} \/ Free = {}
  BY <1>1 DEF HostListIInv, HostListIsSound, NoHostTwice, hostlist_register
<1>2. CASE Known(mac) = {} /\ Free # {}
  <2> DEFINE slot == Least(Free)
  <2>1. slot \in Free
    BY <1>2, LeastIsMember DEF Free
  <2>2. slot \in Slots /\ list[slot] = NULL
    BY <2>1 DEF Free
  <2> HIDE DEF slot
  <2>3. hostlist_register(mac) = [list EXCEPT ![slot] = mac]
    BY <1>2 DEF hostlist_register, slot
  <2>4. \A i \in Slots : list[i] # mac
    BY <1>2 DEF Known
  <2>5. \A i \in Slots :
          hostlist_register(mac)[i] = IF i = slot THEN mac ELSE list[i]
    BY <2>2, <2>3 DEF HostListIInv, IsList
  <2>6. IsList(hostlist_register(mac))
    BY <2>2, <2>3 DEF HostListIInv, IsList
  <2>7. NoHostTwice(hostlist_register(mac))
    BY <2>4, <2>5 DEF HostListIInv, HostListIsSound, NoHostTwice
  <2> QED
    BY <2>2, <2>5, <2>6, <2>7
<1> QED
  BY <1>1, <1>2

LEMMA EmptyListIsSound == IsList(NoHosts) /\ NoHostTwice(NoHosts)
BY DEF NoHosts, IsList, NoHostTwice

(* A digit finds a host only where there is one.                           *)
LEMMA FoundIsListed ==
  ASSUME NEW c, NEW i \in hostlist_find_by_index(c)
  PROVE  i = Digit[c] /\ i \in Slots /\ list[i] # NULL
BY DEF hostlist_find_by_index, Free

-----------------------------------------------------------------------------
(* Most steps touch neither the list nor what points into it.              *)
Untouched == UNCHANGED <<mode, chosen, list, active>>

LEMMA UntouchedSteps ==
  ASSUME \/ SelectorProbes \/ TimersProbe \/ TimersKeepAlive
         \/ PlainKey \/ AltKey \/ EscapeAlone
         \/ web_accept \/ web_server_process
         \/ (\E h \in Hosts : protocol_process(h) \/ ReadKey(h))
         \/ (\E c \in Chars : Type(c)) \/ LoseAnswer
         \/ UNCHANGED vars
  PROVE  Untouched
<1>1. UNCHANGED client => Untouched
  BY DEF client, Untouched
<1>2. (SelectorProbes \/ TimersProbe \/ TimersKeepAlive) => UNCHANGED client
  BY DEF SelectorProbes, TimersProbe, TimersKeepAlive
<1>3. (PlainKey \/ AltKey \/ EscapeAlone) => UNCHANGED client
  BY DEF PlainKey, AltKey, EscapeAlone, Takes
<1>4. (web_accept \/ web_server_process) => Untouched
  BY DEF web_accept, web_server_process, Untouched
<1>5. (\E h \in Hosts : protocol_process(h) \/ ReadKey(h)) => UNCHANGED client
  BY DEF protocol_process, ReadKey
<1>6. ((\E c \in Chars : Type(c)) \/ LoseAnswer \/ UNCHANGED vars) => UNCHANGED client
  BY DEF Type, LoseAnswer, vars
<1> QED
  BY <1>1, <1>2, <1>3, <1>4, <1>5, <1>6

(* The steps that end with an empty list, and leave the mode they start in. *)
Emptied == list' = NoHosts /\ mode' # mode

LEMMA EmptyingSteps ==
  ASSUME \/ rmtdos_cga_web_client_main \/ run_file_commander_mode \/ Ends \/ ExitKey
  PROVE  Emptied
BY DEF rmtdos_cga_web_client_main, run_file_commander_mode, Ends, ExitKey, Leave, BackInMain,
       OpenSocket, Reads, Loop, Emptied

(* The action of HostsKeepTheirNumbers.                                    *)
NumbersKept == \A i \in Slots : mode' = mode /\ list[i] # NULL => list'[i] = list[i]

(* Each step preserves the invariant and the numbers of the hosts.         *)
LEMMA StepIsSound ==
  ASSUME HostListIInv, [Next]_vars
  PROVE  HostListIInv' /\ NumbersKept
<1> USE RemoteControlAssumption
<1>1. CASE Untouched
  BY <1>1 DEF Untouched, HostListIInv, HostListIsSound, NumbersKept, IsList
<1>2. CASE process_incoming_status
  <2>1. \/ list' = list
        \/ \E mac : list' = hostlist_register(mac)
    BY <1>2 DEF process_incoming_status
  <2>2. IsList(list') /\ NoHostTwice(list') /\ NumbersKept
    BY <2>1, RegisterAdds DEF HostListIInv, HostListIsSound, NoHostTwice, NumbersKept
  <2>3. mode' = "select_host" /\ active' = active
    BY <1>2 DEF process_incoming_status
  <2> QED
    BY <2>2, <2>3 DEF HostListIInv, HostListIsSound, IsList, NoHostTwice
<1>3. CASE process_socket_io
  <2> DEFINE found == {i \in Slots : list'[i] = chosen}
  <2>1. \/ list' = list
        \/ \E mac : list' = hostlist_register(mac)
    BY <1>3 DEF process_socket_io
  <2>2. IsList(list') /\ NoHostTwice(list') /\ NumbersKept
        /\ \A i \in Slots : list[i] # NULL => list'[i] = list[i]
    BY <2>1, RegisterAdds DEF HostListIInv, HostListIsSound, NoHostTwice, NumbersKept
  <2>3. mode = "shell" /\ mode' = "shell" /\ chosen' = chosen /\ chosen # NULL
    BY <1>3 DEF process_socket_io, Loop, HostListIInv
  <2>4. active' = active \/ (found # {} /\ active' = Least(found))
    BY <1>3 DEF process_socket_io
  <2>5. active' \in Slots \cup {NULL} /\ (active' # NULL => list'[active'] # NULL)
    <3>1. CASE active' = active
      BY <3>1, <2>2, <2>3 DEF HostListIInv, HostListIsSound
    <3>2. CASE found # {} /\ active' = Least(found)
      <4>1. Least(found) \in found
        BY <3>2, LeastIsMember
      <4> QED
        BY <3>2, <4>1, <2>3
    <3> QED
      BY <2>4, <3>1, <3>2
  <2> QED
    BY <2>2, <2>3, <2>5 DEF HostListIInv, HostListIsSound, IsList, NoHostTwice
<1>4. CASE select_host
  <2>1. /\ mode' = "select_mode" /\ mode = "select_host"
        /\ list' = list /\ active' = active
        /\ \E i \in Slots : list[i] # NULL /\ chosen' = list[i]
    BY <1>4, FoundIsListed DEF select_host
  <2> QED
    BY <2>1 DEF HostListIInv, HostListIsSound, NumbersKept, IsList
<1>5. CASE process_stdin_menu_mode
  <2>1. CASE Emptied /\ mode' \in {"select_host", "ended"} /\ active' = active
    BY <2>1, EmptyListIsSound
    DEF Emptied, HostListIInv, HostListIsSound, NumbersKept, IsList, NoHostTwice
  <2>2. CASE /\ UNCHANGED <<mode, chosen, list>>
             /\ \/ active' = NULL
                \/ \E c : hostlist_find_by_index(c) # {} /\ active' = Digit[c]
    <3>1. active' = NULL \/ (active' \in Slots /\ list[active'] # NULL)
      BY <2>2, FoundIsListed
    <3> QED
      BY <2>2, <3>1 DEF HostListIInv, HostListIsSound, NumbersKept, IsList
  <2> QED
    BY <1>5, <2>1, <2>2
    DEF process_stdin_menu_mode, Reads, Loop, Leave, BackInMain, Emptied
<1>6. CASE CommanderReturns
  BY <1>6
  DEF CommanderReturns, BackInMain, HostListIInv, HostListIsSound, NumbersKept, IsList
<1>7. CASE rmtdos_cga_web_client_main
  <2>1. Emptied /\ active' = NULL /\ chosen' = chosen /\ mode = "select_mode"
    BY <1>7, EmptyingSteps DEF rmtdos_cga_web_client_main
  <2> QED
    BY <2>1, EmptyListIsSound
    DEF Emptied, HostListIInv, HostListIsSound, NumbersKept, IsList, NoHostTwice
<1>8. CASE run_file_commander_mode \/ Ends \/ ExitKey
  <2>1. Emptied /\ active' = active /\ mode' \notin {"select_mode", "shell"}
    BY <1>8, EmptyingSteps
    DEF run_file_commander_mode, Ends, ExitKey, Leave, BackInMain, Idle
  <2> QED
    BY <2>1, EmptyListIsSound
    DEF Emptied, HostListIInv, HostListIsSound, NumbersKept, IsList, NoHostTwice
<1> QED
  BY <1>1, <1>2, <1>3, <1>4, <1>5, <1>6, <1>7, <1>8, UntouchedSteps
  DEF Next, Listens, StdIn, process_stdin_session_mode

LEMMA InitIsSound == Init => HostListIInv
BY EmptyListIsSound
DEF Init, HostListIInv, HostListIsSound, IsList, NoHostTwice, NoHosts

-----------------------------------------------------------------------------
(* No host is listed twice, and g_active_host is never used after the host *)
(* it points to was freed by hostlist_destroy, in whatever order answers   *)
(* come and programs are run.                                              *)
THEOREM HostListStaysSound == Spec => []HostListIsSound
<1>1. HostListIInv /\ [Next]_vars => HostListIInv'
  BY StepIsSound
<1>2. HostListIInv => HostListIsSound
  BY DEF HostListIInv
<1> QED
  BY <1>1, <1>2, InitIsSound, PTL DEF Spec

(* hostlist_register never moves or replaces a host that is shown.         *)
THEOREM NumbersAreKept == Spec => HostsKeepTheirNumbers
<1>1. HostListIInv /\ [Next]_vars => HostListIInv'
  BY StepIsSound
<1>2. HostListIInv /\ [Next]_vars
      => [\A i \in Slots : mode' = mode /\ list[i] # NULL => list'[i] = list[i]]_vars
  BY StepIsSound DEF NumbersKept
<1> QED
  BY <1>1, <1>2, InitIsSound, PTL DEF Spec, HostsKeepTheirNumbers

-----------------------------------------------------------------------------
(* From the terminal to the keyboard buffer.  The keystrokes of a host are *)
(* numbered as they are sent; those that wait in its pool all have greater *)
(* numbers than those that an earlier tick has handled.                    *)
Frames == UNION {OfType(t) : t \in {"STATUS_REQ", "SESSION_START", "INJECT_KEYSTROKE"}}

Queued(h) == {waiting[h][i].number :
                i \in {j \in DOMAIN waiting[h] : waiting[h][j].type = "INJECT_KEYSTROKE"}}

KeyTypes ==
  /\ input \in Seq(Chars) /\ typed \in Seq(Chars) /\ sent \in Seq(Seq(Chars))
  /\ waiting \in [Hosts -> Seq(Frames)] /\ \A h \in Hosts : Len(waiting[h]) <= PoolSize
  /\ kbd \in [Hosts -> Seq(Nat)] /\ \A h \in Hosts : Len(kbd[h]) <= KbdSize
  /\ batches \in [Hosts -> Seq(SUBSET Nat)]

NumbersAreOfSent ==
  \A h \in Hosts :
    /\ Queued(h) \subseteq 1..Len(sent)
    /\ \A i \in DOMAIN kbd[h] : kbd[h][i] \in 1..Len(sent)
    /\ \A j \in DOMAIN batches[h] : batches[h][j] \subseteq 1..Len(sent)

QueuedComeAfter ==
  \A h \in Hosts : \A j \in DOMAIN batches[h] :
    \A k \in batches[h][j], l \in Queued(h) : k < l

KeyIInv == /\ KeyTypes /\ SentIsTyped
           /\ NumbersAreOfSent /\ QueuedComeAfter /\ OnlyNeighboursChangePlaces

-----------------------------------------------------------------------------
(* Sending adds a frame to some of the pools, where there is room.         *)
Grows(frame) ==
  /\ waiting' \in [Hosts -> Seq(Frames)]
  /\ \A h \in Hosts : \/ waiting'[h] = waiting[h]
                      \/ waiting'[h] = Append(waiting[h], frame) /\ Len(waiting[h]) < PoolSize

LEMMA DeliverAdds ==
  ASSUME waiting \in [Hosts -> Seq(Frames)], NEW g, NEW frame \in Frames
  PROVE  /\ Deliver(g, frame, waiting) \in [Hosts -> Seq(Frames)]
         /\ \A h \in Hosts :
              \/ Deliver(g, frame, waiting)[h] = waiting[h]
              \/ /\ Deliver(g, frame, waiting)[h] = Append(waiting[h], frame)
                 /\ Len(waiting[h]) < PoolSize
<1>1. CASE Len(waiting[g]) < PoolSize /\ g \in Hosts
  <2>1. Append(waiting[g], frame) \in Seq(Frames)
    BY <1>1
  <2> QED
    BY <1>1, <2>1 DEF Deliver
<1>2. CASE g \notin Hosts
  BY <1>2 DEF Deliver
<1>3. CASE ~ (Len(waiting[g]) < PoolSize)
  BY <1>3 DEF Deliver
<1> QED
  BY <1>1, <1>2, <1>3

LEMMA SendToGrows ==
  ASSUME waiting \in [Hosts -> Seq(Frames)], NEW g, NEW frame \in Frames, SendTo(g, frame)
  PROVE  Grows(frame)
BY DeliverAdds DEF SendTo, Grows

LEMMA BroadcastGrows ==
  ASSUME waiting \in [Hosts -> Seq(Frames)], NEW frame \in Frames, Broadcast(frame)
  PROVE  Grows(frame)
<1>1. PICK missed \in SUBSET Hosts :
        waiting' = [h \in Hosts |-> IF h \in missed THEN waiting[h]
                                    ELSE Deliver(h, frame, waiting)[h]]
  BY DEF Broadcast
<1>2. \A h \in Hosts : /\ Deliver(h, frame, waiting)[h] \in Seq(Frames)
                       /\ \/ Deliver(h, frame, waiting)[h] = waiting[h]
                          \/ /\ Deliver(h, frame, waiting)[h] = Append(waiting[h], frame)
                             /\ Len(waiting[h]) < PoolSize
  BY DeliverAdds
<1> QED
  BY <1>1, <1>2 DEF Grows

LEMMA FramesAreFrames ==
  ASSUME NEW n \in Nat
  PROVE  /\ Frame("STATUS_REQ", n) \in Frames /\ Frame("SESSION_START", n) \in Frames
         /\ Frame("INJECT_KEYSTROKE", n) \in Frames
BY DEF Frame, Frames, OfType

(* What a new frame adds to the numbers that are queued.                   *)
LEMMA QueuedGrows ==
  ASSUME KeyTypes, NEW frame \in Frames, Grows(frame), NEW h \in Hosts
  PROVE  /\ Queued(h)' \subseteq Queued(h) \cup {frame.number}
         /\ frame.type # "INJECT_KEYSTROKE" => Queued(h)' \subseteq Queued(h)
         /\ Len(waiting'[h]) <= PoolSize
<1> DEFINE w == waiting[h]
<1>1. w \in Seq(Frames) /\ Len(w) <= PoolSize /\ PoolSize \in Nat
  BY RemoteControlAssumption DEF KeyTypes
<1>2. CASE waiting'[h] = w
  BY <1>1, <1>2 DEF Queued
<1>3. CASE waiting'[h] = Append(w, frame) /\ Len(w) < PoolSize
  <2>1. /\ Len(waiting'[h]) = Len(w) + 1
        /\ \A i \in DOMAIN waiting'[h] : \/ i \in DOMAIN w /\ waiting'[h][i] = w[i]
                                         \/ waiting'[h][i] = frame
    BY <1>1, <1>3
  <2> HIDE DEF w
  <2>2. Queued(h)' \subseteq Queued(h) \cup {frame.number}
        /\ (frame.type # "INJECT_KEYSTROKE" => Queued(h)' \subseteq Queued(h))
    BY <2>1 DEF Queued, w
  <2> QED
    BY <1>1, <1>3, <2>1, <2>2
<1> QED
  BY <1>2, <1>3 DEF Grows

-----------------------------------------------------------------------------
(* Steps that type nothing and handle nothing: they may send other frames. *)
Quiet ==
  /\ UNCHANGED <<typed, sent, batches, kbd>> /\ input' \in Seq(Chars)
  /\ \/ UNCHANGED waiting
     \/ \E frame \in Frames : frame.type # "INJECT_KEYSTROKE" /\ Grows(frame)

LEMMA QuietKeeps == ASSUME KeyIInv, Quiet  PROVE KeyIInv'
<1>1. \A h \in Hosts : Queued(h)' \subseteq Queued(h) /\ Len(waiting'[h]) <= PoolSize
  <2>1. CASE UNCHANGED waiting
    BY <2>1 DEF KeyIInv, KeyTypes, Queued
  <2>2. ASSUME NEW frame \in Frames, frame.type # "INJECT_KEYSTROKE", Grows(frame)
        PROVE  \A h \in Hosts : Queued(h)' \subseteq Queued(h) /\ Len(waiting'[h]) <= PoolSize
    BY <2>2, QueuedGrows DEF KeyIInv
  <2> QED
    BY <2>1, <2>2 DEF Quiet
<1>2. KeyTypes'
  BY <1>1 DEF KeyIInv, KeyTypes, Quiet, Grows
<1>3. NumbersAreOfSent'
  BY <1>1 DEF KeyIInv, NumbersAreOfSent, Quiet
<1>4. QueuedComeAfter'
  BY <1>1 DEF KeyIInv, QueuedComeAfter, Quiet
<1>5. SentIsTyped' /\ OnlyNeighboursChangePlaces'
  BY DEF KeyIInv, SentIsTyped, OnlyNeighboursChangePlaces, Quiet
<1> QED
  BY <1>2, <1>3, <1>4, <1>5 DEF KeyIInv

LEMMA QuietSteps ==
  ASSUME KeyIInv, session_id \in Nat,
         \/ SelectorProbes \/ select_host \/ rmtdos_cga_web_client_main
         \/ run_file_commander_mode \/ CommanderReturns \/ Ends
         \/ TimersProbe \/ TimersKeepAlive \/ Listens
         \/ process_stdin_menu_mode \/ ExitKey \/ web_accept \/ web_server_process
         \/ (\E c \in Chars : Type(c)) \/ LoseAnswer \/ UNCHANGED vars
  PROVE  Quiet
<1> USE DEF KeyIInv, KeyTypes
<1>1. CASE SelectorProbes \/ TimersProbe
  <2>1. Broadcast(Frame("STATUS_REQ", session_id)) /\ Idle
    BY <1>1 DEF SelectorProbes, TimersProbe, Probe
  <2>2. Frame("STATUS_REQ", session_id).type = "STATUS_REQ"
    BY DEF Frame
  <2> QED
    BY <2>1, <2>2, FramesAreFrames, BroadcastGrows DEF Idle, history, terminal, Quiet
<1>2. CASE rmtdos_cga_web_client_main
  <2>1. Broadcast(Frame("STATUS_REQ", session_id')) /\ Idle /\ session_id' \in Nat
    BY <1>2 DEF rmtdos_cga_web_client_main, OpenSocket
  <2>2. Frame("STATUS_REQ", session_id').type = "STATUS_REQ"
    BY DEF Frame
  <2> QED
    BY <2>1, <2>2, FramesAreFrames, BroadcastGrows DEF Idle, history, terminal, Quiet
<1>3. CASE TimersKeepAlive
  <2>1. SendTo(list[active], Frame("SESSION_START", 0)) /\ Idle
    BY <1>3 DEF TimersKeepAlive
  <2>2. Frame("SESSION_START", 0).type = "SESSION_START"
    BY DEF Frame
  <2> QED
    BY <2>1, <2>2, FramesAreFrames, SendToGrows DEF Idle, history, terminal, Quiet
<1>4. CASE select_host \/ run_file_commander_mode \/ CommanderReturns \/ Ends
  BY <1>4 DEF select_host, run_file_commander_mode, CommanderReturns, Ends, Idle, lan, history,
              terminal, Quiet
<1>5. CASE Listens
  BY <1>5 DEF Listens, process_incoming_status, process_socket_io, Receives, Idle, history,
              terminal, Quiet
<1>6. CASE process_stdin_menu_mode
  <2>1. input' = <<>> \/ (input' = Tail(input) /\ Len(input) >= 1)
    BY <1>6 DEF process_stdin_menu_mode, Reads
  <2>2. input' \in Seq(Chars)
    <3>1. CASE input' = Tail(input) /\ Len(input) >= 1
      <4>1. input \in Seq(Chars) /\ input # <<>>
        BY <3>1
      <4>2. Tail(input) \in Seq(Chars)
        BY <4>1, HeadTailProperties, Zenon
      <4> QED
        BY <3>1, <4>2
    <3>2. <<>> \in Seq(Chars)
      BY EmptySeq, Zenon
    <3> QED
      BY <2>1, <3>1, <3>2, Zenon
  <2>3. UNCHANGED waiting
    BY <1>6 DEF process_stdin_menu_mode, Leave, lan
  <2> QED
    BY <1>6, <2>2, <2>3 DEF process_stdin_menu_mode, Reads, Quiet
<1>7. CASE ExitKey
  BY <1>7 DEF ExitKey, Leave, Reads, Quiet
<1>8. CASE web_accept \/ web_server_process
  BY <1>8 DEF web_accept, web_server_process, Idle, lan, history, terminal, Quiet
<1>9. CASE LoseAnswer \/ UNCHANGED vars
  BY <1>9 DEF LoseAnswer, vars, lan, history, terminal, Quiet
<1>10. ASSUME NEW c \in Chars, Type(c)  PROVE Quiet
  <2>1. input' = Append(input, c)
    BY <1>10 DEF Type
  <2>2. input' \in Seq(Chars)
    BY <2>1, AppendProperties
  <2> QED
    BY <1>10, <2>2 DEF Type, lan, history, Quiet
<1> QED
  BY <1>1, <1>2, <1>3, <1>4, <1>5, <1>6, <1>7, <1>8, <1>9, <1>10

-----------------------------------------------------------------------------
(* Keys that are typed.                                                    *)
LEMMA TakenKeys ==
  ASSUME NEW s \in Seq(Chars), NEW t \in Seq(Chars)
  PROVE  /\ Len(t) >= 1 => /\ t[1] \in Chars /\ SubSeq(t, 2, Len(t)) \in Seq(Chars)
                           /\ s \o SubSeq(t, 1, 1) = Append(s, t[1])
         /\ Len(t) >= 2 => /\ t[2] \in Chars /\ SubSeq(t, 3, Len(t)) \in Seq(Chars)
                           /\ s \o SubSeq(t, 1, 2) = Append(Append(s, t[1]), t[2])
<1>1. ASSUME Len(t) >= 1
      PROVE  /\ t[1] \in Chars /\ SubSeq(t, 2, Len(t)) \in Seq(Chars)
             /\ s \o SubSeq(t, 1, 1) = Append(s, t[1])
  <2>1. t[1] \in Chars /\ \A i \in 2..Len(t) : t[i] \in Chars
    BY <1>1
  <2>2. SubSeq(t, 2, Len(t)) \in Seq(Chars)
    BY <2>1, SubSeqProperties
  <2>3. SubSeq(t, 1, 1) = <<t[1]>> \o SubSeq(t, 2, 1) /\ SubSeq(t, 2, 1) = <<>>
    BY <1>1, SubSeqRecursiveFirst, SubSeqEmpty
  <2>4. <<t[1]>> \in Seq(Chars) /\ <<t[1]>> \o <<>> = <<t[1]>>
    BY <2>1
  <2> QED
    BY <2>1, <2>2, <2>3, <2>4, AppendIsConcat
<1>2. ASSUME Len(t) >= 2
      PROVE  /\ t[2] \in Chars /\ SubSeq(t, 3, Len(t)) \in Seq(Chars)
             /\ s \o SubSeq(t, 1, 2) = Append(Append(s, t[1]), t[2])
  <2>1. t[1] \in Chars /\ t[2] \in Chars /\ \A i \in 3..Len(t) : t[i] \in Chars
    BY <1>2
  <2>2. SubSeq(t, 3, Len(t)) \in Seq(Chars)
    BY <2>1, SubSeqProperties
  <2>3. SubSeq(t, 1, 2) = SubSeq(t, 1, 1) \o <<t[2]>> /\ SubSeq(t, 1, 1) \in Seq(Chars)
    BY <1>2, <2>1, SubSeqRecursiveSecond, SubSeqProperties
  <2>4. s \o SubSeq(t, 1, 2) = (s \o SubSeq(t, 1, 1)) \o <<t[2]>>
    BY <2>1, <2>3, ConcatAssociative
  <2>5. s \o SubSeq(t, 1, 1) = Append(s, t[1]) /\ Append(s, t[1]) \in Seq(Chars)
    BY <1>1, <1>2, <2>1, AppendProperties
  <2> QED
    BY <2>1, <2>2, <2>4, <2>5, AppendIsConcat
<1> QED
  BY <1>1, <1>2

(* A keystroke is sent, with a number of its own.                          *)
LEMMA SentKeyKeeps ==
  ASSUME KeyIInv, NEW key \in Seq(Chars), SendKey(key), UNCHANGED <<batches, kbd>>,
         input' \in Seq(Chars), typed' \in Seq(Chars), SentIsTyped'
  PROVE  KeyIInv'
<1> DEFINE n == Len(sent) + 1
           frame == Frame("INJECT_KEYSTROKE", n)
<1>1. /\ sent' = Append(sent, key) /\ sent' \in Seq(Seq(Chars))
      /\ Len(sent) \in Nat /\ Len(sent') = n
  BY DEF KeyIInv, KeyTypes, SendKey
<1>2. frame \in Frames /\ frame.number = n
  <2>1. n \in Nat
    BY <1>1
  <2> HIDE DEF n
  <2> QED
    BY <2>1, FramesAreFrames DEF Frame
<1>3. Grows(frame)
  BY <1>2, SendToGrows DEF KeyIInv, KeyTypes, SendKey
<1> HIDE DEF frame
<1>4. \A h \in Hosts : Queued(h)' \subseteq Queued(h) \cup {n} /\ Len(waiting'[h]) <= PoolSize
  BY <1>2, <1>3, QueuedGrows DEF KeyIInv
<1>5. KeyTypes'
  BY <1>1, <1>3, <1>4 DEF KeyIInv, KeyTypes, Grows
<1>6. NumbersAreOfSent'
  <2>1. 1..Len(sent) \subseteq 1..n /\ n \in 1..n
    BY <1>1
  <2> HIDE DEF n
  <2> QED
    BY <1>1, <1>4, <2>1 DEF KeyIInv, NumbersAreOfSent
<1>7. QueuedComeAfter'
  <2> SUFFICES ASSUME NEW h \in Hosts, NEW j \in DOMAIN batches[h],
                      NEW k \in batches[h][j], NEW l \in Queued(h)'
               PROVE  k < l
    BY DEF QueuedComeAfter
  <2>1. k \in 1..Len(sent)
    BY DEF KeyIInv, NumbersAreOfSent
  <2> QED
    BY <1>1, <1>4, <2>1 DEF KeyIInv, QueuedComeAfter
<1>8. OnlyNeighboursChangePlaces'
  BY DEF KeyIInv, OnlyNeighboursChangePlaces
<1> QED
  BY <1>5, <1>6, <1>7, <1>8 DEF KeyIInv

(* One known key, or Alt with one, is sent as it was typed.                *)
LEMMA KeysKeep == ASSUME KeyIInv, PlainKey \/ AltKey \/ EscapeAlone  PROVE KeyIInv'
<1>1. /\ input \in Seq(Chars) /\ typed \in Seq(Chars) /\ sent \in Seq(Seq(Chars))
      /\ FlattenSeq(sent) = Picked(typed, Mapped)
      /\ Picked(typed, Mapped) \in Seq(Chars)
  <2>1. /\ input \in Seq(Chars) /\ typed \in Seq(Chars) /\ sent \in Seq(Seq(Chars))
        /\ FlattenSeq(sent) = Picked(typed, Mapped)
    BY DEF KeyIInv, KeyTypes, SentIsTyped
  <2> QED
    BY <2>1, FlattenElements
<1>a. typed \in Seq(Chars)
  BY <1>1
<1>2. UNCHANGED <<batches, kbd>>
  BY DEF PlainKey, AltKey, EscapeAlone, Reads
<1>3. CASE PlainKey
  <2>1. /\ Len(input) >= 1 /\ input[1] \notin Exits
        /\ input' = SubSeq(input, 2, Len(input)) /\ typed' = typed \o SubSeq(input, 1, 1)
    BY <1>3 DEF PlainKey, Reads, Takes
  <2>2. input[1] \in Chars /\ input' \in Seq(Chars) /\ typed' = Append(typed, input[1])
    BY <1>1, <2>1, TakenKeys
  <2>3. typed' \in Seq(Chars)
    BY <1>1, <2>2, AppendProperties
  <2>4. Picked(typed, Mapped)' = IF input[1] \in Mapped
                                 THEN Append(Picked(typed, Mapped), input[1])
                                 ELSE Picked(typed, Mapped)
    <3>1. Picked(Append(typed, input[1]), Mapped) = IF input[1] \in Mapped
                                                    THEN Append(Picked(typed, Mapped), input[1])
                                                    ELSE Picked(typed, Mapped)
      BY <1>a, <2>2, PickedAppend, ZenonT(30)
    <3> QED
      BY <2>2, <3>1 DEF Mapped, Exits
  <2>5. CASE input[1] \in Mapped
    <3>1. SendKey(<<input[1]>>) /\ <<input[1]>> \in Seq(Chars)
      BY <1>3, <2>2, <2>5 DEF PlainKey
    <3>2. FlattenSeq(sent)' = FlattenSeq(sent) \o <<input[1]>>
      BY <1>1, <3>1, FlattenAppend DEF SendKey
    <3>3. SentIsTyped'
      BY <1>1, <2>2, <2>4, <2>5, <3>2, AppendIsConcat DEF SentIsTyped
    <3> QED
      BY <1>2, <2>2, <2>3, <3>1, <3>3, SentKeyKeeps
  <2>6. CASE input[1] \notin Mapped
    <3>1. UNCHANGED <<sent, waiting>>
      BY <1>3, <2>6 DEF PlainKey
    <3>2. SentIsTyped'
      BY <1>1, <2>4, <2>6, <3>1 DEF SentIsTyped
    <3> QED
      BY <1>2, <2>2, <2>3, <3>1, <3>2
      DEF KeyIInv, KeyTypes, NumbersAreOfSent, QueuedComeAfter, OnlyNeighboursChangePlaces,
          Queued
  <2> QED
    BY <2>5, <2>6
<1>4. CASE AltKey \/ EscapeAlone
  <2>1. /\ Len(input) >= 2 /\ input[1] = "esc"
        /\ input' = SubSeq(input, 3, Len(input)) /\ typed' = typed \o SubSeq(input, 1, 2)
    BY <1>4 DEF AltKey, EscapeAlone, Reads, Takes
  <2>2. /\ input[1] \in Chars /\ input[2] \in Chars /\ input' \in Seq(Chars)
        /\ typed' = Append(Append(typed, input[1]), input[2])
    BY <1>1, <2>1, TakenKeys
  <2>3. Append(typed, input[1]) \in Seq(Chars) /\ typed' \in Seq(Chars)
    BY <1>1, <2>2, AppendProperties
  <2>4. input[1] \in Mapped
    BY <2>1, <2>2 DEF Mapped, Exits
  <2>5. Picked(Append(typed, input[1]), Mapped) = Append(Picked(typed, Mapped), input[1])
    <3>1. Picked(Append(typed, input[1]), Mapped) = IF input[1] \in Mapped
                                                    THEN Append(Picked(typed, Mapped), input[1])
                                                    ELSE Picked(typed, Mapped)
      BY <1>a, <2>2, PickedAppend, ZenonT(30)
    <3> QED
      BY <2>4, <3>1
  <2>6. Picked(typed, Mapped)' = IF input[2] \in Mapped
                                 THEN Append(Append(Picked(typed, Mapped), input[1]), input[2])
                                 ELSE Append(Picked(typed, Mapped), input[1])
    <3>a. PICK t : t = Append(typed, input[1])
      OBVIOUS
    <3>1. Picked(Append(t, input[2]), Mapped) = IF input[2] \in Mapped
                                                THEN Append(Picked(t, Mapped), input[2])
                                                ELSE Picked(t, Mapped)
      <4>1. t \in Seq(Chars) /\ input[2] \in Chars
        BY <2>2, <2>3, <3>a
      <4> QED
        BY <4>1, PickedAppend, Zenon
    <3> QED
      BY <3>a, <2>2, <2>5, <3>1 DEF Mapped, Exits
  <2>7. CASE AltKey
    <3>1. SendKey(<<input[1], input[2]>>) /\ <<input[1], input[2]>> \in Seq(Chars)
      BY <2>2, <2>7 DEF AltKey
    <3>2. FlattenSeq(sent)' = FlattenSeq(sent) \o <<input[1], input[2]>>
      BY <1>1, <3>1, FlattenAppend DEF SendKey
    <3>3. \A s \in Seq(Chars) : s \o <<input[1], input[2]>> = Append(Append(s, input[1]), input[2])
      BY <2>2
    <3>4. SentIsTyped'
      BY <1>1, <2>6, <2>7, <3>2, <3>3 DEF SentIsTyped, AltKey
    <3> QED
      BY <1>2, <2>2, <2>3, <3>1, <3>4, SentKeyKeeps
  <2>8. CASE EscapeAlone
    <3>1. SendKey(<<input[1]>>) /\ <<input[1]>> \in Seq(Chars)
      BY <2>2, <2>8 DEF EscapeAlone
    <3>2. FlattenSeq(sent)' = FlattenSeq(sent) \o <<input[1]>>
      BY <1>1, <3>1, FlattenAppend DEF SendKey
    <3>3. SentIsTyped'
      BY <1>1, <2>2, <2>6, <2>8, <3>2, AppendIsConcat DEF SentIsTyped, EscapeAlone
    <3> QED
      BY <1>2, <2>2, <2>3, <3>1, <3>3, SentKeyKeeps
  <2> QED
    BY <1>4, <2>7, <2>8
<1> QED
  BY <1>3, <1>4

-----------------------------------------------------------------------------
(* A timer tick.  What it hands on are numbers of keystrokes that waited,  *)
(* and it leaves nothing waiting.                                          *)
LEMMA MinOfTwo ==
  ASSUME NEW a \in Nat, NEW b \in Nat
  PROVE  Min({a, b}) \in Nat /\ Min({a, b}) <= a /\ Min({a, b}) <= b
<1> DEFINE IsMin(x) == x \in {a, b} /\ \A y \in {a, b} : x <= y
<1>1. \E x : IsMin(x)
  <2>1. CASE a <= b
    BY <2>1
  <2>2. CASE b <= a
    BY <2>2
  <2> QED
    BY <2>1, <2>2
<1>2. Min({a, b}) = CHOOSE x \in {a, b} : \A y \in {a, b} : x <= y
  BY Zenon DEF Min
<1>3. IsMin(CHOOSE x \in {a, b} : \A y \in {a, b} : x <= y)
  BY <1>1
<1> QED
  BY <1>2, <1>3

LEMMA HandledFrames ==
  ASSUME KeyTypes, NEW h \in Hosts
  PROVE  /\ Handled(h) \in Seq({waiting[h][i] : i \in DOMAIN waiting[h]})
         /\ Handled(h) \in Seq(Frames)
         /\ Len(Handled(h)) = Len(waiting[h])
<1> DEFINE w == waiting[h]
           T == {w[i] : i \in DOMAIN w}
<1>1. w \in Seq(Frames) /\ Len(w) \in Nat /\ DOMAIN w = 1..Len(w)
  BY DEF KeyTypes
<1>2. T \subseteq Frames
  BY <1>1
<1>3. Handled(h) = [i \in 1..Len(w) |-> w[(Len(w) - i) + 1]]
  BY DEF Handled, Reverse
<1>4. \A i \in 1..Len(w) : w[(Len(w) - i) + 1] \in T
  BY <1>1
<1> HIDE DEF w, T
<1>5. Handled(h) \in Seq(T) /\ Len(Handled(h)) = Len(w)
  BY <1>1, <1>3, <1>4
<1>6. Handled(h) \in Seq(Frames)
  BY <1>2, <1>5, SeqMonotonic
<1> QED
  BY <1>5, <1>6 DEF w, T

LEMMA TickKeeps == ASSUME KeyIInv, NEW h \in Hosts, protocol_process(h)  PROVE KeyIInv'
<1> DEFINE frames == Handled(h)
           strokes == Picked(frames, OfType("INJECT_KEYSTROKE"))
           keys == [i \in DOMAIN strokes |-> strokes[i].number]
           n == Min({Len(keys), KbdSize - Len(kbd[h])})
           room == SubSeq(keys, 1, n)
           W == {waiting[h][i] : i \in DOMAIN waiting[h]}
<1>1. /\ kbd' = [kbd EXCEPT ![h] = @ \o room]
      /\ batches' = IF keys = <<>> THEN batches ELSE [batches EXCEPT ![h] = Append(@, ToSet(keys))]
      /\ waiting' = [waiting EXCEPT ![h] = SubSeq(@, 1, Len(@) - Len(frames))]
      /\ UNCHANGED <<input, typed, sent>>
  BY DEF protocol_process, terminal
<1>2. KeyTypes /\ Queued(h) \subseteq 1..Len(sent) /\ Len(sent) \in Nat
  BY DEF KeyIInv, KeyTypes, NumbersAreOfSent
<1>3. strokes \in Seq(W \cap OfType("INJECT_KEYSTROKE"))
  BY <1>2, HandledFrames, PickedElements, Zenon
<1>4. \A f \in W \cap OfType("INJECT_KEYSTROKE") : f.number \in Queued(h)
  BY DEF OfType, Queued
<1>5. keys \in Seq(Queued(h))
  <2> HIDE DEF strokes, W
  <2>1. DOMAIN strokes = 1..Len(strokes) /\ Len(strokes) \in Nat
    BY <1>3
  <2>2. \A i \in 1..Len(strokes) : strokes[i].number \in Queued(h)
    BY <1>3, <1>4
  <2> QED
    BY <2>1, <2>2
<1> HIDE DEF keys
<1>6. ToSet(keys) \subseteq Queued(h)
  BY <1>5 DEF ToSet
<1>7. /\ room \in Seq(Queued(h))
      /\ kbd[h] \in Seq(Nat) /\ Len(kbd[h]) + Len(room) <= KbdSize
  <2>1. Len(keys) \in Nat /\ KbdSize - Len(kbd[h]) \in Nat /\ kbd[h] \in Seq(Nat)
        /\ Len(kbd[h]) \in Nat /\ KbdSize \in Nat
    BY <1>2, <1>5, RemoteControlAssumption DEF KeyTypes
  <2>2. n \in Nat /\ n <= Len(keys) /\ n <= KbdSize - Len(kbd[h])
    BY <2>1, MinOfTwo
  <2> HIDE DEF n
  <2>3. \A i \in 1..n : keys[i] \in Queued(h)
    BY <1>5, <2>1, <2>2
  <2>4. room \in Seq(Queued(h)) /\ Len(room) = n
    BY <2>2, <2>3, SubSeqProperties
  <2> HIDE DEF room
  <2> QED
    BY <2>1, <2>2, <2>4
<1> HIDE DEF room
<1>8. waiting'[h] = <<>> /\ waiting' \in [Hosts -> Seq(Frames)]
      /\ \A g \in Hosts \ {h} : waiting'[g] = waiting[g]
  <2>1. Len(frames) = Len(waiting[h]) /\ Len(waiting[h]) \in Nat
    <3>1. Len(frames) = Len(waiting[h])
      BY <1>2, HandledFrames, Zenon
    <3> QED
      BY <1>2, <3>1 DEF KeyTypes
  <2> HIDE DEF frames
  <2>2. SubSeq(waiting[h], 1, Len(waiting[h]) - Len(frames)) = <<>>
    BY <2>1, SubSeqEmpty
  <2> QED
    BY <1>1, <1>2, <2>2 DEF KeyTypes
<1>9. Queued(h)' = {} /\ \A g \in Hosts \ {h} : Queued(g)' = Queued(g)
  BY <1>8 DEF Queued
<1>10. /\ kbd' \in [Hosts -> Seq(Nat)] /\ \A g \in Hosts \ {h} : kbd'[g] = kbd[g]
       /\ kbd'[h] = kbd[h] \o room /\ Len(kbd'[h]) <= KbdSize
       /\ \A i \in DOMAIN kbd'[h] : kbd'[h][i] \in 1..Len(sent)
  <2>1. room \in Seq(1..Len(sent)) /\ kbd[h] \in Seq(1..Len(sent))
    <3>1. \A i \in 1..Len(kbd[h]) : kbd[h][i] \in 1..Len(sent)
      BY <1>7 DEF KeyIInv, NumbersAreOfSent
    <3>2. kbd[h] \in Seq(1..Len(sent))
      BY <1>7, <3>1, SeqOfElements
    <3>3. room \in Seq(1..Len(sent))
      BY <1>2, <1>7, SeqMonotonic
    <3> QED
      BY <3>2, <3>3
  <2>2. kbd[h] \o room \in Seq(1..Len(sent)) /\ kbd[h] \o room \in Seq(Nat)
        /\ Len(kbd[h] \o room) = Len(kbd[h]) + Len(room)
    BY <2>1, ConcatProperties, SeqMonotonic
  <2>3. \A i \in DOMAIN (kbd[h] \o room) : (kbd[h] \o room)[i] \in 1..Len(sent)
    <3>a. PICK r : r = kbd[h] \o room
      OBVIOUS
    <3>1. r \in Seq(1..Len(sent))
      BY <2>2, <3>a
    <3>2. \A i \in DOMAIN r : r[i] \in 1..Len(sent)
      BY <3>1
    <3> QED
      BY <3>a, <3>2
  <2>4. kbd' = [kbd EXCEPT ![h] = kbd[h] \o room] /\ kbd \in [Hosts -> Seq(Nat)]
    BY <1>1, <1>2 DEF KeyTypes
  <2> QED
    BY <1>7, <2>2, <2>3, <2>4
<1>11. /\ batches' \in [Hosts -> Seq(SUBSET Nat)] /\ \A g \in Hosts \ {h} : batches'[g] = batches[g]
       /\ \/ batches'[h] = batches[h]
          \/ batches'[h] = Append(batches[h], ToSet(keys))
  <2>1. ToSet(keys) \in SUBSET Nat /\ batches[h] \in Seq(SUBSET Nat)
    BY <1>2, <1>6 DEF KeyTypes
  <2>2. Append(batches[h], ToSet(keys)) \in Seq(SUBSET Nat)
    BY <2>1, AppendProperties
  <2> QED
    BY <1>1, <1>2, <2>2 DEF KeyTypes
<1>12. KeyTypes'
  <2>1. input' \in Seq(Chars) /\ typed' \in Seq(Chars) /\ sent' \in Seq(Seq(Chars))
    BY <1>1, <1>2 DEF KeyTypes
  <2>2. \A g \in Hosts : Len(waiting'[g]) <= PoolSize
    <3>1. Len(waiting'[h]) = 0 /\ 0 <= PoolSize
      BY <1>8, RemoteControlAssumption
    <3>2. \A g \in Hosts \ {h} : Len(waiting'[g]) <= PoolSize
      BY <1>2, <1>8 DEF KeyTypes
    <3> QED
      BY <3>1, <3>2
  <2>3. \A g \in Hosts : Len(kbd'[g]) <= KbdSize
    BY <1>2, <1>10 DEF KeyTypes
  <2> QED
    BY <1>8, <1>10, <1>11, <2>1, <2>2, <2>3 DEF KeyTypes
<1>13. \A j \in DOMAIN batches'[h] :
         \/ j \in DOMAIN batches[h] /\ batches'[h][j] = batches[h][j]
         \/ /\ batches'[h][j] = ToSet(keys)
            /\ \A i \in 1..(j - 1) : i \in DOMAIN batches[h] /\ batches'[h][i] = batches[h][i]
  <2>1. batches[h] \in Seq(SUBSET Nat)
    BY <1>2 DEF KeyTypes
  <2>2. CASE batches'[h] = Append(batches[h], ToSet(keys))
    BY <2>1, <2>2
  <2> QED
    BY <1>11, <2>2
<1>14. NumbersAreOfSent'
  <2> SUFFICES ASSUME NEW g \in Hosts
               PROVE  /\ Queued(g)' \subseteq 1..Len(sent)
                      /\ \A i \in DOMAIN kbd'[g] : kbd'[g][i] \in 1..Len(sent)
                      /\ \A j \in DOMAIN batches'[g] : batches'[g][j] \subseteq 1..Len(sent)
    BY <1>1 DEF NumbersAreOfSent
  <2>1. Queued(g)' \subseteq 1..Len(sent)
    BY <1>9 DEF KeyIInv, NumbersAreOfSent
  <2>2. \A i \in DOMAIN kbd'[g] : kbd'[g][i] \in 1..Len(sent)
    BY <1>10 DEF KeyIInv, NumbersAreOfSent
  <2>3. \A j \in DOMAIN batches'[g] : batches'[g][j] \subseteq 1..Len(sent)
    <3>1. \A j \in DOMAIN batches[g] : batches[g][j] \subseteq 1..Len(sent)
      BY <1>2 DEF KeyIInv, NumbersAreOfSent
    <3>2. CASE g # h
      BY <1>11, <3>1, <3>2
    <3>3. CASE g = h
      BY <1>2, <1>6, <1>13, <3>1, <3>3
    <3> QED
      BY <3>2, <3>3
  <2> QED
    BY <2>1, <2>2, <2>3
<1>15. QueuedComeAfter'
  <2> SUFFICES ASSUME NEW g \in Hosts, NEW j \in DOMAIN batches'[g],
                      NEW a \in batches'[g][j], NEW b \in Queued(g)'
               PROVE  a < b
    BY DEF QueuedComeAfter
  <2> QED
    BY <1>9, <1>11 DEF KeyIInv, QueuedComeAfter
<1>16. OnlyNeighboursChangePlaces'
  <2> SUFFICES ASSUME NEW g \in Hosts, NEW j \in DOMAIN batches'[g], NEW i \in 1..(j - 1),
                      NEW a \in batches'[g][i], NEW b \in batches'[g][j]
               PROVE  a < b
    BY DEF OnlyNeighboursChangePlaces
  <2>1. CASE g # h
    BY <1>11, <2>1 DEF KeyIInv, OnlyNeighboursChangePlaces
  <2>2. CASE g = h /\ j \in DOMAIN batches[h] /\ batches'[h][j] = batches[h][j]
    <3>1. batches[h] \in Seq(SUBSET Nat) /\ i \in DOMAIN batches[h]
      BY <1>2, <2>2 DEF KeyTypes
    <3>2. i \in DOMAIN batches'[h] /\ batches'[h][i] = batches[h][i]
      <4>1. CASE batches'[h] = Append(batches[h], ToSet(keys))
        BY <3>1, <4>1
      <4> QED
        BY <1>11, <3>1, <4>1
    <3> QED
      BY <2>2, <3>1, <3>2 DEF KeyIInv, OnlyNeighboursChangePlaces
  <2>3. CASE /\ g = h /\ batches'[h][j] = ToSet(keys)
             /\ i \in DOMAIN batches[h] /\ batches'[h][i] = batches[h][i]
    BY <1>6, <2>3 DEF KeyIInv, QueuedComeAfter
  <2> QED
    BY <1>13, <2>1, <2>2, <2>3
<1>17. SentIsTyped'
  BY <1>1 DEF KeyIInv, SentIsTyped
<1> QED
  BY <1>12, <1>14, <1>15, <1>16, <1>17 DEF KeyIInv

LEMMA ReadKeyKeeps == ASSUME KeyIInv, NEW h \in Hosts, ReadKey(h)  PROVE KeyIInv'
<1>1. UNCHANGED <<input, typed, sent, waiting, batches>>
  BY DEF ReadKey, lan, history, terminal
<1>2. kbd \in [Hosts -> Seq(Nat)] /\ kbd[h] \in Seq(Nat) /\ kbd[h] # <<>>
      /\ kbd' = [kbd EXCEPT ![h] = Tail(kbd[h])]
  BY DEF ReadKey, KeyIInv, KeyTypes
<1>3. /\ Tail(kbd[h]) \in Seq(Nat) /\ Len(Tail(kbd[h])) = Len(kbd[h]) - 1
      /\ \A i \in 1..Len(Tail(kbd[h])) : /\ Tail(kbd[h])[i] = kbd[h][i + 1]
                                         /\ i + 1 \in DOMAIN kbd[h]
  <2>1. /\ Tail(kbd[h]) \in Seq(Nat) /\ Len(Tail(kbd[h])) = Len(kbd[h]) - 1
        /\ \A i \in 1..Len(Tail(kbd[h])) : Tail(kbd[h])[i] = kbd[h][i + 1]
    BY <1>2, HeadTailProperties
  <2> QED
    BY <1>2, <2>1
<1>4. KeyTypes'
  <2>1. Len(kbd[h]) \in Nat /\ Len(kbd[h]) <= KbdSize /\ KbdSize \in Nat
    BY <1>2, RemoteControlAssumption DEF KeyIInv, KeyTypes
  <2>2. kbd' \in [Hosts -> Seq(Nat)] /\ \A g \in Hosts : Len(kbd'[g]) <= KbdSize
    BY <1>2, <1>3, <2>1 DEF KeyIInv, KeyTypes
  <2> QED
    BY <1>1, <2>2 DEF KeyIInv, KeyTypes
<1>5. NumbersAreOfSent'
  BY <1>1, <1>2, <1>3 DEF KeyIInv, NumbersAreOfSent, Queued
<1>6. QueuedComeAfter' /\ OnlyNeighboursChangePlaces' /\ SentIsTyped'
  BY <1>1 DEF KeyIInv, QueuedComeAfter, Queued, OnlyNeighboursChangePlaces, SentIsTyped
<1> QED
  BY <1>4, <1>5, <1>6 DEF KeyIInv

-----------------------------------------------------------------------------
(* The types of what the launcher and its client keep.                     *)
Answers == [mac : Hosts, session_id : Nat]

ClientTypes ==
  /\ mode \in Modes /\ session_id \in 1..MaxRuns /\ chosen \in Hosts \cup {NULL}
  /\ list \in [Slots -> Hosts \cup {NULL}] /\ active \in Slots \cup {NULL}
  /\ serving \in BOOLEAN /\ (serving => mode = "shell")
  /\ visits \in 0..MaxVisits /\ losses \in 0..MaxLosses
  /\ answers \in Seq(Answers)

LEMMA RegisterIsTyped ==
  ASSUME ClientTypes, NEW mac \in Hosts
  PROVE  hostlist_register(mac) \in [Slots -> Hosts \cup {NULL}]
<1>1. CASE Known(mac) # {} \/ Free = {}
  BY <1>1 DEF ClientTypes, hostlist_register
<1>2. CASE Known(mac) = {} /\ Free # {}
  <2>1. hostlist_register(mac) = [list EXCEPT ![Least(Free)] = mac]
    BY <1>2 DEF hostlist_register
  <2> QED
    BY <2>1 DEF ClientTypes
<1> QED
  BY <1>1, <1>2

LEMMA ReceivedAnswer ==
  ASSUME ClientTypes, Receives
  PROVE  /\ Answer.mac \in Hosts
         /\ answers' \in Seq(Answers) /\ UNCHANGED <<waiting, losses>>
<1>1. answers \in Seq(Answers) /\ answers # <<>> /\ answers' = Tail(answers)
      /\ UNCHANGED <<waiting, losses>>
  BY DEF ClientTypes, Receives
<1>2. Head(answers) \in Answers /\ Tail(answers) \in Seq(Answers)
  BY <1>1, HeadTailProperties
<1> QED
  BY <1>1, <1>2 DEF Answer, Answers

LEMMA LossesAreBounded ==
  ASSUME ClientTypes, \/ \E frame : Broadcast(frame)
                      \/ \E g, frame : SendTo(g, frame)
  PROVE  losses' \in 0..MaxLosses
BY RemoteControlAssumption DEF ClientTypes, Broadcast, SendTo

LEMMA AnswersGrow ==
  ASSUME KeyTypes, ClientTypes, NEW h \in Hosts, protocol_process(h)
  PROVE  answers' \in Seq(Answers)
<1> DEFINE probes == Picked(Handled(h), OfType("STATUS_REQ"))
           new == [i \in DOMAIN probes |-> [mac |-> h, session_id |-> probes[i].number]]
<1>1. answers' = answers \o new
  BY DEF protocol_process
<1>2. probes \in Seq(Frames \cap OfType("STATUS_REQ"))
  BY HandledFrames, PickedElements, Zenon
<1> HIDE DEF probes
<1>3. DOMAIN probes = 1..Len(probes) /\ Len(probes) \in Nat
      /\ \A i \in 1..Len(probes) : probes[i].number \in Nat
  BY <1>2 DEF OfType
<1>4. new \in Seq(Answers)
  BY <1>3 DEF Answers
<1> HIDE DEF new
<1> QED
  BY <1>1, <1>4, ConcatProperties DEF ClientTypes

(* Each step keeps them.                                                   *)
LEMMA ClientTypesKept == ASSUME KeyTypes, ClientTypes, [Next]_vars  PROVE ClientTypes'
<1> USE RemoteControlAssumption DEF client, lan, history, terminal, Idle
<1>1. CASE SelectorProbes \/ TimersProbe
  <2>1. losses' \in 0..MaxLosses /\ answers' = answers
    BY <1>1, LossesAreBounded DEF SelectorProbes, TimersProbe, Probe
  <2> QED
    BY <1>1, <2>1 DEF SelectorProbes, TimersProbe, ClientTypes
<1>2. CASE rmtdos_cga_web_client_main
  <2>1. losses' \in 0..MaxLosses
    BY <1>2, LossesAreBounded DEF rmtdos_cga_web_client_main
  <2>2. answers' = <<>> /\ mode' = "shell" /\ list' = NoHosts /\ active' = NULL
        /\ UNCHANGED <<chosen, serving, visits>> /\ session_id' \in 1..MaxRuns
    BY <1>2 DEF rmtdos_cga_web_client_main, OpenSocket, ClientTypes
  <2>3. NoHosts \in [Slots -> Hosts \cup {NULL}] /\ <<>> \in Seq(Answers)
    BY DEF NoHosts
  <2> QED
    BY <2>1, <2>2, <2>3 DEF ClientTypes, Modes
<1>3. CASE TimersKeepAlive
  <2>1. losses' \in 0..MaxLosses
    BY <1>3, LossesAreBounded DEF TimersKeepAlive
  <2> QED
    BY <1>3, <2>1 DEF TimersKeepAlive, ClientTypes
<1>4. CASE select_host
  <2>1. \E i \in Slots : chosen' = list[i]
    BY <1>4, FoundIsListed DEF select_host
  <2>2. chosen' \in Hosts \cup {NULL} /\ mode' = "select_mode" /\ ~serving
    BY <1>4, <2>1 DEF select_host, ClientTypes
  <2> QED
    BY <1>4, <2>2 DEF select_host, ClientTypes, Modes
<1>5. CASE run_file_commander_mode \/ CommanderReturns \/ Ends
  <2>1. NoHosts \in [Slots -> Hosts \cup {NULL}] /\ <<>> \in Seq(Answers)
    BY DEF NoHosts
  <2>2. /\ mode' \in Modes /\ ~serving
        /\ session_id' \in 1..MaxRuns
        /\ (list' = NoHosts \/ list' = list)
        /\ (answers' = <<>> \/ answers' = answers)
        /\ UNCHANGED <<chosen, active, serving, visits, losses>>
    BY <1>5 DEF run_file_commander_mode, CommanderReturns, BackInMain, Ends, OpenSocket, Modes,
                ClientTypes
  <2> QED
    BY <2>1, <2>2 DEF ClientTypes
<1>6. CASE process_incoming_status
  <2>1. list' = list \/ (list' = hostlist_register(Answer.mac) /\ Receives)
    BY <1>6 DEF process_incoming_status
  <2>2. Receives /\ UNCHANGED <<mode, session_id, chosen, active, serving, visits>>
    BY <1>6 DEF process_incoming_status
  <2> QED
    BY <2>1, <2>2, ReceivedAnswer, RegisterIsTyped DEF ClientTypes
<1>7. CASE process_socket_io
  <2> DEFINE found == {i \in Slots : list'[i] = chosen}
  <2>1. list' = list \/ list' = hostlist_register(Answer.mac)
    BY <1>7 DEF process_socket_io
  <2>2. active' = active \/ (found # {} /\ active' = Least(found))
    BY <1>7 DEF process_socket_io
  <2>3. Receives /\ UNCHANGED <<mode, session_id, chosen, serving, visits>>
    BY <1>7 DEF process_socket_io
  <2>4. found # {} => Least(found) \in Slots
    BY LeastIsMember
  <2> HIDE DEF found
  <2> QED
    BY <2>1, <2>2, <2>3, <2>4, ReceivedAnswer, RegisterIsTyped DEF ClientTypes
<1>8. CASE process_stdin_menu_mode \/ ExitKey
  <2>1. UNCHANGED visits /\ ~serving
    BY <1>8 DEF process_stdin_menu_mode, ExitKey, Reads, Loop
  <2>2. CASE Leave
    <3>1. NoHosts \in [Slots -> Hosts \cup {NULL}] /\ <<>> \in Seq(Answers)
      BY DEF NoHosts
    <3>2. /\ mode' \in Modes /\ session_id' \in 1..MaxRuns
          /\ (answers' = <<>> \/ answers' = answers)
          /\ list' = NoHosts /\ UNCHANGED <<chosen, active, serving, losses>>
      BY <2>2 DEF Leave, BackInMain, OpenSocket, Modes, ClientTypes
    <3> QED
      BY <2>1, <3>1, <3>2 DEF ClientTypes
  <2>3. CASE /\ UNCHANGED <<mode, session_id, chosen, list, serving, lan>>
             /\ \/ active' = NULL
                \/ \E c : hostlist_find_by_index(c) # {} /\ active' = Digit[c]
    <3>1. active' \in Slots \cup {NULL}
      BY <2>3, FoundIsListed
    <3> QED
      BY <2>1, <2>3, <3>1 DEF ClientTypes
  <2> QED
    BY <1>8, <2>2, <2>3 DEF process_stdin_menu_mode, ExitKey
<1>9. CASE PlainKey \/ AltKey \/ EscapeAlone
  <2>1. \/ losses' = losses
        \/ \E g, frame : SendTo(g, frame)
    BY <1>9 DEF PlainKey, AltKey, EscapeAlone, SendKey
  <2>2. losses' \in 0..MaxLosses
    BY <2>1, LossesAreBounded DEF ClientTypes
  <2>3. UNCHANGED <<client, answers, visits>>
    BY <1>9 DEF PlainKey, AltKey, EscapeAlone, Takes, Reads
  <2> QED
    BY <2>2, <2>3 DEF ClientTypes
<1>10. CASE web_accept \/ web_server_process
  <2>1. /\ UNCHANGED <<mode, session_id, chosen, list, active, answers, losses>>
        /\ serving' \in BOOLEAN /\ (serving' => mode = "shell")
        /\ (visits' = visits \/ (visits < MaxVisits /\ visits' = visits + 1))
    BY <1>10 DEF web_accept, web_server_process, Loop
  <2> QED
    BY <2>1 DEF ClientTypes
<1>11. ASSUME NEW h \in Hosts, protocol_process(h)  PROVE ClientTypes'
  <2>1. UNCHANGED <<client, visits, losses>>
    BY <1>11 DEF protocol_process
  <2> QED
    BY <1>11, <2>1, AnswersGrow DEF ClientTypes
<1>12. CASE (\E h \in Hosts : ReadKey(h)) \/ (\E c \in Chars : Type(c)) \/ UNCHANGED vars
  <2>1. UNCHANGED <<client, answers, losses, visits>>
    BY <1>12 DEF ReadKey, Type, vars
  <2> QED
    BY <2>1 DEF ClientTypes
<1>13. CASE LoseAnswer
  <2>1. answers \in Seq(Answers) /\ answers # <<>> /\ answers' = Tail(answers)
    BY <1>13 DEF LoseAnswer, ClientTypes
  <2>2. answers' \in Seq(Answers)
    BY <2>1, HeadTailProperties
  <2> QED
    BY <1>13, <2>2 DEF LoseAnswer, ClientTypes
<1> QED
  BY <1>1, <1>2, <1>3, <1>4, <1>5, <1>6, <1>7, <1>8, <1>9, <1>10, <1>11, <1>12, <1>13
  DEF Next, Listens, StdIn, process_stdin_session_mode

-----------------------------------------------------------------------------
KeysAndTypes == KeyIInv /\ ClientTypes

LEMMA InitKeysAndTypes == Init => KeysAndTypes
<1> SUFFICES ASSUME Init  PROVE KeysAndTypes
  OBVIOUS
<1>1. \A T : <<>> \in Seq(T)
  BY EmptySeq
<1>2. KeyTypes
  BY <1>1, RemoteControlAssumption DEF Init, KeyTypes
<1>3. SentIsTyped
  BY PickedEmpty, FlattenEmpty DEF Init, SentIsTyped
<1>4. NumbersAreOfSent /\ QueuedComeAfter /\ OnlyNeighboursChangePlaces
  BY DEF Init, NumbersAreOfSent, QueuedComeAfter, OnlyNeighboursChangePlaces, Queued
<1>5. ClientTypes
  <2>1. <<>> \in Seq(Answers) /\ NoHosts \in [Slots -> Hosts \cup {NULL}]
    BY <1>1 DEF NoHosts
  <2>2. session_id \in 1..MaxRuns /\ visits \in 0..MaxVisits /\ losses \in 0..MaxLosses
    BY RemoteControlAssumption DEF Init
  <2> QED
    BY <2>1, <2>2 DEF Init, ClientTypes, Modes
<1> QED
  BY <1>2, <1>3, <1>4, <1>5 DEF KeysAndTypes, KeyIInv

LEMMA NextKeysAndTypes == KeysAndTypes /\ [Next]_vars => KeysAndTypes'
<1> SUFFICES ASSUME KeysAndTypes, [Next]_vars  PROVE KeysAndTypes'
  OBVIOUS
<1>1. KeyIInv /\ KeyTypes /\ ClientTypes /\ session_id \in Nat
  BY DEF KeysAndTypes, KeyIInv, ClientTypes
<1>2. ClientTypes'
  BY <1>1, ClientTypesKept
<1>3. KeyIInv'
  BY <1>1, QuietSteps, QuietKeeps, KeysKeep, TickKeeps, ReadKeyKeeps
  DEF Next, Listens, StdIn, process_stdin_session_mode
<1> QED
  BY <1>2, <1>3 DEF KeysAndTypes

(* The launcher's variables keep their types, and neither the pool nor the *)
(* keyboard buffer of any host ever holds more than it has room for, be    *)
(* the keys as many as they may between two ticks.                         *)
THEOREM TypeCorrect == Spec => []TypeOK
<1>1. ASSUME KeysAndTypes  PROVE TypeOK
  <2>1. \A h \in Hosts, i \in 1..KbdSize : i <= Len(kbd[h]) => kbd[h][i] \in DOMAIN sent
    BY <1>1 DEF KeysAndTypes, KeyIInv, KeyTypes, NumbersAreOfSent
  <2> QED
    BY <1>1, <2>1 DEF TypeOK, KeysAndTypes, KeyIInv, KeyTypes, ClientTypes
<1> QED
  BY <1>1, InitKeysAndTypes, NextKeysAndTypes, PTL DEF Spec

(* However Escape and the next character come together or apart, what has  *)
(* been sent is what was typed, each known key once and in order.          *)
THEOREM KeysAreSentAsTyped == Spec => []SentIsTyped
<1>1. KeysAndTypes => SentIsTyped
  BY DEF KeysAndTypes, KeyIInv
<1> QED
  BY <1>1, InitKeysAndTypes, NextKeysAndTypes, PTL DEF Spec

(* The ready list, a stack, turns round only what came between two ticks:  *)
(* a key that DOS is handed at a later tick was typed later, whatever was  *)
(* lost.                                                                   *)
THEOREM OrderAcrossTicks == Spec => []OnlyNeighboursChangePlaces
<1>1. KeysAndTypes => OnlyNeighboursChangePlaces
  BY DEF KeysAndTypes, KeyIInv
<1> QED
  BY <1>1, InitKeysAndTypes, NextKeysAndTypes, PTL DEF Spec
=============================================================================
