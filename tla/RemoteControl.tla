---------------------------- MODULE RemoteControl ----------------------------
(***************************************************************************)
(* From the launcher's host selector to the keystroke in the DOS buffer:   *)
(* src/rmtdos-utils.c, client/main.c, client/hostlist.c, client/keyboard.c *)
(* and client/web.c on the Linux side; on every DOS host protocol_process, *)
(* handle_status_req, handle_inject_keystroke and x86_inject_keystroke.    *)
(* A frame that is not lost waits in the host's receive pool for the next  *)
(* timer tick; answers wait in the client's socket.                        *)
(***************************************************************************)
EXTENDS Naturals, SequencesExt, Picking

CONSTANTS
  Hosts,      \* the DOS machines that run the server
  Wanted,     \* the one that the user chooses: they are alike, any will do
  MaxHosts,   \* MAX_HOSTS: slots of the host list, of which digits name the first
  PoolSize,   \* receive buffers of a host
  KbdSize,    \* keys that the BIOS keyboard buffer takes
  Chars,      \* what the user may type: see Mapped
  NULL,
  MaxTyped,   \* bounds the characters typed,
  MaxRuns,    \* the sockets opened,
  MaxVisits,  \* the connections of browsers,
  MaxLosses   \* and the frames lost

Slots == 0..(MaxHosts - 1)

(* "0", "1", ... are keys, and select a host where there is a menu; "esc"  *)
(* is Escape, "exit" is Ctrl-] and "bad" a key the keymap does not know.   *)
Exits == {"exit"}
Mapped == Chars \ (Exits \cup {"bad"})
Digit == [c \in {"0", "1", "2"} |-> CASE c = "0" -> 0 [] c = "1" -> 1 [] c = "2" -> 2]

ASSUME RemoteControlAssumption ==
  /\ Chars \subseteq DOMAIN Digit \cup {"esc", "exit", "bad"}
  /\ MaxHosts \in Nat \ {0} /\ PoolSize \in Nat \ {0} /\ KbdSize \in Nat
  /\ MaxTyped \in Nat /\ MaxRuns \in Nat \ {0} /\ MaxVisits \in Nat /\ MaxLosses \in Nat
  /\ Wanted \in Hosts /\ NULL \notin Hosts

VARIABLES
  mode,      \* what of the launcher runs: its two selectors, or a program
  session_id,\* of the socket that is open: their number
  chosen,    \* host_addr, which becomes g_autoconnect_host
  list,      \* g_remote_hosts: the MAC address in each slot
  active,    \* g_active_host: the slot it points to
  input,     \* what the user has typed and the terminal holds
  serving,   \* web_server_process is in recv
  waiting,   \* for each host, the frames received since the last tick
  answers,   \* STATUS_RESP frames in the client's socket
  kbd,       \* for each host, the BIOS keyboard buffer
  \* History and bounds.
  typed,     \* the characters that process_stdin_session_mode has taken
  sent,      \* the keystrokes it has made of them: one or, with Alt, two characters
  batches,   \* for each host, the numbers of the keystrokes handled at each tick
  keyed, visits, losses

client   == <<mode, session_id, chosen, list, active, serving>>
lan      == <<waiting, answers, losses>>
history  == <<typed, sent, batches>>
terminal == <<input, keyed>>
vars == <<client, lan, history, terminal, visits, kbd>>

NoHosts == [i \in Slots |-> NULL]

-----------------------------------------------------------------------------
(* Host list.                                                              *)

Known(mac) == {i \in Slots : list[i] = mac}       \* hostlist_find_by_mac
Free == {i \in Slots : list[i] = NULL}
Least(slots) == CHOOSE i \in slots : \A j \in slots : i <= j

\* Mutant: with no free slot the first is taken over.
Bug_hostlist_register(mac) ==
  CASE Known(mac) # {} -> list
    [] Known(mac) = {} /\ Free # {} -> [list EXCEPT ![Least(Free)] = mac]
    [] OTHER -> [list EXCEPT ![0] = mac]

hostlist_register(mac) ==
  IF Known(mac) # {} \/ Free = {} THEN list ELSE [list EXCEPT ![Least(Free)] = mac]

hostlist_find_by_index(c) ==
  IF c \in DOMAIN Digit /\ Digit[c] \in Slots THEN {Digit[c]} \ Free ELSE {}

-----------------------------------------------------------------------------
(* Sending.  A frame is lost on the LAN, or for want of a receive buffer.  *)

\* Mutant: a frame for which there is no receive buffer is stored all the same.
Bug_Deliver(h, frame, w) == [w EXCEPT ![h] = Append(@, frame)]

Deliver(h, frame, w) ==
  IF Len(w[h]) < PoolSize THEN [w EXCEPT ![h] = Append(@, frame)] ELSE w

SendTo(h, frame) ==
  \/ waiting' = Deliver(h, frame, waiting) /\ UNCHANGED losses
  \/ losses < MaxLosses /\ losses' = losses + 1 /\ UNCHANGED waiting

(* Of a frame for DOS: the session id that the answer to a probe carries,   *)
(* the number of the keystroke.                                            *)
Frame(type, number) == [type |-> type, number |-> number]
OfType(type) == [type : {type}, number : Nat]

(* send_status_req(rs, NULL): a broadcast that is lost is lost for some of *)
(* the hosts, or for all of them.                                          *)
Broadcast(frame) ==
  \E missed \in SUBSET Hosts :
    /\ losses' = IF missed = {} THEN losses ELSE losses + 1
    /\ losses' <= MaxLosses
    /\ waiting' = [h \in Hosts |-> IF h \in missed THEN waiting[h]
                                   ELSE Deliver(h, frame, waiting)[h]]

(* The intervals of the timers are long: what was sent at the last has     *)
(* been handled, or is lost.                                               *)
IsPending(type) == \E h \in Hosts : \E i \in DOMAIN waiting[h] : waiting[h][i].type = type
NoProbePending == ~IsPending("STATUS_REQ") /\ answers = <<>>

Probe == /\ NoProbePending
         /\ Broadcast(Frame("STATUS_REQ", session_id))
         /\ UNCHANGED answers

(* A socket takes only what is sent to its own session id. *)
Receives == /\ answers # <<>> /\ answers' = Tail(answers)
            /\ UNCHANGED <<waiting, losses>>
Answer == Head(answers)
IsOurs == Answer.session_id = session_id

-----------------------------------------------------------------------------
(* The launcher: choose a host, then a mode; when that program ends,       *)
(* choose again.                                                           *)

Idle == UNCHANGED <<history, terminal, visits, kbd>>

(* What the last socket had received goes with it; answers to its probes   *)
(* may still come.                                                         *)
OpenSocket == /\ session_id < MaxRuns /\ session_id' = session_id + 1
              /\ answers' = <<>>

SelectorProbes == /\ mode = "select_host" /\ Probe
                  /\ UNCHANGED client /\ Idle

process_incoming_status ==
  /\ mode = "select_host" /\ Receives
  /\ list' = IF IsOurs THEN hostlist_register(Answer.mac) ELSE list
  /\ UNCHANGED <<mode, session_id, chosen, active, serving>> /\ Idle

(* The address is copied out of the list before the list is destroyed.     *)
select_host ==
  /\ mode = "select_host"
  /\ \E c \in DOMAIN Digit : \E i \in hostlist_find_by_index(c) :
       list[i] = Wanted /\ chosen' = list[i]
  /\ mode' = "select_mode"
  /\ UNCHANGED <<session_id, list, active, serving, lan>> /\ Idle

\* Mutant: the globals of the run before are still set.
Bug_rmtdos_cga_web_client_main ==
  /\ mode = "select_mode" /\ OpenSocket
  /\ mode' = "shell"
  /\ list' = NoHosts
  /\ Broadcast(Frame("STATUS_REQ", session_id'))
  /\ UNCHANGED <<chosen, active, serving>> /\ Idle

(* run_shell_mode and the first lines of the client: the globals of the    *)
(* run before are reset, the new socket asks who is there.                 *)
rmtdos_cga_web_client_main ==
  /\ mode = "select_mode" /\ OpenSocket
  /\ mode' = "shell"
  /\ list' = NoHosts /\ active' = NULL
  /\ Broadcast(Frame("STATUS_REQ", session_id'))
  /\ UNCHANGED <<chosen, serving>> /\ Idle

(* run_file_commander_mode: a host list and a socket of its own, and the   *)
(* host it is given; see Commander.                                        *)
run_file_commander_mode ==
  /\ mode = "select_mode" /\ OpenSocket
  /\ mode' = "commander"
  /\ list' = NoHosts
  /\ UNCHANGED <<chosen, active, serving, waiting, losses>> /\ Idle

(* When a program has returned main opens a socket and asks again, unless  *)
(* the socket cannot be had or the program has failed (rc # 0).            *)
BackInMain == \/ OpenSocket /\ mode' = "select_host"
              \/ mode' = "ended" /\ UNCHANGED <<session_id, answers>>

CommanderReturns ==
  /\ mode = "commander" /\ BackInMain
  /\ UNCHANGED <<chosen, list, active, serving, waiting, losses>> /\ Idle

(* The user leaves either selector, or a program fails before it begins    *)
(* (no socket, no web server), and main returns what it returned.          *)
Ends == /\ mode \in {"select_host", "select_mode"}
        /\ mode' = "ended" /\ list' = NoHosts
        /\ UNCHANGED <<session_id, chosen, active, serving, lan>> /\ Idle

-----------------------------------------------------------------------------
(* The client's event loop, unless it is in recv for a browser.            *)

Loop == mode = "shell" /\ ~serving

\* Mutant: only the first probe is sent.
Bug_TimersProbe == FALSE /\ UNCHANGED vars

(* process_timers *)
TimersProbe == /\ Loop /\ Probe
               /\ UNCHANGED client /\ Idle

\* Mutant: a pass of the loop with nothing to read runs no timers.
Bug_TimersKeepAlive ==
  /\ Loop /\ active # NULL /\ ~IsPending("SESSION_START")
  /\ input # <<>> \/ answers # <<>>
  /\ SendTo(list[active], Frame("SESSION_START", 0))
  /\ UNCHANGED <<client, answers>> /\ Idle

TimersKeepAlive ==
  /\ Loop /\ active # NULL /\ ~IsPending("SESSION_START")
  /\ SendTo(list[active], Frame("SESSION_START", 0))
  /\ UNCHANGED <<client, answers>> /\ Idle

(* process_socket_io: a host that answers is listed, and the one of -d is  *)
(* controlled as soon as it is.                                            *)
process_socket_io ==
  /\ Loop /\ Receives
  /\ list' = IF IsOurs THEN hostlist_register(Answer.mac) ELSE list
  /\ active' = LET found == {i \in Slots : list'[i] = chosen}
               IN  IF IsOurs /\ active = NULL /\ Answer.mac = chosen /\ found # {}
                   THEN Least(found) ELSE active
  /\ UNCHANGED <<mode, session_id, chosen, serving>> /\ Idle

(* The client ends and frees the list.  What the user typed ahead is not   *)
(* followed.                                                               *)
Leave ==
  /\ list' = NoHosts /\ BackInMain
  /\ UNCHANGED <<chosen, active, serving, waiting, losses>>

Reads(n) == Loop /\ Len(input) >= n /\ UNCHANGED <<visits, kbd, batches>>

process_stdin_menu_mode ==
  /\ active = NULL /\ Reads(1)
  /\ LET c == input[1]
     IN  \/ /\ c \in Exits \cup {"esc"}
            /\ Leave /\ input' = <<>>
         \/ /\ c \notin Exits \cup {"esc"}
            /\ active' = IF hostlist_find_by_index(c) = {} THEN NULL ELSE Digit[c]
            /\ input' = Tail(input)
            /\ UNCHANGED <<mode, session_id, chosen, list, serving, lan>>
  /\ UNCHANGED <<keyed, typed, sent>>

-----------------------------------------------------------------------------
(* process_stdin_session_mode.                                             *)

Takes(n) == /\ input' = SubSeq(input, n + 1, Len(input))
            /\ typed' = typed \o SubSeq(input, 1, n)
            /\ UNCHANGED <<client, keyed, answers>>

(* send_key_from_wch *)
SendKey(key) == /\ sent' = Append(sent, key)
                /\ SendTo(list[active], Frame("INJECT_KEYSTROKE", Len(sent) + 1))

ExitKey ==
  /\ active # NULL /\ Reads(1) /\ input[1] \in Exits
  /\ Leave /\ input' = <<>>
  /\ UNCHANGED <<keyed, typed, sent>>

PlainKey ==
  /\ active # NULL /\ Reads(1) /\ input[1] \notin Exits
  /\ input[1] = "esc" => Len(input) = 1   \* nothing more to be read
  /\ Takes(1)
  /\ IF input[1] \in Mapped THEN SendKey(<<input[1]>>)
     ELSE UNCHANGED <<sent, waiting, losses>>

(* Escape and the next character are Alt and that character, *)
AltKey ==
  /\ active # NULL /\ Reads(2) /\ input[1] = "esc" /\ input[2] \in Mapped
  /\ Takes(2)
  /\ SendKey(<<input[1], input[2]>>)

\* Mutant: Escape is lost with the character that follows it.
Bug_EscapeAlone ==
  /\ active # NULL /\ Reads(2) /\ input[1] = "esc" /\ input[2] \notin Mapped
  /\ Takes(2)
  /\ UNCHANGED <<sent, waiting, losses>>

(* or else Escape alone; the other character, even one that exits, is gone. *)
EscapeAlone ==
  /\ active # NULL /\ Reads(2) /\ input[1] = "esc" /\ input[2] \notin Mapped
  /\ Takes(2)
  /\ SendKey(<<input[1]>>)

process_stdin_session_mode == ExitKey \/ PlainKey \/ AltKey \/ EscapeAlone

-----------------------------------------------------------------------------
(* The browser's side of the event loop: recv blocks, and with it the      *)
(* whole client.                                                           *)
web_accept ==
  /\ Loop /\ visits < MaxVisits /\ visits' = visits + 1
  /\ serving' = TRUE
  /\ UNCHANGED <<mode, session_id, chosen, list, active, lan, history, terminal, kbd>>

(* The browser has sent its request, or closed the connection: one answer, *)
(* close.  Nothing says that it ever does.                                 *)
web_server_process ==
  /\ serving /\ serving' = FALSE
  /\ UNCHANGED <<mode, session_id, chosen, list, active, lan>> /\ Idle

-----------------------------------------------------------------------------
(* A DOS host.                                                             *)

\* Mutant: one packet is handled at each tick.
Bug_Handled(h) == <<Last(waiting[h])>>

(* The ready list is a stack: what came last is handled first. *)
Handled(h) == Reverse(waiting[h])

(* protocol_process, at a timer tick, with handle_status_req and           *)
(* handle_inject_keystroke.  INT 16h takes keys while there is room and    *)
(* refuses the others, which nobody learns.  (What \E binds TLC evaluates  *)
(* once; what LET defines, at each use.)                                   *)
protocol_process(h) ==
  /\ waiting[h] # <<>>
  /\ \E frames \in {Handled(h)} :
     \E probes \in {Picked(frames, OfType("STATUS_REQ"))},
        strokes \in {Picked(frames, OfType("INJECT_KEYSTROKE"))} :
     LET keys == [i \in DOMAIN strokes |-> strokes[i].number]
         room == SubSeq(keys, 1, Min({Len(keys), KbdSize - Len(kbd[h])}))
     IN  /\ answers' = answers \o [i \in DOMAIN probes |->
                                     [mac |-> h, session_id |-> probes[i].number]]
         /\ kbd' = [kbd EXCEPT ![h] = @ \o room]
         /\ batches' = IF keys = <<>> THEN batches
                       ELSE [batches EXCEPT ![h] = Append(@, ToSet(keys))]
         /\ waiting' = [waiting EXCEPT ![h] =
                          SubSeq(@, 1, Len(@) - Len(frames))]
  /\ UNCHANGED <<client, terminal, visits, typed, sent, losses>>

(* A DOS program reads a key (INT 16h). *)
ReadKey(h) ==
  /\ kbd[h] # <<>> /\ kbd' = [kbd EXCEPT ![h] = Tail(@)]
  /\ UNCHANGED <<client, lan, history, terminal, visits>>

-----------------------------------------------------------------------------
(* The user and the LAN.                                                   *)

Type(c) ==
  /\ mode = "shell" /\ keyed < MaxTyped /\ keyed' = keyed + 1
  /\ input' = Append(input, c)
  /\ UNCHANGED <<client, lan, history, visits, kbd>>

LoseAnswer ==
  /\ answers # <<>> /\ losses < MaxLosses
  /\ losses' = losses + 1 /\ answers' = Tail(answers)
  /\ UNCHANGED <<client, waiting, history, terminal, visits, kbd>>

-----------------------------------------------------------------------------
(* The launcher at the top of its loop: the globals of the client are as a *)
(* run before has left them.                                               *)
Init ==
  /\ mode = "select_host" /\ session_id = 1 /\ chosen = NULL
  /\ list = NoHosts /\ active \in Slots \cup {NULL} /\ serving = FALSE
  /\ input = <<>>
  /\ waiting = [h \in Hosts |-> <<>>] /\ answers = <<>>
  /\ kbd = [h \in Hosts |-> <<>>]
  /\ typed = <<>> /\ sent = <<>> /\ batches = [h \in Hosts |-> <<>>]
  /\ keyed = 0 /\ visits = 0 /\ losses = 0

Listens == process_incoming_status \/ process_socket_io
StdIn == process_stdin_menu_mode \/ process_stdin_session_mode

Next ==
  \/ SelectorProbes \/ select_host
  \/ rmtdos_cga_web_client_main \/ run_file_commander_mode \/ CommanderReturns \/ Ends
  \/ TimersProbe \/ TimersKeepAlive \/ Listens \/ StdIn
  \/ web_accept \/ web_server_process
  \/ (\E h \in Hosts : protocol_process(h) \/ ReadKey(h))
  \/ (\E c \in Chars : Type(c)) \/ LoseAnswer

Spec == Init /\ [][Next]_vars

(* The timers of client and hosts go on.  The user need do nothing, and    *)
(* neither need a browser that has connected.                              *)
Fairness == /\ WF_vars(TimersProbe) /\ WF_vars(TimersKeepAlive)
            /\ WF_vars(Listens) /\ WF_vars(StdIn)
            /\ \A h \in Hosts : WF_vars(protocol_process(h))

FairSpec == Spec /\ Fairness

-----------------------------------------------------------------------------
(* Properties.                                                             *)

Modes == {"select_host", "select_mode", "shell", "commander", "ended"}

(* Types, and: neither the pool nor the keyboard buffer of a host takes    *)
(* more than it has room for, however many keys are typed between ticks.   *)
TypeOK ==
  /\ mode \in Modes /\ session_id \in 1..MaxRuns /\ chosen \in Hosts \cup {NULL}
  /\ list \in [Slots -> Hosts \cup {NULL}] /\ active \in Slots \cup {NULL}
  /\ serving \in BOOLEAN
  /\ serving => mode = "shell"
  /\ visits \in 0..MaxVisits /\ losses \in 0..MaxLosses
  /\ \A h \in Hosts : Len(waiting[h]) <= PoolSize /\ Len(kbd[h]) <= KbdSize
  /\ \A h \in Hosts, i \in 1..KbdSize : i <= Len(kbd[h]) => kbd[h][i] \in DOMAIN sent

(* No host is listed twice, though each probe is answered and answers are  *)
(* late; and while the client runs, g_active_host points into the list of  *)
(* this run, not to a host freed at the end of one before.                 *)
HostListIsSound ==
  /\ \A i, j \in Slots : list[i] = list[j] /\ list[i] # NULL => i = j
  /\ mode = "shell" /\ active # NULL => list[active] # NULL

(* A host keeps its number as long as the list is shown, so that a digit   *)
(* means the host it stood beside when the user looked.                    *)
HostsKeepTheirNumbers ==
  [][\A i \in Slots : mode' = mode /\ list[i] # NULL => list'[i] = list[i]]_vars

(* What is sent to DOS is what was typed, in order, each known key once,   *)
(* alone or as Alt with the Escape before it: no way of being read together *)
(* or apart loses or repeats a known key.                                  *)
SentIsTyped == FlattenSeq(sent) = Picked(typed, Mapped)

(* Keys reach DOS in the order typed, except those that came between the   *)
(* same two ticks, which the ready list turns round: every tick empties it. *)
OnlyNeighboursChangePlaces ==
  \A h \in Hosts : \A j \in DOMAIN batches[h] : \A i \in 1..(j - 1) :
    \A k \in batches[h][i], l \in batches[h][j] : k < l

(* The premise of the two that follow: no browser connects and then says   *)
(* nothing for ever.  The recv of web.c:207 has no timeout, so that one    *)
(* which does stops the client: its keys, its probes and its keep-alives.  *)
BrowsersSpeak == []<>~serving

(* "-d  Destination MAC address": the client that the launcher starts      *)
(* comes to control a host without being asked, though frames are lost and *)
(* others answer first; unless those fill the list before it is heard, or  *)
(* a silent browser stops the loop before the answer is read.              *)
Connecting == mode = "shell" /\ active = NULL
AutoConnects ==
  BrowsersSpeak => (Connecting ~> ~Connecting \/ (Free = {} /\ Known(chosen) = {}))

KeptAlive == /\ active # NULL
             /\ \E i \in DOMAIN waiting[list[active]] :
                  waiting[list[active]][i].type = "SESSION_START"

(* "Client should send this packet every few seconds" (protocol.h:60): a   *)
(* controlled host receives SESSION_START again and again until the client *)
(* ends, beside keys, answers and browsers that are slow, in one loop.     *)
KeepsAlive ==
  BrowsersSpeak => (mode = "shell" /\ active # NULL ~> mode # "shell" \/ KeptAlive)
=============================================================================
