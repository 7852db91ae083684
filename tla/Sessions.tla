------------------------------ MODULE Sessions ------------------------------
(***************************************************************************)
(* Remote-control sessions: server/session.c, run by the timer handler     *)
(* int08_handler, and the client that keeps its session alive and shows    *)
(* the screen (client/main.c).                                             *)
(*                                                                         *)
(* On each tick the server forgets the sessions it has not heard from for  *)
(* Lifetime ticks and sends the next packet of the screen to all others.   *)
(* Only at the start of a frame does it look whether the screen has        *)
(* changed, and it remembers one checksum for all clients.                 *)
(*                                                                         *)
(* The checksum is modelled as the screen itself: two screens of equal     *)
(* checksum are outside the model.                                         *)
(***************************************************************************)
EXTENDS Naturals, FiniteSets

CONSTANTS
  Clients,        (* cga-web processes: a MAC address and a session id      *)
  MAX_SESSIONS,   (* slots of g_sessions                                    *)
  Lifetime,       (* session_lifetime_bios_ticks                            *)
  Day,            (* ticks from midnight to midnight                        *)
  Lines,          (* video modes, and the lines of each                     *)
  GraphicsModes,  (* is_cga_graphics_mode                                   *)
  FirstMode,      (* the mode the server is loaded in, from the DOS prompt  *)
  Contents,       (* what a line may show                                   *)
  PacketLines,    (* lines that fit into an Ethernet frame                  *)
  MaxChanges,     (* bound: changes of the screen                           *)
  MaxLosses       (* bound: screen packets the LAN loses                    *)

Modes == DOMAIN Lines

ASSUME SessionsAssumption ==
  /\ IsFiniteSet(Clients)
  /\ {MAX_SESSIONS, Lifetime, Day, PacketLines} \subseteq Nat \ {0}
  /\ MaxChanges \in Nat /\ MaxLosses \in Nat
  /\ Lines \in [Modes -> Nat \ {0}]
  /\ GraphicsModes \subseteq Modes /\ FirstMode \in Modes \ GraphicsModes

NoClient == "none"
ASSUME NoClientAssumption == NoClient \notin Clients

Blank == "blank"   \* a line of a client's buffer nothing has been copied to
ASSUME ContentsAssumption == Blank \notin Contents

Slots  == 1..MAX_SESSIONS
Unused == [client |-> NoClient, t_last_recv |-> 0]   \* what memset leaves

VARIABLES
  g_sessions,          \* the session table
  clock,               \* the BIOS tick clock, 0 at midnight
  video_next_row, video_chksum, cga_next_offset, cga_graphics_chksum,
  mode, screen,        \* the video mode and the frame buffer
  connected,           \* for each client: "new", "yes" or "gone"
  shown,               \* for each client, its two screen buffers
  changes, losses,     \* counters of the two bounds
  age,                 \* history: of a session, ticks since the last SESSION_START
  fresh                \* history: the screen has changed, and not back to what
                       \* the last frame began with, since the client's session
                       \* began and since it last lost a packet

table   == g_sessions
cursors == <<video_next_row, video_chksum, cga_next_offset, cga_graphics_chksum>>
display == <<mode, screen, changes>>
peers   == <<connected, shown, losses>>
vars == <<table, clock, cursors, display, peers, age, fresh>>

Kind(m) == IF m \in GraphicsModes THEN "graphics" ELSE "text"

LinesOf(kind) == UNION {1..Lines[m] : m \in {n \in Modes : Kind(n) = kind}}

(* video_text_buffer and cga_graphics_buffer *)
NoBuffers == [kind \in {"text", "graphics"} |-> [i \in LinesOf(kind) |-> Blank]]

Has(c) == \E s \in Slots : g_sessions[s].client = c

(* The client is there and has a session. *)
Served(c) == connected[c] = "yes" /\ Has(c)

-----------------------------------------------------------------------------
(* Setting a video mode (INT 10h) clears the screen.                       *)
Cleared(m) == [i \in 1..Lines[m] |-> CHOOSE content \in Contents : TRUE]

(* session_mgr_init *)
Init ==
  /\ g_sessions = [s \in Slots |-> Unused]
  /\ clock = 0
  /\ video_next_row = 0 /\ cga_next_offset = 0
  /\ video_chksum = <<>> /\ cga_graphics_chksum = <<>>
  /\ mode = FirstMode
  /\ screen = Cleared(mode) /\ changes = 0
  /\ connected = [c \in Clients |-> "new"]
  /\ shown = [c \in Clients |-> NoBuffers]
  /\ losses = 0
  /\ age = [c \in Clients |-> 0] /\ fresh = [c \in Clients |-> FALSE]

-----------------------------------------------------------------------------
(* The user selects the server, and some day the process ends. *)
start_remote_control(c) ==
  /\ connected[c] = "new"
  /\ connected' = [connected EXCEPT ![c] = "yes"]
  /\ UNCHANGED <<table, clock, cursors, display, shown, losses, age, fresh>>

Leave(c) ==
  /\ connected[c] = "yes"
  /\ connected' = [connected EXCEPT ![c] = "gone"]
  /\ shown' = [shown EXCEPT ![c] = NoBuffers]
  /\ fresh' = [fresh EXCEPT ![c] = FALSE]
  /\ UNCHANGED <<table, clock, cursors, display, losses, age>>

(* session_mgr_find, of a client and of an unused slot. *)
IsFirst(s, c) == /\ g_sessions[s].client = c
                 /\ \A t \in Slots : t < s => g_sessions[t].client # c

\* Mutant: the time is not noted.
Bug_NotRefreshed(c) ==
  /\ connected[c] = "yes" /\ Has(c)
  /\ age' = [age EXCEPT ![c] = 0]
  /\ UNCHANGED <<table, clock, cursors, display, peers, fresh>>

(* A SESSION_START of process_timers arrives: session_mgr_start refreshes  *)
(* the client's slot, or takes an unused one.                              *)
Refresh(c) ==
  /\ connected[c] = "yes"
  /\ \E s \in Slots :
       /\ IsFirst(s, c)
       /\ g_sessions' = [g_sessions EXCEPT ![s].t_last_recv = clock]
  /\ age' = [age EXCEPT ![c] = 0]
  /\ UNCHANGED <<clock, cursors, display, peers, fresh>>

Admit(c) ==
  /\ connected[c] = "yes"
  /\ ~Has(c)
  /\ \E s \in Slots :
       /\ IsFirst(s, NoClient)
       /\ g_sessions' = [g_sessions EXCEPT ![s] = [client |-> c, t_last_recv |-> clock]]
  /\ age' = [age EXCEPT ![c] = 0]
  /\ fresh' = [fresh EXCEPT ![c] = FALSE]
  /\ UNCHANGED <<clock, cursors, display, peers>>

(* When all slots are full nothing happens, and the client is not told.    *)
session_mgr_start(c) == Refresh(c) \/ Admit(c)

-----------------------------------------------------------------------------
(* The screen the last frame began with: what its checksum stands for. *)
LastSent(m) == IF Kind(m) = "text" THEN video_chksum ELSE cga_graphics_chksum

(* The foreground program draws a line or sets a video mode.               *)
Changed == /\ changes < MaxChanges
           /\ changes' = changes + 1
           /\ fresh' = [c \in Clients |-> Served(c) /\ screen' # LastSent(mode')]

Draw(i) ==
  /\ \E content \in Contents \ {screen[i]} : screen' = [screen EXCEPT ![i] = content]
  /\ UNCHANGED mode
  /\ Changed
  /\ UNCHANGED <<table, clock, cursors, peers, age>>

SetMode(m) ==
  /\ m # mode /\ mode' = m
  /\ screen' = Cleared(m)
  /\ Changed
  /\ UNCHANGED <<table, clock, cursors, peers, age>>

-----------------------------------------------------------------------------
(* session_mgr_update_all, at the end of int08_handler; the BIOS handler   *)
(* it chains to then counts the tick.                                      *)

\* Mutant: off by one.
Bug_TooLate(s) == g_sessions[s].t_last_recv + Lifetime + 1 < clock

Expired(s) == g_sessions[s].t_last_recv + Lifetime < clock

\* Mutant: the client's address stays in the slot.
Bug_NotCleared ==
  [s \in Slots |-> IF Expired(s) THEN [g_sessions[s] EXCEPT !.t_last_recv = 0]
                   ELSE g_sessions[s]]

Pruned == [s \in Slots |-> IF Expired(s) THEN Unused ELSE g_sessions[s]]

Active == {Pruned[s].client : s \in Slots} \ {NoClient}

Ticked == /\ g_sessions' = Pruned
          /\ clock' = IF clock + 1 = Day THEN 0 ELSE clock + 1
          /\ age' = [c \in Clients |-> IF c \notin Active THEN 0
                                     ELSE IF age[c] <= Lifetime THEN age[c] + 1 ELSE age[c]]
          /\ UNCHANGED <<display, connected>>

SendNothing == UNCHANGED <<shown, losses, fresh>>

(* process_incoming_video_text, process_incoming_cga_graphics              *)
Received(buffers, from, n) ==
  [buffers EXCEPT ![Kind(mode)] =
     [i \in LinesOf(Kind(mode)) |->
        IF i \in (from + 1)..(from + n) THEN screen[i] ELSE @[i]]]

(* The lines from + 1 .. from + n go to every active session; of the       *)
(* clients that are still there, lost are those the packet does not reach. *)
Send(from, n) ==
  \E lost \in SUBSET {c \in Active : connected[c] = "yes"} :
    /\ losses' = losses + Cardinality(lost)
    /\ losses' <= MaxLosses
    /\ shown' = [c \in Clients |->
                   IF c \in Active \ lost /\ connected[c] = "yes"
                   THEN Received(shown[c], from, n) ELSE shown[c]]
    /\ fresh' = [c \in Clients |-> fresh[c] /\ c \notin lost]

(* Where the next packet begins, and how much it holds. *)
From(cursor) == IF cursor >= Lines[mode] THEN 0 ELSE cursor

\* Mutant: the last packet of a frame is as long as the others.
Bug_FullPacket(from) == PacketLines

Length(from) == IF PacketLines + from > Lines[mode] THEN Lines[mode] - from ELSE PacketLines

UpdateNobody ==
  /\ Active = {}
  /\ video_next_row' = 0 /\ cga_next_offset' = 0
  /\ UNCHANGED <<video_chksum, cga_graphics_chksum>>
  /\ SendNothing /\ Ticked

session_mgr_send_cga_graphics ==
  /\ Active # {} /\ Kind(mode) = "graphics"
  /\ LET from == From(cga_next_offset)
     IN  IF from = 0 /\ screen = cga_graphics_chksum
         THEN /\ cga_next_offset' = 0
              /\ UNCHANGED cga_graphics_chksum
              /\ SendNothing
         ELSE /\ cga_graphics_chksum' = IF from = 0 THEN screen ELSE cga_graphics_chksum
              /\ cga_next_offset' = from + Length(from)
              /\ Send(from, Length(from))
  /\ video_next_row' = 0
  /\ UNCHANGED video_chksum
  /\ Ticked

\* Mutant: every packet updates the checksum.
Bug_ChecksumEachPacket ==
  /\ Active # {} /\ Kind(mode) = "text"
  /\ LET from == From(video_next_row)
     IN  IF from = 0 /\ screen = video_chksum
         THEN video_next_row' = 0 /\ SendNothing
         ELSE video_next_row' = from + Length(from) /\ Send(from, Length(from))
  /\ video_chksum' = screen
  /\ cga_next_offset' = 0
  /\ UNCHANGED cga_graphics_chksum
  /\ Ticked

UpdateText ==
  /\ Active # {} /\ Kind(mode) = "text"
  /\ LET from == From(video_next_row)
     IN  IF from = 0 /\ screen = video_chksum
         THEN /\ video_next_row' = 0
              /\ UNCHANGED video_chksum
              /\ SendNothing
         ELSE /\ video_chksum' = IF from = 0 THEN screen ELSE video_chksum
              /\ video_next_row' = from + Length(from)
              /\ Send(from, Length(from))
  /\ cga_next_offset' = 0
  /\ UNCHANGED cga_graphics_chksum
  /\ Ticked

session_mgr_update_all == UpdateNobody \/ session_mgr_send_cga_graphics \/ UpdateText

-----------------------------------------------------------------------------
Next == \/ session_mgr_update_all
        \/ \E c \in Clients : start_remote_control(c) \/ Leave(c) \/ session_mgr_start(c)
        \/ \E i \in DOMAIN screen : Draw(i)
        \/ \E m \in Modes : SetMode(m)

Spec == Init /\ [][Next]_vars

(* The timer interrupts for ever, and a connected client sends a           *)
(* SESSION_START every two seconds: no browser stops its loop for ever     *)
(* (BrowsersSpeak of RemoteControl).                                       *)
Fairness == /\ WF_vars(session_mgr_update_all)
            /\ \A c \in Clients : WF_vars(session_mgr_start(c))

FairSpec == Spec /\ Fairness

-----------------------------------------------------------------------------
(* Properties.                                                             *)

(* Types of the session table; and no packet reaches beyond the frame, so  *)
(* that the cursors stay inside it.                                        *)
TypeOK ==
  /\ g_sessions \in [Slots -> [client : Clients \cup {NoClient}, t_last_recv : 0..(Day - 1)]]
  /\ clock \in 0..(Day - 1)
  /\ video_next_row \in LinesOf("text") \cup {0}
  /\ cga_next_offset \in LinesOf("graphics") \cup {0}
  /\ mode \in Modes /\ DOMAIN screen = 1..Lines[mode]
  /\ connected \in [Clients -> {"new", "yes", "gone"}]
  /\ changes \in 0..MaxChanges /\ losses \in 0..MaxLosses
  /\ age \in [Clients -> 0..(Lifetime + 1)]

(* The loop that prunes stale sessions takes nobody's session before it    *)
(* has been silent for Lifetime ticks, at midnight neither.                *)
KeptAlive ==
  [][\A c \in Clients : Has(c) /\ ~Has(c)' => age[c] > Lifetime]_vars

(* A client never holds two slots (session_mgr_start looks for its slot    *)
(* first): it would get every packet twice, and a fifth client none.       *)
OneSlotEach ==
  \A s, t \in Slots :
    g_sessions[s].client = g_sessions[t].client /\ s # t => g_sessions[s].client = NoClient

(* Unless midnight has passed, a slot is no older on the clock than its    *)
(* client has been silent.                                                 *)
AgesOnTheClock ==
  \A s \in Slots :
    LET c == g_sessions[s].client
        t == g_sessions[s].t_last_recv
    IN  c # NoClient /\ t <= clock => age[c] > Lifetime \/ age[c] >= clock - t

(* The inductive invariant behind KeptAlive. *)
IInv == TypeOK /\ OneSlotEach /\ AgesOnTheClock

(* "Server will stop sending data to client a few seconds after the last   *)
(* time this packet was received" (common/protocol.h).                     *)
GoneIsForgotten == \A c \in Clients : connected[c] = "gone" ~> ~Has(c)

(* The same, unless the packet came within the last Lifetime ticks of a    *)
(* day: such a session is never pruned, its time of death being later than *)
(* any time the clock can show.                                            *)
HeardByDay(c) ==
  \A s \in Slots : g_sessions[s].client = c
                   => g_sessions[s].t_last_recv + Lifetime < Day - 1

GoneByDayIsForgotten ==
  \A c \in Clients : connected[c] = "gone" /\ HeardByDay(c) ~> ~Has(c)

(* A client that stays is served, even if it found the table full, once    *)
(* the others have left (by day): a full table is not full for ever.       *)
NewcomerIsServed ==
  \A c \in Clients :
    <>[](/\ connected[c] = "yes"
         /\ \A d \in Clients \ {c} : connected[d] # "yes" /\ HeardByDay(d))
      => []<>Has(c)

Shows(c) == \A i \in DOMAIN screen : shown[c][Kind(mode)][i] = screen[i]

(* Whatever the interleaving of changes, mode switches and lost packets, a *)
(* change after the client's session began and after its last lost packet  *)
(* brings its whole screen up to date, also when it is made while a frame  *)
(* is being sent: the next one begins with a comparison.  Excepted is the  *)
(* change that leaves the screen as the last frame found it: what was sent *)
(* of a line that has changed and changed back within a frame stays with   *)
(* the client, because only the checksum of the frame's start is compared  *)
(* (session.c:226-228).                                                    *)
ChangesAreShown ==
  \A c \in Clients : <>[](Served(c) /\ fresh[c]) => <>[]Shows(c)

(* "Server will start sending VGA text frames" (common/protocol.h): a      *)
(* client that has a session sees something of the screen.                 *)
FramesStart ==
  \A c \in Clients :
    <>[]Served(c) => <>(\E i \in DOMAIN screen : shown[c][Kind(mode)][i] # Blank)
=============================================================================
