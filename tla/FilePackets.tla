---------------------------- MODULE FilePackets ----------------------------
(***************************************************************************)
(* What the file server and its clients share: the packets of              *)
(* common/protocol.h that move files and directory listings, the ids a     *)
(* client gives them, and the wire between the two machines, a LAN that    *)
(* delivers in order and may lose a frame.                                 *)
(*                                                                         *)
(* A file is a sequence of chunks, and offsets and sizes count chunks.     *)
(***************************************************************************)
EXTENDS Naturals, Sequences

CONSTANTS
  Clients,    (* the Linux hosts                                            *)
  MaxOps,     (* bound: operations one client asks for                      *)
  Names,      (* DOS paths                                                  *)
  Chunks,     (* chunk contents                                             *)
  MaxLosses   (* bound: frames the LAN loses                                *)

ASSUME FilePacketsAssumption ==
  /\ MaxOps \in Nat /\ MaxLosses \in Nat

VARIABLES
  toServer,   \* the frames on their way to the DOS machine
  toClient,   \* for each client, the frames sent to it and not yet received
  losses      \* frames lost so far

wire == <<toServer, toClient, losses>>

None == "none"   \* a path, chunk or id field that is not used

-----------------------------------------------------------------------------
(* A session id is drawn once per socket: rmtdos-file-commander keeps one  *)
(* for all its operations, cga-web --put and --get draw a new one for each.*)
(* The pair carries the MAC address with it, which the server always       *)
(* stores together with it.                                                *)
Sessions == Clients \X (1..MaxOps)

Mac(session) == session[1]

Salts == {"PUT", "GET", "DIR", "MKDIR", "DELETE", "RENAME", "COPY"}

(* make_transfer_id, make_request_id: session id xor a salt of the kind.   *)
make_transfer_id(session, salt) == <<session, salt>>

Ids == Sessions \X Salts

(* What memset leaves in the fields that hold a session or an id. *)
NoSession == <<None, 0>>
NoId      == <<NoSession, None>>

-----------------------------------------------------------------------------
PathOps == {"MKDIR", "DELETE", "RENAME", "COPY"}

RequestType == {"PUT_BEGIN", "PUT_DATA", "PUT_END",
                "GET_BEGIN", "GET_DATA_REQ", "GET_END",
                "DIR_LIST_BEGIN", "DIR_LIST_DATA_REQ", "DIR_LIST_END"}
               \cup PathOps

Ack == {"BEGIN", "DATA", "END"} \cup PathOps   \* FILE_ACK_* commands

(* One shape for all requests; each type uses the fields it has.           *)
Request == [type : RequestType, session : Sessions, id : Ids,
            path : Names \cup {None}, target : Names \cup {None},
            size : Nat, offset : Nat, chunk : Chunks \cup {None},
            is_dir : BOOLEAN]

FileAck(session, id, command, status, offset) ==
  [type |-> "FILE_ACK", session |-> session, id |-> id,
   command |-> command, status |-> status, offset |-> offset, data |-> <<>>]

FileGetData(session, id, status, offset, data) ==
  [type |-> "FILE_GET_DATA", session |-> session, id |-> id,
   command |-> None, status |-> status, offset |-> offset, data |-> data]

DirListData(session, id, status, start, entries) ==
  [type |-> "DIR_LIST_DATA", session |-> session, id |-> id,
   command |-> None, status |-> status, offset |-> start, data |-> entries]

-----------------------------------------------------------------------------
SendToServer(p) == toServer' = Append(toServer, p)

(* pktdrv_send: nobody looks at whether the frame went out. *)
SendToClient(r) ==
  toClient' = [toClient EXCEPT ![Mac(r.session)] = Append(@, r)]

WireInit == /\ toServer = <<>>
            /\ toClient = [c \in Clients |-> <<>>]
            /\ losses = 0

LoseRequest == /\ losses < MaxLosses
               /\ toServer # <<>>
               /\ toServer' = Tail(toServer)
               /\ losses' = losses + 1
               /\ UNCHANGED toClient

LoseReply(c) == /\ losses < MaxLosses
                /\ toClient[c] # <<>>
                /\ toClient' = [toClient EXCEPT ![c] = Tail(@)]
                /\ losses' = losses + 1
                /\ UNCHANGED toServer
=============================================================================
