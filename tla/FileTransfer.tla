---------------------------- MODULE FileTransfer ----------------------------
(***************************************************************************)
(* The file server and its clients on one LAN: uploads, downloads,         *)
(* directory listings and remote file operations, end to end.              *)
(***************************************************************************)
EXTENDS FileServer, FileClient

CONSTANT
  Prompt   (* DOS is idle and the LAN quick enough that an answer, unless   *)
           (* it is lost, arrives within ACK_TIMEOUT_SEC                    *)

ASSUME FileTransferAssumption == Prompt \in BOOLEAN

vars == <<wire, server, dos, client>>

Init == WireInit /\ ServerInit /\ ClientInit

(* Nothing is under way that could still answer the client.                *)
Quiet(c) == /\ toServer = <<>> /\ ready = <<>> /\ toClient[c] = <<>>
            /\ g_file.pending_op = "NONE" /\ op = "NONE"

TimesOut(c) == (Prompt => Quiet(c)) /\ Timeout(c)

ClientStep(c) == (ClientNext(c) \/ TimesOut(c)) /\ UNCHANGED <<server, dos>>

Lose == /\ LoseRequest \/ \E c \in Clients : LoseReply(c)
        /\ UNCHANGED <<server, dos, client>>

Next == \/ ServerNext /\ UNCHANGED client
        \/ \E c \in Clients : ClientStep(c)
        \/ Lose

Spec == Init /\ [][Next]_vars

(* The timer ticks and the driver receives; DOS returns from its calls and *)
(* is idle again and again; a client's select returns.  Losing is a choice.*)
Fairness == /\ WF_vars(Receive /\ UNCHANGED client)
            /\ WF_vars((TickBegin \/ file_transfer_handle_packet) /\ UNCHANGED client)
            /\ WF_vars((file_transfer_process_idle \/ Dos) /\ UNCHANGED client)
            /\ \A c \in Clients : WF_vars(ClientStep(c))

FairSpec == Spec /\ Fairness

-----------------------------------------------------------------------------
(* Properties.                                                             *)

(* Types, and: no more frames wait than there are receive buffers, the     *)
(* timer handler returns when none is left (protocol_process), and         *)
(* process_idle is inside a DOS call whenever it is not running.           *)
TypeOK ==
  /\ toServer \in Seq(Request) /\ ready \in Seq(Request)
  /\ Len(ready) <= PoolSize
  /\ losses \in 0..MaxLosses /\ faults \in 0..MaxFaults
  /\ ticking \in BOOLEAN
  /\ ticking => ready # <<>>
  /\ g_file.mode \in {"NONE", "PUT", "GET", "DIR"}
  /\ g_file.pending_op \in RequestType \cup {"NONE", "ACK"}
  /\ g_file.handle \in Handles \cup {NoHandle}
  /\ op = "NONE" <=> call = "none"
  /\ DOMAIN open \subseteq Handles
  /\ \A c \in Clients : step[c] \in Steps /\ attempt[c] \in 0..Retries

(* The operation has had the effect its user asked for. *)
TookEffect(o) ==
  CASE o.kind = "PUT"    -> o.path \in DOMAIN files /\ files[o.path] = o.data
    [] o.kind = "MKDIR"  -> o.path \in dirs
    [] o.kind = "DELETE" -> ~Exists(o.path)
    [] o.kind = "RENAME" -> ~Exists(o.path) /\ Exists(o.target)
    [] o.kind = "COPY"   -> o.target \in DOMAIN files /\ files[o.target] = InitFiles[o.path]
    [] o.kind \in {"GET", "DIR"} -> TRUE

HasReturned(c, i, outcome) == i <= Len(results[c]) /\ results[c][i].outcome = outcome

Completed(c, i) == HasReturned(c, i, "complete")

(* What a client has reported complete is so, and stays so: no late retry  *)
(* undoes or repeats it.  "Acknowledges one file-transfer operation"       *)
(* (common/protocol.h).                                                    *)
CompleteIsDone ==
  \A c \in Clients : \A i \in 1..Len(script[c]) :
    Completed(c, i) => TookEffect(script[c][i])

(* A download that a client has reported complete is the remote file.      *)
DownloadIsExact ==
  \A c \in Clients : \A i \in 1..Len(script[c]) :
    Completed(c, i) /\ script[c][i].kind = "GET"
      => results[c][i].data = InitFiles[script[c][i].path]

(* A listing that a client has completed is the whole directory, each      *)
(* entry once and in order, across pages, retries and lost pages, if no    *)
(* DOS call failed: collect_dir_entries takes any failure for the end of   *)
(* the directory.                                                          *)
ListingIsWhole ==
  \A c \in Clients : \A i \in 1..Len(script[c]) :
    Completed(c, i) /\ script[c][i].kind = "DIR" /\ faults = 0
      => results[c][i].data = SetToSeq(DOMAIN InitFiles \cup InitDirs)

(* The server knows every handle it has open. *)
Known == {g_file.handle, local.in, local.out}
         \cup (IF returned /\ ~carry /\ call \in {"create", "open_read", "copy_open", "copy_create"}
               THEN {ax} ELSE {})
NoHandleLost == DOMAIN open \subseteq Known

(* No handle is used after it is closed, when DOS may have given its       *)
(* number to another file: a call names an open handle or -1, which DOS    *)
(* refuses.                                                                *)
NoStaleHandle ==
  call \in {"write", "read", "seek", "copy_read", "copy_write"} \cup Closing /\ ~returned
    => bx \in DOMAIN open \cup {NoHandle}

(* Everything a user asks for comes about and returns, although frames are *)
(* lost and DOS calls fail, fewer of them together than FILE_RETRIES: each *)
(* handler answers a retry, or is idempotent when its answer was lost.     *)
(* The client may still report a failure when the answer to END was lost,  *)
(* or the second execution of a path operation is refused by DOS.          *)
EffectsHappen ==
  \A c \in Clients : \A i \in 1..MaxOps :
    i <= Len(script[c]) => <>(Len(results[c]) >= i /\ TookEffect(script[c][i]))
=============================================================================
