----------------------------- MODULE FileClient -----------------------------
(***************************************************************************)
(* The Linux side of the file operations: client/file_transfer.c of        *)
(* cga-web, and net/file_transfer.c and net/remote_dir.c of file-commander.*)
(* Each client works through a script, the operations its user asks for    *)
(* one after the other, stop-and-wait: it sends a request, and sends it    *)
(* again when two seconds pass without an answer or when the answer says   *)
(* ERROR, FILE_RETRIES times in all.                                       *)
(***************************************************************************)
EXTENDS FilePackets

CONSTANTS
  Scripts,      (* what users may ask for: each of these gives every client *)
                (* the sequence of its operations                           *)
  Retries,      (* FILE_RETRIES, DIR_LIST_RETRIES                           *)
  FullPage      (* DIR_LIST_PAGE_ENTRIES                                    *)

Kinds == {"PUT", "GET", "DIR"} \cup PathOps

Operation == [kind : Kinds, path : Names \cup {None}, target : Names \cup {None},
              data : Seq(Chunks), is_dir : BOOLEAN, session : 1..MaxOps]

ASSUME FileClientAssumption ==
  /\ Retries \in Nat \ {0} /\ FullPage \in Nat \ {0}
  /\ \A s \in Scripts, c \in Clients : s[c] \in Seq(Operation) /\ Len(s[c]) <= MaxOps

VARIABLES
  script,    \* the one of Scripts that this behaviour follows
  opno,      \* for each client, the operation it is at
  step,      \* what it waits for
  attempt,   \* transmissions of the request so far
  offset,    \* its file offset or directory index
  file_size, \* of a download
  got,       \* what it has written to the local file, or listed
  results    \* for each operation that has returned, how

client == <<script, opno, step, attempt, offset, file_size, got, results>>

Steps == {"idle", "BEGIN", "DATA", "END", "PAGE"} \cup PathOps

ClientInit ==
  /\ script \in Scripts
  /\ opno = [c \in Clients |-> 1]
  /\ step = [c \in Clients |-> "idle"]
  /\ attempt = [c \in Clients |-> 0]
  /\ offset = [c \in Clients |-> 0]
  /\ file_size = [c \in Clients |-> 0]
  /\ got = [c \in Clients |-> <<>>]
  /\ results = [c \in Clients |-> <<>>]

Op(c) == script[c][opno[c]]

Session(c) == <<c, Op(c).session>>
Id(c)      == make_transfer_id(Session(c), Op(c).kind)

-----------------------------------------------------------------------------
(* The request of each step.                                               *)

Packet(c, type) ==
  [type |-> type, session |-> Session(c), id |-> Id(c), path |-> None,
   target |-> None, size |-> 0, offset |-> 0, chunk |-> None, is_dir |-> FALSE]

RequestFor(c, at, off) ==
  LET o == Op(c)
  IN  CASE o.kind = "PUT" /\ at = "BEGIN" ->
             [Packet(c, "PUT_BEGIN") EXCEPT !.path = o.path, !.size = Len(o.data)]
        [] o.kind = "PUT" /\ at = "DATA" ->
             [Packet(c, "PUT_DATA") EXCEPT !.offset = off, !.chunk = o.data[off + 1]]
        [] o.kind = "PUT" /\ at = "END" ->
             [Packet(c, "PUT_END") EXCEPT !.size = Len(o.data)]
        [] o.kind = "GET" /\ at = "BEGIN" ->
             [Packet(c, "GET_BEGIN") EXCEPT !.path = o.path]
        [] o.kind = "GET" /\ at = "DATA" ->
             [Packet(c, "GET_DATA_REQ") EXCEPT !.offset = off]
        [] o.kind = "GET" /\ at = "END" -> Packet(c, "GET_END")
        [] o.kind = "DIR" ->
             [Packet(c, "DIR_LIST_DATA_REQ") EXCEPT !.offset = off]
        [] o.kind \in PathOps ->
             [Packet(c, o.kind) EXCEPT !.path = o.path, !.target = o.target,
                                       !.is_dir = o.is_dir]

(* send_with_ack, send_with_data_response: the first transmission.         *)
Ask(c, at, off) ==
  /\ step' = [step EXCEPT ![c] = at]
  /\ offset' = [offset EXCEPT ![c] = off]
  /\ attempt' = [attempt EXCEPT ![c] = 1]
  /\ UNCHANGED <<script, opno, results>>

Finish(c, outcome, data) ==
  /\ results' = [results EXCEPT ![c] = Append(@, [outcome |-> outcome, data |-> data])]
  /\ opno' = [opno EXCEPT ![c] = @ + 1]
  /\ step' = [step EXCEPT ![c] = "idle"]
  /\ attempt' = [attempt EXCEPT ![c] = 0]
  /\ offset' = [offset EXCEPT ![c] = 0]
  /\ file_size' = [file_size EXCEPT ![c] = 0]
  /\ got' = [got EXCEPT ![c] = <<>>]
  /\ UNCHANGED script

-----------------------------------------------------------------------------
(* The user asks for the next operation.  remote_dir_fetch begins with a   *)
(* packet nobody answers.                                                  *)
Start(c) ==
  /\ step[c] = "idle" /\ opno[c] <= Len(script[c])
  /\ LET kind  == Op(c).kind
         first == CASE kind \in {"PUT", "GET"} -> "BEGIN"
                    [] kind = "DIR" -> "PAGE"
                    [] kind \in PathOps -> kind
         opening == IF kind = "DIR" THEN <<Packet(c, "DIR_LIST_BEGIN")>> ELSE <<>>
     IN  /\ Ask(c, first, 0)
         /\ toServer' = toServer \o Append(opening, RequestFor(c, first, 0))
  /\ UNCHANGED <<toClient, losses, file_size, got>>

Reply(c) == Head(toClient[c])

Takes(c) == /\ step[c] # "idle" /\ toClient[c] # <<>>
            /\ toClient' = [toClient EXCEPT ![c] = Tail(@)]
            /\ UNCHANGED losses

\* Mutant: neither the id nor the command of an acknowledgement is looked at.
Bug_AnyAck(c) ==
  /\ Reply(c).session = Session(c)
  /\ \/ Op(c).kind \in {"GET", "DIR"} /\ Reply(c).type # "FILE_ACK"
     \/ Reply(c).type = "FILE_ACK"

(* The filters of recv_file_ack, recv_file_get_data and recv_dir_page.     *)
Wanted(c) ==
  /\ Reply(c).session = Session(c) /\ Reply(c).id = Id(c)
  /\ \/ Op(c).kind = "DIR" /\ Reply(c).type = "DIR_LIST_DATA" /\ Reply(c).offset = offset[c]
     \/ /\ Op(c).kind = "GET" /\ step[c] = "DATA"
        /\ Reply(c).type = "FILE_GET_DATA" /\ Reply(c).offset = offset[c]
     \/ /\ ~(Op(c).kind = "GET" /\ step[c] = "DATA")
        /\ Reply(c).type = "FILE_ACK" /\ Reply(c).command = step[c]

Discard(c) == /\ Takes(c) /\ ~Wanted(c)
              /\ UNCHANGED <<toServer, client>>

(* The next transmission, or none: the operation has failed. *)
SendAgain(c) ==
  \/ /\ attempt[c] < Retries
     /\ SendToServer(RequestFor(c, step[c], offset[c]))
     /\ attempt' = [attempt EXCEPT ![c] = @ + 1]
     /\ UNCHANGED <<script, opno, step, offset, file_size, got, results>>
  \/ /\ attempt[c] = Retries
     /\ Finish(c, "failed", <<>>)
     /\ UNCHANGED toServer

Refused(c) == /\ Takes(c) /\ Wanted(c) /\ Reply(c).status = "ERROR"
              /\ SendAgain(c)

(* select times out *)
Timeout(c) == /\ step[c] # "idle" /\ SendAgain(c)
              /\ UNCHANGED <<toClient, losses>>

Granted(c, kind, at) == /\ Takes(c) /\ Wanted(c) /\ Reply(c).status = "OK"
                        /\ Op(c).kind = kind /\ step[c] = at

Fails(c) == Finish(c, "failed", <<>>) /\ UNCHANGED toServer

AskNext(c, at, off) == /\ Ask(c, at, off)
                     /\ SendToServer(RequestFor(c, at, off))

(* file_transfer_put *)
put(c) ==
  LET n    == Len(Op(c).data)
      here == Reply(c).offset
      More(off) == AskNext(c, IF off < n THEN "DATA" ELSE "END", off)
                   /\ UNCHANGED <<file_size, got>>
  IN  \/ /\ Granted(c, "PUT", "BEGIN")
         /\ IF here = 0 THEN More(0) ELSE Fails(c)
      \/ /\ Granted(c, "PUT", "DATA")
         /\ IF here = offset[c] + 1 THEN More(here) ELSE Fails(c)
      \/ /\ Granted(c, "PUT", "END")
         /\ Finish(c, IF here = n THEN "complete" ELSE "failed", <<>>)
         /\ UNCHANGED toServer

(* file_transfer_get *)
get(c) ==
  LET More(off, size) == AskNext(c, IF off < size THEN "DATA" ELSE "END", off)
  IN  \/ /\ Granted(c, "GET", "BEGIN")
         /\ file_size' = [file_size EXCEPT ![c] = Reply(c).offset]
         /\ More(0, Reply(c).offset)
         /\ UNCHANGED got
      \/ /\ Granted(c, "GET", "DATA")
         /\ IF Reply(c).data = <<>> THEN Fails(c)
            ELSE /\ got' = [got EXCEPT ![c] = @ \o Reply(c).data]
                 /\ More(offset[c] + 1, file_size[c])
                 /\ UNCHANGED file_size
      \/ /\ Granted(c, "GET", "END")
         /\ Finish(c, "complete", got[c])
         /\ UNCHANGED toServer

(* send_path_op, send_two_path_op *)
path_op_done(c) ==
  \E kind \in PathOps : /\ Granted(c, kind, kind)
                        /\ Finish(c, "complete", <<>>)
                        /\ UNCHANGED toServer

(* remote_dir_fetch: a page that is not full is the last one. *)
dir_page(c) ==
  /\ Granted(c, "DIR", "PAGE")
  /\ LET entries == got[c] \o Reply(c).data
     IN  IF Len(Reply(c).data) < FullPage
         THEN /\ Finish(c, "complete", entries)
              /\ SendToServer(Packet(c, "DIR_LIST_END"))
         ELSE /\ got' = [got EXCEPT ![c] = entries]
              /\ AskNext(c, "PAGE", Len(entries))
              /\ UNCHANGED file_size

ClientNext(c) == \/ Start(c) \/ Discard(c) \/ Refused(c)
                 \/ put(c) \/ get(c) \/ path_op_done(c) \/ dir_page(c)
=============================================================================
