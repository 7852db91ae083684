----------------------------- MODULE FileServer -----------------------------
(***************************************************************************)
(* The file half of the resident server: server/file_transfer.c.           *)
(*                                                                         *)
(* One static record, g_file, is shared by two interrupt contexts.  The    *)
(* timer handler hands received packets to file_transfer_handle_packet,    *)
(* which may leave one operation in pending_op.  DOS calls INT 28h when it *)
(* is idle, and file_transfer_process_idle executes the operation there.   *)
(* Both run with interrupts disabled, except that DOS enables them inside  *)
(* each INT 21h call: every call below is a window in which a timer tick   *)
(* may hand over more packets, before the call reads its arguments from    *)
(* memory or after it has had its effect.                                  *)
(***************************************************************************)
EXTENDS FilePackets, FiniteSets, FiniteSetsExt, SequencesExt

CONSTANTS
  PoolSize,     (* receive buffers                                          *)
  PageEntries,  (* DIR_LIST_PAGE_ENTRIES                                    *)
  MaxHandles,   (* file handles DOS gives the program                       *)
  MaxFaults,    (* bound: DOS calls that fail for a reason outside the model*)
  ShortWrites,  (* the calls whose failing write may leave a part of a chunk*)
  NoSize,       (* dos_get_file_size's 0xffffffff, in chunks                *)
  InitFiles,    (* the files on the DOS disk, as a function from paths      *)
  InitDirs      (* its directories                                          *)

ASSUME FileServerAssumption ==
  /\ {PoolSize, PageEntries, MaxHandles, MaxFaults, NoSize} \subseteq Nat
  /\ ShortWrites \subseteq {"write", "copy_write"}

NoHandle == 0       \* handle == -1
Part     == "part"  \* what a short write leaves on the disk
Handles  == 1..MaxHandles

(* The names in a directory are different, and no file is as long as the size that *)
(* stands for an error: 2^32-1 bytes, where DOS allows 2^31.                       *)
ASSUME DiskAssumption ==
  /\ IsFiniteSet(DOMAIN InitFiles \cup InitDirs) /\ DOMAIN InitFiles \cap InitDirs = {}
  /\ \A f \in DOMAIN InitFiles : InitFiles[f] \in Seq(Chunks) /\ Len(InitFiles[f]) < NoSize

VARIABLES
  g_file,    \* struct FileTransferState
  ready,     \* the ready list of the receive buffers, newest last
  ticking,   \* protocol_process is draining the ready list
  op,        \* process_idle's local op, "NONE" when it is not running
  call,      \* the DOS call it has made
  returned,  \* the call has had its effect
  bx,        \* the handle the call was made with
  carry, ax, \* the call's results
  local,     \* the other locals: of PUT_END, dos_copy_file and
             \* collect_dir_entries
  files, dirs, open, faults   \* DOS: contents of files, directories,
                              \* open handles, faults so far

server == <<g_file, ready, ticking, op, call, returned, bx, carry, ax, local>>
dos    == <<files, dirs, open, faults>>

NoLocal == [status |-> "OK", in |-> NoHandle, out |-> NoHandle, bytes |-> 0,
            seen |-> 0, entries |-> <<>>]

(* file_transfer_init *)
file_transfer_init ==
  g_file = [active |-> FALSE, mode |-> "NONE", pending_op |-> "NONE",
            client |-> NoSession, transfer_id |-> NoId, expected_offset |-> 0,
            size |-> 0, handle |-> NoHandle, filename |-> None,
            target |-> None, is_dir |-> FALSE,
            chunk |-> None, chunk_count |-> 0, chunk_offset |-> 0,
            ack_offset |-> 0, dir_request_id |-> NoId, dir_start_index |-> 0]

ServerInit ==
  /\ file_transfer_init
  /\ ready = <<>> /\ ticking = FALSE
  /\ op = "NONE" /\ call = "none" /\ returned = FALSE
  /\ bx = NoHandle /\ carry = FALSE /\ ax = 0 /\ local = NoLocal
  /\ files = InitFiles /\ dirs = InitDirs /\ open = <<>> /\ faults = 0

-----------------------------------------------------------------------------
(* Reception.  BufMgr models the pool in detail: of it the file server     *)
(* sees that a frame finds a free buffer or is dropped, and that a tick    *)
(* hands over the newest frame first.                                      *)

\* Mutant: a frame is taken although every buffer is in use.
Bug_NoPoolLimit ==
  /\ toServer # <<>>
  /\ toServer' = Tail(toServer)
  /\ ready' = Append(ready, Head(toServer))
  /\ UNCHANGED <<toClient, losses, g_file, ticking, op, call, returned, bx,
                 carry, ax, local, dos>>

Receive ==
  /\ toServer # <<>>
  /\ toServer' = Tail(toServer)
  /\ ready' = IF Len(ready) < PoolSize THEN Append(ready, Head(toServer)) ELSE ready
  /\ UNCHANGED <<toClient, losses, g_file, ticking, op, call, returned, bx,
                 carry, ax, local, dos>>

(* A close of no handle makes no call, so no window either. *)
Closing  == {"close_old", "close", "close_failed", "copy_close_out", "copy_close_in"}
NoCall   == call = "none" \/ (call \in Closing /\ bx = NoHandle)
InWindow == op = "NONE" \/ ~NoCall

TickBegin == /\ ~ticking /\ ready # <<>> /\ InWindow
             /\ ticking' = TRUE
             /\ UNCHANGED <<wire, g_file, ready, op, call, returned, bx, carry,
                            ax, local, dos>>

packet == Last(ready)   \* the one protocol_process hands over

remember_client(g) == [g EXCEPT !.client = packet.session]

(* What file_transfer_handle_packet leaves in g_file. *)
Handled(g) == /\ ticking
              /\ g_file' = g
              /\ ready' = Front(ready)
              /\ ticking' = (Len(ready) > 1)
              /\ UNCHANGED <<wire, op, call, returned, bx, carry, ax, local, dos>>

Accepts(type) == ready # <<>> /\ packet.type = type /\ g_file.pending_op = "NONE"

InMode(mode) == g_file.active /\ g_file.mode = mode

Current(mode) == InMode(mode) /\ packet.id = g_file.transfer_id

put_begin ==
  /\ Accepts("PUT_BEGIN")
  /\ Handled([remember_client(g_file) EXCEPT
                !.transfer_id = packet.id, !.size = packet.size,
                !.filename = packet.path, !.pending_op = "PUT_BEGIN"])

\* Mutant: a chunk that was written already is dropped.
Bug_NoAnswer ==
  /\ Accepts("PUT_DATA") /\ Current("PUT")
  /\ packet.offset # g_file.expected_offset
  /\ Handled(g_file)

(* Any offset but the expected one is answered at once, with the expected  *)
(* one as it is now (queue_ack).                                           *)
queue_ack ==
  /\ Accepts("PUT_DATA") /\ Current("PUT")
  /\ packet.offset # g_file.expected_offset
  /\ Handled([remember_client(g_file) EXCEPT
                !.transfer_id = packet.id, !.ack_offset = g_file.expected_offset,
                !.pending_op = "ACK"])

put_data ==
  /\ Accepts("PUT_DATA") /\ Current("PUT")
  /\ packet.offset = g_file.expected_offset
  /\ Handled([remember_client(g_file) EXCEPT
                !.chunk_offset = packet.offset, !.chunk_count = 1, !.chunk = packet.chunk,
                !.pending_op = "PUT_DATA"])

put_end ==
  /\ Accepts("PUT_END") /\ Current("PUT") /\ packet.size = g_file.size
  /\ Handled([remember_client(g_file) EXCEPT !.pending_op = "PUT_END"])

get_begin ==
  /\ Accepts("GET_BEGIN")
  /\ Handled([remember_client(g_file) EXCEPT
                !.transfer_id = packet.id, !.filename = packet.path,
                !.pending_op = "GET_BEGIN"])

get_data_req ==
  /\ Accepts("GET_DATA_REQ") /\ Current("GET")
  /\ Handled([remember_client(g_file) EXCEPT
                !.chunk_offset = packet.offset, !.chunk_count = 1,
                !.pending_op = "GET_DATA_REQ"])

get_end ==
  /\ Accepts("GET_END") /\ Current("GET")
  /\ Handled([remember_client(g_file) EXCEPT !.pending_op = "GET_END"])

(* Takes effect at once: there is nothing for DOS to do. *)
dir_list_begin ==
  /\ Accepts("DIR_LIST_BEGIN")
  /\ Handled([remember_client(g_file) EXCEPT
                !.dir_request_id = packet.id, !.active = TRUE, !.mode = "DIR"])

dir_list_data_req ==
  /\ Accepts("DIR_LIST_DATA_REQ")
  /\ InMode("DIR") /\ packet.id = g_file.dir_request_id
  /\ Handled([remember_client(g_file) EXCEPT
                !.dir_start_index = packet.offset,
                !.pending_op = "DIR_LIST_DATA_REQ"])

dir_list_end ==
  /\ Accepts("DIR_LIST_END") /\ packet.id = g_file.dir_request_id
  /\ Handled([g_file EXCEPT !.active = FALSE, !.mode = "NONE",
                            !.dir_request_id = NoId])

path_op ==
  /\ \E type \in PathOps : Accepts(type)
  /\ Handled([remember_client(g_file) EXCEPT
                !.transfer_id = packet.id, !.filename = packet.path,
                !.target = IF packet.type \in {"RENAME", "COPY"} THEN packet.target ELSE @,
                !.is_dir = IF packet.type \in {"MKDIR", "DELETE"} THEN packet.is_dir ELSE @,
                !.pending_op = packet.type])

(* An operation is pending already, or the packet does not belong to the   *)
(* transfer in progress: it is dropped without an answer.                  *)
Stale == \/ g_file.pending_op # "NONE"
         \/ packet.type \in {"PUT_DATA", "PUT_END"} /\ ~Current("PUT")
         \/ packet.type = "PUT_END" /\ packet.size # g_file.size
         \/ packet.type \in {"GET_DATA_REQ", "GET_END"} /\ ~Current("GET")
         \/ packet.type = "DIR_LIST_DATA_REQ" /\ ~(InMode("DIR") /\ packet.id = g_file.dir_request_id)
         \/ packet.type = "DIR_LIST_END" /\ packet.id # g_file.dir_request_id

Drop == ready # <<>> /\ Stale /\ Handled(g_file)

file_transfer_handle_packet ==
  \/ put_begin \/ queue_ack \/ put_data \/ put_end
  \/ get_begin \/ get_data_req \/ get_end
  \/ dir_list_begin \/ dir_list_data_req \/ dir_list_end
  \/ path_op \/ Drop

-----------------------------------------------------------------------------
(* DOS, as the wrappers around x86_call(0x21, ..) use it.  A call takes    *)
(* handles and counts from registers, set when it is made, and paths and   *)
(* chunks from memory, when it has its effect.                             *)

Returns(ok, result) == carry' = ~ok /\ ax' = result /\ returned' = TRUE

Effect(name) == call = name /\ ~returned

path == IF call = "copy_create" THEN g_file.target ELSE g_file.filename

Exists(f) == f \in DOMAIN files \/ f \in dirs

FreeHandles == Handles \ DOMAIN open

Opened(f) == LET h == Min(FreeHandles)
             IN  /\ open' = [i \in DOMAIN open \cup {h} |->
                               IF i = h THEN [file |-> f, pos |-> 0] ELSE open[i]]
                 /\ Returns(TRUE, h)

(* Writing at a position past the end leaves a gap of undefined contents.  *)
Written(data, pos, chunk) ==
  [i \in 1..Max({Len(data), pos + 1}) |->
     IF i = pos + 1 THEN chunk ELSE IF i <= Len(data) THEN data[i] ELSE Part]

DosUnchanged == UNCHANGED <<wire, ready, ticking, op, call, bx, local>>

DosCreate == /\ Effect("create") \/ Effect("copy_create")
             /\ IF path \in dirs \/ FreeHandles = {}
                THEN Returns(FALSE, 0) /\ UNCHANGED <<files, open>>
                ELSE /\ files' = [f \in DOMAIN files \cup {path} |->
                                     IF f = path THEN <<>> ELSE files[f]]
                     /\ Opened(path)
             /\ UNCHANGED <<g_file, dirs, faults>> /\ DosUnchanged

DosOpen == /\ Effect("open_read") \/ Effect("copy_open")
           /\ IF path \in DOMAIN files /\ FreeHandles # {}
              THEN Opened(path)
              ELSE Returns(FALSE, 0) /\ UNCHANGED open
           /\ UNCHANGED <<g_file, files, dirs, faults>> /\ DosUnchanged

DosClose == /\ \E name \in Closing : Effect(name)
            /\ open' = [h \in DOMAIN open \ {bx} |-> open[h]]
            /\ Returns(bx \in DOMAIN open, 0)
            /\ UNCHANGED <<g_file, files, dirs, faults>> /\ DosUnchanged

(* A whole chunk, or a part of it when the disk is full. *)
DosWrite == /\ Effect("write") \/ Effect("copy_write")
            /\ bx \in DOMAIN open
            /\ \E short \in BOOLEAN :
                 /\ short => call \in ShortWrites /\ faults < MaxFaults
                 /\ faults' = faults + (IF short THEN 1 ELSE 0)
                 /\ LET f == open[bx].file
                        at == open[bx].pos
                    IN  /\ files' = IF f \notin DOMAIN files THEN files ELSE
                             [files EXCEPT ![f] =
                                Written(@, at, IF short THEN Part ELSE g_file.chunk)]
                        /\ open' = [open EXCEPT ![bx].pos = at + 1]
                 /\ Returns(TRUE, IF short THEN 0 ELSE 1)
            /\ UNCHANGED <<g_file, dirs>> /\ DosUnchanged

DosRead == /\ Effect("read") \/ Effect("copy_read")
           /\ bx \in DOMAIN open
           /\ LET f  == open[bx].file
                  at == open[bx].pos
              IN  IF f \in DOMAIN files /\ at < Len(files[f])
                  THEN /\ g_file' = [g_file EXCEPT !.chunk = files[f][at + 1]]
                       /\ open' = [open EXCEPT ![bx].pos = at + 1]
                       /\ Returns(TRUE, 1)
                  ELSE Returns(TRUE, 0) /\ UNCHANGED <<g_file, open>>
           /\ UNCHANGED <<files, dirs, faults>> /\ DosUnchanged

(* ax holds the offset to seek to, as cx:dx do. *)
DosSeek == /\ Effect("seek")
           /\ bx \in DOMAIN open
           /\ open' = [open EXCEPT ![bx].pos = ax]
           /\ Returns(TRUE, ax)
           /\ UNCHANGED <<g_file, files, dirs, faults>> /\ DosUnchanged

(* dos_find_first on one path: the size of what it finds. *)
DosFileSize == /\ Effect("file_size")
               /\ Returns(Exists(path), IF path \in DOMAIN files THEN Len(files[path]) ELSE 0)
               /\ UNCHANGED <<g_file, dos>> /\ DosUnchanged

(* The next entry of the directory: its name goes to the DTA, here to the  *)
(* listing itself, in an order DOS chooses.                                *)
Listing == SetToSeq(DOMAIN files \cup dirs)

DosFind == /\ Effect("find")
           /\ Returns(local.seen < Len(Listing), 0)
           /\ UNCHANGED <<g_file, dos>> /\ DosUnchanged

(* Only puts back a pointer of DOS. *)
DosRestoreDta == /\ Effect("restore_dta")
                 /\ Returns(TRUE, 0)
                 /\ UNCHANGED <<g_file, dos>> /\ DosUnchanged

DosPath ==
  /\ \/ /\ Effect("mkdir")
        /\ Returns(~Exists(path), 0)
        /\ dirs' = IF Exists(path) THEN dirs ELSE dirs \cup {path}
        /\ UNCHANGED files
     \/ /\ Effect("rmdir")
        /\ Returns(path \in dirs, 0)
        /\ dirs' = dirs \ {path}
        /\ UNCHANGED files
     \/ /\ Effect("unlink")
        /\ Returns(path \in DOMAIN files, 0)
        /\ files' = [f \in DOMAIN files \ {path} |-> files[f]]
        /\ UNCHANGED dirs
     \/ /\ Effect("rename")
        /\ Returns(Exists(path) /\ ~Exists(g_file.target), 0)
        /\ IF Exists(path) /\ ~Exists(g_file.target)
           THEN /\ files' = [f \in {IF x = path THEN g_file.target ELSE x : x \in DOMAIN files}
                               |-> IF f = g_file.target THEN files[path] ELSE files[f]]
                /\ dirs' = {IF d = path THEN g_file.target ELSE d : d \in dirs}
           ELSE UNCHANGED <<files, dirs>>
  /\ UNCHANGED <<g_file, open, faults>> /\ DosUnchanged

DosBadHandle == /\ \E name \in {"write", "read", "seek"} : Effect(name)
                /\ bx \notin DOMAIN open
                /\ Returns(FALSE, 0)
                /\ UNCHANGED <<g_file, dos>> /\ DosUnchanged

(* A critical error, a bad sector, a read-only file: no effect. *)
DosFails == /\ call \notin Closing \cup {"none", "restore_dta"} /\ ~returned
            /\ faults < MaxFaults
            /\ faults' = faults + 1
            /\ Returns(FALSE, 0)
            /\ UNCHANGED <<g_file, files, dirs, open>> /\ DosUnchanged

Dos == \/ DosCreate \/ DosOpen \/ DosClose \/ DosWrite \/ DosRead \/ DosSeek
       \/ DosFileSize \/ DosFind \/ DosRestoreDta \/ DosPath \/ DosBadHandle \/ DosFails

-----------------------------------------------------------------------------
(* file_transfer_process_idle, cut at the DOS calls.  Each piece runs with *)
(* interrupts disabled, from the INT 28h or the return of one call to the  *)
(* next call or the answer.                                                *)

Enter(name) == /\ op = "NONE" /\ ~ticking /\ g_file.pending_op = name

Idle == [g_file EXCEPT !.pending_op = "NONE"]

Returned(name, call_name) == op = name /\ call = call_name /\ returned /\ ~ticking

Unchanging == UNCHANGED <<toServer, losses, ready, ticking, dos>>

(* Makes a call of the operation name, with g left in g_file. *)
CallDos(name, g, call_name, handle) ==
  /\ op' = name /\ g_file' = g
  /\ call' = call_name /\ bx' = handle
  /\ returned' = (call_name \in Closing /\ handle = NoHandle)
  /\ carry' = FALSE /\ ax' = 0
  /\ UNCHANGED toClient /\ Unchanging

Answer(g, reply) ==
  /\ SendToClient(reply)
  /\ g_file' = g
  /\ op' = "NONE" /\ call' = "none" /\ returned' = FALSE
  /\ bx' = NoHandle /\ carry' = FALSE /\ ax' = 0 /\ local' = NoLocal
  /\ Unchanging

SendAck(g, command, status, offset) ==
  Answer(g, FileAck(g.client, g.transfer_id, command, status, offset))

send_file_ack(g, command, status) == SendAck(g, command, status, g.expected_offset)

StatusOf(ok) == IF ok THEN "OK" ELSE "ERROR"

\* Mutant: the handle is not forgotten when it is closed.
Bug_HandleKept(g) == [g EXCEPT !.active = FALSE, !.mode = "NONE"]

Closed(g) == [g EXCEPT !.handle = NoHandle, !.active = FALSE, !.mode = "NONE"]

\* FILE_OP_ACK
idle_ack ==
  /\ Enter("ACK")
  /\ send_file_ack([Idle EXCEPT !.expected_offset = g_file.ack_offset], "DATA", "OK")

\* Mutant: the file the last transfer left open is not closed.
Bug_LeftOpen ==
  \/ /\ Enter("PUT_BEGIN")
     /\ CallDos("PUT_BEGIN", Idle, "create", NoHandle) /\ UNCHANGED local
  \/ /\ Enter("GET_BEGIN")
     /\ CallDos("GET_BEGIN", Idle, "open_read", NoHandle) /\ UNCHANGED local

\* FILE_OP_PUT_BEGIN and FILE_OP_GET_BEGIN close a file left open
idle_begin ==
  \E name \in {"PUT_BEGIN", "GET_BEGIN"} :
    LET first == IF name = "PUT_BEGIN" THEN "create" ELSE "open_read"
    IN  \/ /\ Enter(name)
           /\ IF g_file.active THEN CallDos(name, Idle, "close_old", g_file.handle)
                               ELSE CallDos(name, Idle, first, NoHandle)
           /\ UNCHANGED local
        \/ /\ Returned(name, "close_old")
           /\ CallDos(name, g_file, first, NoHandle)
           /\ UNCHANGED local

idle_created ==
  /\ Returned("PUT_BEGIN", "create")
  /\ send_file_ack([g_file EXCEPT !.handle = IF carry THEN NoHandle ELSE ax,
                                  !.expected_offset = 0, !.active = ~carry,
                                  !.mode = IF carry THEN "NONE" ELSE "PUT"],
                   "BEGIN", StatusOf(~carry))

\* Mutant: the offset is not checked again.
Bug_NoRecheck == /\ Enter("PUT_DATA")
                 /\ CallDos("PUT_DATA", Idle, "write", g_file.handle)
                 /\ UNCHANGED local

\* FILE_OP_PUT_DATA
idle_put_data ==
  \/ /\ Enter("PUT_DATA")
     /\ g_file.chunk_offset # g_file.expected_offset
     /\ send_file_ack(Idle, "DATA", "ERROR")
  \/ /\ Enter("PUT_DATA")
     /\ g_file.chunk_offset = g_file.expected_offset
     /\ CallDos("PUT_DATA", Idle, "write", g_file.handle)
     /\ UNCHANGED local

idle_written ==
  /\ Returned("PUT_DATA", "write")
  /\ LET ok == ~carry /\ ax = 1
     IN  send_file_ack(IF ok THEN [g_file EXCEPT !.expected_offset = @ + g_file.chunk_count]
                             ELSE g_file,
                       "DATA", StatusOf(ok))

\* FILE_OP_PUT_END and FILE_OP_GET_END
idle_end ==
  \E name \in {"PUT_END", "GET_END"} :
    \/ /\ Enter(name)
       /\ local' = [local EXCEPT !.status =
                      StatusOf(name = "PUT_END" => g_file.expected_offset = g_file.size)]
       /\ CallDos(name, Idle, "close", g_file.handle)
    \/ /\ Returned(name, "close")
       /\ send_file_ack(Closed(g_file), "END", local.status)

\* FILE_OP_GET_BEGIN, once the file is open
idle_opened ==
  /\ Returned("GET_BEGIN", "open_read")
  /\ LET g == [Closed(g_file) EXCEPT !.handle = IF carry THEN NoHandle ELSE ax,
                                     !.expected_offset = 0, !.size = 0]
     IN  IF carry THEN send_file_ack(g, "BEGIN", "ERROR")
         ELSE CallDos("GET_BEGIN", g, "file_size", NoHandle) /\ UNCHANGED local

idle_sized ==
  \/ /\ Returned("GET_BEGIN", "file_size") /\ ~carry
     /\ SendAck([g_file EXCEPT !.size = ax, !.active = TRUE, !.mode = "GET"],
                "BEGIN", "OK", ax)
  \/ /\ Returned("GET_BEGIN", "file_size") /\ carry
     /\ LET g == [g_file EXCEPT !.size = NoSize]
        IN  IF g_file.active   \* a directory listing began in the window
            THEN SendAck(g, "BEGIN", "OK", NoSize)
            ELSE CallDos("GET_BEGIN", g, "close_failed", g_file.handle) /\ UNCHANGED local
  \/ /\ Returned("GET_BEGIN", "close_failed")
     /\ send_file_ack([g_file EXCEPT !.handle = NoHandle], "BEGIN", "ERROR")

\* FILE_OP_GET_DATA_REQ
send_file_get_data(g, status) ==
  Answer(g, FileGetData(g.client, g.transfer_id, status, g.chunk_offset,
                        SubSeq(<<g.chunk>>, 1, g.chunk_count)))

idle_get_data_req ==
  /\ Enter("GET_DATA_REQ")
  /\ IF InMode("GET") /\ g_file.chunk_offset <= g_file.size
     THEN /\ op' = "GET_DATA_REQ" /\ g_file' = Idle
          /\ call' = "seek" /\ bx' = g_file.handle /\ ax' = g_file.chunk_offset
          /\ UNCHANGED <<toClient, returned, carry, local>> /\ Unchanging
     ELSE send_file_get_data([Idle EXCEPT !.chunk_count = 0], "ERROR")

\* Mutant: dos_seek_file's result is not looked at.
Bug_SeekUnchecked ==
  /\ Returned("GET_DATA_REQ", "seek")
  /\ CallDos("GET_DATA_REQ", g_file, "read", g_file.handle)
  /\ UNCHANGED local

idle_sought ==
  /\ Returned("GET_DATA_REQ", "seek")
  /\ IF carry THEN send_file_get_data([g_file EXCEPT !.chunk_count = 0], "ERROR")
     ELSE CallDos("GET_DATA_REQ", g_file, "read", g_file.handle) /\ UNCHANGED local

idle_read ==
  /\ Returned("GET_DATA_REQ", "read")
  /\ IF carry
     THEN send_file_get_data([g_file EXCEPT !.chunk_count = 0], "ERROR")
     ELSE send_file_get_data([g_file EXCEPT !.chunk_count = ax,
                                !.expected_offset = g_file.chunk_offset + ax], "OK")

\* FILE_OP_DIR_LIST_DATA_REQ: collect_dir_entries
send_dir_list_data(entries) ==
  Answer(g_file, DirListData(g_file.client, g_file.dir_request_id, "OK",
                             g_file.dir_start_index, entries))

idle_dir_list_data_req ==
  /\ Enter("DIR_LIST_DATA_REQ")
  /\ CallDos("DIR_LIST_DATA_REQ", Idle, "find", NoHandle)
  /\ UNCHANGED local

\* Mutant: the first entry of each page but the first is left out.
Bug_SkipsOne ==
  /\ Returned("DIR_LIST_DATA_REQ", "find")
  /\ LET entries == IF local.seen >= g_file.dir_start_index + Min({1, g_file.dir_start_index})
                    THEN Append(local.entries, Listing[local.seen + 1])
                    ELSE local.entries
     IN  IF carry THEN send_dir_list_data(local.entries)
         ELSE /\ CallDos("DIR_LIST_DATA_REQ", g_file,
                         IF Len(entries) = PageEntries THEN "restore_dta" ELSE "find", NoHandle)
              /\ local' = [local EXCEPT !.seen = @ + 1, !.entries = entries]

(* The calls that get, set and restore the disk transfer address stand     *)
(* next to a search with nothing of g_file read in between, so their       *)
(* windows are the search's.  Only after the last entry of a full page is  *)
(* the address restored between the look at dir_start_index and the answer.*)
idle_found ==
  /\ Returned("DIR_LIST_DATA_REQ", "find")
  /\ LET entries == IF local.seen >= g_file.dir_start_index
                    THEN Append(local.entries, Listing[local.seen + 1])
                    ELSE local.entries
     IN  IF carry THEN send_dir_list_data(local.entries)
         ELSE /\ CallDos("DIR_LIST_DATA_REQ", g_file,
                         IF Len(entries) = PageEntries THEN "restore_dta" ELSE "find", NoHandle)
              /\ local' = [local EXCEPT !.seen = @ + 1, !.entries = entries]

idle_restored ==
  /\ Returned("DIR_LIST_DATA_REQ", "restore_dta")
  /\ send_dir_list_data(local.entries)

\* FILE_OP_MKDIR, FILE_OP_DELETE and FILE_OP_RENAME
CallOf(name) == CASE name = "MKDIR"  -> "mkdir"
                  [] name = "DELETE" -> IF g_file.is_dir THEN "rmdir" ELSE "unlink"
                  [] name = "RENAME" -> "rename"

idle_path_op ==
  \E name \in {"MKDIR", "DELETE", "RENAME"} :
    \/ /\ Enter(name)
       /\ IF name = "RENAME" /\ g_file.filename = g_file.target
          THEN send_file_ack(Idle, name, "OK")
          ELSE CallDos(name, Idle, CallOf(name), NoHandle) /\ UNCHANGED local
    \/ /\ op = name /\ returned /\ ~ticking
       /\ send_file_ack(g_file, name, StatusOf(~carry))

\* FILE_OP_COPY: dos_copy_file
CopyNext(handle, name) == CallDos("COPY", g_file, name, handle)

\* Mutant: a copy that failed is acknowledged like one that succeeded.
Bug_StatusLost(status) == /\ CopyNext(local.out, "copy_close_out")
                          /\ local' = [local EXCEPT !.status = "OK"]

CopyDone(status) == /\ CopyNext(local.out, "copy_close_out")
                    /\ local' = [local EXCEPT !.status = status]

idle_copy ==
  \/ /\ Enter("COPY")
     /\ IF g_file.filename = g_file.target
        THEN send_file_ack([Idle EXCEPT !.expected_offset = 0], "COPY", "ERROR")
        ELSE CallDos("COPY", Idle, "copy_open", NoHandle) /\ UNCHANGED local
  \/ /\ Returned("COPY", "copy_open") /\ carry
     /\ send_file_ack([g_file EXCEPT !.expected_offset = 0], "COPY", "ERROR")
  \/ /\ Returned("COPY", "copy_open") /\ ~carry
     /\ CopyNext(NoHandle, "copy_create")
     /\ local' = [local EXCEPT !.in = ax]
  \/ /\ Returned("COPY", "copy_create") /\ carry
     /\ CopyDone("ERROR")
  \/ /\ Returned("COPY", "copy_create") /\ ~carry
     /\ CopyNext(local.in, "copy_read")
     /\ local' = [local EXCEPT !.out = ax]

idle_copying ==
  \/ /\ Returned("COPY", "copy_read") /\ (carry \/ ax = 0)
     /\ CopyDone(StatusOf(~carry))
  \/ /\ Returned("COPY", "copy_read") /\ ~carry /\ ax = 1
     /\ CopyNext(local.out, "copy_write") /\ UNCHANGED local
  \/ /\ Returned("COPY", "copy_write") /\ (carry \/ ax = 0)
     /\ CopyDone("ERROR")
  \/ /\ Returned("COPY", "copy_write") /\ ~carry /\ ax = 1
     /\ CopyNext(local.in, "copy_read")
     /\ local' = [local EXCEPT !.bytes = @ + 1]
  \/ /\ Returned("COPY", "copy_close_out")
     /\ CopyNext(local.in, "copy_close_in") /\ UNCHANGED local
  \/ /\ Returned("COPY", "copy_close_in")
     /\ send_file_ack([g_file EXCEPT !.expected_offset = local.bytes], "COPY", local.status)

file_transfer_process_idle ==
  \/ idle_ack \/ idle_begin \/ idle_created \/ idle_put_data \/ idle_written
  \/ idle_end \/ idle_opened \/ idle_sized
  \/ idle_get_data_req \/ idle_sought \/ idle_read
  \/ idle_dir_list_data_req \/ idle_found \/ idle_restored
  \/ idle_path_op \/ idle_copy \/ idle_copying

ServerNext == \/ Receive \/ TickBegin \/ file_transfer_handle_packet
              \/ file_transfer_process_idle \/ Dos

=============================================================================
