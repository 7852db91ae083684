--------------------------- MODULE FileTransferProofs ---------------------------
(***************************************************************************)
(* Proofs about file transfers, for any number of clients, whatever they   *)
(* ask for, whatever is lost and however often DOS calls fail: no file     *)
(* handle is used after it was closed (NoHandleIsStale), what the server   *)
(* and its clients hold and send has its type (TypeCorrect), and, where    *)
(* nobody asks for a listing, no open file is forgotten                    *)
(* (NoHandleIsForgotten).                                                  *)
(***************************************************************************)
EXTENDS FileTransfer, SeqLemmas

-----------------------------------------------------------------------------
(* The inductive invariant: which of the variables that hold a handle hold *)
(* an open one, while a call is being made or has returned.                *)

Live == DOMAIN open \cup {NoHandle}

PathCalls == {"mkdir", "rmdir", "unlink", "rename"}
OfFile    == {"write", "read", "seek", "close_old", "close", "close_failed"}
Copying   == {"copy_read", "copy_write", "copy_close_out", "copy_close_in"}

(* From the closing of the last file to the return of the call that opens  *)
(* the next, or to the answer, g_file.handle is not looked at.             *)
Replaced == \/ call \in {"create", "open_read"}
            \/ call \in {"close_old", "close", "close_failed"} /\ returned

CallsOf == /\ op = "NONE" => call = "none"
           /\ op \in {"MKDIR", "DELETE", "RENAME"} => call \in PathCalls

MadeWith == /\ call \in OfFile => bx = g_file.handle
            /\ call \in {"copy_read", "copy_close_in"} => bx = local.in
            /\ call \in {"copy_write", "copy_close_out"} => bx = local.out

(* What a call that opens a file has returned is a handle nobody has.      *)
Opens == returned /\ ~carry =>
  /\ call \in {"create", "open_read"} => ax \in DOMAIN open
  /\ call = "copy_open" => ax \in DOMAIN open \ {g_file.handle}
  /\ call = "copy_create" => ax \in DOMAIN open \ {g_file.handle, local.in}

(* The two handles of dos_copy_file differ from each other and from that   *)
(* of a transfer in progress, so that closing one leaves the others open.  *)
CopySource == call \in Copying \cup {"copy_create"} /\ ~(call = "copy_close_in" /\ returned)
                => local.in \in DOMAIN open \ {g_file.handle}

CopyTarget ==
  /\ call \notin Copying => local.out = NoHandle
  /\ call \in {"copy_read", "copy_write"} \/ (call = "copy_close_out" /\ ~returned)
       => local.out \in (DOMAIN open \ {g_file.handle, local.in}) \cup {NoHandle}

HandleIInv ==
  /\ DOMAIN open \subseteq Handles
  /\ CallsOf
  /\ Replaced \/ g_file.handle \in Live
  /\ MadeWith /\ Opens /\ CopySource /\ CopyTarget
-----------------------------------------------------------------------------
(* DOS gives a handle that is not in use.                                  *)
LEMMA MinIsFree == FreeHandles # {} => Min(FreeHandles) \in FreeHandles
<1> SUFFICES ASSUME FreeHandles # {}  PROVE Min(FreeHandles) \in FreeHandles
  OBVIOUS
<1>1. FreeHandles \subseteq Nat
  BY FileServerAssumption DEF FreeHandles, Handles
<1>2. PICK h \in FreeHandles : \A j \in FreeHandles : ~ (<<j, h>> \in OpToRel(<, Nat))
  BY <1>1, NatLessThanWellFounded, WFMin
<1>3. ASSUME NEW j \in FreeHandles  PROVE h =< j
  <2>1. OpToRel(<, Nat) = {ss \in Nat \X Nat : ss[1] < ss[2]}
    BY Zenon DEF OpToRel
  <2>2. j \in Nat /\ h \in Nat /\ <<j, h>> \in Nat \X Nat
    BY <1>1
  <2>3. ~ (j < h)
    BY <1>2, <2>1, <2>2
  <2> QED
    BY <2>2, <2>3
<1> QED
  BY <1>2, <1>3 DEF Min

LEMMA NoHandleIsNone == NoHandle \notin Handles
BY FileServerAssumption DEF NoHandle, Handles

-----------------------------------------------------------------------------
(* Steps that leave the calls and the handles alone: reception, the packet *)
(* handlers, the clients and the LAN.                                      *)
Aside == /\ UNCHANGED <<op, call, returned, bx, carry, ax, local, open>>
         /\ g_file'.handle = g_file.handle

LEMMA AsideKeeps == ASSUME HandleIInv, Aside  PROVE HandleIInv'
BY DEF Aside, HandleIInv, Live, Replaced, CallsOf, MadeWith, Opens, CopySource, CopyTarget

LEMMA HandledLeaves ==
  ASSUME NEW g, Handled(g)
  PROVE  g_file' = g /\ UNCHANGED <<op, call, returned, bx, carry, ax, local, open>>
BY DEF Handled, dos

LEMMA HandlersAreAside == file_transfer_handle_packet => Aside
<1> SUFFICES ASSUME file_transfer_handle_packet  PROVE Aside
  OBVIOUS
<1>1. UNCHANGED <<op, call, returned, bx, carry, ax, local, open>>
  BY HandledLeaves
  DEF file_transfer_handle_packet, put_begin, queue_ack, put_data, put_end, get_begin,
      get_data_req, get_end, dir_list_begin, dir_list_data_req, dir_list_end, path_op, Drop
<1>2. g_file'.handle = g_file.handle
  <2>1. CASE put_begin
    BY <2>1 DEF put_begin, Handled, remember_client
  <2>2. CASE queue_ack
    BY <2>2 DEF queue_ack, Handled, remember_client
  <2>3. CASE put_data
    BY <2>3 DEF put_data, Handled, remember_client
  <2>4. CASE put_end
    BY <2>4 DEF put_end, Handled, remember_client
  <2>5. CASE get_begin
    BY <2>5 DEF get_begin, Handled, remember_client
  <2>6. CASE get_data_req
    BY <2>6 DEF get_data_req, Handled, remember_client
  <2>7. CASE get_end
    BY <2>7 DEF get_end, Handled, remember_client
  <2>8. CASE dir_list_begin
    BY <2>8 DEF dir_list_begin, Handled, remember_client
  <2>9. CASE dir_list_data_req
    BY <2>9 DEF dir_list_data_req, Handled, remember_client
  <2>10. CASE dir_list_end
    BY <2>10 DEF dir_list_end, Handled, remember_client
  <2>11. CASE path_op
    BY <2>11 DEF path_op, Handled, remember_client
  <2>12. CASE Drop
    BY <2>12 DEF Drop, Handled, remember_client
  <2> QED
    BY <2>1, <2>2, <2>3, <2>4, <2>5, <2>6, <2>7, <2>8, <2>9, <2>10, <2>11, <2>12
    DEF file_transfer_handle_packet
<1> QED
  BY <1>1, <1>2 DEF Aside

-----------------------------------------------------------------------------
(* DOS.  A call that returns leaves everything else as it was made.        *)
InDos == /\ ~returned /\ returned'
         /\ UNCHANGED <<op, call, bx, local>>
         /\ g_file'.handle = g_file.handle

(* Calls that open nothing and close nothing.                              *)
LEMMA OtherCallsKeep ==
  ASSUME HandleIInv, InDos, DOMAIN open' = DOMAIN open, call \notin Closing,
         carry' \/ call \notin {"create", "open_read", "copy_open", "copy_create"}
  PROVE  HandleIInv'
BY DEF InDos, HandleIInv, Live, Replaced, CallsOf, MadeWith, Opens, CopySource, CopyTarget,
       Closing, Copying

LEMMA OpeningKeeps ==
  ASSUME HandleIInv, InDos, NEW f, Opened(f), FreeHandles # {},
         call \in {"create", "open_read", "copy_open", "copy_create"}
  PROVE  HandleIInv'
<1> DEFINE h == Min(FreeHandles)
<1>1. h \in Handles \ DOMAIN open
  BY MinIsFree DEF FreeHandles
<1>2. DOMAIN open' = DOMAIN open \cup {h} /\ ax' = h
  BY DEF Opened, Returns
<1> HIDE DEF h
<1>3. call = "copy_open" => h # g_file.handle
  BY <1>1, NoHandleIsNone DEF HandleIInv, Replaced, Live
<1>4. call = "copy_create" => h # g_file.handle /\ h # local.in
  BY <1>1, NoHandleIsNone DEF HandleIInv, Replaced, Live, CopySource
<1>5. DOMAIN open' \subseteq Handles /\ CallsOf' /\ MadeWith' /\ Opens'
  BY <1>1, <1>2, <1>3, <1>4 DEF InDos, HandleIInv, CallsOf, MadeWith, Opens
<1>6. (Replaced \/ g_file.handle \in Live)' /\ CopySource' /\ CopyTarget'
  BY <1>2 DEF InDos, HandleIInv, Live, Replaced, CopySource, CopyTarget, Copying
<1> QED
  BY <1>5, <1>6 DEF HandleIInv

LEMMA ClosingKeeps ==
  ASSUME HandleIInv, InDos, call \in Closing, DOMAIN open' = DOMAIN open \ {bx}
  PROVE  HandleIInv'
<1>1. CASE call \in {"close_old", "close", "close_failed"}
  BY <1>1 DEF InDos, HandleIInv, Live, Replaced, CallsOf, MadeWith, Opens, CopySource, CopyTarget,
              Copying
<1>2. CASE call = "copy_close_out"
  BY <1>2, NoHandleIsNone
  DEF InDos, HandleIInv, Live, Replaced, CallsOf, MadeWith, Opens, CopySource, CopyTarget, Copying
<1>3. CASE call = "copy_close_in"
  BY <1>3 DEF InDos, HandleIInv, Live, Replaced, CallsOf, MadeWith, Opens, CopySource, CopyTarget,
              Copying
<1> QED
  BY <1>1, <1>2, <1>3 DEF Closing

(* A call fails or opens and closes nothing; opens a file; or closes one.  *)
OtherCall   == /\ DOMAIN open' = DOMAIN open /\ call \notin Closing
               /\ carry' \/ call \notin {"create", "open_read", "copy_open", "copy_create"}
OpeningCall == /\ FreeHandles # {} /\ \E f : Opened(f)
               /\ call \in {"create", "open_read", "copy_open", "copy_create"}
ClosingCall == call \in Closing /\ DOMAIN open' = DOMAIN open \ {bx}

LEMMA DosCalls == ASSUME Dos  PROVE InDos /\ (OtherCall \/ OpeningCall \/ ClosingCall)
<1> USE DEF Effect, Returns, DosUnchanged, dos, InDos, OtherCall, OpeningCall, ClosingCall
<1>1. CASE DosCreate
  <2>1. InDos /\ call \in {"create", "copy_create"}
    BY <1>1 DEF DosCreate, Opened
  <2>2. (carry' /\ open' = open) \/ (FreeHandles # {} /\ Opened(path))
    BY <1>1 DEF DosCreate
  <2> QED
    BY <2>1, <2>2 DEF Closing
<1>2. CASE DosOpen
  <2>1. InDos /\ call \in {"open_read", "copy_open"}
    BY <1>2 DEF DosOpen, Opened
  <2>2. (carry' /\ open' = open) \/ (FreeHandles # {} /\ Opened(path))
    BY <1>2 DEF DosOpen
  <2> QED
    BY <2>1, <2>2 DEF Closing
<1>3. CASE DosClose
  <2>1. InDos /\ call \in Closing /\ DOMAIN open' = DOMAIN open \ {bx}
    BY <1>3 DEF DosClose
  <2> QED
    BY <2>1
<1>4. CASE DosWrite \/ DosSeek
  <2>1. InDos /\ call \in {"write", "copy_write", "seek"} /\ DOMAIN open' = DOMAIN open
    BY <1>4 DEF DosWrite, DosSeek
  <2> QED
    BY <2>1 DEF Closing
<1>5. CASE DosRead
  <2>1. /\ call \in {"read", "copy_read"} /\ ~returned /\ returned'
        /\ UNCHANGED <<op, call, bx, local>>
    BY <1>5 DEF DosRead
  <2> DEFINE f  == open[bx].file
             at == open[bx].pos
  <2>2. ASSUME f \in DOMAIN files /\ at < Len(files[f])
        PROVE  g_file'.handle = g_file.handle /\ DOMAIN open' = DOMAIN open
    <3>1. /\ g_file' = [g_file EXCEPT !.chunk = files[f][at + 1]]
          /\ open' = [open EXCEPT ![bx].pos = at + 1]
      BY <1>5, <2>2 DEF DosRead
    <3> QED
      BY <3>1
  <2>3. ASSUME ~(f \in DOMAIN files /\ at < Len(files[f]))
        PROVE  g_file'.handle = g_file.handle /\ DOMAIN open' = DOMAIN open
    <3>1. UNCHANGED <<g_file, open>>
      BY <1>5, <2>3 DEF DosRead
    <3> QED
      BY <3>1
  <2>4. g_file'.handle = g_file.handle /\ DOMAIN open' = DOMAIN open
    BY <2>2, <2>3
  <2> QED
    BY <2>1, <2>4 DEF Closing
<1>6. CASE DosFileSize \/ DosFind \/ DosRestoreDta
  <2>1. InDos /\ call \in {"file_size", "find", "restore_dta"} /\ open' = open
    BY <1>6 DEF DosFileSize, DosFind, DosRestoreDta
  <2> QED
    BY <2>1 DEF Closing
<1>7. CASE DosPath
  <2>1. InDos /\ call \in PathCalls /\ open' = open
    BY <1>7 DEF DosPath, PathCalls
  <2> QED
    BY <2>1 DEF Closing, PathCalls
<1>8. CASE DosBadHandle
  <2>1. InDos /\ call \in {"write", "read", "seek"} /\ open' = open
    BY <1>8 DEF DosBadHandle
  <2> QED
    BY <2>1 DEF Closing
<1>9. CASE DosFails
  <2>1. InDos /\ call \notin Closing /\ open' = open /\ carry'
    BY <1>9 DEF DosFails
  <2> QED
    BY <2>1
<1> QED
  BY <1>1, <1>2, <1>3, <1>4, <1>5, <1>6, <1>7, <1>8, <1>9 DEF Dos

LEMMA DosKeeps == ASSUME HandleIInv, Dos  PROVE HandleIInv'
BY DosCalls, OtherCallsKeep, OpeningKeeps, ClosingKeeps DEF OtherCall, OpeningCall, ClosingCall

-----------------------------------------------------------------------------
(* process_idle.                                                           *)

LEMMA AnswerKeeps ==
  ASSUME HandleIInv, NEW g, NEW reply, Answer(g, reply), g.handle \in Live
  PROVE  HandleIInv'
<1>1. g_file' = g /\ op' = "NONE" /\ call' = "none" /\ ~returned' /\ open' = open
      /\ local'.out = NoHandle
  BY DEF Answer, Unchanging, dos, NoLocal
<1> QED
  BY <1>1 DEF HandleIInv, Live, Replaced, CallsOf, MadeWith, Opens, CopySource, CopyTarget,
              OfFile, Copying

(* Every call but those that dos_copy_file makes once its source is open.  *)
LEMMA CallKeeps ==
  ASSUME HandleIInv, call \notin Copying, NEW name, NEW g, NEW call_name, NEW handle,
         CallDos(name, g, call_name, handle),
         local'.out = local.out,
         name # "NONE", name \in {"MKDIR", "DELETE", "RENAME"} => call_name \in PathCalls,
         call_name \notin Copying \cup {"copy_create"},
         call_name \in OfFile => handle = g.handle,
         call_name \in {"create", "open_read"} \/ g.handle \in Live
  PROVE  HandleIInv'
<1>1. /\ g_file' = g /\ op' = name /\ call' = call_name /\ bx' = handle /\ open' = open
      /\ returned' => call_name \in Closing
  BY DEF CallDos, Unchanging, dos
<1>2. local.out = NoHandle
  BY DEF HandleIInv, CopyTarget
<1>3. CallsOf' /\ MadeWith' /\ Opens' /\ CopySource'
  BY <1>1 DEF CallsOf, MadeWith, Opens, CopySource, Copying, Closing
<1>4. CopyTarget' /\ (Replaced \/ g_file.handle \in Live)'
  BY <1>1, <1>2 DEF CopyTarget, Copying, Replaced, Live
<1> QED
  BY <1>1, <1>3, <1>4 DEF HandleIInv

(* What holds between two calls, or before the first.                      *)
LEMMA Entered ==
  ASSUME HandleIInv, NEW name, Enter(name)
  PROVE  call = "none" /\ call \notin Copying /\ g_file.handle \in Live
         /\ Idle.handle = g_file.handle
BY DEF HandleIInv, Enter, CallsOf, Replaced, Copying, Idle

LEMMA BeginKeeps ==
  ASSUME HandleIInv, idle_begin \/ idle_created \/ idle_opened \/ idle_sized
  PROVE  HandleIInv'
<1> USE DEF send_file_ack, SendAck
<1>1. ASSUME NEW name \in {"PUT_BEGIN", "GET_BEGIN"}, Enter(name),
             \/ CallDos(name, Idle, "close_old", g_file.handle)
             \/ CallDos(name, Idle, "create", NoHandle)
             \/ CallDos(name, Idle, "open_read", NoHandle),
             UNCHANGED local
      PROVE  HandleIInv'
  BY <1>1, Entered, CallKeeps DEF Copying, OfFile
<1>2. ASSUME NEW name \in {"PUT_BEGIN", "GET_BEGIN"}, Returned(name, "close_old"),
             \/ CallDos(name, g_file, "create", NoHandle)
             \/ CallDos(name, g_file, "open_read", NoHandle),
             UNCHANGED local
      PROVE  HandleIInv'
  BY <1>2, CallKeeps DEF Returned, Copying, OfFile
<1>3. CASE idle_begin
  BY <1>1, <1>2, <1>3 DEF idle_begin
<1>4. CASE idle_created
  <2> DEFINE g == [g_file EXCEPT !.handle = IF carry THEN NoHandle ELSE ax,
                                 !.expected_offset = 0, !.active = ~carry,
                                 !.mode = IF carry THEN "NONE" ELSE "PUT"]
  <2>1. PICK reply : Answer(g, reply)
    BY <1>4 DEF idle_created
  <2>2. g.handle = IF carry THEN NoHandle ELSE ax
    OBVIOUS
  <2>3. g.handle \in Live
    BY <1>4, <2>2 DEF idle_created, Returned, HandleIInv, Opens, Live
  <2> HIDE DEF g
  <2> QED
    BY <2>1, <2>3, AnswerKeeps
<1>5. CASE idle_opened
  <2> DEFINE g == [Closed(g_file) EXCEPT !.handle = IF carry THEN NoHandle ELSE ax,
                                         !.expected_offset = 0, !.size = 0]
  <2>1. \/ \E reply : Answer(g, reply)
        \/ CallDos("GET_BEGIN", g, "file_size", NoHandle) /\ UNCHANGED local
    BY <1>5 DEF idle_opened
  <2>2. g.handle = IF carry THEN NoHandle ELSE ax
    BY DEF Closed
  <2>3. g.handle \in Live /\ call \notin Copying
    BY <1>5, <2>2 DEF idle_opened, Returned, HandleIInv, Opens, Live, Copying
  <2> HIDE DEF g
  <2>4. CASE \E reply : Answer(g, reply)
    BY <2>3, <2>4, AnswerKeeps
  <2>5. CASE CallDos("GET_BEGIN", g, "file_size", NoHandle) /\ UNCHANGED local
    BY <2>3, <2>5, CallKeeps DEF Copying, OfFile
  <2> QED
    BY <2>1, <2>4, <2>5
<1>6. CASE idle_sized
  <2>1. ASSUME NEW g, g.handle = g_file.handle, call = "file_size",
               \/ \E reply : Answer(g, reply)
               \/ CallDos("GET_BEGIN", g, "close_failed", g_file.handle) /\ UNCHANGED local
        PROVE  HandleIInv'
    <3>1. g.handle \in Live /\ call \notin Copying
      BY <2>1 DEF HandleIInv, Replaced, Copying
    <3>2. CASE \E reply : Answer(g, reply)
      BY <3>1, <3>2, AnswerKeeps
    <3>3. CASE CallDos("GET_BEGIN", g, "close_failed", g_file.handle) /\ UNCHANGED local
      BY <2>1, <3>1, <3>3, CallKeeps DEF Copying, OfFile
    <3> QED
      BY <2>1, <3>2, <3>3
  <2>2. CASE Returned("GET_BEGIN", "file_size") /\ ~carry
    <3> DEFINE g == [g_file EXCEPT !.size = ax, !.active = TRUE, !.mode = "GET"]
    <3>1. g.handle = g_file.handle /\ call = "file_size" /\ \E reply : Answer(g, reply)
      BY <1>6, <2>2 DEF idle_sized, Returned
    <3> HIDE DEF g
    <3> QED
      BY <2>1, <3>1
  <2>3. CASE Returned("GET_BEGIN", "file_size") /\ carry
    <3> DEFINE g == [g_file EXCEPT !.size = NoSize]
    <3>1. g.handle = g_file.handle /\ call = "file_size"
          /\ \/ \E reply : Answer(g, reply)
             \/ CallDos("GET_BEGIN", g, "close_failed", g_file.handle) /\ UNCHANGED local
      BY <1>6, <2>3 DEF idle_sized, Returned
    <3> HIDE DEF g
    <3> QED
      BY <2>1, <3>1
  <2>4. CASE Returned("GET_BEGIN", "close_failed")
    <3> DEFINE g == [g_file EXCEPT !.handle = NoHandle]
    <3>1. g.handle = NoHandle /\ \E reply : Answer(g, reply)
      BY <1>6, <2>4 DEF idle_sized, Returned
    <3> HIDE DEF g
    <3> QED
      BY <3>1, AnswerKeeps DEF Live
  <2> QED
    BY <1>6, <2>2, <2>3, <2>4 DEF idle_sized
<1> QED
  BY <1>3, <1>4, <1>5, <1>6

LEMMA TransferKeeps ==
  ASSUME HandleIInv,
         \/ idle_ack \/ idle_put_data \/ idle_written \/ idle_end
         \/ idle_get_data_req \/ idle_sought \/ idle_read
  PROVE  HandleIInv'
<1> USE DEF send_file_ack, SendAck, send_file_get_data
<1>1. ASSUME NEW g, NEW reply, Answer(g, reply), g.handle = g_file.handle, ~Replaced
      PROVE  HandleIInv'
  BY <1>1, AnswerKeeps DEF HandleIInv
<1>2. ASSUME NEW name, Enter(name)  PROVE ~Replaced
  BY <1>2 DEF HandleIInv, Enter, CallsOf, Replaced
<1>3. ASSUME NEW name, NEW c \in {"write", "seek", "read"}, Returned(name, c)
      PROVE  ~Replaced /\ call \notin Copying
  BY <1>3 DEF Returned, Replaced, Copying
<1>4. CASE idle_ack
  <2> DEFINE g == [Idle EXCEPT !.expected_offset = g_file.ack_offset]
  <2>1. g.handle = g_file.handle /\ \E reply : Answer(g, reply)
    BY <1>4 DEF idle_ack, Idle
  <2> HIDE DEF g
  <2> QED
    BY <1>1, <1>2, <1>4, <2>1 DEF idle_ack
<1>5. CASE idle_put_data
  <2>1. Enter("PUT_DATA") /\ Idle.handle = g_file.handle
    BY <1>5 DEF idle_put_data, Idle
  <2>2. CASE \E reply : Answer(Idle, reply)
    BY <1>1, <1>2, <2>1, <2>2
  <2>3. CASE CallDos("PUT_DATA", Idle, "write", g_file.handle) /\ UNCHANGED local
    BY <2>1, <2>3, Entered, CallKeeps DEF Copying
  <2> QED
    BY <1>5, <2>2, <2>3 DEF idle_put_data
<1>6. CASE idle_written
  <2>1. Returned("PUT_DATA", "write")
    BY <1>6 DEF idle_written
  <2>2. CASE ~carry /\ ax = 1
    <3> DEFINE g == [g_file EXCEPT !.expected_offset = @ + g_file.chunk_count]
    <3>1. g.handle = g_file.handle /\ \E reply : Answer(g, reply)
      BY <1>6, <2>2 DEF idle_written
    <3> HIDE DEF g
    <3> QED
      BY <1>1, <1>3, <2>1, <3>1
  <2>3. CASE ~(~carry /\ ax = 1)
    <3>1. \E reply : Answer(g_file, reply)
      BY <1>6, <2>3 DEF idle_written
    <3> QED
      BY <1>1, <1>3, <2>1, <3>1
  <2> QED
    BY <2>2, <2>3
<1>7. CASE idle_end
  <2>1. ASSUME NEW name \in {"PUT_END", "GET_END"}, Enter(name),
               CallDos(name, Idle, "close", g_file.handle),
               NEW st, local' = [local EXCEPT !.status = st]
        PROVE  HandleIInv'
    <3>1. local'.out = local.out
      BY <2>1
    <3> QED
      BY <2>1, <3>1, Entered, CallKeeps DEF Copying
  <2>2. ASSUME NEW reply, Answer(Closed(g_file), reply)
        PROVE  HandleIInv'
    <3>1. Closed(g_file).handle = NoHandle
      BY DEF Closed
    <3> QED
      BY <2>2, <3>1, AnswerKeeps DEF Live
  <2> QED
    BY <1>7, <2>1, <2>2 DEF idle_end
<1>8. CASE idle_get_data_req
  <2>1. Enter("GET_DATA_REQ") /\ Idle.handle = g_file.handle
    BY <1>8 DEF idle_get_data_req, Idle
  <2>2. CASE /\ op' = "GET_DATA_REQ" /\ g_file' = Idle /\ call' = "seek"
             /\ bx' = g_file.handle
             /\ UNCHANGED <<local, open, returned, carry>>
    <3>1. call = "none" /\ g_file.handle \in Live /\ local.out = NoHandle
      BY <2>1, Entered DEF HandleIInv, CopyTarget
    <3> QED
      BY <2>1, <2>2, <3>1
      DEF HandleIInv, Live, Replaced, CallsOf, MadeWith, Opens, CopySource, CopyTarget, Copying
  <2>3. CASE \E reply : Answer([Idle EXCEPT !.chunk_count = 0], reply)
    <3>1. [Idle EXCEPT !.chunk_count = 0].handle = g_file.handle
      BY DEF Idle
    <3> QED
      BY <1>1, <1>2, <2>1, <2>3, <3>1
  <2> QED
    BY <1>8, <2>2, <2>3 DEF idle_get_data_req, Unchanging, dos
<1>9. CASE idle_sought \/ idle_read
  <2>1. PICK c \in {"seek", "read"} : Returned("GET_DATA_REQ", c)
    BY <1>9 DEF idle_sought, idle_read
  <2>2. ~Replaced /\ call \notin Copying
    BY <1>3, <2>1
  <2>3. CASE \E reply : Answer([g_file EXCEPT !.chunk_count = 0], reply)
    <3>1. [g_file EXCEPT !.chunk_count = 0].handle = g_file.handle
      OBVIOUS
    <3> QED
      BY <1>1, <2>2, <2>3, <3>1
  <2>4. CASE CallDos("GET_DATA_REQ", g_file, "read", g_file.handle) /\ UNCHANGED local
    BY <2>2, <2>4, CallKeeps DEF Copying, HandleIInv
  <2>5. CASE \E reply : Answer([g_file EXCEPT !.chunk_count = ax,
                                  !.expected_offset = g_file.chunk_offset + ax], reply)
    <3> DEFINE g == [g_file EXCEPT !.chunk_count = ax,
                                   !.expected_offset = g_file.chunk_offset + ax]
    <3>1. g.handle = g_file.handle
      OBVIOUS
    <3> HIDE DEF g
    <3> QED
      BY <1>1, <2>2, <2>5, <3>1 DEF g
  <2> QED
    BY <1>9, <2>3, <2>4, <2>5 DEF idle_sought, idle_read
<1> QED
  BY <1>4, <1>5, <1>6, <1>7, <1>8, <1>9

LEMMA PathsKeep ==
  ASSUME HandleIInv, idle_dir_list_data_req \/ idle_found \/ idle_restored \/ idle_path_op
  PROVE  HandleIInv'
<1> USE DEF send_file_ack, SendAck, send_dir_list_data
<1>1. CASE idle_dir_list_data_req
  BY <1>1, Entered, CallKeeps DEF idle_dir_list_data_req, Copying, OfFile
<1>2. CASE idle_found
  <2>1. call = "find"
    BY <1>2 DEF idle_found, Returned
  <2>2. g_file.handle \in Live /\ call \notin Copying
    BY <2>1 DEF HandleIInv, Replaced, Copying
  <2>3. \/ \E reply : Answer(g_file, reply)
        \/ /\ \E n \in {"find", "restore_dta"} : CallDos("DIR_LIST_DATA_REQ", g_file, n, NoHandle)
           /\ \E e : local' = [local EXCEPT !.seen = @ + 1, !.entries = e]
    BY <1>2 DEF idle_found
  <2>4. CASE \E reply : Answer(g_file, reply)
    BY <2>2, <2>4, AnswerKeeps
  <2>5. CASE /\ \E n \in {"find", "restore_dta"} : CallDos("DIR_LIST_DATA_REQ", g_file, n, NoHandle)
             /\ \E e : local' = [local EXCEPT !.seen = @ + 1, !.entries = e]
    <3>1. local'.out = local.out
      BY <2>5
    <3> QED
      BY <2>2, <2>5, <3>1, CallKeeps DEF Copying, OfFile
  <2> QED
    BY <2>3, <2>4, <2>5
<1>3. CASE idle_path_op
  <2>1. PICK name \in {"MKDIR", "DELETE", "RENAME"} :
          \/ /\ Enter(name)
             /\ \/ \E reply : Answer(Idle, reply)
                \/ CallDos(name, Idle, CallOf(name), NoHandle) /\ UNCHANGED local
          \/ op = name /\ \E reply : Answer(g_file, reply)
    BY <1>3 DEF idle_path_op
  <2>2. CASE Enter(name) /\ \E reply : Answer(Idle, reply)
    BY <2>2, Entered, AnswerKeeps
  <2>3. CASE Enter(name) /\ CallDos(name, Idle, CallOf(name), NoHandle) /\ UNCHANGED local
    <3>1. CallOf(name) \in PathCalls
      BY DEF CallOf, PathCalls
    <3>2. CallOf(name) \notin Copying \cup {"copy_create"} \cup OfFile
      BY <3>1 DEF PathCalls, Copying, OfFile
    <3> QED
      BY <2>3, <3>1, <3>2, Entered, CallKeeps
  <2>4. CASE op = name /\ \E reply : Answer(g_file, reply)
    <3>1. call \in PathCalls
      BY <2>4 DEF HandleIInv, CallsOf
    <3>2. g_file.handle \in Live
      BY <3>1 DEF HandleIInv, Replaced, PathCalls
    <3> QED
      BY <2>4, <3>2, AnswerKeeps
  <2> QED
    BY <2>1, <2>2, <2>3, <2>4
<1>4. CASE idle_restored
  <2>1. call = "restore_dta" /\ \E reply : Answer(g_file, reply)
    BY <1>4 DEF idle_restored, Returned
  <2>2. g_file.handle \in Live
    BY <2>1 DEF HandleIInv, Replaced
  <2> QED
    BY <2>1, <2>2, AnswerKeeps
<1> QED
  BY <1>1, <1>2, <1>3, <1>4

-----------------------------------------------------------------------------
(* dos_copy_file.                                                          *)

(* The next call of a copy leaves g_file alone.                            *)
LEMMA CopyCallKeeps ==
  ASSUME HandleIInv, ~Replaced, NEW handle, NEW call_name \in Copying \cup {"copy_create"},
         CopyNext(handle, call_name),
         local'.in \in DOMAIN open \ {g_file.handle},
         call_name \in {"copy_read", "copy_close_in"} => handle = local'.in,
         call_name \in {"copy_write", "copy_close_out"} => handle = local'.out,
         call_name = "copy_create" => local'.out = NoHandle,
         call_name # "copy_close_in"
           => local'.out \in (DOMAIN open \ {g_file.handle, local'.in}) \cup {NoHandle}
  PROVE  HandleIInv'
<1>1. /\ g_file' = g_file /\ op' = "COPY" /\ call' = call_name /\ bx' = handle /\ open' = open
      /\ returned' <=> call_name \in Closing /\ handle = NoHandle
  BY DEF CopyNext, CallDos, Unchanging, dos
<1>2. CallsOf' /\ MadeWith' /\ CopySource'
  <2>1. CallsOf'
    BY <1>1 DEF CallsOf
  <2>2. MadeWith'
    BY <1>1 DEF MadeWith, OfFile, Copying
  <2>3. CopySource'
    BY <1>1 DEF CopySource, Copying
  <2> QED
    BY <2>1, <2>2, <2>3
<1>3. Opens'
  BY <1>1 DEF Opens, Closing
<1>4. CopyTarget'
  BY <1>1 DEF CopyTarget, Copying
<1>5. g_file'.handle \in Live'
  BY <1>1 DEF HandleIInv, Live
<1> QED
  BY <1>1, <1>2, <1>3, <1>4, <1>5 DEF HandleIInv

LEMMA CopyBegins ==
  ASSUME HandleIInv, idle_copy
  PROVE  HandleIInv'
<1> USE DEF send_file_ack, SendAck
<1>1. CASE Enter("COPY")
  <2>1. call \notin Copying /\ g_file.handle \in Live /\ Idle.handle = g_file.handle
    BY <1>1, Entered
  <2>2. \/ \E reply : Answer([Idle EXCEPT !.expected_offset = 0], reply)
        \/ CallDos("COPY", Idle, "copy_open", NoHandle) /\ UNCHANGED local
    BY <1>1 DEF idle_copy, Enter, Returned
  <2>3. [Idle EXCEPT !.expected_offset = 0].handle = g_file.handle
    BY DEF Idle
  <2>4. CASE \E reply : Answer([Idle EXCEPT !.expected_offset = 0], reply)
    BY <2>1, <2>3, <2>4, AnswerKeeps
  <2>5. CASE CallDos("COPY", Idle, "copy_open", NoHandle) /\ UNCHANGED local
    BY <2>1, <2>5, CallKeeps DEF Copying, OfFile
  <2> QED
    BY <2>2, <2>4, <2>5
<1>2. CASE Returned("COPY", "copy_open")
  <2>1. call = "copy_open" /\ ~Replaced /\ g_file.handle \in Live /\ local.out = NoHandle
    BY <1>2 DEF Returned, HandleIInv, Replaced, CopyTarget, Copying
  <2>2. CASE carry
    <3>1. \E reply : Answer([g_file EXCEPT !.expected_offset = 0], reply)
      BY <1>2, <2>2 DEF idle_copy, Enter, Returned
    <3>2. [g_file EXCEPT !.expected_offset = 0].handle = g_file.handle
      OBVIOUS
    <3> QED
      BY <2>1, <3>1, <3>2, AnswerKeeps
  <2>3. CASE ~carry
    <3>1. CopyNext(NoHandle, "copy_create") /\ local' = [local EXCEPT !.in = ax]
      BY <1>2, <2>3 DEF idle_copy, Enter, Returned
    <3>2. local'.in = ax /\ local'.out = local.out
      BY <3>1
    <3>3. ax \in DOMAIN open \ {g_file.handle}
      BY <1>2, <2>3 DEF Returned, HandleIInv, Opens
    <3> QED
      BY <2>1, <3>1, <3>2, <3>3, CopyCallKeeps
  <2> QED
    BY <2>2, <2>3
<1>3. CASE Returned("COPY", "copy_create")
  <2>1. /\ call = "copy_create" /\ ~Replaced /\ local.out = NoHandle
        /\ local.in \in DOMAIN open \ {g_file.handle}
    BY <1>3 DEF Returned, HandleIInv, Replaced, CopyTarget, CopySource, Copying
  <2>2. CASE carry
    <3>1. CopyNext(local.out, "copy_close_out") /\ local' = [local EXCEPT !.status = "ERROR"]
      BY <1>3, <2>2 DEF idle_copy, Enter, Returned, CopyDone
    <3>2. local'.in = local.in /\ local'.out = local.out
      BY <3>1
    <3> QED
      BY <2>1, <3>1, <3>2, CopyCallKeeps DEF Copying
  <2>3. CASE ~carry
    <3>1. CopyNext(local.in, "copy_read") /\ local' = [local EXCEPT !.out = ax]
      BY <1>3, <2>3 DEF idle_copy, Enter, Returned
    <3>2. local'.in = local.in /\ local'.out = ax
      BY <3>1
    <3>3. ax \in DOMAIN open \ {g_file.handle, local.in}
      BY <1>3, <2>3 DEF Returned, HandleIInv, Opens
    <3> QED
      BY <2>1, <3>1, <3>2, <3>3, CopyCallKeeps DEF Copying
  <2> QED
    BY <2>2, <2>3
<1> QED
  BY <1>1, <1>2, <1>3 DEF idle_copy

LEMMA CopyGoesOn ==
  ASSUME HandleIInv, idle_copying
  PROVE  HandleIInv'
<1> USE DEF send_file_ack, SendAck
<1>1. CASE Returned("COPY", "copy_read") \/ Returned("COPY", "copy_write")
  <2>1. /\ call \in {"copy_read", "copy_write"} /\ ~Replaced
        /\ local.in \in DOMAIN open \ {g_file.handle}
        /\ local.out \in (DOMAIN open \ {g_file.handle, local.in}) \cup {NoHandle}
    BY <1>1 DEF Returned, HandleIInv, Replaced, CopyTarget, CopySource, Copying
  <2>2. \/ \E st : CopyDone(st)
        \/ CopyNext(local.out, "copy_write") /\ UNCHANGED local
        \/ CopyNext(local.in, "copy_read") /\ local' = [local EXCEPT !.bytes = @ + 1]
    BY <1>1 DEF idle_copying, Returned
  <2>3. ASSUME NEW st, CopyDone(st)  PROVE HandleIInv'
    <3>1. CopyNext(local.out, "copy_close_out") /\ local'.in = local.in /\ local'.out = local.out
      BY <2>3 DEF CopyDone
    <3> QED
      BY <2>1, <3>1, CopyCallKeeps DEF Copying
  <2>4. CASE CopyNext(local.out, "copy_write") /\ UNCHANGED local
    BY <2>1, <2>4, CopyCallKeeps DEF Copying
  <2>5. CASE CopyNext(local.in, "copy_read") /\ local' = [local EXCEPT !.bytes = @ + 1]
    <3>1. local'.in = local.in /\ local'.out = local.out
      BY <2>5
    <3> QED
      BY <2>1, <2>5, <3>1, CopyCallKeeps DEF Copying
  <2> QED
    BY <2>2, <2>3, <2>4, <2>5
<1>2. CASE Returned("COPY", "copy_close_out")
  <2>1. ~Replaced /\ local.in \in DOMAIN open \ {g_file.handle}
    BY <1>2 DEF Returned, HandleIInv, Replaced, CopySource, Copying
  <2>2. CopyNext(local.in, "copy_close_in") /\ UNCHANGED local
    BY <1>2 DEF idle_copying, Returned
  <2> QED
    BY <2>1, <2>2, CopyCallKeeps DEF Copying
<1>3. CASE Returned("COPY", "copy_close_in")
  <2>1. g_file.handle \in Live
    BY <1>3 DEF Returned, HandleIInv, Replaced
  <2>2. \E reply : Answer([g_file EXCEPT !.expected_offset = local.bytes], reply)
    BY <1>3 DEF idle_copying, Returned
  <2>3. [g_file EXCEPT !.expected_offset = local.bytes].handle = g_file.handle
    OBVIOUS
  <2> QED
    BY <2>1, <2>2, <2>3, AnswerKeeps
<1> QED
  BY <1>1, <1>2, <1>3 DEF idle_copying

-----------------------------------------------------------------------------
LEMMA InitHandles == Init => HandleIInv
<1> SUFFICES ASSUME Init  PROVE HandleIInv
  OBVIOUS
<1>1. DOMAIN open = {} /\ op = "NONE" /\ call = "none" /\ ~returned
      /\ g_file.handle = NoHandle /\ local.out = NoHandle
  BY DEF Init, ServerInit, file_transfer_init, NoLocal
<1> QED
  BY <1>1 DEF HandleIInv, Live, Replaced, CallsOf, MadeWith, Opens, CopySource, CopyTarget,
              OfFile, Copying

LEMMA StepHandles == HandleIInv /\ [Next]_vars => HandleIInv'
<1> SUFFICES ASSUME HandleIInv, [Next]_vars  PROVE HandleIInv'
  OBVIOUS
<1>1. CASE ServerNext
  <2>1. CASE Receive \/ TickBegin
    <3>1. Aside
      BY <2>1 DEF Receive, TickBegin, dos, Aside
    <3> QED
      BY <3>1, AsideKeeps
  <2>2. CASE file_transfer_handle_packet
    BY <2>2, HandlersAreAside, AsideKeeps
  <2>3. CASE file_transfer_process_idle
    BY <2>3, BeginKeeps, TransferKeeps, PathsKeep, CopyBegins, CopyGoesOn
    DEF file_transfer_process_idle
  <2> QED
    BY <1>1, <2>1, <2>2, <2>3, DosKeeps DEF ServerNext
<1>2. CASE UNCHANGED <<server, dos>>
  <2>1. Aside
    BY <1>2 DEF server, dos, Aside
  <2> QED
    BY <2>1, AsideKeeps
<1> QED
  BY <1>1, <1>2 DEF Next, ClientStep, Lose, vars

(* process_idle never uses a handle that it has closed, when DOS may have  *)
(* given its number to another file, whatever packets a tick hands over    *)
(* while a call is being made: for any hosts, requests, losses and faults. *)
THEOREM NoHandleIsStale == Spec => []NoStaleHandle
<1>1. HandleIInv => NoStaleHandle
  BY DEF HandleIInv, Live, Replaced, MadeWith, CopySource, CopyTarget, OfFile, Copying,
         NoStaleHandle, Closing
<1> QED
  BY <1>1, InitHandles, StepHandles, PTL DEF Spec

-----------------------------------------------------------------------------
(* Requests.                                                               *)

(* No user asks for a directory listing. *)
NoListings == \A s \in Scripts, c \in Clients : \A i \in 1..Len(s[c]) : s[c][i].kind # "DIR"

Listings == {"DIR_LIST_BEGIN", "DIR_LIST_DATA_REQ", "DIR_LIST_END"}

Asked == {r \in Request : NoListings => r.type \notin Listings}

(* What a client may wait for, and where, in operation o. *)
Fits(o, at, off) ==
  /\ off \in Nat
  /\ o.kind \in {"PUT", "GET"} => at \in {"BEGIN", "DATA", "END"}
  /\ o.kind = "DIR" => at = "PAGE"
  /\ o.kind \in PathOps => at = o.kind
  /\ o.kind = "PUT" /\ at = "DATA" => off < Len(o.data)

Asking(c) == /\ Op(c) \in Operation
             /\ NoListings => Op(c).kind # "DIR"

LEMMA PacketIsAsked ==
  ASSUME NEW c \in Clients, Asking(c),
         NEW type \in RequestType, NoListings => type \notin Listings
  PROVE  Packet(c, type) \in Asked
<1>1. Op(c).session \in 1..MaxOps /\ Op(c).kind \in Kinds
  BY DEF Asking, Operation
<1>2. Session(c) \in Sessions /\ Op(c).kind \in Salts
  BY <1>1 DEF Session, Sessions, Kinds, PathOps, Salts
<1>3. Id(c) \in Ids
  BY <1>2 DEF Id, make_transfer_id, Ids
<1>4. Packet(c, type) \in Request
  BY <1>2, <1>3 DEF Packet, Request
<1>5. Packet(c, type).type = type
  BY DEF Packet
<1> QED
  BY <1>4, <1>5 DEF Asked

(* Its fields are filled in. *)
LEMMA FilledIn ==
  ASSUME NEW r \in Asked, NEW p \in Names \cup {None}, NEW t \in Names \cup {None},
         NEW n \in Nat, NEW d \in Chunks \cup {None}, NEW b \in BOOLEAN
  PROVE  /\ [r EXCEPT !.path = p] \in Asked
         /\ [r EXCEPT !.size = n] \in Asked
         /\ [r EXCEPT !.offset = n] \in Asked
         /\ [r EXCEPT !.path = p, !.size = n] \in Asked
         /\ [r EXCEPT !.offset = n, !.chunk = d] \in Asked
         /\ [r EXCEPT !.path = p, !.target = t, !.is_dir = b] \in Asked
<1> DEFINE r1 == [r EXCEPT !.path = p]
           r2 == [r EXCEPT !.size = n]
           r3 == [r EXCEPT !.offset = n]
           r4 == [r EXCEPT !.path = p, !.size = n]
           r5 == [r EXCEPT !.offset = n, !.chunk = d]
           r6 == [r EXCEPT !.path = p, !.target = t, !.is_dir = b]
<1>1. r \in Request
  BY DEF Asked
<1>2. r1 \in Request /\ r2 \in Request /\ r3 \in Request
  BY <1>1 DEF Request
<1>3. r4 \in Request /\ r5 \in Request
  BY <1>1 DEF Request
<1>4. r6 \in Request
  BY <1>1 DEF Request
<1>5. \A x \in {r1, r2, r3, r4, r5, r6} : x.type = r.type
  BY <1>1 DEF Request
<1> HIDE DEF r1, r2, r3, r4, r5, r6
<1>6. {r1, r2, r3, r4, r5, r6} \subseteq Asked
  BY <1>2, <1>3, <1>4, <1>5 DEF Asked
<1> QED
  BY <1>6 DEF r1, r2, r3, r4, r5, r6

LEMMA RequestIsAsked ==
  ASSUME NEW c \in Clients, Asking(c), NEW at, NEW off, Fits(Op(c), at, off)
  PROVE  RequestFor(c, at, off) \in Asked
<1> DEFINE o == Op(c)
           put_begin_req == [Packet(c, "PUT_BEGIN") EXCEPT !.path = o.path, !.size = Len(o.data)]
           put_data_req  == [Packet(c, "PUT_DATA") EXCEPT !.offset = off,
                                                          !.chunk = o.data[off + 1]]
           put_end_req   == [Packet(c, "PUT_END") EXCEPT !.size = Len(o.data)]
           get_begin_req == [Packet(c, "GET_BEGIN") EXCEPT !.path = o.path]
           get_data      == [Packet(c, "GET_DATA_REQ") EXCEPT !.offset = off]
           get_end_req   == Packet(c, "GET_END")
           page_req      == [Packet(c, "DIR_LIST_DATA_REQ") EXCEPT !.offset = off]
           path_req      == [Packet(c, o.kind) EXCEPT !.path = o.path, !.target = o.target,
                                                      !.is_dir = o.is_dir]
<1>1. /\ o.kind \in Kinds /\ o.path \in Names \cup {None} /\ o.target \in Names \cup {None}
      /\ o.data \in Seq(Chunks) /\ o.is_dir \in BOOLEAN
  BY DEF Asking, Operation
<1>2. off \in Nat /\ Len(o.data) \in Nat
  BY <1>1, LenProperties DEF Fits
<1>3. RequestFor(c, at, off) =
        CASE o.kind = "PUT" /\ at = "BEGIN" -> put_begin_req
          [] o.kind = "PUT" /\ at = "DATA"  -> put_data_req
          [] o.kind = "PUT" /\ at = "END"   -> put_end_req
          [] o.kind = "GET" /\ at = "BEGIN" -> get_begin_req
          [] o.kind = "GET" /\ at = "DATA"  -> get_data
          [] o.kind = "GET" /\ at = "END"   -> get_end_req
          [] o.kind = "DIR"                 -> page_req
          [] o.kind \in PathOps             -> path_req
  BY Zenon DEF RequestFor
<1>4. ASSUME NEW type \in RequestType \ Listings  PROVE Packet(c, type) \in Asked
  BY <1>4, PacketIsAsked
<1>5. put_begin_req \in Asked /\ put_end_req \in Asked
  <2>1. Packet(c, "PUT_BEGIN") \in Asked /\ Packet(c, "PUT_END") \in Asked
    BY <1>4 DEF RequestType, Listings
  <2> QED
    BY <1>1, <1>2, <2>1, FilledIn
<1>6. ASSUME o.kind = "PUT" /\ at = "DATA"  PROVE put_data_req \in Asked
  <2>1. off + 1 \in 1..Len(o.data)
    BY <1>2, <1>6 DEF Fits
  <2>2. o.data[off + 1] \in Chunks \cup {None}
    BY <1>1, <2>1, ElementOfSeq
  <2>3. Packet(c, "PUT_DATA") \in Asked
    BY <1>4 DEF RequestType, Listings
  <2> QED
    BY <1>2, <2>2, <2>3, FilledIn
<1>7. get_begin_req \in Asked /\ get_data \in Asked /\ get_end_req \in Asked
  <2>1. /\ Packet(c, "GET_BEGIN") \in Asked /\ Packet(c, "GET_DATA_REQ") \in Asked
        /\ Packet(c, "GET_END") \in Asked
    BY <1>4 DEF RequestType, Listings
  <2> QED
    BY <1>1, <1>2, <2>1, FilledIn
<1>8. ASSUME o.kind = "DIR"  PROVE page_req \in Asked
  <2>1. Packet(c, "DIR_LIST_DATA_REQ") \in Asked
    BY <1>8, PacketIsAsked DEF RequestType, Asking
  <2> QED
    BY <1>2, <2>1, FilledIn
<1>9. ASSUME o.kind \in PathOps  PROVE path_req \in Asked
  <2>1. o.kind \in RequestType \ Listings
    BY <1>9 DEF PathOps, RequestType, Listings
  <2>2. Packet(c, o.kind) \in Asked
    BY <1>4, <2>1
  <2> QED
    BY <1>1, <2>2, FilledIn
<1>10. o.kind \in {"PUT", "GET"} => at \in {"BEGIN", "DATA", "END"}
  BY DEF Fits
<1>11. o.kind \in {"PUT", "GET", "DIR"} \/ o.kind \in PathOps
  BY <1>1 DEF Kinds
<1>12. {"PUT", "GET", "DIR"} \cap PathOps = {}
  BY DEF PathOps
<1> HIDE DEF o, put_begin_req, put_data_req, put_end_req, get_begin_req, get_data, get_end_req,
             page_req, path_req
<1> QED
  BY <1>3, <1>5, <1>6, <1>7, <1>8, <1>9, <1>10, <1>11, <1>12
-----------------------------------------------------------------------------
(* The inductive invariant of the file transfers.                          *)

RequestsAreSound == /\ toServer \in Seq(Asked) /\ ready \in Seq(Asked)
                    /\ Len(ready) <= PoolSize
                    /\ ticking \in BOOLEAN
                    /\ ticking => ready # <<>>

(* An acknowledgement names a command; a page of a listing is a sequence,  *)
(* and so is what waits for a client.                                      *)
ReplyIsSound(r) == /\ r.type = "FILE_ACK" => r.command \in Ack
                   /\ r.type = "DIR_LIST_DATA" => IsSeq(r.data)

RepliesAreSound == /\ DOMAIN toClient = Clients
                   /\ \A c \in Clients :
                        /\ IsSeq(toClient[c])
                        /\ \A i \in 1..Len(toClient[c]) : ReplyIsSound(toClient[c][i])

FileIsSound(g) == /\ g.mode \in {"NONE", "PUT", "GET", "DIR"}
                  /\ g.pending_op \in RequestType \cup {"NONE", "ACK"}
                  /\ g.handle \in Handles \cup {NoHandle}

ServerIsSound == /\ FileIsSound(g_file)
                 /\ call = "none" => op = "NONE"
                 /\ IsSeq(local.entries)
                 /\ losses \in 0..MaxLosses /\ faults \in 0..MaxFaults

ClientIsSound(c) ==
  /\ step[c] # "idle" => /\ opno[c] <= Len(script[c])
                         /\ Fits(Op(c), step[c], offset[c])
                         /\ Op(c).kind = "DIR" => IsSeq(got[c])
  /\ step[c] = "idle" => got[c] = <<>>

ClientsAreSound == /\ script \in Scripts
                   /\ opno \in [Clients -> Nat \ {0}]
                   /\ step \in [Clients -> Steps]
                   /\ attempt \in [Clients -> 0..Retries]
                   /\ DOMAIN offset = Clients /\ DOMAIN got = Clients
                   /\ \A c \in Clients : ClientIsSound(c)

(* Every open handle is in a variable that will be looked at again: the    *)
(* transfer's and the two of a copy until they are closed, or ax when the  *)
(* call that opened it has just returned.                                  *)
Openers == {"create", "open_read", "copy_open", "copy_create"}

Fresh == IF returned /\ ~carry /\ call \in Openers THEN {ax} ELSE {}

SourceClosed == call = "copy_close_in" /\ returned
TargetClosed == call = "copy_close_in" \/ (call = "copy_close_out" /\ returned)

AllAreKept ==
  /\ DOMAIN open \subseteq Fresh \cup (IF Replaced THEN {} ELSE {g_file.handle})
                              \cup (IF SourceClosed THEN {} ELSE {local.in})
                              \cup (IF TargetClosed THEN {} ELSE {local.out})
  /\ call \notin Copying \cup {"copy_create"} => local.in = NoHandle
  /\ ~g_file.active => \/ g_file.handle = NoHandle \/ Replaced
                       \/ call \in {"file_size", "close_failed"}

TransferIInv == /\ HandleIInv
                /\ RequestsAreSound /\ RepliesAreSound /\ ServerIsSound /\ ClientsAreSound
                /\ NoListings => AllAreKept
-----------------------------------------------------------------------------
(* Kinds of steps.                                                         *)

(* What process_idle does to what it has in common with the others.        *)
LEMMA IdleLeaves ==
  ASSUME file_transfer_process_idle
  PROVE  Unchanging /\ ~ticking
<1> USE DEF CallDos, Answer, Enter, Returned, send_file_ack, SendAck, send_file_get_data,
            send_dir_list_data, CopyNext, CopyDone
<1>1. CASE idle_ack \/ idle_begin \/ idle_created
  BY <1>1 DEF idle_ack, idle_begin, idle_created
<1>2. CASE idle_put_data \/ idle_written
  BY <1>2 DEF idle_put_data, idle_written
<1>3. CASE idle_end
  BY <1>3 DEF idle_end
<1>4. CASE idle_opened
  BY <1>4 DEF idle_opened
<1>5. CASE idle_sized
  BY <1>5 DEF idle_sized
<1>6. CASE idle_get_data_req \/ idle_sought
  BY <1>6 DEF idle_get_data_req, idle_sought
<1>7. CASE idle_read
  BY <1>7 DEF idle_read
<1>8. CASE idle_dir_list_data_req
  BY <1>8 DEF idle_dir_list_data_req
<1>9. CASE idle_found \/ idle_restored
  BY <1>9 DEF idle_found, idle_restored
<1>10. CASE idle_path_op
  BY <1>10 DEF idle_path_op
<1>11. CASE idle_copy
  BY <1>11 DEF idle_copy
<1>12. CASE idle_copying
  BY <1>12 DEF idle_copying
<1> QED
  BY <1>1, <1>2, <1>3, <1>4, <1>5, <1>6, <1>7, <1>8, <1>9, <1>10, <1>11, <1>12
  DEF file_transfer_process_idle

LEMMA DosLeaves ==
  ASSUME Dos
  PROVE  /\ UNCHANGED <<wire, ready, ticking, op, call, bx, local>> /\ call # "none"
         /\ g_file' = g_file \/ \E b : g_file' = [g_file EXCEPT !.chunk = b]
<1> USE DEF DosUnchanged, Effect, dos
<1>1. CASE DosCreate \/ DosOpen \/ DosSeek
  BY <1>1 DEF DosCreate, DosOpen, DosSeek
<1>2. CASE DosClose
  BY <1>2 DEF DosClose, Closing
<1>3. CASE DosWrite
  BY <1>3 DEF DosWrite
<1>4. CASE DosRead
  <2> DEFINE f  == open[bx].file
             at == open[bx].pos
  <2>1. UNCHANGED <<wire, ready, ticking, op, call, bx, local>> /\ call # "none"
    BY <1>4 DEF DosRead
  <2>2. g_file' = [g_file EXCEPT !.chunk = files[f][at + 1]] \/ g_file' = g_file
    BY <1>4 DEF DosRead
  <2> QED
    BY <2>1, <2>2
<1>5. CASE DosFileSize \/ DosFind \/ DosRestoreDta \/ DosBadHandle
  BY <1>5 DEF DosFileSize, DosFind, DosRestoreDta, DosBadHandle
<1>6. CASE DosPath
  BY <1>6 DEF DosPath
<1>7. CASE DosFails
  BY <1>7 DEF DosFails
<1> QED
  BY <1>1, <1>2, <1>3, <1>4, <1>5, <1>6, <1>7 DEF Dos

LEMMA HandlersLeave ==
  ASSUME file_transfer_handle_packet
  PROVE  /\ ticking /\ ready' = Front(ready) /\ ticking' = (Len(ready) > 1)
         /\ UNCHANGED <<wire, op, call, returned, bx, carry, ax, local, dos>>
BY DEF Handled, file_transfer_handle_packet, put_begin, queue_ack, put_data, put_end, get_begin,
       get_data_req, get_end, dir_list_begin, dir_list_data_req, dir_list_end, path_op, Drop
-----------------------------------------------------------------------------
(* The clients.                                                            *)

LEMMA AtAnOperation ==
  ASSUME ClientsAreSound, NEW c \in Clients, opno[c] <= Len(script[c])
  PROVE  Asking(c) /\ Op(c).kind \in Kinds
<1>1. script \in Scripts /\ script[c] \in Seq(Operation) /\ opno[c] \in Nat \ {0}
  BY FileClientAssumption DEF ClientsAreSound
<1>2. opno[c] \in 1..Len(script[c])
  BY <1>1, LenProperties
<1>3. Op(c) \in Operation
  BY <1>1, <1>2, ElementOfSeq DEF Op
<1>4. NoListings => Op(c).kind # "DIR"
  BY <1>1, <1>2 DEF NoListings, Op
<1> QED
  BY <1>3, <1>4 DEF Asking, Operation

LEMMA Sends ==
  ASSUME RequestsAreSound, NEW p \in Asked, SendToServer(p), UNCHANGED <<ready, ticking>>
  PROVE  RequestsAreSound'
<1>1. Append(toServer, p) \in Seq(Asked)
  BY AppendProperties DEF RequestsAreSound
<1> QED
  BY <1>1 DEF RequestsAreSound, SendToServer

(* One client moves, the others stay where they are.                       *)
LEMMA OneMoves ==
  ASSUME ClientsAreSound, NEW c \in Clients, script' = script,
         opno' \in [Clients -> Nat \ {0}], step' \in [Clients -> Steps],
         attempt' \in [Clients -> 0..Retries],
         DOMAIN offset' = Clients, DOMAIN got' = Clients,
         \A d \in Clients \ {c} : /\ opno'[d] = opno[d] /\ step'[d] = step[d]
                                  /\ offset'[d] = offset[d] /\ got'[d] = got[d],
         ClientIsSound(c)'
  PROVE  ClientsAreSound'
<1>1. ASSUME NEW d \in Clients \ {c}  PROVE ClientIsSound(d)'
  <2>1. ClientIsSound(d)
    BY DEF ClientsAreSound
  <2>2. Op(d)' = Op(d)
    BY DEF Op
  <2> QED
    BY <2>1, <2>2 DEF ClientIsSound
<1>2. \A d \in Clients : ClientIsSound(d)'
  BY <1>1
<1> QED
  BY <1>2 DEF ClientsAreSound

LEMMA Asks ==
  ASSUME ClientsAreSound, NEW c \in Clients, NEW at \in Steps \ {"idle"}, NEW off,
         Ask(c, at, off), opno[c] <= Len(script[c]), Fits(Op(c), at, off),
         UNCHANGED got \/ \E g : /\ got' = [got EXCEPT ![c] = g]
                                 /\ Op(c).kind = "DIR" => IsSeq(g),
         step[c] = "idle" => UNCHANGED got
  PROVE  ClientsAreSound'
<1>1. /\ script' = script /\ opno' = opno
      /\ step' = [step EXCEPT ![c] = at] /\ offset' = [offset EXCEPT ![c] = off]
      /\ attempt' = [attempt EXCEPT ![c] = 1]
  BY DEF Ask
<1>2. 1 \in 0..Retries
  BY FileClientAssumption
<1>3. /\ opno' \in [Clients -> Nat \ {0}] /\ step' \in [Clients -> Steps]
      /\ attempt' \in [Clients -> 0..Retries]
      /\ DOMAIN offset' = Clients /\ DOMAIN got' = Clients
  BY <1>1, <1>2 DEF ClientsAreSound
<1>4. \A d \in Clients \ {c} : /\ opno'[d] = opno[d] /\ step'[d] = step[d]
                               /\ offset'[d] = offset[d] /\ got'[d] = got[d]
  BY <1>1 DEF ClientsAreSound
<1>5. Op(c)' = Op(c) /\ step'[c] = at /\ offset'[c] = off
  BY <1>1 DEF Op, ClientsAreSound
<1>6. Op(c).kind = "DIR" => IsSeq(got'[c])
  <2>1. CASE UNCHANGED got
    BY <2>1, EmptyIsSeq DEF ClientsAreSound, ClientIsSound
  <2>2. CASE \E g : got' = [got EXCEPT ![c] = g] /\ (Op(c).kind = "DIR" => IsSeq(g))
    BY <2>2 DEF ClientsAreSound
  <2> QED
    BY <2>1, <2>2
<1>7. ClientIsSound(c)'
  BY <1>1, <1>5, <1>6 DEF ClientIsSound
<1> QED
  BY <1>1, <1>3, <1>4, <1>7, OneMoves

LEMMA Finishes ==
  ASSUME ClientsAreSound, NEW c \in Clients, NEW outcome, NEW data, Finish(c, outcome, data)
  PROVE  ClientsAreSound'
<1>1. /\ script' = script /\ opno' = [opno EXCEPT ![c] = opno[c] + 1]
      /\ step' = [step EXCEPT ![c] = "idle"] /\ attempt' = [attempt EXCEPT ![c] = 0]
      /\ offset' = [offset EXCEPT ![c] = 0] /\ got' = [got EXCEPT ![c] = <<>>]
  BY DEF Finish
<1>2. 0 \in 0..Retries /\ opno[c] + 1 \in Nat \ {0} /\ "idle" \in Steps
  BY FileClientAssumption DEF ClientsAreSound, Steps
<1>3. /\ opno' \in [Clients -> Nat \ {0}] /\ step' \in [Clients -> Steps]
      /\ attempt' \in [Clients -> 0..Retries]
      /\ DOMAIN offset' = Clients /\ DOMAIN got' = Clients
  BY <1>1, <1>2 DEF ClientsAreSound
<1>4. \A d \in Clients \ {c} : /\ opno'[d] = opno[d] /\ step'[d] = step[d]
                               /\ offset'[d] = offset[d] /\ got'[d] = got[d]
  BY <1>1 DEF ClientsAreSound
<1>5. step'[c] = "idle" /\ got'[c] = <<>>
  BY <1>1 DEF ClientsAreSound
<1>6. ClientIsSound(c)'
  BY <1>5 DEF ClientIsSound
<1> QED
  BY <1>1, <1>3, <1>4, <1>6, OneMoves
LEMMA ReplyIsTaken ==
  ASSUME RepliesAreSound, NEW c \in Clients, toClient[c] # <<>>,
         toClient' = [toClient EXCEPT ![c] = Tail(@)]
  PROVE  RepliesAreSound' /\ ReplyIsSound(Reply(c))
<1> DEFINE s == toClient[c]
           S == ToSet(s)
<1>1. s \in Seq(S) /\ s # <<>> /\ \A i \in 1..Len(s) : ReplyIsSound(s[i])
  BY DEF RepliesAreSound, IsSeq
<1>2. toClient' = [toClient EXCEPT ![c] = Tail(s)]
  OBVIOUS
<1> HIDE DEF s, S
<1>3. /\ Tail(s) \in Seq(S) /\ Len(s) \in Nat \ {0} /\ Len(Tail(s)) = Len(s) - 1
      /\ \A i \in 1..Len(Tail(s)) : Tail(s)[i] = s[i + 1]
  BY <1>1, HeadTailProperties, LenProperties, EmptySeq
<1>4. IsSeq(Tail(s)) /\ \A i \in 1..Len(Tail(s)) : ReplyIsSound(Tail(s)[i])
  <2>1. \A i \in 1..Len(Tail(s)) : i + 1 \in 1..Len(s)
    BY <1>3
  <2> QED
    BY <1>1, <1>3, <2>1, SeqIsSeq
<1>5. Head(s) = s[1] /\ 1 \in 1..Len(s)
  BY <1>1, <1>3
<1>6. RepliesAreSound'
  BY <1>2, <1>4 DEF RepliesAreSound
<1>7. ReplyIsSound(Head(s))
  BY <1>1, <1>5
<1> QED
  BY <1>6, <1>7 DEF Reply, s

LEMMA AsksNext ==
  ASSUME RequestsAreSound, ClientsAreSound, NEW c \in Clients, opno[c] <= Len(script[c]),
         NEW at \in Steps \ {"idle"}, NEW off, AskNext(c, at, off), Fits(Op(c), at, off),
         step[c] # "idle",
         UNCHANGED got \/ \E g : /\ got' = [got EXCEPT ![c] = g]
                                 /\ Op(c).kind = "DIR" => IsSeq(g),
         UNCHANGED <<ready, ticking>>
  PROVE  RequestsAreSound' /\ ClientsAreSound'
<1>1. RequestFor(c, at, off) \in Asked
  BY AtAnOperation, RequestIsAsked
<1>2. RequestsAreSound'
  BY <1>1, Sends DEF AskNext
<1>3. ClientsAreSound'
  BY Asks DEF AskNext
<1> QED
  BY <1>2, <1>3

LEMMA SendsAgain ==
  ASSUME RequestsAreSound, ClientsAreSound, NEW c \in Clients, step[c] # "idle",
         SendAgain(c), UNCHANGED <<ready, ticking>>
  PROVE  RequestsAreSound' /\ ClientsAreSound'
<1>1. CASE /\ attempt[c] < Retries
           /\ SendToServer(RequestFor(c, step[c], offset[c]))
           /\ attempt' = [attempt EXCEPT ![c] = @ + 1]
           /\ UNCHANGED <<script, opno, step, offset, file_size, got, results>>
  <2>1. opno[c] <= Len(script[c]) /\ Fits(Op(c), step[c], offset[c]) /\ ClientIsSound(c)
    BY DEF ClientsAreSound, ClientIsSound
  <2>2. RequestFor(c, step[c], offset[c]) \in Asked
    BY <2>1, AtAnOperation, RequestIsAsked
  <2>3. RequestsAreSound'
    BY <1>1, <2>2, Sends
  <2>4. attempt[c] + 1 \in 0..Retries
    BY <1>1, FileClientAssumption DEF ClientsAreSound
  <2>5. attempt' \in [Clients -> 0..Retries]
    BY <1>1, <2>4 DEF ClientsAreSound
  <2>6. ClientIsSound(c)'
    BY <1>1, <2>1 DEF ClientIsSound, Op
  <2>7. ClientsAreSound'
    BY <1>1, <2>5, <2>6, OneMoves DEF ClientsAreSound
  <2> QED
    BY <2>3, <2>7
<1>2. CASE Finish(c, "failed", <<>>) /\ UNCHANGED toServer
  BY <1>2, Finishes DEF RequestsAreSound
<1> QED
  BY <1>1, <1>2 DEF SendAgain

LEMMA Starts ==
  ASSUME RequestsAreSound, ClientsAreSound, NEW c \in Clients, Start(c),
         UNCHANGED <<ready, ticking>>
  PROVE  RequestsAreSound' /\ ClientsAreSound'
<1> DEFINE kind  == Op(c).kind
           first == CASE kind \in {"PUT", "GET"} -> "BEGIN"
                      [] kind = "DIR" -> "PAGE"
                      [] kind \in PathOps -> kind
           opening == IF kind = "DIR" THEN <<Packet(c, "DIR_LIST_BEGIN")>> ELSE <<>>
<1>1. /\ step[c] = "idle" /\ opno[c] <= Len(script[c])
      /\ Ask(c, first, 0) /\ UNCHANGED got
      /\ toServer' = toServer \o Append(opening, RequestFor(c, first, 0))
  BY DEF Start
<1>2. Asking(c) /\ kind \in {"PUT", "GET", "DIR"} \cup PathOps
  BY <1>1, AtAnOperation DEF Kinds
<1>3. opening \in Seq(Asked)
  <2>1. CASE kind = "DIR"
    <3>1. "DIR_LIST_BEGIN" \in RequestType /\ ~NoListings
      BY <1>2, <2>1 DEF RequestType, Asking
    <3>2. Packet(c, "DIR_LIST_BEGIN") \in Asked
      BY <1>2, <3>1, PacketIsAsked
    <3> QED
      BY <2>1, <3>2
  <2>2. CASE kind # "DIR"
    BY <2>2
  <2> QED
    BY <2>1, <2>2
<1>4. first \in Steps \ {"idle"} /\ Fits(Op(c), first, 0)
  <2>1. CASE kind \in {"PUT", "GET"}
    BY <2>1 DEF Steps, Fits, PathOps
  <2>2. CASE kind = "DIR"
    BY <2>2 DEF Steps, Fits, PathOps
  <2>3. CASE kind \in PathOps
    BY <2>3 DEF Steps, Fits, PathOps
  <2> QED
    BY <1>2, <2>1, <2>2, <2>3
<1> HIDE DEF kind, first, opening
<1>5. RequestFor(c, first, 0) \in Asked
  BY <1>2, <1>4, RequestIsAsked
<1>6. toServer' \in Seq(Asked)
  <2>1. Append(opening, RequestFor(c, first, 0)) \in Seq(Asked)
    BY <1>3, <1>5, AppendProperties
  <2> QED
    BY <1>1, <2>1, ConcatProperties DEF RequestsAreSound
<1>7. RequestsAreSound'
  BY <1>6 DEF RequestsAreSound
<1>8. ClientsAreSound'
  BY <1>1, <1>4, Asks
<1> QED
  BY <1>7, <1>8
LEMMA Puts ==
  ASSUME RequestsAreSound, ClientsAreSound, NEW c \in Clients, put(c),
         UNCHANGED <<ready, ticking>>
  PROVE  RequestsAreSound' /\ ClientsAreSound'
<1> DEFINE n == Len(Op(c).data)
           here == Reply(c).offset
<1>1. step[c] # "idle" /\ Op(c).kind = "PUT"
  BY DEF put, Granted, Takes
<1>2. opno[c] <= Len(script[c]) /\ Fits(Op(c), step[c], offset[c])
  BY <1>1 DEF ClientsAreSound, ClientIsSound
<1>3. Asking(c) /\ n \in Nat
  BY <1>2, AtAnOperation, LenProperties DEF Asking, Operation
<1>4. ASSUME NEW off \in Nat, NEW at, at = IF off < n THEN "DATA" ELSE "END",
             AskNext(c, at, off), UNCHANGED got
      PROVE  RequestsAreSound' /\ ClientsAreSound'
  <2>1. at \in Steps \ {"idle"} /\ Fits(Op(c), at, off)
    BY <1>1, <1>4 DEF Steps, Fits, PathOps
  <2> QED
    BY <1>1, <1>2, <1>4, <2>1, AsksNext
<1>5. ASSUME NEW outcome, NEW data, Finish(c, outcome, data), UNCHANGED toServer
      PROVE  RequestsAreSound' /\ ClientsAreSound'
  BY <1>5, Finishes DEF RequestsAreSound
<1>6. CASE Granted(c, "PUT", "BEGIN")
  <2>1. CASE here = 0
    <3>1. AskNext(c, IF 0 < n THEN "DATA" ELSE "END", 0) /\ UNCHANGED got
      BY <1>6, <2>1 DEF put, Granted
    <3> QED
      BY <1>4, <3>1
  <2>2. CASE here # 0
    <3>1. Fails(c)
      BY <1>6, <2>2 DEF put, Granted
    <3> QED
      BY <1>5, <3>1 DEF Fails
  <2> QED
    BY <2>1, <2>2
<1>7. CASE Granted(c, "PUT", "DATA")
  <2>1. CASE here = offset[c] + 1
    <3>1. AskNext(c, IF here < n THEN "DATA" ELSE "END", here) /\ UNCHANGED got
      BY <1>7, <2>1 DEF put, Granted
    <3>2. here \in Nat
      BY <1>2, <2>1 DEF Fits
    <3> QED
      BY <1>4, <3>1, <3>2
  <2>2. CASE here # offset[c] + 1
    <3>1. Fails(c)
      BY <1>7, <2>2 DEF put, Granted
    <3> QED
      BY <1>5, <3>1 DEF Fails
  <2> QED
    BY <2>1, <2>2
<1>8. CASE Granted(c, "PUT", "END")
  <2>1. UNCHANGED toServer /\ \E outcome : Finish(c, outcome, <<>>)
    BY <1>8 DEF put, Granted
  <2> QED
    BY <1>5, <2>1
<1> QED
  BY <1>6, <1>7, <1>8 DEF put

LEMMA Gets ==
  ASSUME RequestsAreSound, ClientsAreSound, NEW c \in Clients, get(c),
         UNCHANGED <<ready, ticking>>
  PROVE  RequestsAreSound' /\ ClientsAreSound'
<1>1. step[c] # "idle" /\ Op(c).kind = "GET"
  BY DEF get, Granted, Takes
<1>2. opno[c] <= Len(script[c]) /\ Fits(Op(c), step[c], offset[c])
  BY <1>1 DEF ClientsAreSound, ClientIsSound
<1>3. ASSUME NEW off \in Nat, NEW size, NEW at, at = IF off < size THEN "DATA" ELSE "END",
             AskNext(c, at, off),
             UNCHANGED got \/ \E g : got' = [got EXCEPT ![c] = g]
      PROVE  RequestsAreSound' /\ ClientsAreSound'
  <2>1. at \in Steps \ {"idle"} /\ Fits(Op(c), at, off)
    BY <1>1, <1>3 DEF Steps, Fits, PathOps
  <2> QED
    BY <1>1, <1>2, <1>3, <2>1, AsksNext
<1>4. ASSUME NEW outcome, NEW data, Finish(c, outcome, data), UNCHANGED toServer
      PROVE  RequestsAreSound' /\ ClientsAreSound'
  BY <1>4, Finishes DEF RequestsAreSound
<1>5. CASE Granted(c, "GET", "BEGIN")
  <2>1. /\ AskNext(c, IF 0 < Reply(c).offset THEN "DATA" ELSE "END", 0)
        /\ UNCHANGED got
    BY <1>5 DEF get, Granted
  <2> QED
    BY <1>3, <2>1
<1>6. CASE Granted(c, "GET", "DATA")
  <2>1. CASE Reply(c).data = <<>>
    <3>1. Fails(c)
      BY <1>6, <2>1 DEF get, Granted
    <3> QED
      BY <1>4, <3>1 DEF Fails
  <2>2. CASE Reply(c).data # <<>>
    <3>1. /\ AskNext(c, IF offset[c] + 1 < file_size[c] THEN "DATA" ELSE "END", offset[c] + 1)
          /\ got' = [got EXCEPT ![c] = got[c] \o Reply(c).data]
      BY <1>6, <2>2 DEF get, Granted
    <3>2. offset[c] + 1 \in Nat
      BY <1>2 DEF Fits
    <3> QED
      BY <1>3, <3>1, <3>2
  <2> QED
    BY <2>1, <2>2
<1>7. CASE Granted(c, "GET", "END")
  <2>1. Finish(c, "complete", got[c]) /\ UNCHANGED toServer
    BY <1>7 DEF get, Granted
  <2> QED
    BY <1>4, <2>1
<1> QED
  BY <1>5, <1>6, <1>7 DEF get

LEMMA Pages ==
  ASSUME RequestsAreSound, ClientsAreSound, NEW c \in Clients, dir_page(c), ReplyIsSound(Reply(c)),
         UNCHANGED <<ready, ticking>>
  PROVE  RequestsAreSound' /\ ClientsAreSound'
<1> DEFINE entries == got[c] \o Reply(c).data
<1>1. step[c] = "PAGE" /\ step[c] # "idle" /\ Op(c).kind = "DIR" /\ Wanted(c)
  BY DEF dir_page, Granted, Takes
<1>2. opno[c] <= Len(script[c]) /\ IsSeq(got[c])
  BY <1>1 DEF ClientsAreSound, ClientIsSound
<1>3. IsSeq(Reply(c).data)
  BY <1>1 DEF Wanted, ReplyIsSound, Ack, PathOps
<1>4. IsSeq(entries) /\ Len(entries) \in Nat
  BY <1>2, <1>3, ConcatIsSeq
<1>5. Asking(c) /\ ~NoListings
  BY <1>1, <1>2, AtAnOperation DEF Asking
<1>6. CASE Finish(c, "complete", entries) /\ SendToServer(Packet(c, "DIR_LIST_END"))
  <2>1. "DIR_LIST_END" \in RequestType
    BY DEF RequestType
  <2>2. Packet(c, "DIR_LIST_END") \in Asked
    BY <1>5, <2>1, PacketIsAsked
  <2> QED
    BY <1>6, <2>2, Sends, Finishes
<1>7. CASE got' = [got EXCEPT ![c] = entries] /\ AskNext(c, "PAGE", Len(entries))
  <2>1. "PAGE" \in Steps \ {"idle"} /\ Fits(Op(c), "PAGE", Len(entries))
    BY <1>1, <1>4 DEF Steps, Fits, PathOps
  <2> HIDE DEF entries
  <2> QED
    BY <1>1, <1>2, <1>4, <1>7, <2>1, AsksNext
<1> QED
  BY <1>6, <1>7 DEF dir_page

LEMMA ClientKeeps ==
  ASSUME RequestsAreSound, RepliesAreSound, ClientsAreSound, NEW c \in Clients, ClientStep(c)
  PROVE  RequestsAreSound' /\ RepliesAreSound' /\ ClientsAreSound'
<1>1. UNCHANGED <<ready, ticking>>
  BY DEF ClientStep, server
<1>2. ASSUME Takes(c)  PROVE RepliesAreSound' /\ ReplyIsSound(Reply(c)) /\ step[c] # "idle"
  BY <1>2, ReplyIsTaken DEF Takes
<1>3. ASSUME UNCHANGED toClient  PROVE RepliesAreSound'
  BY <1>3 DEF RepliesAreSound
<1>4. CASE Start(c)
  BY <1>1, <1>3, <1>4, Starts DEF Start
<1>5. CASE Discard(c)
  <2>1. UNCHANGED <<toServer, script, opno, step, attempt, offset, got>>
    BY <1>5 DEF Discard, client
  <2>2. RequestsAreSound'
    BY <1>1, <2>1 DEF RequestsAreSound
  <2>3. ClientsAreSound'
    BY <2>1 DEF ClientsAreSound, ClientIsSound, Op
  <2> QED
    BY <1>2, <1>5, <2>2, <2>3 DEF Discard
<1>6. CASE Refused(c)
  BY <1>1, <1>2, <1>6, SendsAgain DEF Refused
<1>7. CASE TimesOut(c)
  BY <1>1, <1>3, <1>7, SendsAgain DEF TimesOut, Timeout
<1>8. CASE put(c)
  <2>1. Takes(c)
    BY <1>8 DEF put, Granted
  <2> QED
    BY <1>1, <1>2, <1>8, <2>1, Puts
<1>9. CASE get(c)
  <2>1. Takes(c)
    BY <1>9 DEF get, Granted
  <2> QED
    BY <1>1, <1>2, <1>9, <2>1, Gets
<1>10. CASE path_op_done(c)
  <2>1. Takes(c) /\ Finish(c, "complete", <<>>) /\ UNCHANGED toServer
    BY <1>10 DEF path_op_done, Granted
  <2> QED
    BY <1>1, <1>2, <2>1, Finishes DEF RequestsAreSound
<1>11. CASE dir_page(c)
  <2>1. Takes(c)
    BY <1>11 DEF dir_page, Granted
  <2> QED
    BY <1>1, <1>2, <1>11, <2>1, Pages
<1> QED
  BY <1>4, <1>5, <1>6, <1>7, <1>8, <1>9, <1>10, <1>11 DEF ClientStep, ClientNext
-----------------------------------------------------------------------------
(* The server.                                                             *)

LEMMA Receives ==
  ASSUME RequestsAreSound, Receive \/ TickBegin
  PROVE  RequestsAreSound'
<1>1. CASE Receive
  <2>1. Head(toServer) \in Asked /\ Tail(toServer) \in Seq(Asked)
    BY <1>1, HeadTailProperties DEF Receive, RequestsAreSound
  <2>2. ready' \in Seq(Asked) /\ Len(ready') <= PoolSize /\ (ready # <<>> => ready' # <<>>)
    <3>1. CASE Len(ready) < PoolSize
      <4>1. ready' = Append(ready, Head(toServer))
        BY <1>1, <3>1 DEF Receive
      <4>2. /\ Append(ready, Head(toServer)) \in Seq(Asked)
            /\ Append(ready, Head(toServer)) # <<>>
            /\ Len(Append(ready, Head(toServer))) = Len(ready) + 1
        BY <2>1, AppendProperties DEF RequestsAreSound
      <4>3. Len(ready) \in Nat /\ PoolSize \in Nat
        BY FileServerAssumption, LenProperties DEF RequestsAreSound
      <4> QED
        BY <3>1, <4>1, <4>2, <4>3
    <3>2. CASE ~(Len(ready) < PoolSize)
      BY <1>1, <3>2 DEF Receive, RequestsAreSound
    <3> QED
      BY <3>1, <3>2
  <2> QED
    BY <1>1, <2>1, <2>2 DEF Receive, RequestsAreSound
<1>2. CASE TickBegin
  BY <1>2 DEF TickBegin, RequestsAreSound, wire
<1> QED
  BY <1>1, <1>2

LEMMA HandedOver ==
  ASSUME RequestsAreSound, file_transfer_handle_packet
  PROVE  RequestsAreSound' /\ packet \in Asked
<1>1. ready # <<>> /\ ready \in Seq(Asked) /\ UNCHANGED toServer
  BY HandlersLeave DEF RequestsAreSound, wire
<1>2. /\ Front(ready) \in Seq(Asked) /\ Len(ready) \in Nat \ {0}
      /\ Len(Front(ready)) = Len(ready) - 1 /\ packet \in Asked
  BY <1>1, FrontOf DEF packet
<1>3. PoolSize \in Nat
  BY FileServerAssumption
<1>4. Len(Front(ready)) <= PoolSize
  BY <1>2, <1>3 DEF RequestsAreSound
<1>5. Len(ready) > 1 => Front(ready) # <<>>
  <2>1. Len(ready) > 1 => Len(Front(ready)) # 0
    BY <1>2
  <2> QED
    BY <2>1, EmptySeq
<1>6. ticking' \in BOOLEAN /\ (ticking' => Len(ready) > 1)
  <2>1. ticking' = (Len(ready) > 1)
    BY HandlersLeave
  <2>2. ticking' \in BOOLEAN
    BY <2>1
  <2>3. ticking' => Len(ready) > 1
    BY <2>1
  <2> QED
    BY <2>2, <2>3
<1> QED
  BY <1>1, <1>2, <1>4, <1>5, <1>6, HandlersLeave DEF RequestsAreSound

LEMMA HandlersAreSound ==
  ASSUME ServerIsSound, packet \in Asked, file_transfer_handle_packet
  PROVE  ServerIsSound' /\ (NoListings => g_file'.active = g_file.active)
<1>1. packet.type \in RequestType /\ (NoListings => packet.type \notin Listings)
  BY DEF Asked, Request
<1>2. FileIsSound(g_file)' /\ (NoListings => g_file'.active = g_file.active)
  <2> USE <1>1 DEF Handled, remember_client, FileIsSound, RequestType, ServerIsSound
  <2>1. CASE put_begin
    BY <2>1 DEF put_begin
  <2>2. CASE queue_ack
    BY <2>2 DEF queue_ack
  <2>3. CASE put_data
    BY <2>3 DEF put_data
  <2>4. CASE put_end
    BY <2>4 DEF put_end
  <2>5. CASE get_begin
    BY <2>5 DEF get_begin
  <2>6. CASE get_data_req
    BY <2>6 DEF get_data_req
  <2>7. CASE get_end
    BY <2>7 DEF get_end
  <2>8. CASE dir_list_begin
    <3>1. ~NoListings
      BY <2>8 DEF dir_list_begin, Accepts, Listings
    <3>2. FileIsSound(g_file)'
      BY <2>8 DEF dir_list_begin
    <3> QED
      BY <3>1, <3>2
  <2>9. CASE dir_list_data_req
    BY <2>9 DEF dir_list_data_req
  <2>10. CASE dir_list_end
    <3>1. ~NoListings
      BY <2>10 DEF dir_list_end, Accepts, Listings
    <3>2. FileIsSound(g_file)'
      BY <2>10 DEF dir_list_end
    <3> QED
      BY <3>1, <3>2
  <2>11. CASE path_op
    BY <2>11 DEF path_op
  <2>12. CASE Drop
    BY <2>12 DEF Drop
  <2> QED
    BY <2>1, <2>2, <2>3, <2>4, <2>5, <2>6, <2>7, <2>8, <2>9, <2>10, <2>11, <2>12
    DEF file_transfer_handle_packet
<1> QED
  BY <1>2, HandlersLeave DEF ServerIsSound, wire, dos

LEMMA DosIsSound ==
  ASSUME ServerIsSound, Dos
  PROVE  ServerIsSound'
<1>1. FileIsSound(g_file)'
  <2>1. CASE g_file' = g_file
    BY <2>1 DEF ServerIsSound, FileIsSound
  <2>2. ASSUME NEW b, g_file' = [g_file EXCEPT !.chunk = b]  PROVE FileIsSound(g_file)'
    BY <2>2 DEF ServerIsSound, FileIsSound
  <2> QED
    BY <2>1, <2>2, DosLeaves
<1>2. faults' \in 0..MaxFaults
  <2>1. MaxFaults \in Nat /\ faults \in 0..MaxFaults
    BY FileServerAssumption DEF ServerIsSound
  <2>2. CASE UNCHANGED faults
    BY <2>1, <2>2
  <2>3. CASE DosWrite
    <3>1. PICK short \in BOOLEAN : /\ short => faults < MaxFaults
                                   /\ faults' = faults + (IF short THEN 1 ELSE 0)
      BY <2>3 DEF DosWrite
    <3> QED
      BY <2>1, <3>1
  <2>4. CASE DosFails
    BY <2>1, <2>4 DEF DosFails
  <2> QED
    BY <2>2, <2>3, <2>4 DEF Dos, DosCreate, DosOpen, DosClose, DosRead, DosSeek, DosFileSize,
                            DosFind, DosRestoreDta, DosPath, DosBadHandle, dos
<1> QED
  BY <1>1, <1>2, DosLeaves DEF ServerIsSound, wire
-----------------------------------------------------------------------------
(* The pieces of process_idle: each ends in a call or in an answer.        *)
AnswersAreSound == RepliesAreSound /\ ServerIsSound

LEMMA AnswerIsSound ==
  ASSUME AnswersAreSound, NEW g, NEW reply, Answer(g, reply), FileIsSound(g), ReplyIsSound(reply)
  PROVE  AnswersAreSound'
<1>1. /\ toClient' = [toClient EXCEPT ![Mac(reply.session)] = Append(@, reply)]
      /\ g_file' = g /\ call' = "none" /\ op' = "NONE" /\ local' = NoLocal
      /\ UNCHANGED <<losses, faults>>
  BY DEF Answer, SendToClient, Unchanging, dos
<1>2. RepliesAreSound'
  <2>1. DOMAIN toClient' = Clients
    BY <1>1 DEF AnswersAreSound, RepliesAreSound
  <2>2. ASSUME NEW c \in Clients
        PROVE  /\ IsSeq(toClient'[c])
               /\ \A i \in 1..Len(toClient'[c]) : ReplyIsSound(toClient'[c][i])
    <3> DEFINE s == toClient[c]
    <3>1. IsSeq(s) /\ \A i \in 1..Len(s) : ReplyIsSound(s[i])
      BY DEF AnswersAreSound, RepliesAreSound
    <3>2. toClient'[c] = s \/ toClient'[c] = Append(s, reply)
      BY <1>1 DEF AnswersAreSound, RepliesAreSound
    <3> HIDE DEF s
    <3>3. CASE toClient'[c] = s
      BY <3>1, <3>3
    <3>4. CASE toClient'[c] = Append(s, reply)
      <4>1. /\ IsSeq(Append(s, reply)) /\ Len(s) \in Nat
            /\ Len(Append(s, reply)) = Len(s) + 1 /\ Append(s, reply)[Len(s) + 1] = reply
            /\ \A i \in 1..Len(s) : Append(s, reply)[i] = s[i]
        BY <3>1, AppendIsSeq
      <4>2. ASSUME NEW i \in 1..Len(Append(s, reply))
            PROVE  ReplyIsSound(Append(s, reply)[i])
        <5>1. i \in 1..Len(s) \/ i = Len(s) + 1
          BY <4>1
        <5> QED
          BY <3>1, <4>1, <5>1
      <4> QED
        BY <3>4, <4>1, <4>2
    <3> QED
      BY <3>2, <3>3, <3>4
  <2> QED
    BY <2>1, <2>2 DEF RepliesAreSound
<1>3. IsSeq(NoLocal.entries)
  BY EmptyIsSeq DEF NoLocal
<1>4. ServerIsSound'
  BY <1>1, <1>3 DEF AnswersAreSound, ServerIsSound
<1> QED
  BY <1>2, <1>4 DEF AnswersAreSound

LEMMA CallIsSound ==
  ASSUME AnswersAreSound, NEW name, NEW g, NEW call_name, NEW handle,
         CallDos(name, g, call_name, handle), FileIsSound(g),
         call_name # "none", IsSeq(local'.entries)
  PROVE  AnswersAreSound'
BY DEF CallDos, Unchanging, dos, AnswersAreSound, RepliesAreSound, ServerIsSound

LEMMA IdleIsSound == ASSUME ServerIsSound  PROVE FileIsSound(g_file) /\ FileIsSound(Idle)
BY DEF ServerIsSound, FileIsSound, Idle

LEMMA AckIsSound ==
  ASSUME NEW session, NEW id, NEW command \in Ack, NEW status, NEW off
  PROVE  ReplyIsSound(FileAck(session, id, command, status, off))
BY DEF FileAck, ReplyIsSound

(* What an acknowledgement and a call in the middle of an operation leave. *)
LEMMA AckedIsSound ==
  ASSUME AnswersAreSound, NEW g, FileIsSound(g), NEW command \in Ack, NEW status, NEW off,
         SendAck(g, command, status, off)
  PROVE  AnswersAreSound'
BY AckIsSound, AnswerIsSound DEF SendAck

LEMMA NextCallIsSound ==
  ASSUME AnswersAreSound, NEW name, NEW g, NEW call_name, NEW handle,
         CallDos(name, g, call_name, handle), FileIsSound(g),
         call_name # "none", local'.entries = local.entries
  PROVE  AnswersAreSound'
<1>1. IsSeq(local.entries)
  BY DEF AnswersAreSound, ServerIsSound
<1> QED
  BY <1>1, CallIsSound

LEMMA BeginIsSound ==
  ASSUME AnswersAreSound, HandleIInv, idle_begin \/ idle_created \/ idle_opened \/ idle_sized
  PROVE  AnswersAreSound'
<1> USE DEF send_file_ack
<1>1. FileIsSound(g_file) /\ FileIsSound(Idle)
  BY IdleIsSound DEF AnswersAreSound
<1>2. CASE idle_begin
  <2>1. PICK name \in {"PUT_BEGIN", "GET_BEGIN"} :
          \E first \in {"create", "open_read"} :
            /\ \/ CallDos(name, Idle, "close_old", g_file.handle)
               \/ CallDos(name, Idle, first, NoHandle)
               \/ CallDos(name, g_file, first, NoHandle)
            /\ UNCHANGED local
    BY <1>2 DEF idle_begin
  <2> QED
    BY <1>1, <2>1, NextCallIsSound
<1>3. CASE idle_created
  <2> DEFINE g == [g_file EXCEPT !.handle = IF carry THEN NoHandle ELSE ax,
                                 !.expected_offset = 0, !.active = ~carry,
                                 !.mode = IF carry THEN "NONE" ELSE "PUT"]
  <2>1. ~carry => ax \in Handles
    BY <1>3 DEF idle_created, Returned, HandleIInv, Opens
  <2>2. FileIsSound(g)
    BY <1>1, <2>1 DEF FileIsSound
  <2>3. SendAck(g, "BEGIN", StatusOf(~carry), g.expected_offset)
    BY <1>3 DEF idle_created
  <2> HIDE DEF g
  <2> QED
    BY <2>2, <2>3, AckedIsSound DEF Ack
<1>4. CASE idle_opened
  <2> DEFINE g == [Closed(g_file) EXCEPT !.handle = IF carry THEN NoHandle ELSE ax,
                                         !.expected_offset = 0, !.size = 0]
  <2>1. ~carry => ax \in Handles
    BY <1>4 DEF idle_opened, Returned, HandleIInv, Opens
  <2>2. FileIsSound(g)
    BY <1>1, <2>1 DEF FileIsSound, Closed
  <2>3. \/ SendAck(g, "BEGIN", "ERROR", g.expected_offset)
        \/ CallDos("GET_BEGIN", g, "file_size", NoHandle) /\ UNCHANGED local
    BY <1>4 DEF idle_opened
  <2> HIDE DEF g
  <2> QED
    BY <2>2, <2>3, AckedIsSound, NextCallIsSound DEF Ack
<1>5. CASE idle_sized
  <2> DEFINE g1 == [g_file EXCEPT !.size = ax, !.active = TRUE, !.mode = "GET"]
             g2 == [g_file EXCEPT !.size = NoSize]
             g3 == [g_file EXCEPT !.handle = NoHandle]
  <2>1. FileIsSound(g1) /\ FileIsSound(g2) /\ FileIsSound(g3)
    BY <1>1 DEF FileIsSound
  <2>2. \/ SendAck(g1, "BEGIN", "OK", ax)
        \/ SendAck(g2, "BEGIN", "OK", NoSize)
        \/ CallDos("GET_BEGIN", g2, "close_failed", g2.handle) /\ UNCHANGED local
        \/ SendAck(g3, "BEGIN", "ERROR", g3.expected_offset)
    BY <1>5 DEF idle_sized
  <2> HIDE DEF g1, g2, g3
  <2> QED
    BY <2>1, <2>2, AckedIsSound, NextCallIsSound DEF Ack
<1> QED
  BY <1>2, <1>3, <1>4, <1>5
LEMMA GotIsSound ==
  ASSUME AnswersAreSound, NEW g, FileIsSound(g), NEW status, send_file_get_data(g, status)
  PROVE  AnswersAreSound'
<1> DEFINE reply == FileGetData(g.client, g.transfer_id, status, g.chunk_offset,
                                SubSeq(<<g.chunk>>, 1, g.chunk_count))
<1>1. ReplyIsSound(reply)
  BY DEF FileGetData, ReplyIsSound
<1>2. Answer(g, reply)
  BY DEF send_file_get_data
<1> HIDE DEF reply
<1> QED
  BY <1>1, <1>2, AnswerIsSound

LEMMA TransferIsSound ==
  ASSUME AnswersAreSound, \/ idle_ack \/ idle_put_data \/ idle_written \/ idle_end
                \/ idle_get_data_req \/ idle_sought \/ idle_read
  PROVE  AnswersAreSound'
<1> USE DEF send_file_ack
<1>1. FileIsSound(g_file) /\ FileIsSound(Idle)
  BY IdleIsSound DEF AnswersAreSound
<1>2. CASE idle_ack
  <2> DEFINE g == [Idle EXCEPT !.expected_offset = g_file.ack_offset]
  <2>1. FileIsSound(g)
    BY <1>1 DEF FileIsSound
  <2>2. SendAck(g, "DATA", "OK", g.expected_offset)
    BY <1>2 DEF idle_ack
  <2> HIDE DEF g
  <2> QED
    BY <2>1, <2>2, AckedIsSound DEF Ack
<1>3. CASE idle_put_data
  <2>1. \/ SendAck(Idle, "DATA", "ERROR", Idle.expected_offset)
        \/ CallDos("PUT_DATA", Idle, "write", g_file.handle) /\ UNCHANGED local
    BY <1>3 DEF idle_put_data
  <2> QED
    BY <1>1, <2>1, AckedIsSound, NextCallIsSound DEF Ack
<1>4. CASE idle_written
  <2> DEFINE ok == ~carry /\ ax = 1
             g1 == [g_file EXCEPT !.expected_offset = @ + g_file.chunk_count]
  <2>1. FileIsSound(g1)
    BY <1>1 DEF FileIsSound
  <2>2. \/ SendAck(g1, "DATA", StatusOf(ok), g1.expected_offset)
        \/ SendAck(g_file, "DATA", StatusOf(ok), g_file.expected_offset)
    BY <1>4 DEF idle_written
  <2> HIDE DEF ok, g1
  <2> QED
    BY <1>1, <2>1, <2>2, AckedIsSound DEF Ack
<1>5. CASE idle_end
  <2>1. FileIsSound(Closed(g_file))
    BY <1>1 DEF FileIsSound, Closed
  <2>2. PICK name \in {"PUT_END", "GET_END"} :
          \/ /\ \E st : local' = [local EXCEPT !.status = st]
             /\ CallDos(name, Idle, "close", g_file.handle)
          \/ SendAck(Closed(g_file), "END", local.status, Closed(g_file).expected_offset)
    BY <1>5 DEF idle_end
  <2>3. CASE SendAck(Closed(g_file), "END", local.status, Closed(g_file).expected_offset)
    BY <2>1, <2>3, AckedIsSound DEF Ack
  <2>4. CASE /\ \E st : local' = [local EXCEPT !.status = st]
             /\ CallDos(name, Idle, "close", g_file.handle)
    <3>1. local'.entries = local.entries
      BY <2>4
    <3> QED
      BY <1>1, <2>4, <3>1, NextCallIsSound
  <2> QED
    BY <2>2, <2>3, <2>4
<1>6. CASE idle_get_data_req
  <2> DEFINE g == [Idle EXCEPT !.chunk_count = 0]
  <2>1. FileIsSound(g)
    BY <1>1 DEF FileIsSound
  <2>2. \/ send_file_get_data(g, "ERROR")
        \/ /\ op' = "GET_DATA_REQ" /\ g_file' = Idle /\ call' = "seek"
           /\ UNCHANGED <<toClient, local>> /\ Unchanging
    BY <1>6 DEF idle_get_data_req
  <2> HIDE DEF g
  <2>3. CASE /\ op' = "GET_DATA_REQ" /\ g_file' = Idle /\ call' = "seek"
             /\ UNCHANGED <<toClient, local>> /\ Unchanging
    BY <1>1, <2>3 DEF Unchanging, dos, AnswersAreSound, RepliesAreSound, ServerIsSound
  <2> QED
    BY <2>1, <2>2, <2>3, GotIsSound
<1>7. CASE idle_sought \/ idle_read
  <2> DEFINE g1 == [g_file EXCEPT !.chunk_count = 0]
             g2 == [g_file EXCEPT !.chunk_count = ax,
                                  !.expected_offset = g_file.chunk_offset + ax]
  <2>1. FileIsSound(g1) /\ FileIsSound(g2)
    BY <1>1 DEF FileIsSound
  <2>2. \/ send_file_get_data(g1, "ERROR")
        \/ send_file_get_data(g2, "OK")
        \/ CallDos("GET_DATA_REQ", g_file, "read", g_file.handle) /\ UNCHANGED local
    BY <1>7 DEF idle_sought, idle_read
  <2> HIDE DEF g1, g2
  <2> QED
    BY <1>1, <2>1, <2>2, GotIsSound, NextCallIsSound
<1> QED
  BY <1>2, <1>3, <1>4, <1>5, <1>6, <1>7

LEMMA PathsAreSound ==
  ASSUME AnswersAreSound, idle_dir_list_data_req \/ idle_found \/ idle_restored \/ idle_path_op
  PROVE  AnswersAreSound'
<1> USE DEF send_file_ack
<1>1. FileIsSound(g_file) /\ FileIsSound(Idle) /\ IsSeq(local.entries)
  BY IdleIsSound DEF AnswersAreSound, ServerIsSound
<1>2. ASSUME NEW e, IsSeq(e), send_dir_list_data(e)  PROVE AnswersAreSound'
  <2> DEFINE reply == DirListData(g_file.client, g_file.dir_request_id, "OK",
                                  g_file.dir_start_index, e)
  <2>1. ReplyIsSound(reply) /\ Answer(g_file, reply)
    BY <1>2 DEF DirListData, ReplyIsSound, send_dir_list_data
  <2> HIDE DEF reply
  <2> QED
    BY <1>1, <2>1, AnswerIsSound
<1>3. CASE idle_dir_list_data_req
  BY <1>1, <1>3, NextCallIsSound DEF idle_dir_list_data_req
<1>4. CASE idle_found
  <2> DEFINE entries == IF local.seen >= g_file.dir_start_index
                        THEN Append(local.entries, Listing[local.seen + 1])
                        ELSE local.entries
  <2>1. IsSeq(entries)
    BY <1>1, AppendIsSeq
  <2>2. \/ send_dir_list_data(local.entries)
        \/ /\ \E m \in {"find", "restore_dta"} : CallDos("DIR_LIST_DATA_REQ", g_file, m, NoHandle)
           /\ local' = [local EXCEPT !.seen = @ + 1, !.entries = entries]
    BY <1>4 DEF idle_found
  <2> HIDE DEF entries
  <2>3. ASSUME NEW m \in {"find", "restore_dta"},
               CallDos("DIR_LIST_DATA_REQ", g_file, m, NoHandle),
               local' = [local EXCEPT !.seen = @ + 1, !.entries = entries]
        PROVE  AnswersAreSound'
    <3>1. local'.entries = entries
      BY <2>3
    <3> QED
      BY <1>1, <2>1, <2>3, <3>1, CallIsSound
  <2> QED
    BY <1>1, <1>2, <2>2, <2>3
<1>5. CASE idle_restored
  BY <1>1, <1>2, <1>5 DEF idle_restored
<1>6. CASE idle_path_op
  <2>1. PICK name \in {"MKDIR", "DELETE", "RENAME"} :
          \/ \E st : \/ SendAck(Idle, name, st, Idle.expected_offset)
                    \/ SendAck(g_file, name, st, g_file.expected_offset)
          \/ CallDos(name, Idle, CallOf(name), NoHandle) /\ UNCHANGED local
    BY <1>6 DEF idle_path_op
  <2>2. name \in Ack /\ CallOf(name) # "none"
    BY DEF Ack, PathOps, CallOf
  <2> QED
    BY <1>1, <2>1, <2>2, AckedIsSound, NextCallIsSound
<1> QED
  BY <1>3, <1>4, <1>5, <1>6

LEMMA CopyIsSound ==
  ASSUME AnswersAreSound, idle_copy \/ idle_copying
  PROVE  AnswersAreSound'
<1> USE DEF send_file_ack
<1>1. FileIsSound(g_file) /\ FileIsSound(Idle)
  BY IdleIsSound DEF AnswersAreSound
<1>2. "COPY" \in Ack
  BY DEF Ack, PathOps
<1>3. ASSUME NEW handle, NEW call_name, CopyNext(handle, call_name), call_name # "none",
             local'.entries = local.entries
      PROVE  AnswersAreSound'
  BY <1>1, <1>3, NextCallIsSound DEF CopyNext
<1>4. ASSUME NEW st, CopyDone(st)  PROVE AnswersAreSound'
  <2>1. local'.entries = local.entries /\ CopyNext(local.out, "copy_close_out")
    BY <1>4 DEF CopyDone
  <2> QED
    BY <1>3, <2>1
<1>5. CASE idle_copy
  <2> DEFINE g1 == [Idle EXCEPT !.expected_offset = 0]
             g2 == [g_file EXCEPT !.expected_offset = 0]
  <2>1. FileIsSound(g1) /\ FileIsSound(g2)
    BY <1>1 DEF FileIsSound
  <2>2. \/ SendAck(g1, "COPY", "ERROR", g1.expected_offset)
        \/ SendAck(g2, "COPY", "ERROR", g2.expected_offset)
        \/ CallDos("COPY", Idle, "copy_open", NoHandle) /\ UNCHANGED local
        \/ CopyNext(NoHandle, "copy_create") /\ local' = [local EXCEPT !.in = ax]
        \/ CopyDone("ERROR")
        \/ CopyNext(local.in, "copy_read") /\ local' = [local EXCEPT !.out = ax]
    BY <1>5 DEF idle_copy
  <2>3. ASSUME local' = [local EXCEPT !.in = ax]  PROVE local'.entries = local.entries
    BY <2>3
  <2>4. ASSUME local' = [local EXCEPT !.out = ax]  PROVE local'.entries = local.entries
    BY <2>4
  <2> HIDE DEF g1, g2
  <2> QED
    BY <1>1, <1>2, <1>3, <1>4, <2>1, <2>2, <2>3, <2>4, AckedIsSound, NextCallIsSound
<1>6. CASE idle_copying
  <2> DEFINE g == [g_file EXCEPT !.expected_offset = local.bytes]
  <2>1. FileIsSound(g)
    BY <1>1 DEF FileIsSound
  <2>2. \/ \E st : CopyDone(st)
        \/ CopyNext(local.out, "copy_write") /\ UNCHANGED local
        \/ CopyNext(local.in, "copy_read") /\ local' = [local EXCEPT !.bytes = @ + 1]
        \/ CopyNext(local.in, "copy_close_in") /\ UNCHANGED local
        \/ SendAck(g, "COPY", local.status, g.expected_offset)
    BY <1>6 DEF idle_copying
  <2>3. ASSUME local' = [local EXCEPT !.bytes = @ + 1]
        PROVE  local'.entries = local.entries
    BY <2>3
  <2> HIDE DEF g
  <2> QED
    BY <1>2, <1>3, <1>4, <2>1, <2>2, <2>3, AckedIsSound
<1> QED
  BY <1>5, <1>6
-----------------------------------------------------------------------------
(* No handle is forgotten.                                                 *)

LEMMA AsideKeepsAll ==
  ASSUME AllAreKept, Aside, g_file'.active = g_file.active
  PROVE  AllAreKept'
BY DEF Aside, AllAreKept, Fresh, Openers, SourceClosed, TargetClosed, Replaced

LEMMA DosKeepsAll ==
  ASSUME HandleIInv, AllAreKept, Dos
  PROVE  AllAreKept'
<1>1. /\ ~returned /\ returned' /\ UNCHANGED <<call, local>>
      /\ g_file'.handle = g_file.handle
  BY DosCalls DEF InDos
<1>2. g_file'.active = g_file.active
  <2>1. CASE g_file' = g_file
    BY <2>1
  <2>2. ASSUME NEW b, g_file' = [g_file EXCEPT !.chunk = b]
        PROVE  g_file'.active = g_file.active
    BY <2>2
  <2> QED
    BY <2>1, <2>2, DosLeaves
<1>3. Fresh = {} /\ DOMAIN open \subseteq Handles /\ NoHandle \notin Handles
  BY <1>1, NoHandleIsNone DEF Fresh, HandleIInv
<1>4. CASE OtherCall
  BY <1>1, <1>2, <1>3, <1>4
  DEF OtherCall, AllAreKept, Fresh, Openers, SourceClosed, TargetClosed, Replaced, Closing
<1>5. CASE OpeningCall
  <2>1. call \in Openers /\ DOMAIN open' = DOMAIN open \cup {ax'} /\ ~carry'
    BY <1>5 DEF OpeningCall, Opened, Returns, Openers
  <2>2. Fresh' = {ax'}
    BY <1>1, <2>1 DEF Fresh, Openers
  <2> QED
    BY <1>1, <1>2, <1>3, <2>1, <2>2 DEF AllAreKept, SourceClosed, TargetClosed, Replaced, Openers
<1>6. CASE ClosingCall
  <2>1. call \in Closing /\ DOMAIN open' = DOMAIN open \ {bx} /\ Fresh' = {}
    BY <1>1, <1>6 DEF ClosingCall, Fresh, Openers, Closing
  <2>2. CASE call \in {"close_old", "close", "close_failed"}
    <3>1. bx = g_file.handle /\ local.in = NoHandle /\ local.out = NoHandle
      BY <2>2 DEF HandleIInv, MadeWith, OfFile, AllAreKept, Copying, CopyTarget
    <3>2. DOMAIN open \subseteq {bx, NoHandle}
      BY <1>3, <3>1 DEF AllAreKept, SourceClosed, TargetClosed
    <3>3. DOMAIN open' = {}
      BY <1>3, <2>1, <3>2
    <3>4. Replaced'
      BY <1>1, <2>2 DEF Replaced
    <3> QED
      BY <1>1, <3>1, <3>3, <3>4 DEF AllAreKept, SourceClosed, TargetClosed
  <2>3. CASE call = "copy_close_out"
    <3>1. bx = local.out
      BY <2>3 DEF HandleIInv, MadeWith
    <3>2. DOMAIN open' \subseteq {g_file.handle, local.in}
      BY <1>3, <2>1, <2>3, <3>1 DEF AllAreKept, SourceClosed, TargetClosed
    <3> QED
      BY <1>1, <1>2, <2>3, <3>2 DEF AllAreKept, SourceClosed, TargetClosed, Replaced, Copying
  <2>4. CASE call = "copy_close_in"
    <3>1. bx = local.in
      BY <2>4 DEF HandleIInv, MadeWith
    <3>2. DOMAIN open' \subseteq {g_file.handle}
      BY <1>3, <2>1, <2>4, <3>1 DEF AllAreKept, SourceClosed, TargetClosed
    <3> QED
      BY <1>1, <1>2, <2>4, <3>2 DEF AllAreKept, SourceClosed, TargetClosed, Replaced, Copying
  <2> QED
    BY <2>1, <2>2, <2>3, <2>4 DEF Closing
<1> QED
  BY <1>4, <1>5, <1>6, DosCalls

(* What may be open between calls, and when one has returned.              *)
LEMMA WhatIsOpen ==
  ASSUME HandleIInv, AllAreKept
  PROVE  /\ call \notin Copying \cup {"copy_create"}
              => local.in = NoHandle /\ local.out = NoHandle
         /\ call \notin Copying \cup Openers /\ ~Replaced
              => DOMAIN open \subseteq {g_file.handle, NoHandle}
         /\ call = "copy_open" => DOMAIN open \subseteq {g_file.handle, NoHandle} \cup Fresh
         /\ Replaced => DOMAIN open \subseteq Fresh
         /\ call = "copy_create"
              => DOMAIN open \subseteq {g_file.handle, local.in, NoHandle} \cup Fresh
<1>1. /\ DOMAIN open \subseteq Handles /\ NoHandle \notin Handles
      /\ call \notin Copying => local.out = NoHandle
  BY NoHandleIsNone DEF HandleIInv, CopyTarget
<1>2. call \notin Copying \cup {"copy_create"} => local.in = NoHandle /\ local.out = NoHandle
  BY <1>1 DEF AllAreKept, SourceClosed, TargetClosed
<1>3. call \notin Openers => Fresh = {}
  BY DEF Fresh, Openers
<1>4. ASSUME call \notin Copying \cup Openers, ~Replaced
      PROVE  DOMAIN open \subseteq {g_file.handle, NoHandle}
  BY <1>2, <1>3, <1>4 DEF AllAreKept, SourceClosed, TargetClosed, Openers
<1>5. ASSUME call = "copy_open"
      PROVE  DOMAIN open \subseteq {g_file.handle, NoHandle} \cup Fresh
  BY <1>2, <1>5 DEF AllAreKept, SourceClosed, TargetClosed, Copying, Replaced
<1>6. ASSUME Replaced  PROVE DOMAIN open \subseteq Fresh
  <2>1. call \notin Copying \cup {"copy_create"}
    BY <1>6 DEF Replaced, Copying
  <2> QED
    BY <1>1, <1>2, <1>6, <2>1 DEF AllAreKept, SourceClosed, TargetClosed
<1>7. ASSUME call = "copy_create"
      PROVE  DOMAIN open \subseteq {g_file.handle, local.in, NoHandle} \cup Fresh
  BY <1>1, <1>7 DEF AllAreKept, SourceClosed, TargetClosed, Copying, Replaced
<1> QED
  BY <1>2, <1>4, <1>5, <1>6, <1>7

LEMMA AnswerKeepsAll ==
  ASSUME NEW g, NEW reply, Answer(g, reply), DOMAIN open \subseteq {g.handle, NoHandle},
         ~g.active => g.handle = NoHandle
  PROVE  AllAreKept'
<1>1. /\ g_file' = g /\ call' = "none" /\ open' = open
      /\ local'.in = NoHandle /\ local'.out = NoHandle
  BY DEF Answer, Unchanging, dos, NoLocal
<1> QED
  BY <1>1 DEF AllAreKept, Fresh, Openers, SourceClosed, TargetClosed, Replaced, Copying

LEMMA CallKeepsAll ==
  ASSUME NEW name, NEW g, NEW call_name, NEW handle, CallDos(name, g, call_name, handle),
         call_name \notin Copying \cup {"copy_create"},
         local'.in = NoHandle, local'.out = NoHandle,
         call_name \in {"close_old", "close", "close_failed"} => handle = g.handle,
         DOMAIN open \subseteq Handles,
         DOMAIN open \subseteq (IF call_name \in {"create", "open_read"} THEN {}
                                                                        ELSE {g.handle, NoHandle}),
         call_name \in {"create", "open_read", "file_size", "close_failed"}
           \/ (~g.active => g.handle = NoHandle)
  PROVE  AllAreKept'
<1>1. /\ g_file' = g /\ call' = call_name /\ open' = open
      /\ returned' = (call_name \in Closing /\ handle = NoHandle)
  BY DEF CallDos, Unchanging, dos
<1>2. NoHandle \notin Handles
  BY NoHandleIsNone
<1>3. CASE call_name \in {"create", "open_read"}
  BY <1>1, <1>3 DEF AllAreKept, Fresh, Openers, SourceClosed, TargetClosed,
      Replaced, Copying, Closing
<1>4. CASE call_name \in {"close_old", "close", "close_failed"}
  <2>1. CASE handle = NoHandle
    <3>1. DOMAIN open = {}
      BY <1>2, <1>4, <2>1
    <3> QED
      BY <1>1, <1>4, <2>1, <3>1 DEF AllAreKept, Copying
  <2>2. CASE handle # NoHandle
    <3>1. DOMAIN open \subseteq {g.handle} /\ ~returned'
      BY <1>1, <1>2, <1>4, <2>2
    <3> QED
      BY <1>1, <1>4, <3>1 DEF AllAreKept, SourceClosed, TargetClosed, Replaced, Copying
  <2> QED
    BY <2>1, <2>2
<1>5. CASE call_name \notin {"create", "open_read", "close_old", "close", "close_failed"}
  BY <1>1, <1>5 DEF AllAreKept, Fresh, Openers, SourceClosed, TargetClosed,
      Replaced, Copying, Closing
<1> QED
  BY <1>3, <1>4, <1>5

LEMMA CopyCallKeepsAll ==
  ASSUME NEW handle, NEW call_name \in Copying \cup {"copy_create"},
         CopyNext(handle, call_name),
         DOMAIN open \subseteq Handles,
         DOMAIN open \subseteq {g_file.handle, local'.in, NoHandle}
                 \cup (IF call_name = "copy_close_in" THEN {} ELSE {local'.out}),
         call_name = "copy_close_in" => handle = local'.in,
         call_name = "copy_close_out" => handle = local'.out,
         ~g_file.active => g_file.handle = NoHandle
  PROVE  AllAreKept'
<1>1. /\ g_file' = g_file /\ call' = call_name /\ open' = open
      /\ returned' = (call_name \in Closing /\ handle = NoHandle)
  BY DEF CopyNext, CallDos, Unchanging, dos
<1>2. NoHandle \notin Handles
  BY NoHandleIsNone
<1>3. ~Replaced'
  BY <1>1 DEF Replaced, Copying
<1>4. CASE call_name \in {"copy_close_in", "copy_close_out"}
  <2>1. CASE call_name = "copy_close_in"
    BY <1>1, <1>2, <1>3, <2>1, ZenonT(30)
    DEF AllAreKept, Fresh, Openers, SourceClosed, TargetClosed, Copying, Closing
  <2>2. CASE call_name = "copy_close_out"
    BY <1>1, <1>2, <1>3, <2>2, ZenonT(30)
    DEF AllAreKept, Fresh, Openers, SourceClosed, TargetClosed, Copying, Closing
  <2> QED
    BY <1>4, <2>1, <2>2
<1>5. CASE call_name \notin {"copy_close_in", "copy_close_out"}
  BY <1>1, <1>2, <1>3, <1>5
  DEF AllAreKept, Fresh, Openers, SourceClosed, TargetClosed, Copying, Closing
<1> QED
  BY <1>4, <1>5
(* Most operations leave the transfer's handle as it is.                   *)
Simple == Copying \cup Openers \cup {"file_size", "close_failed"}

LEMMA SimpleKeepsAll ==
  ASSUME HandleIInv, AllAreKept, call \notin Simple, ~Replaced,
         NEW g, g.handle = g_file.handle, g.active = g_file.active,
         \/ \E reply : Answer(g, reply)
         \/ \E name, handle, call_name :
              /\ CallDos(name, g, call_name, handle)
              /\ call_name \notin {"create", "open_read", "copy_create"} \cup Copying
              /\ call_name \in OfFile => handle = g_file.handle
              /\ local'.in = local.in /\ local'.out = local.out
  PROVE  AllAreKept'
<1>1. /\ DOMAIN open \subseteq {g.handle, NoHandle}
      /\ ~g.active => g.handle = NoHandle
      /\ local.in = NoHandle /\ local.out = NoHandle
  BY WhatIsOpen DEF Simple, Openers, AllAreKept
<1>2. CASE \E reply : Answer(g, reply)
  BY <1>1, <1>2, AnswerKeepsAll
<1>3. ASSUME NEW name, NEW handle, NEW call_name,
             CallDos(name, g, call_name, handle),
             call_name \notin {"create", "open_read", "copy_create"} \cup Copying,
             call_name \in OfFile => handle = g_file.handle,
             local'.in = local.in, local'.out = local.out
      PROVE  AllAreKept'
  <2>1. DOMAIN open \subseteq Handles
    BY DEF HandleIInv
  <2>2. call_name \in {"close_old", "close", "close_failed"} => handle = g.handle
    BY <1>3 DEF OfFile
  <2> QED
    BY <1>1, <1>3, <2>1, <2>2, CallKeepsAll
<1> QED
  BY <1>2, <1>3

LEMMA EnteredIsSimple ==
  ASSUME HandleIInv, NEW name, Enter(name)
  PROVE  /\ call \notin Simple /\ ~Replaced
         /\ Idle.handle = g_file.handle /\ Idle.active = g_file.active
BY Entered DEF Enter, HandleIInv, CallsOf, Simple, Openers, Replaced, Copying, Idle

LEMMA TransferKeepsAll ==
  ASSUME HandleIInv, AllAreKept,
         \/ idle_ack \/ idle_put_data \/ idle_written
         \/ idle_get_data_req \/ idle_sought \/ idle_read
  PROVE  AllAreKept'
<1> USE DEF send_file_ack, SendAck, send_file_get_data
<1>1. ASSUME NEW name, NEW c \in {"write", "seek", "read"}, Returned(name, c)
      PROVE  call \notin Simple /\ ~Replaced
  BY <1>1 DEF Returned, Simple, Openers, Replaced, Copying
<1>2. ASSUME NEW g, NEW reply, Answer(g, reply), g.handle = g_file.handle,
             g.active = g_file.active, call \notin Simple, ~Replaced
      PROVE  AllAreKept'
  BY <1>2, SimpleKeepsAll
<1>3. ASSUME NEW g, NEW name, NEW call_name \in {"write", "read"},
             CallDos(name, g, call_name, g_file.handle), UNCHANGED local,
             g.handle = g_file.handle, g.active = g_file.active, call \notin Simple, ~Replaced
      PROVE  AllAreKept'
  BY <1>3, SimpleKeepsAll DEF Copying
<1>4. CASE idle_ack
  <2> DEFINE g == [Idle EXCEPT !.expected_offset = g_file.ack_offset]
  <2>1. g.handle = Idle.handle /\ g.active = Idle.active /\ \E reply : Answer(g, reply)
    BY <1>4 DEF idle_ack, Idle
  <2> HIDE DEF g
  <2> QED
    BY <1>2, <1>4, <2>1, EnteredIsSimple DEF idle_ack
<1>5. CASE idle_put_data
  <2>1. \/ \E reply : Answer(Idle, reply)
        \/ CallDos("PUT_DATA", Idle, "write", g_file.handle) /\ UNCHANGED local
    BY <1>5 DEF idle_put_data
  <2>2. Enter("PUT_DATA")
    BY <1>5 DEF idle_put_data
  <2> QED
    BY <1>2, <1>3, <2>1, <2>2, EnteredIsSimple
<1>6. CASE idle_written
  <2> DEFINE g == [g_file EXCEPT !.expected_offset = @ + g_file.chunk_count]
  <2>1. g.handle = g_file.handle /\ g.active = g_file.active
    OBVIOUS
  <2>2. (\E reply : Answer(g, reply)) \/ \E reply : Answer(g_file, reply)
    BY <1>6 DEF idle_written
  <2> HIDE DEF g
  <2> QED
    BY <1>1, <1>2, <1>6, <2>1, <2>2 DEF idle_written
<1>7. CASE idle_get_data_req
  <2> DEFINE g == [Idle EXCEPT !.chunk_count = 0]
  <2>1. Enter("GET_DATA_REQ") /\ g.handle = Idle.handle /\ g.active = Idle.active
    BY <1>7 DEF idle_get_data_req, Idle
  <2>2. \/ \E reply : Answer(g, reply)
        \/ /\ g_file' = Idle /\ call' = "seek"
           /\ UNCHANGED <<returned, local, open>>
    BY <1>7 DEF idle_get_data_req, Unchanging, dos
  <2> HIDE DEF g
  <2>3. CASE \E reply : Answer(g, reply)
    BY <1>2, <2>1, <2>3, EnteredIsSimple
  <2>4. CASE /\ g_file' = Idle /\ call' = "seek"
             /\ UNCHANGED <<returned, local, open>>
    <3>1. /\ call \notin Simple /\ ~Replaced
          /\ Idle.handle = g_file.handle /\ Idle.active = g_file.active
      BY <2>1, EnteredIsSimple
    <3>2. /\ DOMAIN open \subseteq {g_file.handle, NoHandle}
          /\ ~g_file.active => g_file.handle = NoHandle
          /\ local.in = NoHandle /\ local.out = NoHandle
      BY <3>1, WhatIsOpen DEF Simple, Openers, AllAreKept
    <3> QED
      BY <2>4, <3>1, <3>2
      DEF AllAreKept, Fresh, Openers, SourceClosed, TargetClosed, Replaced, Copying
  <2> QED
    BY <2>2, <2>3, <2>4
<1>8. CASE idle_sought \/ idle_read
  <2> DEFINE g1 == [g_file EXCEPT !.chunk_count = 0]
             g2 == [g_file EXCEPT !.chunk_count = ax,
                                  !.expected_offset = g_file.chunk_offset + ax]
  <2>1. /\ g1.handle = g_file.handle /\ g1.active = g_file.active
        /\ g2.handle = g_file.handle /\ g2.active = g_file.active
    OBVIOUS
  <2>2. \/ \E reply : Answer(g1, reply)
        \/ \E reply : Answer(g2, reply)
        \/ CallDos("GET_DATA_REQ", g_file, "read", g_file.handle) /\ UNCHANGED local
    BY <1>8 DEF idle_sought, idle_read
  <2>3. call \notin Simple /\ ~Replaced
    BY <1>1, <1>8 DEF idle_sought, idle_read
  <2> HIDE DEF g1, g2
  <2> QED
    BY <1>2, <1>3, <2>1, <2>2, <2>3
<1> QED
  BY <1>4, <1>5, <1>6, <1>7, <1>8
LEMMA BeginKeepsAll ==
  ASSUME HandleIInv, AllAreKept,
         idle_begin \/ idle_created \/ idle_opened \/ idle_sized \/ idle_end
  PROVE  AllAreKept'
<1> USE DEF send_file_ack, SendAck
<1>1. DOMAIN open \subseteq Handles /\ NoHandle \notin Handles
  BY NoHandleIsNone DEF HandleIInv
<1>2. ASSUME NEW name, NEW g, NEW call_name \in {"create", "open_read"},
             CallDos(name, g, call_name, NoHandle), UNCHANGED local,
             DOMAIN open = {}, local.in = NoHandle, local.out = NoHandle
      PROVE  AllAreKept'
  BY <1>2, CallKeepsAll DEF Copying
<1>3. CASE idle_begin
  <2>1. PICK name \in {"PUT_BEGIN", "GET_BEGIN"} :
          \E first \in {"create", "open_read"} :
            /\ UNCHANGED local
            /\ \/ /\ Enter(name) /\ g_file.active
                  /\ CallDos(name, Idle, "close_old", g_file.handle)
               \/ /\ Enter(name) /\ ~g_file.active
                  /\ CallDos(name, Idle, first, NoHandle)
               \/ /\ Returned(name, "close_old")
                  /\ CallDos(name, g_file, first, NoHandle)
    BY <1>3 DEF idle_begin
  <2>2. PICK first \in {"create", "open_read"} :
          /\ UNCHANGED local
          /\ \/ /\ Enter(name) /\ g_file.active
                /\ CallDos(name, Idle, "close_old", g_file.handle)
             \/ /\ Enter(name) /\ ~g_file.active
                /\ CallDos(name, Idle, first, NoHandle)
             \/ /\ Returned(name, "close_old")
                /\ CallDos(name, g_file, first, NoHandle)
    BY <2>1
  <2>3. CASE Enter(name)
    <3>1. /\ call \notin Simple /\ ~Replaced
          /\ Idle.handle = g_file.handle /\ Idle.active = g_file.active
      BY <2>3, EnteredIsSimple
    <3>2. op # name
      BY <2>3 DEF Enter
    <3>3. CASE CallDos(name, Idle, "close_old", g_file.handle)
      BY <2>2, <3>1, <3>3, SimpleKeepsAll DEF Copying
    <3>4. CASE ~g_file.active /\ CallDos(name, Idle, first, NoHandle)
      <4>1. /\ DOMAIN open \subseteq {g_file.handle, NoHandle} /\ g_file.handle = NoHandle
            /\ local.in = NoHandle /\ local.out = NoHandle
        BY <3>1, <3>4, WhatIsOpen DEF Simple, Openers, AllAreKept
      <4>2. DOMAIN open = {}
        BY <1>1, <4>1
      <4> QED
        BY <1>2, <2>2, <3>4, <4>1, <4>2
    <3> QED
      BY <2>2, <3>2, <3>3, <3>4 DEF Returned
  <2>4. CASE Returned(name, "close_old") /\ CallDos(name, g_file, first, NoHandle)
    <3>1. /\ Fresh = {} /\ Replaced /\ call \notin Copying \cup {"copy_create"}
      BY <2>4 DEF Returned, Fresh, Openers, Replaced, Copying
    <3>2. /\ DOMAIN open = {} /\ local.in = NoHandle /\ local.out = NoHandle
      BY <3>1, WhatIsOpen
    <3> QED
      BY <1>2, <2>2, <2>4, <3>2
  <2> QED
    BY <2>2, <2>3, <2>4
<1>4. CASE idle_created
  <2> DEFINE g == [g_file EXCEPT !.handle = IF carry THEN NoHandle ELSE ax,
                                 !.expected_offset = 0, !.active = ~carry,
                                 !.mode = IF carry THEN "NONE" ELSE "PUT"]
  <2>1. call = "create" /\ Replaced
    BY <1>4 DEF idle_created, Returned, Replaced
  <2>2. DOMAIN open \subseteq Fresh
    BY <2>1, WhatIsOpen
  <2>3. \E reply : Answer(g, reply)
    BY <1>4 DEF idle_created
  <2>4. g.handle = IF carry THEN NoHandle ELSE ax
    OBVIOUS
  <2>5. g.active = ~carry
    OBVIOUS
  <2> HIDE DEF g
  <2>6. DOMAIN open \subseteq {g.handle, NoHandle}
    BY <2>2, <2>4 DEF Fresh
  <2>7. ~g.active => carry
    BY <2>5
  <2> QED
    BY <2>3, <2>4, <2>6, <2>7, AnswerKeepsAll
<1>5. CASE idle_opened
  <2> DEFINE g == [Closed(g_file) EXCEPT !.handle = IF carry THEN NoHandle ELSE ax,
                                         !.expected_offset = 0, !.size = 0]
  <2>1. call = "open_read" /\ Replaced /\ call \notin Copying \cup {"copy_create"}
    BY <1>5 DEF idle_opened, Returned, Replaced, Copying
  <2>2. DOMAIN open \subseteq Fresh /\ local.in = NoHandle /\ local.out = NoHandle
    BY <2>1, WhatIsOpen
  <2>3. \/ carry /\ \E reply : Answer(g, reply)
        \/ CallDos("GET_BEGIN", g, "file_size", NoHandle) /\ UNCHANGED local
    BY <1>5 DEF idle_opened
  <2>4. g.handle = IF carry THEN NoHandle ELSE ax
    OBVIOUS
  <2> HIDE DEF g
  <2>5. DOMAIN open \subseteq {g.handle, NoHandle} /\ (carry => g.handle = NoHandle)
    BY <2>2, <2>4 DEF Fresh
  <2>6. CASE carry /\ \E reply : Answer(g, reply)
    BY <2>5, <2>6, AnswerKeepsAll
  <2>7. CASE CallDos("GET_BEGIN", g, "file_size", NoHandle) /\ UNCHANGED local
    BY <1>1, <2>2, <2>5, <2>7, CallKeepsAll DEF Copying
  <2> QED
    BY <2>3, <2>6, <2>7
<1>6. CASE idle_sized
  <2> DEFINE g1 == [g_file EXCEPT !.size = ax, !.active = TRUE, !.mode = "GET"]
             g2 == [g_file EXCEPT !.size = NoSize]
             g3 == [g_file EXCEPT !.handle = NoHandle]
  <2>1. /\ g1.handle = g_file.handle /\ g1.active = TRUE
        /\ g2.handle = g_file.handle /\ g2.active = g_file.active
        /\ g3.handle = NoHandle
    OBVIOUS
  <2>2. \/ call = "file_size" /\ \E reply : Answer(g1, reply)
        \/ call = "file_size" /\ g_file.active /\ \E reply : Answer(g2, reply)
        \/ /\ call = "file_size" /\ UNCHANGED local
           /\ CallDos("GET_BEGIN", g2, "close_failed", g2.handle)
        \/ call = "close_failed" /\ returned /\ \E reply : Answer(g3, reply)
    BY <1>6 DEF idle_sized, Returned
  <2> HIDE DEF g1, g2, g3
  <2>3. CASE call = "file_size"
    <3>1. /\ DOMAIN open \subseteq {g_file.handle, NoHandle}
          /\ local.in = NoHandle /\ local.out = NoHandle
      BY <2>3, WhatIsOpen DEF Openers, Copying, Replaced
    <3>2. CASE \E reply : Answer(g1, reply)
      BY <2>1, <3>1, <3>2, AnswerKeepsAll
    <3>3. CASE g_file.active /\ \E reply : Answer(g2, reply)
      BY <2>1, <3>1, <3>3, AnswerKeepsAll
    <3>4. CASE /\ UNCHANGED local
               /\ CallDos("GET_BEGIN", g2, "close_failed", g2.handle)
      BY <1>1, <2>1, <3>1, <3>4, CallKeepsAll DEF Copying
    <3> QED
      BY <2>2, <2>3, <3>2, <3>3, <3>4
  <2>4. CASE call = "close_failed" /\ returned /\ \E reply : Answer(g3, reply)
    <3>1. Fresh = {} /\ Replaced
      BY <2>4 DEF Fresh, Openers, Replaced
    <3>2. DOMAIN open = {}
      BY <3>1, WhatIsOpen
    <3> QED
      BY <2>1, <2>4, <3>2, AnswerKeepsAll
  <2> QED
    BY <2>2, <2>3, <2>4
<1>7. CASE idle_end
  <2>1. PICK name \in {"PUT_END", "GET_END"} :
          \/ /\ Enter(name)
             /\ \E st : local' = [local EXCEPT !.status = st]
             /\ CallDos(name, Idle, "close", g_file.handle)
          \/ /\ Returned(name, "close")
             /\ \E reply : Answer(Closed(g_file), reply)
    BY <1>7 DEF idle_end
  <2>2. CASE /\ Enter(name)
             /\ \E st : local' = [local EXCEPT !.status = st]
             /\ CallDos(name, Idle, "close", g_file.handle)
    <3>1. local'.in = local.in /\ local'.out = local.out
      BY <2>2
    <3>2. /\ call \notin Simple /\ ~Replaced
          /\ Idle.handle = g_file.handle /\ Idle.active = g_file.active
      BY <2>2, EnteredIsSimple
    <3> QED
      BY <2>2, <3>1, <3>2, SimpleKeepsAll DEF Copying
  <2>3. CASE Returned(name, "close") /\ \E reply : Answer(Closed(g_file), reply)
    <3>1. Fresh = {} /\ Replaced
      BY <2>3 DEF Returned, Fresh, Openers, Replaced
    <3>2. DOMAIN open = {} /\ Closed(g_file).handle = NoHandle
      BY <3>1, WhatIsOpen DEF Closed
    <3> QED
      BY <2>3, <3>2, AnswerKeepsAll
  <2> QED
    BY <2>1, <2>2, <2>3
<1> QED
  BY <1>3, <1>4, <1>5, <1>6, <1>7

LEMMA PathsKeepAll ==
  ASSUME HandleIInv, AllAreKept, idle_dir_list_data_req \/ idle_found \/ idle_restored \/ idle_path_op
  PROVE  AllAreKept'
<1> USE DEF send_file_ack, SendAck, send_dir_list_data
<1>1. CASE idle_dir_list_data_req
  BY <1>1, EnteredIsSimple, SimpleKeepsAll DEF idle_dir_list_data_req, Copying, OfFile
<1>2. CASE idle_found
  <2>1. call \notin Simple /\ ~Replaced
    BY <1>2 DEF idle_found, Returned, Simple, Openers, Copying, Replaced
  <2>2. \/ \E reply : Answer(g_file, reply)
        \/ /\ \E n \in {"find", "restore_dta"} : CallDos("DIR_LIST_DATA_REQ", g_file, n, NoHandle)
           /\ \E e : local' = [local EXCEPT !.seen = @ + 1, !.entries = e]
    BY <1>2 DEF idle_found
  <2>3. CASE \E reply : Answer(g_file, reply)
    BY <2>1, <2>3, SimpleKeepsAll
  <2>4. CASE /\ \E n \in {"find", "restore_dta"} : CallDos("DIR_LIST_DATA_REQ", g_file, n, NoHandle)
             /\ \E e : local' = [local EXCEPT !.seen = @ + 1, !.entries = e]
    <3>1. local'.in = local.in /\ local'.out = local.out
      BY <2>4
    <3> QED
      BY <2>1, <2>4, <3>1, SimpleKeepsAll DEF Copying, OfFile
  <2> QED
    BY <2>2, <2>3, <2>4
<1>3. CASE idle_path_op
  <2>1. PICK name \in {"MKDIR", "DELETE", "RENAME"} :
          \/ /\ Enter(name)
             /\ \/ \E reply : Answer(Idle, reply)
                \/ CallDos(name, Idle, CallOf(name), NoHandle) /\ UNCHANGED local
          \/ op = name /\ \E reply : Answer(g_file, reply)
    BY <1>3 DEF idle_path_op
  <2>2. CASE Enter(name) /\ \E reply : Answer(Idle, reply)
    BY <2>2, EnteredIsSimple, SimpleKeepsAll
  <2>3. CASE Enter(name) /\ CallDos(name, Idle, CallOf(name), NoHandle) /\ UNCHANGED local
    <3>1. CallOf(name) \in PathCalls
      BY DEF CallOf, PathCalls
    <3>2. /\ CallOf(name) \notin {"create", "open_read", "copy_create"} \cup Copying
          /\ CallOf(name) \notin OfFile
      BY <3>1 DEF PathCalls, Copying, OfFile
    <3> QED
      BY <2>3, <3>2, EnteredIsSimple, SimpleKeepsAll
  <2>4. CASE op = name /\ \E reply : Answer(g_file, reply)
    <3>1. call \in PathCalls
      BY <2>4 DEF HandleIInv, CallsOf
    <3>2. call \notin Simple /\ ~Replaced
      BY <3>1 DEF Simple, Openers, Copying, Replaced, PathCalls
    <3> QED
      BY <2>4, <3>2, SimpleKeepsAll
  <2> QED
    BY <2>1, <2>2, <2>3, <2>4
<1>4. CASE idle_restored
  <2>1. /\ call = "restore_dta" /\ \E reply : Answer(g_file, reply)
        /\ call \notin Simple /\ ~Replaced
    BY <1>4 DEF idle_restored, Returned, Simple, Openers, Copying, Replaced
  <2> QED
    BY <2>1, SimpleKeepsAll
<1> QED
  BY <1>1, <1>2, <1>3, <1>4

LEMMA CopyBeginsKeepsAll ==
  ASSUME HandleIInv, AllAreKept, idle_copy
  PROVE  AllAreKept'
<1> USE DEF send_file_ack, SendAck
<1>1. DOMAIN open \subseteq Handles
  BY DEF HandleIInv
<1>2. /\ [Idle EXCEPT !.expected_offset = 0].handle = g_file.handle
      /\ [Idle EXCEPT !.expected_offset = 0].active = g_file.active
      /\ [g_file EXCEPT !.expected_offset = 0].handle = g_file.handle
      /\ [g_file EXCEPT !.expected_offset = 0].active = g_file.active
  BY DEF Idle
<1>3. CASE Enter("COPY")
  <2>1. /\ call \notin Simple /\ ~Replaced
        /\ Idle.handle = g_file.handle /\ Idle.active = g_file.active
    BY <1>3, EnteredIsSimple
  <2>2. \/ \E reply : Answer([Idle EXCEPT !.expected_offset = 0], reply)
        \/ CallDos("COPY", Idle, "copy_open", NoHandle) /\ UNCHANGED local
    BY <1>3 DEF idle_copy, Enter, Returned
  <2>3. CASE \E reply : Answer([Idle EXCEPT !.expected_offset = 0], reply)
    BY <1>2, <2>1, <2>3, SimpleKeepsAll
  <2>4. CASE CallDos("COPY", Idle, "copy_open", NoHandle) /\ UNCHANGED local
    BY <2>1, <2>4, SimpleKeepsAll DEF Copying, OfFile
  <2> QED
    BY <2>2, <2>3, <2>4
<1>4. CASE Returned("COPY", "copy_open")
  <2>1. /\ ~g_file.active => g_file.handle = NoHandle
        /\ local.in = NoHandle /\ local.out = NoHandle
        /\ DOMAIN open \subseteq {g_file.handle, NoHandle} \cup Fresh
    BY <1>4, WhatIsOpen DEF Returned, AllAreKept, Replaced, Copying
  <2>2. CASE carry
    <3> DEFINE g == [g_file EXCEPT !.expected_offset = 0]
    <3>1. \E reply : Answer(g, reply)
      BY <1>4, <2>2 DEF idle_copy, Enter, Returned
    <3>2. g.handle = g_file.handle /\ g.active = g_file.active /\ Fresh = {}
      BY <1>2, <2>2 DEF Fresh
    <3> HIDE DEF g
    <3> QED
      BY <2>1, <3>1, <3>2, AnswerKeepsAll
  <2>3. CASE ~carry
    <3>1. CopyNext(NoHandle, "copy_create") /\ local' = [local EXCEPT !.in = ax]
      BY <1>4, <2>3 DEF idle_copy, Enter, Returned
    <3>2. local'.in = ax /\ Fresh \subseteq {ax}
      BY <3>1 DEF Fresh
    <3> QED
      BY <1>1, <2>1, <3>1, <3>2, CopyCallKeepsAll DEF Copying
  <2> QED
    BY <2>2, <2>3
<1>5. CASE Returned("COPY", "copy_create")
  <2>1. /\ ~g_file.active => g_file.handle = NoHandle
        /\ local.out = NoHandle
        /\ DOMAIN open \subseteq {g_file.handle, local.in, NoHandle} \cup Fresh
    BY <1>5, WhatIsOpen DEF Returned, AllAreKept, Replaced, HandleIInv, CopyTarget, Copying
  <2>2. CASE carry
    <3>1. CopyNext(local.out, "copy_close_out") /\ local' = [local EXCEPT !.status = "ERROR"]
      BY <1>5, <2>2 DEF idle_copy, Enter, Returned, CopyDone
    <3>2. local'.in = local.in /\ local'.out = local.out /\ Fresh = {}
      BY <2>2, <3>1 DEF Fresh
    <3> QED
      BY <1>1, <2>1, <3>1, <3>2, CopyCallKeepsAll DEF Copying
  <2>3. CASE ~carry
    <3>1. CopyNext(local.in, "copy_read") /\ local' = [local EXCEPT !.out = ax]
      BY <1>5, <2>3 DEF idle_copy, Enter, Returned
    <3>2. local'.in = local.in /\ local'.out = ax /\ Fresh \subseteq {ax}
      BY <3>1 DEF Fresh
    <3> QED
      BY <1>1, <2>1, <3>1, <3>2, CopyCallKeepsAll DEF Copying
  <2> QED
    BY <2>2, <2>3
<1> QED
  BY <1>3, <1>4, <1>5 DEF idle_copy

LEMMA CopyGoesOnKeepsAll ==
  ASSUME HandleIInv, AllAreKept, idle_copying
  PROVE  AllAreKept'
<1> USE DEF send_file_ack, SendAck
<1>1. DOMAIN open \subseteq Handles /\ NoHandle \notin Handles
  BY NoHandleIsNone DEF HandleIInv
<1>2. call \in Copying /\ returned
  BY DEF idle_copying, Returned, Copying
<1>3. Fresh = {} /\ ~Replaced /\ (~g_file.active => g_file.handle = NoHandle)
  BY <1>2 DEF Fresh, Openers, Replaced, Copying, AllAreKept
<1>4. CASE call \in {"copy_read", "copy_write"}
  <2>1. DOMAIN open \subseteq {g_file.handle, local.in, local.out}
    BY <1>3, <1>4 DEF AllAreKept
  <2>2. \/ \E st : CopyDone(st)
        \/ CopyNext(local.out, "copy_write") /\ UNCHANGED local
        \/ CopyNext(local.in, "copy_read") /\ local' = [local EXCEPT !.bytes = @ + 1]
    BY <1>4 DEF idle_copying, Returned
  <2>3. ASSUME NEW st, CopyDone(st)  PROVE AllAreKept'
    <3>1. CopyNext(local.out, "copy_close_out") /\ local'.in = local.in /\ local'.out = local.out
      BY <2>3 DEF CopyDone
    <3> QED
      BY <1>1, <1>3, <2>1, <3>1, CopyCallKeepsAll DEF Copying
  <2>4. CASE CopyNext(local.out, "copy_write") /\ UNCHANGED local
    BY <1>1, <1>3, <2>1, <2>4, CopyCallKeepsAll DEF Copying
  <2>5. CASE CopyNext(local.in, "copy_read") /\ local' = [local EXCEPT !.bytes = @ + 1]
    <3>1. local'.in = local.in /\ local'.out = local.out
      BY <2>5
    <3> QED
      BY <1>1, <1>3, <2>1, <2>5, <3>1, CopyCallKeepsAll DEF Copying
  <2> QED
    BY <2>2, <2>3, <2>4, <2>5
<1>5. CASE call = "copy_close_out"
  <2>1. DOMAIN open \subseteq {g_file.handle, local.in}
    BY <1>2, <1>3, <1>5 DEF AllAreKept, TargetClosed
  <2>2. CopyNext(local.in, "copy_close_in") /\ UNCHANGED local
    BY <1>5 DEF idle_copying, Returned
  <2> QED
    BY <1>1, <1>3, <2>1, <2>2, CopyCallKeepsAll DEF Copying
<1>6. CASE call = "copy_close_in"
  <2> DEFINE g == [g_file EXCEPT !.expected_offset = local.bytes]
  <2>1. DOMAIN open \subseteq {g_file.handle}
    BY <1>2, <1>3, <1>6 DEF AllAreKept, SourceClosed, TargetClosed
  <2>2. \E reply : Answer(g, reply)
    BY <1>6 DEF idle_copying, Returned
  <2>3. g.handle = g_file.handle /\ g.active = g_file.active
    OBVIOUS
  <2> HIDE DEF g
  <2> QED
    BY <1>3, <2>1, <2>2, <2>3, AnswerKeepsAll
<1> QED
  BY <1>2, <1>4, <1>5, <1>6 DEF Copying
-----------------------------------------------------------------------------
LEMMA TransferInit == Init => TransferIInv
<1> SUFFICES ASSUME Init  PROVE TransferIInv
  OBVIOUS
<1>1. HandleIInv
  BY InitHandles
<1>2. RequestsAreSound
  <2>1. toServer = <<>> /\ ready = <<>> /\ ticking = FALSE
    BY DEF Init, WireInit, ServerInit
  <2>2. <<>> \in Seq(Asked) /\ Len(<<>>) = 0 /\ PoolSize \in Nat
    BY EmptySeq, FileServerAssumption
  <2>3. Len(ready) <= PoolSize
    BY <2>1, <2>2
  <2> QED
    BY <2>1, <2>2, <2>3 DEF RequestsAreSound
<1>3. RepliesAreSound
  <2>1. toClient = [c \in Clients |-> <<>>]
    BY DEF Init, WireInit
  <2>2. \A c \in Clients : toClient[c] = <<>>
    BY <2>1
  <2> QED
    BY <2>1, <2>2, EmptyIsSeq DEF RepliesAreSound
<1>4. ServerIsSound
  <2>1. FileIsSound(g_file)
    BY DEF Init, ServerInit, file_transfer_init, FileIsSound
  <2>2. IsSeq(local.entries)
    BY EmptyIsSeq DEF Init, ServerInit, NoLocal
  <2>3. losses \in 0..MaxLosses /\ faults \in 0..MaxFaults
    BY FilePacketsAssumption, FileServerAssumption DEF Init, WireInit, ServerInit
  <2> QED
    BY <2>1, <2>2, <2>3 DEF Init, ServerInit, ServerIsSound
<1>5. ClientsAreSound
  <2>1. \A c \in Clients : ClientIsSound(c)
    BY DEF Init, ClientInit, ClientIsSound
  <2>2. 0 \in 0..Retries
    BY FileClientAssumption
  <2> QED
    BY <2>1, <2>2 DEF Init, ClientInit, ClientsAreSound, Steps
<1>6. AllAreKept
  <2>1. /\ DOMAIN open = {} /\ call = "none" /\ local.in = NoHandle /\ g_file.handle = NoHandle
    BY DEF Init, ServerInit, file_transfer_init, NoLocal
  <2> QED
    BY <2>1 DEF AllAreKept
<1> QED
  BY <1>1, <1>2, <1>3, <1>4, <1>5, <1>6 DEF TransferIInv

LEMMA ServerStep ==
  ASSUME TransferIInv, ServerNext, UNCHANGED client
  PROVE  /\ RequestsAreSound' /\ RepliesAreSound' /\ ServerIsSound' /\ ClientsAreSound'
         /\ NoListings => AllAreKept'
<1> USE DEF TransferIInv
<1>1. ClientsAreSound'
  BY DEF ClientsAreSound, ClientIsSound, Op, client
<1>2. CASE Receive \/ TickBegin
  <2>1. RequestsAreSound'
    BY <1>2, Receives
  <2>2. UNCHANGED <<toClient, losses, g_file, op, call, returned, bx, carry, ax, local, dos>>
    BY <1>2 DEF Receive, TickBegin, wire
  <2>3. RepliesAreSound' /\ ServerIsSound' /\ Aside
    BY <2>2 DEF RepliesAreSound, ServerIsSound, Aside, dos
  <2> QED
    BY <1>1, <2>1, <2>2, <2>3, AsideKeepsAll
<1>3. CASE file_transfer_handle_packet
  <2>1. RequestsAreSound' /\ packet \in Asked
    BY <1>3, HandedOver
  <2>2. ServerIsSound' /\ (NoListings => g_file'.active = g_file.active) /\ Aside
    BY <1>3, <2>1, HandlersAreSound, HandlersAreAside
  <2>3. RepliesAreSound'
    BY <1>3, HandlersLeave DEF RepliesAreSound, wire
  <2> QED
    BY <1>1, <2>1, <2>2, <2>3, AsideKeepsAll
<1>4. CASE file_transfer_process_idle
  <2>1. RequestsAreSound'
    BY <1>4, IdleLeaves DEF Unchanging, RequestsAreSound
  <2>2. AnswersAreSound'
    BY <1>4, BeginIsSound, TransferIsSound, PathsAreSound, CopyIsSound
    DEF AnswersAreSound, file_transfer_process_idle
  <2>3. NoListings => AllAreKept'
    BY <1>4, BeginKeepsAll, TransferKeepsAll, PathsKeepAll, CopyBeginsKeepsAll,
       CopyGoesOnKeepsAll
    DEF file_transfer_process_idle
  <2> QED
    BY <1>1, <2>1, <2>2, <2>3 DEF AnswersAreSound
<1>5. CASE Dos
  <2>1. RequestsAreSound' /\ RepliesAreSound'
    BY <1>5, DosLeaves DEF RequestsAreSound, RepliesAreSound, wire
  <2> QED
    BY <1>1, <1>5, <2>1, DosIsSound, DosKeepsAll
<1> QED
  BY <1>2, <1>3, <1>4, <1>5 DEF ServerNext

LEMMA TransferStep == TransferIInv /\ [Next]_vars => TransferIInv'
<1> SUFFICES ASSUME TransferIInv, [Next]_vars  PROVE TransferIInv'
  OBVIOUS
<1>1. HandleIInv'
  BY StepHandles DEF TransferIInv
<1>2. CASE ServerNext /\ UNCHANGED client
  BY <1>1, <1>2, ServerStep DEF TransferIInv
<1>3. ASSUME UNCHANGED <<server, dos>>
      PROVE  NoListings => AllAreKept'
  <2>1. Aside /\ UNCHANGED g_file
    BY <1>3 DEF server, dos, Aside
  <2> QED
    BY <2>1, AsideKeepsAll DEF TransferIInv
<1>4. ASSUME NEW c \in Clients, ClientStep(c)  PROVE TransferIInv'
  <2>1. UNCHANGED <<server, dos>> /\ UNCHANGED losses
    BY <1>4 DEF ClientStep, ClientNext, Start, Discard, Refused, TimesOut, Timeout, put, get,
                path_op_done, dir_page, Granted, Takes
  <2>2. ServerIsSound'
    BY <2>1 DEF TransferIInv, ServerIsSound, server, dos
  <2> QED
    BY <1>1, <1>3, <1>4, <2>1, <2>2, ClientKeeps DEF TransferIInv
<1>5. CASE Lose
  <2>1. UNCHANGED <<server, dos, client>>
    BY <1>5 DEF Lose
  <2>2. ClientsAreSound'
    BY <2>1 DEF TransferIInv, ClientsAreSound, ClientIsSound, Op, client
  <2>3. losses' \in 0..MaxLosses
    BY <1>5, FilePacketsAssumption
    DEF Lose, LoseRequest, LoseReply, TransferIInv, ServerIsSound
  <2>4. ServerIsSound'
    BY <2>1, <2>3 DEF TransferIInv, ServerIsSound, server, dos
  <2>5. RequestsAreSound' /\ RepliesAreSound'
    <3>1. CASE LoseRequest
      <4>1. Tail(toServer) \in Seq(Asked)
        BY <3>1, HeadTailProperties DEF LoseRequest, TransferIInv, RequestsAreSound
      <4> QED
        BY <2>1, <3>1, <4>1
        DEF LoseRequest, TransferIInv, RequestsAreSound, RepliesAreSound, server
    <3>2. ASSUME NEW c \in Clients, LoseReply(c)
          PROVE  RequestsAreSound' /\ RepliesAreSound'
      <4>1. RepliesAreSound'
        BY <3>2, ReplyIsTaken DEF LoseReply, TransferIInv
      <4> QED
        BY <2>1, <3>2, <4>1 DEF LoseReply, TransferIInv, RequestsAreSound, server
    <3> QED
      BY <1>5, <3>1, <3>2 DEF Lose
  <2> QED
    BY <1>1, <1>3, <2>1, <2>2, <2>4, <2>5 DEF TransferIInv
<1>6. CASE UNCHANGED vars
  <2>1. UNCHANGED <<wire, server, dos, client>>
    BY <1>6 DEF vars
  <2>2. /\ RequestsAreSound' /\ RepliesAreSound' /\ ServerIsSound' /\ ClientsAreSound'
    BY <2>1 DEF TransferIInv, RequestsAreSound, RepliesAreSound, ServerIsSound,
                ClientsAreSound, ClientIsSound, Op, wire, server, dos, client
  <2> QED
    BY <1>1, <1>3, <2>1, <2>2 DEF TransferIInv
<1> QED
  BY <1>2, <1>4, <1>5, <1>6 DEF Next

(* Whatever is asked and by however many hosts, lost or refused by DOS: no *)
(* more frames wait at the server than it has receive buffers, the timer   *)
(* handler drains them when it runs, and what the packet handlers and      *)
(* process_idle leave in g_file is an operation that process_idle knows.   *)
THEOREM TypeCorrect == Spec => []TypeOK
<1>1. TransferIInv => TypeOK
  <2> SUFFICES ASSUME TransferIInv  PROVE TypeOK
    OBVIOUS
  <2> USE DEF TransferIInv
  <2>1. ready \in Seq(Request) /\ toServer \in Seq(Request)
    <3>1. Asked \subseteq Request
      BY DEF Asked
    <3> QED
      BY <3>1, SeqMonotonic DEF RequestsAreSound
  <2>2. op = "NONE" <=> call = "none"
    BY DEF HandleIInv, CallsOf, ServerIsSound
  <2>3. DOMAIN open \subseteq Handles
    BY DEF HandleIInv
  <2>4. \A c \in Clients : step[c] \in Steps /\ attempt[c] \in 0..Retries
    BY DEF ClientsAreSound
  <2>5. /\ losses \in 0..MaxLosses /\ faults \in 0..MaxFaults
        /\ g_file.mode \in {"NONE", "PUT", "GET", "DIR"}
        /\ g_file.pending_op \in RequestType \cup {"NONE", "ACK"}
        /\ g_file.handle \in Handles \cup {NoHandle}
    BY DEF ServerIsSound, FileIsSound
  <2> QED
    BY <2>1, <2>2, <2>3, <2>4, <2>5 DEF TypeOK, RequestsAreSound
<1> QED
  BY <1>1, TransferInit, TransferStep, PTL DEF Spec

(* As long as nobody asks for a directory listing, which sets g_file.active*)
(* and clears it without looking at the file that is open, process_idle    *)
(* closes every file it opens: in whatever order the requests of several   *)
(* hosts come, and wherever DOS calls fail, each open handle is in a       *)
(* variable that it will look at again.                                    *)
THEOREM NoHandleIsForgotten ==
  ASSUME NoListings
  PROVE  Spec => []NoHandleLost
<1>1. TransferIInv => NoHandleLost
  BY DEF TransferIInv, AllAreKept, Fresh, Openers, NoHandleLost, Known
<1> QED
  BY <1>1, TransferInit, TransferStep, PTL DEF Spec
===============================================================================
