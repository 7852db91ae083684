----------------------------- MODULE OneHostProofs -----------------------------
(***************************************************************************)
(* Proofs about what a user of the file operations is told, where one host *)
(* at a time talks to the server and a timeout means that something was    *)
(* lost: downloads are exact, listings whole, and what is reported         *)
(* complete is done, for any scripts, losses and failing DOS calls.        *)
(***************************************************************************)
EXTENDS FileTransferProofs, FiniteSetTheorems

-----------------------------------------------------------------------------
(* What is assumed.                                                        *)

(* One host talks to the server, and a timeout means that its request or   *)
(* the answer is gone.  Two hosts would share g_file and could damage each *)
(* other's files; a late answer would meet the next request, which is what *)
(* the runs download_race and session_reuse show.                          *)
OneHost == Prompt /\ \A c, d \in Clients : c = d

(* The names an operation may change. *)
Changes(o) == CASE o.kind \in {"GET", "DIR"} -> {}
                [] o.kind \in {"PUT", "MKDIR", "DELETE"} -> {o.path}
                [] o.kind = "RENAME" -> {o.path, o.target}
                [] o.kind = "COPY" -> {o.target}

(* What is read or listed has not been changed by the same user before, so *)
(* that it can be compared with the disk as it was at first.               *)
ReadsFirst ==
  \A s \in Scripts, c \in Clients : \A j \in 1..Len(s[c]), i \in 1..Len(s[c]) : i < j =>
    /\ s[c][j].kind = "GET" => s[c][j].path \notin Changes(s[c][i])
    /\ s[c][j].kind = "DIR" => Changes(s[c][i]) = {}

(* A page that the server fills is one the client takes for full: both     *)
(* sides compile DIR_LIST_PAGE_ENTRIES in.                                 *)
ListsFirst == ReadsFirst /\ FullPage <= PageEntries

(* No operation is meant to undo another, no file is renamed to the name   *)
(* it has, and the disk does not fill up in the middle of a chunk of an    *)
(* upload.                                                                 *)
Separate ==
  /\ \A s \in Scripts, c \in Clients : \A j \in 1..Len(s[c]) :
       /\ s[c][j].kind = "RENAME" => s[c][j].path # s[c][j].target
       /\ \A i \in 1..Len(s[c]) : i < j =>
            /\ Changes(s[c][i]) \cap Changes(s[c][j]) = {}
            /\ s[c][j].kind = "COPY" => s[c][j].path \notin Changes(s[c][i])
  /\ "write" \notin ShortWrites

-----------------------------------------------------------------------------
(* The request of a host is in one place at a time.                        *)

(* The packets that nobody answers. *)
Silent == {"DIR_LIST_BEGIN", "DIR_LIST_END"}

Calm(s) == \A i \in 1..Len(s) : s[i].type \in Silent

Carries(s, r) == \E k \in 1..Len(s) :
                   s[k] = r /\ \A i \in 1..Len(s) : i # k => s[i].type \in Silent

Now(c) == RequestFor(c, step[c], offset[c])

(* What g_file holds of the request, while it waits for DOS to be idle and *)
(* while it is executed: no packet that comes meanwhile changes it.        *)
Holds(c, name) ==
  /\ name \in {"PUT_BEGIN", "GET_BEGIN"} \cup PathOps => g_file.filename = Op(c).path
  /\ name \in {"RENAME", "COPY"} => g_file.target = Op(c).target
  /\ name \in {"PUT_DATA", "GET_DATA_REQ"}
       => g_file.chunk_offset = offset[c] /\ g_file.chunk_count = 1
  /\ name = "PUT_DATA" => g_file.chunk = Op(c).data[offset[c] + 1]
  /\ name = "DIR_LIST_DATA_REQ" => g_file.dir_start_index = offset[c]
  /\ name = "ACK" => g_file.ack_offset = g_file.expected_offset

Pending(c) ==
  /\ \/ g_file.pending_op = Now(c).type
     \/ g_file.pending_op = "ACK" /\ Now(c).type = "PUT_DATA"
  /\ Holds(c, g_file.pending_op)

CallsIn(name) == CASE name = "PUT_BEGIN" -> {"close_old", "create"}
                   [] name = "GET_BEGIN" -> {"close_old", "open_read", "file_size", "close_failed"}
                   [] name = "PUT_DATA" -> {"write"}
                   [] name = "GET_DATA_REQ" -> {"seek", "read"}
                   [] name \in {"PUT_END", "GET_END"} -> {"close"}
                   [] name = "DIR_LIST_DATA_REQ" -> {"find", "restore_dta"}
                   [] name = "MKDIR" -> {"mkdir"}
                   [] name = "DELETE" -> {"rmdir", "unlink"}
                   [] name = "RENAME" -> {"rename"}
                   [] name = "COPY" -> {"copy_open", "copy_create"} \cup Copying

(* What the calls of each operation have found or done.  What is read is   *)
(* said to be what was on the disk at first, if it is not to have changed. *)

FirstListing == SetToSeq(DOMAIN InitFiles \cup InitDirs)

IsAt(h, f, pos) == h \in DOMAIN open /\ open[h].file = f /\ open[h].pos = pos

GetBegins(c) ==
  LET f == Op(c).path
  IN  /\ call = "open_read" /\ returned /\ ~carry
           => f \in DOMAIN files /\ ax \in DOMAIN open /\ open[ax].file = f
      /\ call = "file_size"
           => f \in DOMAIN files /\ g_file.handle \in DOMAIN open /\ open[g_file.handle].file = f
      /\ call = "file_size" /\ returned /\ ~carry /\ ReadsFirst => ax = Len(InitFiles[f])

GetReads(c) ==
  LET first == InitFiles[Op(c).path]
  IN  /\ call = "seek" /\ ~returned => ax = offset[c]
      /\ (call = "seek" /\ returned /\ ~carry) \/ (call = "read" /\ ~returned)
           => (bx \in DOMAIN open => open[bx].pos = offset[c])
      /\ call = "read" /\ returned /\ ~carry /\ ReadsFirst
           => \/ ax = 0
              \/ ax = 1 /\ offset[c] < Len(first) /\ g_file.chunk = first[offset[c] + 1]

Lists(c) ==
  /\ local.seen \in 0..Len(FirstListing)
  /\ local.entries = SubSeq(FirstListing, offset[c] + 1, local.seen)
  /\ IF call = "find" THEN Len(local.entries) < PageEntries ELSE Len(local.entries) = PageEntries
  /\ call = "find" /\ returned => (carry <=> local.seen = Len(FirstListing))

PutBegins(c) == call = "create" /\ returned /\ ~carry =>
  /\ IsAt(ax, Op(c).path, 0)
  /\ Op(c).path \in DOMAIN files /\ files[Op(c).path] = <<>>

CopyWrites(c) ==
  /\ call = "copy_create" /\ returned /\ ~carry => open[ax].file = Op(c).target
  /\ call \in {"copy_read", "copy_write"} /\ local.out \in DOMAIN open
       => open[local.out].file = Op(c).target

Copies(c) ==
  LET f == Op(c).path
      t == Op(c).target
      n == local.bytes
      m == InitFiles[f]
      Copied(k, i, o) ==
        /\ IsAt(local.in, f, i) /\ IsAt(local.out, t, o)
        /\ k \in 0..Len(m) /\ t \in DOMAIN files /\ files[t] = SubSeq(m, 1, k)
  IN  /\ f # t
      /\ call \in {"copy_open", "copy_create"} => n = 0
      /\ call # "copy_open" => f \in DOMAIN files
      /\ call = "copy_open" /\ returned /\ ~carry => IsAt(ax, f, 0) /\ f \in DOMAIN files
      /\ call = "copy_create" => IsAt(local.in, f, 0)
      /\ call = "copy_create" /\ returned /\ ~carry
           => IsAt(ax, t, 0) /\ t \in DOMAIN files /\ files[t] = <<>>
      /\ call = "copy_read" /\ ~returned => Copied(n, n, n)
      /\ call = "copy_read" /\ returned /\ ~carry
           => \/ ax = 0 /\ Copied(n, n, n) /\ n = Len(m)
              \/ ax = 1 /\ Copied(n, n + 1, n) /\ n < Len(m) /\ g_file.chunk = m[n + 1]
      /\ call = "copy_write" /\ ~returned
           => Copied(n, n + 1, n) /\ n < Len(m) /\ g_file.chunk = m[n + 1]
      /\ call = "copy_write" /\ returned /\ ~carry /\ ax = 1 => Copied(n + 1, n + 1, n + 1)
      /\ call \in {"copy_close_out", "copy_close_in"} /\ local.status = "OK"
           => t \in DOMAIN files /\ files[t] = m

Running(c) ==
  /\ op = Now(c).type /\ call \in CallsIn(op) /\ Holds(c, op)
  /\ op = "GET_BEGIN" => GetBegins(c)
  /\ op = "GET_DATA_REQ" => GetReads(c)
  /\ op = "DIR_LIST_DATA_REQ" /\ faults = 0 /\ ListsFirst => Lists(c)
  /\ op = "PUT_BEGIN" => PutBegins(c)
  /\ op = "PUT_DATA" => g_file.expected_offset = offset[c]
  /\ op \in {"MKDIR", "DELETE", "RENAME"} /\ returned /\ ~carry /\ Separate => TookEffect(Op(c))
  /\ op = "COPY" => CopyWrites(c)
  /\ op = "COPY" /\ Separate => Copies(c)

(* What an answer says is so. *)
ReplyFits(c, r) ==
  LET f == Op(c).path
      o == Op(c)
      off == offset[c]
  IN  /\ r.status = "OK" /\ o.kind = "GET" /\ step[c] = "BEGIN" =>
           /\ f \in DOMAIN files
           /\ ReadsFirst => r.offset \in {Len(InitFiles[f]), NoSize}
           /\ g_file.handle \in DOMAIN open => open[g_file.handle].file = f
      /\ r.status = "OK" /\ o.kind = "GET" /\ step[c] = "DATA" /\ ReadsFirst =>
           \/ r.data = <<>>
           \/ off < Len(InitFiles[f]) /\ r.data = <<InitFiles[f][off + 1]>>
      /\ o.kind = "DIR" /\ faults = 0 /\ ListsFirst =>
           \E k \in 0..Len(FirstListing) - off :
             /\ r.data = SubSeq(FirstListing, off + 1, off + k)
             /\ k < PageEntries => off + k = Len(FirstListing)
      /\ r.status = "OK" /\ o.kind = "PUT" /\ step[c] = "BEGIN" =>
           /\ IsAt(g_file.handle, f, 0) /\ g_file.expected_offset = 0
           /\ f \in DOMAIN files /\ files[f] = <<>>
      /\ r.status = "OK" /\ o.kind = "PUT" /\ step[c] = "DATA" => r.offset = g_file.expected_offset
      /\ r.status = "OK" /\ o.kind \in PathOps /\ Separate => TookEffect(o)

NoRequest == Calm(toServer) /\ Calm(ready)
NotServed == g_file.pending_op = "NONE" /\ op = "NONE"

(* Nowhere; on the LAN; in a receive buffer; taken from there; at DOS; or  *)
(* answered.                                                               *)
Resting(c)  == NoRequest /\ NotServed /\ toClient[c] = <<>>
OnWire(c)   == Carries(toServer, Now(c)) /\ Calm(ready) /\ NotServed /\ toClient[c] = <<>>
InPool(c)   == Calm(toServer) /\ Carries(ready, Now(c)) /\ NotServed /\ toClient[c] = <<>>
Taken(c)    == NoRequest /\ op = "NONE" /\ Pending(c) /\ toClient[c] = <<>>
AtDos(c)    == NoRequest /\ g_file.pending_op = "NONE" /\ Running(c) /\ toClient[c] = <<>>
Answered(c) == /\ NoRequest /\ NotServed
               /\ toClient[c] # <<>> /\ Tail(toClient[c]) = <<>> /\ ReplyFits(c, Reply(c))

InOnePlace(c) ==
  \/ Resting(c)
  \/ step[c] # "idle" /\ (OnWire(c) \/ InPool(c) \/ Taken(c) \/ AtDos(c) \/ Answered(c))

-----------------------------------------------------------------------------
(* What is known between the requests of an operation.                     *)

GetGot(c) ==
  LET f == Op(c).path
  IN  /\ step[c] = "BEGIN" => got[c] = <<>>
      /\ step[c] \in {"DATA", "END"} =>
           /\ f \in DOMAIN files
           /\ g_file.handle \in DOMAIN open => open[g_file.handle].file = f
      /\ step[c] \in {"DATA", "END"} /\ ReadsFirst =>
           /\ file_size[c] \in {Len(InitFiles[f]), NoSize}
           /\ offset[c] \in 0..Len(InitFiles[f]) /\ got[c] = SubSeq(InitFiles[f], 1, offset[c])
      /\ step[c] = "END" /\ ReadsFirst => offset[c] = Len(InitFiles[f])

DirGot(c) == /\ offset[c] \in 0..Len(FirstListing)
             /\ got[c] = SubSeq(FirstListing, 1, offset[c])

WasWritten == call = "write" /\ returned /\ ~carry /\ ax = 1

PutIs(c) ==
  LET f == Op(c).path
      e == g_file.expected_offset
      w == IF WasWritten THEN e + 1 ELSE e
  IN  /\ step[c] = "DATA" =>
           /\ e \in {offset[c], offset[c] + 1} /\ e <= Len(Op(c).data)
           /\ g_file.handle \in DOMAIN open /\ open[g_file.handle].file = f
           /\ f \in DOMAIN files
      /\ step[c] = "DATA" /\ Separate =>
           open[g_file.handle].pos = w /\ files[f] = SubSeq(Op(c).data, 1, w)
      /\ step[c] = "END" /\ Separate => f \in DOMAIN files /\ files[f] = Op(c).data

OperationIs(c) == step[c] # "idle" =>
  /\ Op(c).kind = "GET" => GetGot(c)
  /\ Op(c).kind = "DIR" /\ faults = 0 /\ ListsFirst => DirGot(c)
  /\ Op(c).kind = "PUT" => PutIs(c)

(* The disk: what no operation so far may change is as it was at first.    *)
Changed(c) == UNION {Changes(script[c][i]) : i \in {j \in 1..Len(script[c]) : j <= opno[c]}}

AsAtFirst(f) == /\ f \in DOMAIN files <=> f \in DOMAIN InitFiles
                /\ f \in dirs <=> f \in InitDirs
                /\ f \in DOMAIN files => files[f] = InitFiles[f]

DiskIs(c) ==
  /\ DOMAIN files \cap dirs = {}
  /\ \A f \in DOMAIN files \cup dirs \cup DOMAIN InitFiles \cup InitDirs :
       f \notin Changed(c) => AsAtFirst(f)

Reported(c) ==
  /\ c \in DOMAIN results /\ c \in DOMAIN file_size
  /\ IsSeq(results[c]) /\ Len(results[c]) = opno[c] - 1
  /\ \A i \in 1..Len(results[c]) :
       LET o == script[c][i]
       IN  results[c][i].outcome = "complete" =>
             /\ Separate => TookEffect(o)
             /\ ReadsFirst /\ o.kind = "GET" => results[c][i].data = InitFiles[o.path]
             /\ ListsFirst /\ o.kind = "DIR" /\ faults = 0
                  => results[c][i].data = FirstListing

OneHostAt(c) == /\ op = "NONE" => local = NoLocal /\ ~returned
                /\ InOnePlace(c) /\ OperationIs(c) /\ DiskIs(c) /\ Reported(c)

OneHostIInv == \A c \in Clients : OneHostAt(c)

-----------------------------------------------------------------------------
(* Sequences of packets, of which at most one is not silent.               *)

LEMMA CalmTail ==
  ASSUME NEW S, NEW s \in Seq(S), s # <<>>, Calm(s)
  PROVE  Calm(Tail(s)) /\ Head(s).type \in Silent
<1>1. /\ Len(s) \in Nat /\ Len(s) # 0 /\ Len(Tail(s)) = Len(s) - 1 /\ Head(s) = s[1]
      /\ \A i \in 1..Len(Tail(s)) : Tail(s)[i] = s[i + 1] /\ i + 1 \in 1..Len(s)
  OBVIOUS
<1> QED
  BY <1>1 DEF Calm

LEMMA FrontIs ==
  ASSUME NEW S, NEW s \in Seq(S), s # <<>>
  PROVE  /\ Len(s) \in Nat \ {0} /\ Len(Front(s)) = Len(s) - 1 /\ Last(s) = s[Len(s)]
         /\ \A i \in 1..Len(Front(s)) : Front(s)[i] = s[i] /\ i \in 1..Len(s)
<1>1. Len(s) \in Nat \ {0} /\ Len(Front(s)) = Len(s) - 1
  BY FrontOf
<1>2. PICK m : m \in Nat /\ m = Len(s) - 1
  BY <1>1
<1>3. \A i \in 1..m : SubSeq(s, 1, m)[i] = s[i]
  <2> SUFFICES ASSUME NEW i \in 1..m  PROVE SubSeq(s, 1, m)[i] = s[i]
    OBVIOUS
  <2>1. SubSeq(s, 1, m)[i] = s[1 + i - 1] /\ 1 + i - 1 = i
    BY <1>1, <1>2, SubSeqProperties
  <2> QED
    BY <2>1
<1>4. Front(s) = SubSeq(s, 1, m)
  BY <1>2 DEF Front
<1> QED
  BY <1>1, <1>2, <1>3, <1>4 DEF Last

LEMMA CalmFront ==
  ASSUME NEW S, NEW s \in Seq(S), s # <<>>, Calm(s)
  PROVE  Calm(Front(s)) /\ Last(s).type \in Silent
<1>1. /\ Len(s) \in Nat \ {0} /\ Len(Front(s)) = Len(s) - 1 /\ Last(s) = s[Len(s)]
      /\ \A i \in 1..Len(Front(s)) : Front(s)[i] = s[i] /\ i \in 1..Len(s)
  BY FrontIs
<1> QED
  BY <1>1 DEF Calm

LEMMA CalmAppend ==
  ASSUME NEW S, NEW s \in Seq(S), NEW r \in S, Calm(s)
  PROVE  /\ Carries(Append(s, r), r)
         /\ r.type \in Silent => Calm(Append(s, r))
<1>1. /\ Len(s) \in Nat /\ Len(Append(s, r)) = Len(s) + 1 /\ Append(s, r)[Len(s) + 1] = r
      /\ \A i \in 1..Len(Append(s, r)) : i # Len(s) + 1 => i \in 1..Len(s) /\ Append(s, r)[i] = s[i]
  OBVIOUS
<1>2. Len(s) + 1 \in 1..Len(Append(s, r))
  BY <1>1
<1> QED
  BY <1>1, <1>2 DEF Calm, Carries

LEMMA CarriesTail ==
  ASSUME NEW S, NEW s \in Seq(S), NEW r, Carries(s, r)
  PROVE  \/ Head(s) = r /\ Calm(Tail(s))
         \/ Head(s).type \in Silent /\ Carries(Tail(s), r)
<1>1. PICK k \in 1..Len(s) : s[k] = r /\ \A i \in 1..Len(s) : i # k => s[i].type \in Silent
  BY DEF Carries
<1>2. /\ Len(s) \in Nat /\ Len(s) # 0 /\ Len(Tail(s)) = Len(s) - 1 /\ Head(s) = s[1]
      /\ \A i \in 1..Len(Tail(s)) : Tail(s)[i] = s[i + 1] /\ i + 1 \in 1..Len(s)
  BY <1>1
<1>3. CASE k = 1
  BY <1>1, <1>2, <1>3 DEF Calm
<1>4. CASE k # 1
  <2>1. k - 1 \in 1..Len(Tail(s)) /\ Tail(s)[k - 1] = r /\ 1 \in 1..Len(s)
    BY <1>1, <1>2, <1>4
  <2>2. \A i \in 1..Len(Tail(s)) : i # k - 1 => Tail(s)[i].type \in Silent
    BY <1>1, <1>2
  <2> QED
    BY <1>1, <1>2, <1>4, <2>1, <2>2 DEF Carries
<1> QED
  BY <1>3, <1>4

LEMMA CarriesFront ==
  ASSUME NEW S, NEW s \in Seq(S), NEW r, Carries(s, r)
  PROVE  \/ Last(s) = r /\ Calm(Front(s))
         \/ Last(s).type \in Silent /\ Carries(Front(s), r)
<1>1. PICK k \in 1..Len(s) : s[k] = r /\ \A i \in 1..Len(s) : i # k => s[i].type \in Silent
  BY DEF Carries
<1>2. /\ Len(s) \in Nat /\ Len(s) # 0 /\ Len(Front(s)) = Len(s) - 1 /\ Last(s) = s[Len(s)]
      /\ \A i \in 1..Len(Front(s)) : Front(s)[i] = s[i] /\ i \in 1..Len(s)
  BY <1>1, FrontIs, EmptySeq
<1>3. CASE k = Len(s)
  BY <1>1, <1>2, <1>3 DEF Calm
<1>4. CASE k # Len(s)
  <2>1. k \in 1..Len(Front(s)) /\ Front(s)[k] = r /\ Len(s) \in 1..Len(s)
    BY <1>1, <1>2, <1>4
  <2> QED
    BY <1>1, <1>2, <1>4, <2>1 DEF Carries
<1> QED
  BY <1>3, <1>4

LEMMA CarriesAppend ==
  ASSUME NEW S, NEW s \in Seq(S), NEW x \in S, NEW r, Carries(s, r), x.type \in Silent
  PROVE  Carries(Append(s, x), r)
<1>1. PICK k \in 1..Len(s) : s[k] = r /\ \A i \in 1..Len(s) : i # k => s[i].type \in Silent
  BY DEF Carries
<1>2. /\ Len(s) \in Nat /\ Len(Append(s, x)) = Len(s) + 1 /\ Append(s, x)[Len(s) + 1] = x
      /\ \A i \in 1..Len(s) : Append(s, x)[i] = s[i]
  OBVIOUS
<1>3. k \in 1..Len(Append(s, x)) /\ Append(s, x)[k] = r
  BY <1>1, <1>2
<1>4. \A i \in 1..Len(Append(s, x)) : i # k => Append(s, x)[i].type \in Silent
  BY <1>1, <1>2
<1> QED
  BY <1>3, <1>4 DEF Carries

-----------------------------------------------------------------------------
(* The request of each step.                                               *)

IsFor(r, c) ==
  LET o  == Op(c)
      at == step[c]
  IN  \/ o.kind = "PUT" /\ at = "BEGIN" /\ r.type = "PUT_BEGIN" /\ r.path = o.path
      \/ /\ o.kind = "PUT" /\ at = "DATA" /\ r.type = "PUT_DATA"
         /\ r.offset = offset[c] /\ r.chunk = o.data[offset[c] + 1]
      \/ o.kind = "PUT" /\ at = "END" /\ r.type = "PUT_END"
      \/ o.kind = "GET" /\ at = "BEGIN" /\ r.type = "GET_BEGIN" /\ r.path = o.path
      \/ o.kind = "GET" /\ at = "DATA" /\ r.type = "GET_DATA_REQ" /\ r.offset = offset[c]
      \/ o.kind = "GET" /\ at = "END" /\ r.type = "GET_END"
      \/ o.kind = "DIR" /\ at = "PAGE" /\ r.type = "DIR_LIST_DATA_REQ" /\ r.offset = offset[c]
      \/ /\ o.kind \in PathOps /\ at = o.kind /\ r.type = o.kind
         /\ r.path = o.path /\ r.target = o.target

LEMMA NowIs ==
  ASSUME ClientsAreSound, NEW c \in Clients, step[c] # "idle"
  PROVE  IsFor(Now(c), c) /\ Now(c) \in Asked
<1>1. opno[c] <= Len(script[c]) /\ Fits(Op(c), step[c], offset[c])
  BY DEF ClientsAreSound, ClientIsSound
<1>2. Asking(c) /\ Op(c).kind \in Kinds
  BY <1>1, AtAnOperation
<1>3. Now(c) \in Asked
  BY <1>1, <1>2, RequestIsAsked DEF Now
<1> DEFINE o == Op(c)
           at == step[c]
           off == offset[c]
           put_begin_req == [Packet(c, "PUT_BEGIN") EXCEPT !.path = o.path, !.size = Len(o.data)]
           put_data_req  == [Packet(c, "PUT_DATA") EXCEPT !.offset = off,
                                                          !.chunk = o.data[off + 1]]
           put_end_req   == [Packet(c, "PUT_END") EXCEPT !.size = Len(o.data)]
           get_begin_req == [Packet(c, "GET_BEGIN") EXCEPT !.path = o.path]
           get_data      == [Packet(c, "GET_DATA_REQ") EXCEPT !.offset = off]
           get_end_req   == Packet(c, "GET_END")
           page_req      == [Packet(c, "DIR_LIST_DATA_REQ") EXCEPT !.offset = off]
           path_req      == [Packet(c, o.kind) EXCEPT !.path = o.path, !.target = o.target,
                                                      !.is_dir = o.is_dir]
<1>4. Now(c) =
        CASE o.kind = "PUT" /\ at = "BEGIN" -> put_begin_req
          [] o.kind = "PUT" /\ at = "DATA"  -> put_data_req
          [] o.kind = "PUT" /\ at = "END"   -> put_end_req
          [] o.kind = "GET" /\ at = "BEGIN" -> get_begin_req
          [] o.kind = "GET" /\ at = "DATA"  -> get_data
          [] o.kind = "GET" /\ at = "END"   -> get_end_req
          [] o.kind = "DIR"                 -> page_req
          [] o.kind \in PathOps             -> path_req
  BY Zenon DEF Now, RequestFor
<1>5. /\ put_begin_req.type = "PUT_BEGIN" /\ put_begin_req.path = o.path
      /\ put_data_req.type = "PUT_DATA" /\ put_data_req.offset = off
      /\ put_data_req.chunk = o.data[off + 1] /\ put_end_req.type = "PUT_END"
      /\ get_begin_req.type = "GET_BEGIN" /\ get_begin_req.path = o.path
      /\ get_data.type = "GET_DATA_REQ" /\ get_data.offset = off /\ get_end_req.type = "GET_END"
      /\ page_req.type = "DIR_LIST_DATA_REQ" /\ page_req.offset = off
      /\ path_req.type = o.kind /\ path_req.path = o.path /\ path_req.target = o.target
  BY DEF Packet
<1>6. o.kind \in {"PUT", "GET"} => at \in {"BEGIN", "DATA", "END"}
  BY <1>1 DEF Fits
<1>7. /\ o.kind = "DIR" => at = "PAGE"
      /\ o.kind \in PathOps => at = o.kind
      /\ {"PUT", "GET", "DIR"} \cap PathOps = {}
  BY <1>1 DEF Fits, PathOps
<1>8. o.kind \in {"PUT", "GET", "DIR"} \cup PathOps
  BY <1>2 DEF Kinds
<1>9. IsFor(Now(c), c) <=>
        \/ o.kind = "PUT" /\ at = "BEGIN" /\ Now(c).type = "PUT_BEGIN" /\ Now(c).path = o.path
        \/ /\ o.kind = "PUT" /\ at = "DATA" /\ Now(c).type = "PUT_DATA"
           /\ Now(c).offset = off /\ Now(c).chunk = o.data[off + 1]
        \/ o.kind = "PUT" /\ at = "END" /\ Now(c).type = "PUT_END"
        \/ o.kind = "GET" /\ at = "BEGIN" /\ Now(c).type = "GET_BEGIN" /\ Now(c).path = o.path
        \/ o.kind = "GET" /\ at = "DATA" /\ Now(c).type = "GET_DATA_REQ" /\ Now(c).offset = off
        \/ o.kind = "GET" /\ at = "END" /\ Now(c).type = "GET_END"
        \/ o.kind = "DIR" /\ at = "PAGE" /\ Now(c).type = "DIR_LIST_DATA_REQ" /\ Now(c).offset = off
        \/ /\ o.kind \in PathOps /\ at = o.kind /\ Now(c).type = o.kind
           /\ Now(c).path = o.path /\ Now(c).target = o.target
  BY Zenon DEF IsFor
<1> HIDE DEF o, at, off, put_begin_req, put_data_req, put_end_req, get_begin_req, get_data,
             get_end_req, page_req, path_req
<1> QED
  BY <1>3, <1>4, <1>5, <1>6, <1>7, <1>8, <1>9, SMTT(30)

-----------------------------------------------------------------------------
(* Steps that leave what is held and done of the request as it is.         *)

(* What g_file has of the request, and what it knows of the open file. *)
KeepsRequest ==
  /\ g_file'.filename = g_file.filename /\ g_file'.target = g_file.target
  /\ g_file'.chunk_offset = g_file.chunk_offset /\ g_file'.chunk_count = g_file.chunk_count
  /\ g_file'.chunk = g_file.chunk /\ g_file'.dir_start_index = g_file.dir_start_index
  /\ g_file'.ack_offset = g_file.ack_offset
KeepsFile == g_file'.handle = g_file.handle /\ g_file'.expected_offset = g_file.expected_offset

LEMMA SameOperation ==
  ASSUME NEW c, UNCHANGED <<script, opno>>
  PROVE  Op(c)' = Op(c) /\ Session(c)' = Session(c) /\ Id(c)' = Id(c)
BY DEF Op, Session, Id

LEMMA SameRequest ==
  ASSUME NEW c, UNCHANGED <<script, opno, step, offset>>
  PROVE  Now(c)' = Now(c)
<1>1. Op(c)' = Op(c) /\ Session(c)' = Session(c) /\ Id(c)' = Id(c)
  BY SameOperation
<1> QED
  BY <1>1 DEF Now, RequestFor, Packet

LEMMA ReportStands ==
  ASSUME NEW c, UNCHANGED <<client, files, dirs, faults>>
  PROVE  /\ DiskIs(c) => DiskIs(c)'
         /\ Reported(c) => Reported(c)'
BY DEF client, DiskIs, Changed, AsAtFirst, Reported, TookEffect, Exists

LEMMA OperationStands ==
  ASSUME NEW c, UNCHANGED <<client, dos, call, returned, carry, ax>>, KeepsFile, OperationIs(c)
  PROVE  OperationIs(c)'
<1>1. Op(c)' = Op(c)
  BY SameOperation DEF client
<1> QED
  BY <1>1 DEF client, dos, KeepsFile, OperationIs, GetGot, DirGot, PutIs, WasWritten

LEMMA RunningStands ==
  ASSUME NEW c, UNCHANGED <<client, dos, op, call, returned, bx, carry, ax, local>>,
         KeepsRequest, KeepsFile
  PROVE  /\ Running(c) => Running(c)'
         /\ \A n : Holds(c, n) => Holds(c, n)'
         /\ \A r : ReplyFits(c, r) => ReplyFits(c, r)'
<1>1. Op(c)' = Op(c) /\ Now(c)' = Now(c)
  BY SameOperation, SameRequest DEF client
<1>2. TookEffect(Op(c))' = TookEffect(Op(c))
  BY <1>1 DEF dos, TookEffect, Exists
<1>3. \A n : Holds(c, n) => Holds(c, n)'
  BY <1>1 DEF client, KeepsRequest, KeepsFile, Holds
<1>4. \A r : ReplyFits(c, r) => ReplyFits(c, r)'
  BY <1>1, <1>2 DEF client, dos, KeepsFile, ReplyFits, IsAt
<1>5. /\ GetBegins(c) => GetBegins(c)'
      /\ GetReads(c) => GetReads(c)'
      /\ Lists(c) => Lists(c)'
      /\ PutBegins(c) => PutBegins(c)'
      /\ CopyWrites(c) => CopyWrites(c)'
  <2>1. GetBegins(c) => GetBegins(c)'
    BY <1>1 DEF dos, KeepsRequest, KeepsFile, GetBegins
  <2>2. GetReads(c) => GetReads(c)'
    BY <1>1 DEF client, dos, KeepsRequest, KeepsFile, GetReads
  <2>3. Lists(c) => Lists(c)'
    BY DEF client, KeepsRequest, Lists, FirstListing
  <2>4. PutBegins(c) => PutBegins(c)'
    BY <1>1 DEF dos, KeepsRequest, PutBegins, IsAt
  <2>5. CopyWrites(c) => CopyWrites(c)'
    BY <1>1 DEF dos, KeepsRequest, CopyWrites
  <2> QED
    BY <2>1, <2>2, <2>3, <2>4, <2>5
<1>6. Copies(c) => Copies(c)'
  <2>1. UNCHANGED <<files, open, call, returned, carry, ax, local>>
        /\ Op(c)' = Op(c) /\ g_file'.chunk = g_file.chunk
    BY <1>1 DEF dos, KeepsRequest
  <2>2. \A h, p, i : IsAt(h, p, i)' <=> IsAt(h, p, i)
    BY <2>1 DEF IsAt
  <2> QED
    BY <2>1, <2>2, SMTT(30) DEF Copies
<1>7. Running(c) => Running(c)'
  <2> SUFFICES ASSUME Running(c)  PROVE Running(c)'
    OBVIOUS
  <2>1. Holds(c, op)'
    BY <1>3 DEF Running
  <2> QED
    BY <1>1, <1>2, <1>5, <1>6, <2>1 DEF Running, client, dos, KeepsFile
<1> QED
  BY <1>3, <1>4, <1>7

-----------------------------------------------------------------------------
(* Reception, losses and the packet handlers.                              *)

(* Steps that only move packets. *)
OnlyMoves ==
  /\ UNCHANGED <<client, dos, op, call, returned, bx, carry, ax, local>>
  /\ KeepsRequest /\ KeepsFile

LEMMA PlaceStands ==
  ASSUME NEW c, OnlyMoves, g_file'.pending_op = g_file.pending_op,
         toClient'[c] = toClient[c]
  PROVE  /\ Now(c)' = Now(c) /\ step' = step
         /\ NotServed => NotServed'
         /\ NoRequest' => /\ Resting(c) => Resting(c)'
                          /\ Taken(c) => Taken(c)'
                          /\ AtDos(c) => AtDos(c)'
                          /\ Answered(c) => Answered(c)'
<1>1. Now(c)' = Now(c) /\ step' = step
  BY SameRequest DEF OnlyMoves, client
<1>2. NotServed => NotServed'
  BY DEF OnlyMoves, NotServed
<1>3. /\ Running(c) => Running(c)'
      /\ \A n : Holds(c, n) => Holds(c, n)'
      /\ \A r : ReplyFits(c, r) => ReplyFits(c, r)'
  BY RunningStands DEF OnlyMoves
<1>4. Pending(c) => Pending(c)'
  BY <1>1, <1>3 DEF Pending
<1>5. Reply(c)' = Reply(c)
  BY DEF Reply
<1> QED
  BY <1>1, <1>2, <1>3, <1>4, <1>5 DEF Resting, Taken, AtDos, Answered, OnlyMoves

LEMMA MovesKeep ==
  ASSUME NEW c, OneHostAt(c), OnlyMoves, InOnePlace(c)'
  PROVE  OneHostAt(c)'
<1>1. OperationIs(c)' /\ DiskIs(c)' /\ Reported(c)'
  BY OperationStands, ReportStands DEF OneHostAt, OnlyMoves, dos
<1> QED
  BY <1>1 DEF OneHostAt, OnlyMoves

LEMMA ReceptionKeeps ==
  ASSUME RequestsAreSound, NEW c \in Clients, OneHostAt(c), UNCHANGED client,
         Receive \/ TickBegin
  PROVE  OneHostAt(c)'
<1>1. OnlyMoves /\ UNCHANGED <<g_file, toClient>>
  BY DEF Receive, TickBegin, OnlyMoves, KeepsRequest, KeepsFile, wire
<1>2. InOnePlace(c)'
  <2>1. /\ Now(c)' = Now(c) /\ step' = step
        /\ NotServed => NotServed'
        /\ NoRequest' => /\ Resting(c) => Resting(c)'
                         /\ Taken(c) => Taken(c)'
                         /\ AtDos(c) => AtDos(c)'
                         /\ Answered(c) => Answered(c)'
    BY <1>1, PlaceStands
  <2>2. CASE TickBegin
    <3>1. UNCHANGED <<toServer, ready>>
      BY <2>2 DEF TickBegin, wire
    <3>2. NoRequest' = NoRequest /\ Calm(toServer)' = Calm(toServer) /\ Calm(ready)' = Calm(ready)
      BY <3>1 DEF NoRequest, Calm
    <3> QED
      BY <1>1, <2>1, <3>1, <3>2
      DEF OneHostAt, InOnePlace, OnWire, InPool, Resting, Taken, AtDos, Answered
  <2>3. CASE Receive
    <3>1. /\ toServer # <<>> /\ toServer \in Seq(Asked) /\ ready \in Seq(Asked)
          /\ Head(toServer) \in Asked /\ toServer' = Tail(toServer)
          /\ ready' = ready \/ ready' = Append(ready, Head(toServer))
      BY <2>3, HeadTailProperties DEF Receive, RequestsAreSound
    <3>2. ASSUME Calm(toServer)  PROVE Calm(toServer)' /\ Head(toServer).type \in Silent
      <4>1. Calm(Tail(toServer)) /\ Head(toServer).type \in Silent
        BY <3>1, <3>2, CalmTail
      <4> QED
        BY <3>1, <4>1
    <3>3. ASSUME Head(toServer).type \in Silent
          PROVE  /\ Calm(ready) => Calm(ready)'
                 /\ \A r : Carries(ready, r) => Carries(ready', r)
      <4>1. Calm(ready) => Calm(Append(ready, Head(toServer)))
        BY <3>1, <3>3, CalmAppend
      <4>2. \A r : Carries(ready, r) => Carries(Append(ready, Head(toServer)), r)
        BY <3>1, <3>3, CarriesAppend
      <4> QED
        BY <3>1, <4>1, <4>2
    <3>4. ASSUME NoRequest  PROVE NoRequest'
      BY <3>2, <3>3, <3>4 DEF NoRequest
    <3>5. ASSUME OnWire(c)  PROVE OnWire(c)' \/ InPool(c)' \/ Resting(c)'
      <4>1. \/ Head(toServer) = Now(c) /\ Calm(toServer)'
            \/ Head(toServer).type \in Silent /\ Carries(toServer', Now(c))
        BY <3>1, <3>5, CarriesTail DEF OnWire
      <4>2. CASE Head(toServer) = Now(c) /\ Calm(toServer)'
        <5>1. Carries(Append(ready, Head(toServer)), Now(c))
          BY <3>1, <3>5, <4>2, CalmAppend DEF OnWire
        <5>2. Calm(ready)' \/ Carries(ready', Now(c)')
          BY <2>1, <3>1, <3>5, <5>1 DEF OnWire
        <5> QED
          BY <1>1, <2>1, <3>5, <4>2, <5>2 DEF OnWire, InPool, Resting, NoRequest
      <4>3. CASE Head(toServer).type \in Silent /\ Carries(toServer', Now(c))
        BY <1>1, <2>1, <3>3, <3>5, <4>3 DEF OnWire
      <4> QED
        BY <4>1, <4>2, <4>3
    <3>6. ASSUME InPool(c)  PROVE InPool(c)'
      BY <1>1, <2>1, <3>2, <3>3, <3>6 DEF InPool
    <3> QED
      BY <2>1, <3>4, <3>5, <3>6 DEF OneHostAt, InOnePlace, Resting, Taken, AtDos, Answered
  <2> QED
    BY <2>2, <2>3
<1> QED
  BY <1>1, <1>2, MovesKeep

(* A frame that the LAN loses. *)
LEMMA LosingKeeps ==
  ASSUME OneHost, RequestsAreSound, RepliesAreSound, NEW c \in Clients, OneHostAt(c), Lose
  PROVE  OneHostAt(c)'
<1>1. OnlyMoves /\ UNCHANGED <<g_file, ready>>
  BY DEF Lose, OnlyMoves, KeepsRequest, KeepsFile, server, dos
<1>2. InOnePlace(c)'
  <2>1. CASE LoseRequest
    <3>1. /\ toServer # <<>> /\ toServer \in Seq(Asked) /\ toServer' = Tail(toServer)
          /\ UNCHANGED toClient
      BY <2>1 DEF LoseRequest, RequestsAreSound
    <3>2. /\ Now(c)' = Now(c) /\ step' = step
          /\ NotServed => NotServed'
          /\ NoRequest' => /\ Resting(c) => Resting(c)'
                           /\ Taken(c) => Taken(c)'
                           /\ AtDos(c) => AtDos(c)'
                           /\ Answered(c) => Answered(c)'
      BY <1>1, <3>1, PlaceStands
    <3>3. Calm(ready)' = Calm(ready)
      BY <1>1 DEF Calm
    <3>4. Calm(toServer) => Calm(toServer)'
      <4>1. Calm(toServer) => Calm(Tail(toServer))
        BY <3>1, CalmTail
      <4> QED
        BY <3>1, <4>1
    <3>5. ASSUME OnWire(c)  PROVE OnWire(c)' \/ Resting(c)'
      <4>1. Calm(toServer)' \/ Carries(toServer', Now(c))
        BY <3>1, <3>5, CarriesTail DEF OnWire
      <4> QED
        BY <3>1, <3>2, <3>3, <3>5, <4>1 DEF OnWire, Resting, NoRequest
    <3>6. ASSUME InPool(c)  PROVE InPool(c)'
      BY <1>1, <3>1, <3>2, <3>4, <3>6 DEF InPool
    <3> QED
      BY <3>2, <3>3, <3>4, <3>5, <3>6
      DEF OneHostAt, InOnePlace, Resting, Taken, AtDos, Answered, NoRequest
  <2>2. CASE \E d \in Clients : LoseReply(d)
    <3>1. /\ toClient[c] # <<>> /\ toClient' = [toClient EXCEPT ![c] = Tail(@)]
          /\ UNCHANGED toServer
      BY <2>2 DEF LoseReply, OneHost
    <3>2. toClient'[c] = Tail(toClient[c])
      BY <3>1 DEF RepliesAreSound
    <3>3. Answered(c)
      BY <3>1 DEF OneHostAt, InOnePlace, Resting, OnWire, InPool, Taken, AtDos
    <3>4. NoRequest' /\ NotServed'
      BY <1>1, <3>1, <3>3 DEF Answered, NoRequest, Calm, NotServed, OnlyMoves
    <3> QED
      BY <3>2, <3>3, <3>4 DEF Answered, InOnePlace, Resting
  <2> QED
    BY <2>1, <2>2 DEF Lose
<1> QED
  BY <1>1, <1>2, MovesKeep

(* A packet that nobody answers changes nothing of the request.            *)
LEMMA SilentIsHandled ==
  ASSUME file_transfer_handle_packet, packet.type \in Silent
  PROVE  /\ KeepsRequest /\ KeepsFile /\ g_file'.pending_op = g_file.pending_op
<1> USE DEF Handled, remember_client, KeepsRequest, KeepsFile
<1>1. CASE dir_list_begin
  BY <1>1 DEF dir_list_begin
<1>2. CASE dir_list_end
  BY <1>2 DEF dir_list_end
<1>3. CASE Drop
  BY <1>3 DEF Drop
<1>4. packet.type \notin {"PUT_BEGIN", "PUT_DATA", "PUT_END", "GET_BEGIN", "GET_DATA_REQ",
                          "GET_END", "DIR_LIST_DATA_REQ"} \cup PathOps
  BY DEF Silent, PathOps
<1> QED
  BY <1>1, <1>2, <1>3, <1>4
  DEF file_transfer_handle_packet, Accepts, put_begin, queue_ack, put_data, put_end, get_begin,
      get_data_req, get_end, dir_list_data_req, path_op

(* A request is dropped, or it is pending. *)
LEMMA RequestIsHandled ==
  ASSUME ClientsAreSound, NEW c \in Clients, step[c] # "idle", UNCHANGED client,
         file_transfer_handle_packet, packet = Now(c), g_file.pending_op = "NONE"
  PROVE  /\ KeepsFile
         /\ Now(c)' = Now(c)
         /\ g_file' = g_file \/ Pending(c)'
<1>1. IsFor(packet, c)
  BY NowIs
<1>2. Op(c)' = Op(c) /\ Now(c)' = packet /\ UNCHANGED <<step, offset>>
  BY SameOperation, SameRequest DEF client
<1>3. /\ packet.type \in {"PUT_BEGIN", "GET_BEGIN"} \cup PathOps => packet.path = Op(c).path
      /\ packet.type \in {"RENAME", "COPY"} => packet.target = Op(c).target
      /\ packet.type \in {"PUT_DATA", "GET_DATA_REQ", "DIR_LIST_DATA_REQ"}
           => packet.offset = offset[c]
      /\ packet.type = "PUT_DATA" => packet.chunk = Op(c).data[offset[c] + 1]
      /\ packet.type \notin Silent
  BY <1>1 DEF IsFor, PathOps, Silent
<1> SUFFICES KeepsFile /\ (g_file' = g_file \/ Pending(c)')
  BY <1>2
<1> DEFINE n == g_file'.pending_op
<1>4. \A m : (Holds(c, m)' <=>
        /\ m \in {"PUT_BEGIN", "GET_BEGIN"} \cup PathOps => g_file'.filename = Op(c).path
        /\ m \in {"RENAME", "COPY"} => g_file'.target = Op(c).target
        /\ m \in {"PUT_DATA", "GET_DATA_REQ"}
             => g_file'.chunk_offset = offset[c] /\ g_file'.chunk_count = 1
        /\ m = "PUT_DATA" => g_file'.chunk = Op(c).data[offset[c] + 1]
        /\ m = "DIR_LIST_DATA_REQ" => g_file'.dir_start_index = offset[c]
        /\ m = "ACK" => g_file'.ack_offset = g_file'.expected_offset)
  BY <1>2 DEF Holds
<1>5. ASSUME NEW m, n = m, Holds(c, m)',
             m = packet.type \/ (m = "ACK" /\ packet.type = "PUT_DATA")
      PROVE  Pending(c)'
  BY <1>2, <1>5 DEF Pending
<1> USE DEF Handled, remember_client, Accepts, KeepsFile
<1>6. CASE put_begin
  <2>1. KeepsFile /\ n = "PUT_BEGIN" /\ packet.type = n /\ g_file'.filename = packet.path
    BY <1>6 DEF put_begin
  <2> QED
    BY <1>3, <1>4, <1>5, <2>1 DEF PathOps
<1>7. CASE queue_ack
  <2>1. /\ KeepsFile /\ n = "ACK" /\ packet.type = "PUT_DATA"
        /\ g_file'.ack_offset = g_file.expected_offset
    BY <1>7 DEF queue_ack
  <2> QED
    BY <1>3, <1>4, <1>5, <2>1 DEF PathOps
<1>8. CASE put_data
  <2>1. /\ KeepsFile
        /\ n = "PUT_DATA" /\ packet.type = n /\ g_file'.chunk_offset = packet.offset
        /\ g_file'.chunk_count = 1 /\ g_file'.chunk = packet.chunk
    BY <1>8 DEF put_data
  <2> QED
    BY <1>3, <1>4, <1>5, <2>1 DEF PathOps
<1>9. CASE put_end
  <2>1. KeepsFile /\ n = "PUT_END" /\ packet.type = n
    BY <1>9 DEF put_end
  <2> QED
    BY <1>3, <1>4, <1>5, <2>1 DEF PathOps
<1>10. CASE get_begin
  <2>1. KeepsFile /\ n = "GET_BEGIN" /\ packet.type = n /\ g_file'.filename = packet.path
    BY <1>10 DEF get_begin
  <2> QED
    BY <1>3, <1>4, <1>5, <2>1 DEF PathOps
<1>11. CASE get_data_req
  <2>1. /\ KeepsFile
        /\ n = "GET_DATA_REQ" /\ packet.type = n /\ g_file'.chunk_offset = packet.offset
        /\ g_file'.chunk_count = 1
    BY <1>11 DEF get_data_req
  <2> QED
    BY <1>3, <1>4, <1>5, <2>1 DEF PathOps
<1>12. CASE get_end
  <2>1. KeepsFile /\ n = "GET_END" /\ packet.type = n
    BY <1>12 DEF get_end
  <2> QED
    BY <1>3, <1>4, <1>5, <2>1 DEF PathOps
<1>13. CASE dir_list_begin \/ dir_list_end
  BY <1>3, <1>13 DEF dir_list_begin, dir_list_end, Silent
<1>14. CASE dir_list_data_req
  <2>1. /\ KeepsFile /\ n = "DIR_LIST_DATA_REQ" /\ packet.type = n
        /\ g_file'.dir_start_index = packet.offset
    BY <1>14 DEF dir_list_data_req
  <2> QED
    BY <1>3, <1>4, <1>5, <2>1 DEF PathOps
<1>15. CASE path_op
  <2>1. /\ KeepsFile
        /\ packet.type \in PathOps /\ n = packet.type /\ g_file'.filename = packet.path
        /\ n \in {"RENAME", "COPY"} => g_file'.target = packet.target
    BY <1>15 DEF path_op
  <2>2. n \notin {"PUT_BEGIN", "GET_BEGIN", "PUT_DATA", "GET_DATA_REQ", "DIR_LIST_DATA_REQ", "ACK"}
    BY <2>1 DEF PathOps
  <2> QED
    BY <1>3, <1>4, <1>5, <2>1, <2>2
<1>16. CASE Drop
  BY <1>16 DEF Drop
<1> QED
  BY <1>6, <1>7, <1>8, <1>9, <1>10, <1>11, <1>12, <1>13, <1>14, <1>15, <1>16
  DEF file_transfer_handle_packet

LEMMA HandlersKeep ==
  ASSUME RequestsAreSound, ClientsAreSound, NEW c \in Clients, OneHostAt(c), UNCHANGED client,
         file_transfer_handle_packet
  PROVE  OneHostAt(c)'
<1>1. /\ ready # <<>> /\ ready \in Seq(Asked) /\ ready' = Front(ready)
      /\ UNCHANGED <<wire, op, call, returned, bx, carry, ax, local, dos>>
  BY HandlersLeave DEF RequestsAreSound
<1>2. UNCHANGED <<toServer, toClient>> /\ Calm(toServer)' = Calm(toServer)
  BY <1>1 DEF wire, Calm
<1>3. Calm(ready) => Calm(ready)' /\ packet.type \in Silent
  <2>1. Calm(ready) => Calm(Front(ready)) /\ Last(ready).type \in Silent
    BY <1>1, CalmFront
  <2> QED
    BY <1>1, <2>1 DEF packet
<1>4. CASE packet.type \in Silent
  <2>1. OnlyMoves /\ g_file'.pending_op = g_file.pending_op
    BY <1>1, <1>4, SilentIsHandled DEF OnlyMoves
  <2>2. /\ Now(c)' = Now(c) /\ step' = step
        /\ NotServed => NotServed'
        /\ NoRequest' => /\ Resting(c) => Resting(c)'
                         /\ Taken(c) => Taken(c)'
                         /\ AtDos(c) => AtDos(c)'
                         /\ Answered(c) => Answered(c)'
    BY <1>2, <2>1, PlaceStands
  <2>3. NoRequest => NoRequest'
    BY <1>2, <1>3 DEF NoRequest
  <2>4. ASSUME OnWire(c)  PROVE OnWire(c)'
    BY <1>2, <1>3, <2>2, <2>4 DEF OnWire
  <2>5. ASSUME InPool(c)  PROVE InPool(c)' \/ Resting(c)'
    <3>1. Calm(ready)' \/ Carries(ready', Now(c))
      BY <1>1, <2>5, CarriesFront DEF InPool
    <3> QED
      BY <1>2, <2>2, <2>5, <3>1 DEF InPool, Resting, NoRequest
  <2>6. InOnePlace(c)'
    BY <2>2, <2>3, <2>4, <2>5 DEF OneHostAt, InOnePlace, Resting, Taken, AtDos, Answered
  <2> QED
    BY <2>1, <2>6, MovesKeep
<1>5. CASE packet.type \notin Silent
  <2>1. step[c] # "idle" /\ InPool(c)
    BY <1>3, <1>5
    DEF OneHostAt, InOnePlace, Resting, OnWire, Taken, AtDos, Answered, NoRequest
  <2>2. packet = Now(c) /\ Calm(ready)'
    BY <1>1, <1>5, <2>1, CarriesFront DEF InPool, packet
  <2>3. g_file.pending_op = "NONE" /\ op = "NONE"
    BY <2>1 DEF InPool, NotServed
  <2>4. KeepsFile /\ (g_file' = g_file \/ Pending(c)')
    BY <2>1, <2>2, <2>3, RequestIsHandled
  <2>5. InOnePlace(c)'
    BY <1>1, <1>2, <2>1, <2>2, <2>3, <2>4
    DEF InPool, InOnePlace, Resting, Taken, NoRequest, NotServed, client
  <2>6. OperationIs(c)' /\ DiskIs(c)' /\ Reported(c)'
    BY <1>1, <2>4, OperationStands, ReportStands DEF OneHostAt, dos
  <2> QED
    BY <1>1, <2>5, <2>6 DEF OneHostAt
<1> QED
  BY <1>4, <1>5

-----------------------------------------------------------------------------
(* DOS: what its calls change on the disk.                                 *)

(* Which operation is asked for, by the type of its request. *)
LEMMA KindIs ==
  ASSUME ClientsAreSound, NEW c \in Clients, step[c] # "idle"
  PROVE  LET t == Now(c).type
             k == Op(c).kind
         IN  /\ t \in {"PUT_BEGIN", "PUT_DATA", "PUT_END"} <=> k = "PUT"
             /\ t \in {"GET_BEGIN", "GET_DATA_REQ", "GET_END"} <=> k = "GET"
             /\ t = "DIR_LIST_DATA_REQ" <=> k = "DIR"
             /\ t \in PathOps <=> k \in PathOps
             /\ t \in PathOps => k = t /\ step[c] = t
             /\ t = "DIR_LIST_DATA_REQ" => step[c] = "PAGE"
             /\ k \in {"PUT", "GET"} =>
                  /\ step[c] = "BEGIN" <=> t \in {"PUT_BEGIN", "GET_BEGIN"}
                  /\ step[c] = "DATA" <=> t \in {"PUT_DATA", "GET_DATA_REQ"}
                  /\ step[c] = "END" <=> t \in {"PUT_END", "GET_END"}
             /\ t \in {"PUT_BEGIN", "PUT_DATA", "PUT_END", "GET_BEGIN", "GET_DATA_REQ",
                       "GET_END", "DIR_LIST_DATA_REQ"} \cup PathOps
<1>1. IsFor(Now(c), c)
  BY NowIs
<1> QED
  BY <1>1 DEF IsFor, PathOps

LEMMA ScriptIs ==
  ASSUME ClientsAreSound, NEW c \in Clients, step[c] # "idle"
  PROVE  /\ script \in Scripts /\ Len(script[c]) \in Nat /\ opno[c] \in 1..Len(script[c])
         /\ Op(c) \in Operation /\ Op(c) = script[c][opno[c]]
         /\ Changes(Op(c)) \subseteq Changed(c)
<1>1. /\ script \in Scripts /\ script[c] \in Seq(Operation) /\ opno[c] \in Nat \ {0}
      /\ opno[c] <= Len(script[c])
  BY FileClientAssumption DEF ClientsAreSound, ClientIsSound
<1>2. Len(script[c]) \in Nat /\ opno[c] \in 1..Len(script[c])
  BY <1>1, LenProperties
<1>3. Op(c) \in Operation
  BY <1>1, AtAnOperation DEF Asking
<1>4. opno[c] \in {j \in 1..Len(script[c]) : j <= opno[c]}
  BY <1>1, <1>2
<1>5. Changes(script[c][opno[c]]) \subseteq Changed(c)
  BY <1>4 DEF Changed
<1> QED
  BY <1>1, <1>2, <1>3, <1>5 DEF Op

(* Nothing but the names in N is changed. *)
OnlyChanges(N) ==
  \A f : f \notin N => /\ f \in DOMAIN files' <=> f \in DOMAIN files
                       /\ f \in dirs' <=> f \in dirs
                       /\ f \in DOMAIN files => files'[f] = files[f]

LEMMA DiskKept ==
  ASSUME ClientsAreSound, NEW c \in Clients, step[c] # "idle", UNCHANGED client, DiskIs(c),
         OnlyChanges(Changes(Op(c))), DOMAIN files' \cap dirs' = {}
  PROVE  DiskIs(c)'
<1>1. Changed(c)' = Changed(c)
  BY DEF Changed, client
<1>2. Changes(Op(c)) \subseteq Changed(c)
  BY ScriptIs
<1>3. ASSUME NEW f \in DOMAIN files' \cup dirs' \cup DOMAIN InitFiles \cup InitDirs,
             f \notin Changed(c)
      PROVE  AsAtFirst(f)'
  <2>1. /\ f \in DOMAIN files' <=> f \in DOMAIN files
        /\ f \in dirs' <=> f \in dirs
        /\ f \in DOMAIN files => files'[f] = files[f]
    BY <1>2, <1>3 DEF OnlyChanges
  <2>2. AsAtFirst(f)
    BY <1>3, <2>1 DEF DiskIs
  <2> QED
    BY <2>1, <2>2 DEF AsAtFirst
<1> QED
  BY <1>1, <1>3 DEF DiskIs

(* What an operation has done is in the names it may change. *)
LEMMA EffectKept ==
  ASSUME NEW o, o.kind \in Kinds, NEW N, OnlyChanges(N), Changes(o) \cap N = {}, TookEffect(o)
  PROVE  TookEffect(o)'
<1>1. CASE o.kind \in {"GET", "DIR"}
  BY <1>1 DEF TookEffect
<1>2. CASE o.kind \in {"PUT", "MKDIR", "DELETE"}
  <2>1. o.path \notin N
    BY <1>2 DEF Changes
  <2>2. /\ o.path \in DOMAIN files' <=> o.path \in DOMAIN files
        /\ o.path \in dirs' <=> o.path \in dirs
        /\ o.path \in DOMAIN files => files'[o.path] = files[o.path]
    BY <2>1 DEF OnlyChanges
  <2> QED
    BY <1>2, <2>2 DEF TookEffect, Exists
<1>3. CASE o.kind = "RENAME"
  <2>1. o.path \notin N /\ o.target \notin N
    BY <1>3 DEF Changes
  <2>2. \A f \in {o.path, o.target} : /\ f \in DOMAIN files' <=> f \in DOMAIN files
                                      /\ f \in dirs' <=> f \in dirs
    BY <2>1 DEF OnlyChanges
  <2> QED
    BY <1>3, <2>2 DEF TookEffect, Exists
<1>4. CASE o.kind = "COPY"
  <2>1. o.target \notin N
    BY <1>4 DEF Changes
  <2>2. /\ o.target \in DOMAIN files' <=> o.target \in DOMAIN files
        /\ o.target \in DOMAIN files => files'[o.target] = files[o.target]
    BY <2>1 DEF OnlyChanges
  <2> QED
    BY <1>4, <2>2 DEF TookEffect
<1> QED
  BY <1>1, <1>2, <1>3, <1>4 DEF Kinds, PathOps

LEMMA ReportKept ==
  ASSUME ClientsAreSound, NEW c \in Clients, step[c] # "idle", UNCHANGED client, Reported(c),
         OnlyChanges(Changes(Op(c))), faults' = 0 => faults = 0
  PROVE  Reported(c)'
<1>1. /\ script \in Scripts /\ Len(script[c]) \in Nat /\ opno[c] \in 1..Len(script[c])
      /\ Op(c) = script[c][opno[c]]
  BY ScriptIs
<1>2. UNCHANGED <<script, results, opno, file_size>>
  BY DEF client
<1>3. /\ c \in DOMAIN results /\ c \in DOMAIN file_size
      /\ IsSeq(results[c]) /\ Len(results[c]) = opno[c] - 1
  BY DEF Reported
<1>4. ASSUME NEW i \in 1..Len(results[c]), Separate, TookEffect(script[c][i])
      PROVE  TookEffect(script[c][i])'
  <2>1. i \in 1..Len(script[c]) /\ i < opno[c]
    BY <1>1, <1>3
  <2>2. Changes(script[c][i]) \cap Changes(Op(c)) = {}
    BY <1>1, <1>4, <2>1 DEF Separate
  <2>3. script[c] \in Seq(Operation)
    BY <1>1, FileClientAssumption
  <2>4. script[c][i].kind \in Kinds
    <3>1. script[c][i] \in Operation
      BY <2>1, <2>3, ElementOfSeq
    <3> QED
      BY <3>1 DEF Operation
  <2>5. \A o : (o = script[c][i]) => TookEffect(o)'
    BY <1>4, <2>2, <2>4, EffectKept
  <2> QED
    BY <1>2, <2>5
<1> QED
  BY <1>2, <1>3, <1>4 DEF Reported

(* The ways each call can go. *)
LEMMA CallGoes ==
  ASSUME Dos
  PROVE  /\ call \in {"create", "copy_create"} => DosCreate \/ DosFails
         /\ call \in {"open_read", "copy_open"} => DosOpen \/ DosFails
         /\ call \in Closing => DosClose
         /\ call = "write" => DosWrite \/ DosBadHandle \/ DosFails
         /\ call = "copy_write" => DosWrite \/ DosFails
         /\ call = "read" => DosRead \/ DosBadHandle \/ DosFails
         /\ call = "copy_read" => DosRead \/ DosFails
         /\ call = "seek" => DosSeek \/ DosBadHandle \/ DosFails
         /\ call = "file_size" => DosFileSize \/ DosFails
         /\ call = "find" => DosFind \/ DosFails
         /\ call = "restore_dta" => DosRestoreDta
         /\ call \in PathCalls => DosPath \/ DosFails
<1>1. /\ DosCreate => call \in {"create", "copy_create"}
      /\ DosOpen => call \in {"open_read", "copy_open"}
      /\ DosClose => call \in Closing
      /\ DosWrite => call \in {"write", "copy_write"}
      /\ DosRead => call \in {"read", "copy_read"}
      /\ DosSeek => call = "seek"
      /\ DosFileSize => call = "file_size"
      /\ DosFind => call = "find"
      /\ DosRestoreDta => call = "restore_dta"
      /\ DosBadHandle => call \in {"write", "read", "seek"}
      /\ DosFails => call \notin Closing \cup {"restore_dta"}
  BY DEF Effect, DosCreate, DosOpen, DosClose, DosWrite, DosRead, DosSeek, DosFileSize, DosFind,
         DosRestoreDta, DosBadHandle, DosFails
<1>2. DosPath => call \in PathCalls
  BY DEF Effect, DosPath, PathCalls
<1> QED
  BY <1>1, <1>2 DEF Dos, Closing, PathCalls

(* The names a call may change. *)
Touched == CASE call \in {"create", "copy_create", "mkdir", "rmdir", "unlink"} -> {path}
             [] call = "rename" -> {path, g_file.target}
             [] call \in {"write", "copy_write"} /\ bx \in DOMAIN open -> {open[bx].file}
             [] OTHER -> {}

LEMMA DosTouches ==
  ASSUME Dos, DOMAIN files \cap dirs = {}, faults \in Nat
  PROVE  /\ OnlyChanges(Touched) /\ DOMAIN files' \cap dirs' = {}
         /\ faults' = 0 => faults = 0
<1> USE DEF Effect, Returns, OnlyChanges, dos
<1>1. CASE DosCreate
  <2> DEFINE Emptied == [f \in DOMAIN files \cup {path} |-> IF f = path THEN <<>> ELSE files[f]]
  <2>1. /\ call \in {"create", "copy_create"} /\ UNCHANGED <<dirs, faults>>
        /\ UNCHANGED files \/ (path \notin dirs /\ files' = Emptied)
    BY <1>1 DEF DosCreate, Opened
  <2>2. Touched = {path}
    BY <2>1 DEF Touched
  <2>3. CASE UNCHANGED files
    BY <2>1, <2>3
  <2>4. CASE path \notin dirs /\ files' = Emptied
    <3>1. /\ DOMAIN files' = DOMAIN files \cup {path}
          /\ \A f \in DOMAIN files : f # path => files'[f] = files[f]
      BY <2>4
    <3> QED
      BY <2>1, <2>2, <2>4, <3>1
  <2> QED
    BY <2>1, <2>3, <2>4
<1>2. CASE \/ DosOpen \/ DosClose \/ DosSeek \/ DosFileSize
           \/ DosFind \/ DosRestoreDta \/ DosBadHandle
  BY <1>2 DEF DosOpen, DosClose, DosSeek, DosFileSize, DosFind, DosRestoreDta, DosBadHandle
<1>3. CASE DosRead
  BY <1>3 DEF DosRead
<1>4. CASE DosWrite
  <2> DEFINE f == open[bx].file
  <2>1. PICK short \in BOOLEAN :
          /\ faults' = faults + (IF short THEN 1 ELSE 0)
          /\ files' = IF f \notin DOMAIN files THEN files ELSE
                        [files EXCEPT ![f] = Written(@, open[bx].pos,
                                                     IF short THEN Part ELSE g_file.chunk)]
    BY <1>4 DEF DosWrite
  <2>2. /\ call \in {"write", "copy_write"} /\ bx \in DOMAIN open /\ dirs' = dirs
    BY <1>4 DEF DosWrite
  <2>3. Touched = {f}
    BY <2>2 DEF Touched
  <2>4. faults' = 0 => faults = 0
    BY <2>1
  <2>5. /\ DOMAIN files' = DOMAIN files
        /\ \A x \in DOMAIN files : x # f => files'[x] = files[x]
    BY <2>1
  <2> QED
    BY <2>2, <2>3, <2>4, <2>5
<1>5. CASE DosPath
  <2>1. faults' = faults
    BY <1>5 DEF DosPath
  <2>2. CASE call \in {"mkdir", "rmdir"}
    <3>1. Touched = {path} /\ UNCHANGED files
      BY <1>5, <2>2 DEF Touched, DosPath
    <3>2. /\ dirs' = dirs \/ dirs' = dirs \ {path}
             \/ (path \notin DOMAIN files /\ dirs' = dirs \cup {path})
      BY <1>5, <2>2 DEF DosPath, Exists
    <3> QED
      BY <2>1, <3>1, <3>2
  <2>3. CASE call = "unlink"
    <3>1. /\ Touched = {path} /\ UNCHANGED dirs
          /\ files' = [f \in DOMAIN files \ {path} |-> files[f]]
      BY <1>5, <2>3 DEF Touched, DosPath
    <3> QED
      BY <2>1, <3>1
  <2>4. CASE call = "rename"
    <3> DEFINE t == g_file.target
               Renamed == /\ Exists(path) /\ ~Exists(t)
                          /\ files' = [f \in {IF x = path THEN t ELSE x : x \in DOMAIN files}
                                         |-> IF f = t THEN files[path] ELSE files[f]]
                          /\ dirs' = {IF d = path THEN t ELSE d : d \in dirs}
    <3>1. Touched = {path, t} /\ (Renamed \/ UNCHANGED <<files, dirs>>)
      BY <1>5, <2>4 DEF Touched, DosPath
    <3>2. CASE Renamed
      <4>1. \A f : f \notin {path, t} => /\ f \in DOMAIN files' <=> f \in DOMAIN files
                                         /\ f \in dirs' <=> f \in dirs
                                         /\ f \in DOMAIN files => files'[f] = files[f]
        BY <3>2
      <4>2. t \in DOMAIN files' => path \in DOMAIN files
        BY <3>2 DEF Exists
      <4>3. t \in dirs' => path \in dirs
        BY <3>2 DEF Exists
      <4>4. path # t => path \notin DOMAIN files' /\ path \notin dirs'
        BY <3>2
      <4> QED
        BY <2>1, <3>1, <4>1, <4>2, <4>3, <4>4
    <3> QED
      BY <2>1, <3>1, <3>2
  <2> QED
    BY <1>5, <2>2, <2>3, <2>4 DEF DosPath
<1>6. CASE DosFails
  BY <1>6 DEF DosFails
<1> QED
  BY <1>1, <1>2, <1>3, <1>4, <1>5, <1>6 DEF Dos

(* While DOS executes a call, it is one of the client's request. *)
LEMMA AtDosNow ==
  ASSUME HandleIInv, NEW c \in Clients, OneHostAt(c), call # "none"
  PROVE  AtDos(c) /\ step[c] # "idle"
<1>1. op # "NONE"
  BY DEF HandleIInv, CallsOf
<1> QED
  BY <1>1 DEF OneHostAt, InOnePlace, Resting, OnWire, InPool, Taken, Answered, NotServed

LEMMA TouchesItsOwn ==
  ASSUME HandleIInv, ClientsAreSound, NEW c \in Clients, OneHostAt(c), call # "none"
  PROVE  Touched \subseteq Changes(Op(c))
<1>1. AtDos(c) /\ step[c] # "idle"
  BY AtDosNow
<1>2. /\ op = Now(c).type /\ call \in CallsIn(op) /\ Holds(c, op)
      /\ op = "COPY" => CopyWrites(c)
  BY <1>1 DEF AtDos, Running
<1> DEFINE k == Op(c).kind
<1>3. /\ op \in {"PUT_BEGIN", "PUT_DATA", "PUT_END"} <=> k = "PUT"
      /\ op = "PUT_DATA" => step[c] = "DATA"
      /\ op \in PathOps => k = op
      /\ op \in {"PUT_BEGIN", "PUT_DATA", "PUT_END", "GET_BEGIN", "GET_DATA_REQ",
                 "GET_END", "DIR_LIST_DATA_REQ"} \cup PathOps
  BY <1>1, <1>2, KindIs
<1>4. CASE call \in {"create", "copy_create", "mkdir", "rmdir", "unlink"}
  <2>1. Touched = {path}
    BY <1>4 DEF Touched
  <2>2. /\ call = "create" => op = "PUT_BEGIN"
        /\ call = "copy_create" => op = "COPY"
        /\ call = "mkdir" => op = "MKDIR"
        /\ call \in {"rmdir", "unlink"} => op = "DELETE"
    BY <1>2, <1>3 DEF CallsIn, PathOps, Copying
  <2>3. /\ op \in {"PUT_BEGIN"} \cup PathOps => g_file.filename = Op(c).path
        /\ op = "COPY" => g_file.target = Op(c).target
    BY <1>2 DEF Holds
  <2> QED
    BY <1>3, <1>4, <2>1, <2>2, <2>3 DEF path, Changes, PathOps
<1>5. CASE call = "rename"
  <2>1. Touched = {path, g_file.target} /\ path = g_file.filename
    BY <1>5 DEF Touched, path
  <2>2. op = "RENAME"
    BY <1>2, <1>3, <1>5 DEF CallsIn, PathOps, Copying
  <2>3. g_file.filename = Op(c).path /\ g_file.target = Op(c).target
    BY <1>2, <2>2 DEF Holds, PathOps
  <2> QED
    BY <1>3, <2>1, <2>2, <2>3 DEF Changes, PathOps
<1>6. CASE call = "write" /\ bx \in DOMAIN open
  <2>1. Touched = {open[bx].file} /\ bx = g_file.handle
    BY <1>6 DEF Touched, HandleIInv, MadeWith, OfFile
  <2>2. op = "PUT_DATA"
    BY <1>2, <1>3, <1>6 DEF CallsIn, PathOps, Copying
  <2>3. k = "PUT" /\ step[c] = "DATA"
    BY <1>3, <2>2
  <2>4. open[g_file.handle].file = Op(c).path
    BY <1>1, <2>3 DEF OneHostAt, OperationIs, PutIs
  <2> QED
    BY <2>1, <2>3, <2>4 DEF Changes
<1>7. CASE call = "copy_write" /\ bx \in DOMAIN open
  <2>1. Touched = {open[bx].file} /\ bx = local.out
    BY <1>7 DEF Touched, HandleIInv, MadeWith
  <2>2. op = "COPY"
    BY <1>2, <1>3, <1>7 DEF CallsIn, PathOps, Copying
  <2>3. open[local.out].file = Op(c).target
    BY <1>2, <1>7, <2>1, <2>2 DEF CopyWrites
  <2> QED
    BY <1>3, <2>1, <2>2, <2>3 DEF Changes, PathOps
<1> QED
  BY <1>4, <1>5, <1>6, <1>7 DEF Touched

LEMMA DosKeepsDisk ==
  ASSUME HandleIInv, ClientsAreSound, ServerIsSound, NEW c \in Clients, OneHostAt(c),
         Dos, UNCHANGED client
  PROVE  /\ DiskIs(c)' /\ Reported(c)' /\ OnlyChanges(Changes(Op(c)))
         /\ faults' = 0 => faults = 0
<1>1. step[c] # "idle" /\ call # "none"
  BY DosLeaves, AtDosNow
<1>2. DOMAIN files \cap dirs = {} /\ faults \in Nat
  BY DEF OneHostAt, DiskIs, ServerIsSound
<1>3. /\ OnlyChanges(Touched) /\ DOMAIN files' \cap dirs' = {}
      /\ faults' = 0 => faults = 0
  BY <1>2, DosTouches
<1>4. OnlyChanges(Changes(Op(c)))
  BY <1>1, <1>3, TouchesItsOwn DEF OnlyChanges
<1> QED
  BY <1>1, <1>3, <1>4, DiskKept, ReportKept DEF OneHostAt

-----------------------------------------------------------------------------
(* Parts of a file, and of a listing.                                      *)

LEMMA PartIs ==
  ASSUME NEW S, NEW d \in Seq(S), NEW m \in Nat \ {0}, NEW n \in Nat, n <= Len(d), m <= n + 1
  PROVE  /\ SubSeq(d, m, n) \in Seq(S) /\ Len(SubSeq(d, m, n)) = n - m + 1
         /\ \A i \in 1..n - m + 1 : SubSeq(d, m, n)[i] = d[m + i - 1]
<1>1. Len(d) \in Nat /\ m \in Int /\ n \in Int
  BY LenProperties
<1>2. \A i \in m..n : i \in 1..Len(d)
  BY <1>1
<1>3. \A i \in m..n : d[i] \in S
  BY <1>2, ElementOfSeq
<1>4. /\ SubSeq(d, m, n) \in Seq(S)
      /\ Len(SubSeq(d, m, n)) = IF m <= n THEN n - m + 1 ELSE 0
      /\ \A i \in 1..n - m + 1 : SubSeq(d, m, n)[i] = d[m + i - 1]
  BY <1>1, <1>3, SubSeqProperties
<1>5. (IF m <= n THEN n - m + 1 ELSE 0) = n - m + 1
  BY <1>1
<1> QED
  BY <1>4, <1>5

LEMMA PartGrows ==
  ASSUME NEW S, NEW d \in Seq(S), NEW m \in Nat \ {0}, NEW n \in Nat, n < Len(d), m <= n + 1
  PROVE  SubSeq(d, m, n + 1) = Append(SubSeq(d, m, n), d[n + 1])
<1> DEFINE s == SubSeq(d, m, n)
           t == SubSeq(d, m, n + 1)
<1>1. Len(d) \in Nat /\ n + 1 \in 1..Len(d) /\ n + 1 \in Nat
  BY LenProperties
<1>2. /\ s \in Seq(S) /\ Len(s) = n - m + 1
      /\ \A i \in 1..n - m + 1 : s[i] = d[m + i - 1]
  BY <1>1, PartIs
<1>3. /\ t \in Seq(S) /\ Len(t) = n + 1 - m + 1
      /\ \A i \in 1..n + 1 - m + 1 : t[i] = d[m + i - 1]
  BY <1>1, PartIs
<1>4. d[n + 1] \in S
  BY <1>1, ElementOfSeq
<1> HIDE DEF s, t
<1>5. /\ Append(s, d[n + 1]) \in Seq(S) /\ Len(Append(s, d[n + 1])) = Len(s) + 1
      /\ \A i \in 1..Len(s) : Append(s, d[n + 1])[i] = s[i]
      /\ Append(s, d[n + 1])[Len(s) + 1] = d[n + 1]
  BY <1>2, <1>4, AppendProperties
<1>6. ASSUME NEW i \in 1..Len(t)  PROVE t[i] = Append(s, d[n + 1])[i]
  <2>1. CASE i \in 1..Len(s)
    BY <1>2, <1>3, <1>5, <2>1
  <2>2. CASE i = Len(s) + 1
    <3>1. m + i - 1 = n + 1 /\ i \in 1..n + 1 - m + 1
      BY <1>2, <1>3, <2>2
    <3> QED
      BY <1>3, <1>5, <2>2, <3>1
  <2> QED
    BY <1>2, <1>3, <2>1, <2>2
<1>7. t = Append(s, d[n + 1])
  <2>1. Len(t) = Len(Append(s, d[n + 1]))
    BY <1>2, <1>3, <1>5
  <2> QED
    BY <1>3, <1>5, <1>6, <2>1, SeqEqual
<1> QED
  BY <1>7 DEF s, t

LEMMA PartsJoin ==
  ASSUME NEW S, NEW d \in Seq(S), NEW a \in Nat, NEW k \in Nat, a + k <= Len(d)
  PROVE  /\ SubSeq(d, 1, a) \o SubSeq(d, a + 1, a + k) = SubSeq(d, 1, a + k)
         /\ Len(SubSeq(d, a + 1, a + k)) = k /\ Len(SubSeq(d, 1, a)) = a
<1> DEFINE s == SubSeq(d, 1, a)
           t == SubSeq(d, a + 1, a + k)
           u == SubSeq(d, 1, a + k)
<1>1. Len(d) \in Nat
  BY LenProperties
<1>2. s \in Seq(S) /\ Len(s) = a /\ \A i \in 1..a : s[i] = d[i]
  <2>1. /\ s \in Seq(S) /\ Len(s) = a - 1 + 1
        /\ \A i \in 1..a - 1 + 1 : s[i] = d[1 + i - 1]
    BY <1>1, PartIs
  <2> HIDE DEF s
  <2> QED
    BY <2>1
<1>3. t \in Seq(S) /\ Len(t) = k /\ \A i \in 1..k : t[i] = d[a + i]
  <2>1. /\ t \in Seq(S) /\ Len(t) = a + k - (a + 1) + 1
        /\ \A i \in 1..a + k - (a + 1) + 1 : t[i] = d[a + 1 + i - 1]
    BY <1>1, PartIs
  <2> HIDE DEF t
  <2> QED
    BY <2>1
<1>4. u \in Seq(S) /\ Len(u) = a + k /\ \A i \in 1..a + k : u[i] = d[i]
  <2>1. /\ u \in Seq(S) /\ Len(u) = a + k - 1 + 1
        /\ \A i \in 1..a + k - 1 + 1 : u[i] = d[1 + i - 1]
    BY <1>1, PartIs
  <2> HIDE DEF u
  <2> QED
    BY <2>1
<1> HIDE DEF s, t, u
<1>5. /\ s \o t \in Seq(S) /\ Len(s \o t) = a + k
      /\ \A i \in 1..a + k : (s \o t)[i] = IF i <= a THEN s[i] ELSE t[i - a]
  <2>1. /\ s \o t \in Seq(S) /\ Len(s \o t) = Len(s) + Len(t)
        /\ \A i \in 1..Len(s) + Len(t) :
             (s \o t)[i] = IF i <= Len(s) THEN s[i] ELSE t[i - Len(s)]
    BY <1>2, <1>3, ConcatProperties
  <2>2. Len(s) = a /\ Len(t) = k
    BY <1>2, <1>3
  <2> QED
    BY <2>1, <2>2
<1>6. ASSUME NEW i \in 1..a + k  PROVE (s \o t)[i] = u[i]
  <2>1. CASE i <= a
    BY <1>2, <1>4, <1>5, <2>1
  <2>2. CASE ~(i <= a)
    <3>1. i - a \in 1..k /\ a + (i - a) = i
      BY <2>2
    <3> QED
      BY <1>3, <1>4, <1>5, <2>2, <3>1
  <2> QED
    BY <2>1, <2>2
<1>7. s \o t = u
  BY <1>4, <1>5, <1>6, SeqEqual
<1> QED
  BY <1>2, <1>3, <1>7 DEF s, t, u

LEMMA WholeIs ==
  ASSUME NEW S, NEW d \in Seq(S)
  PROVE  SubSeq(d, 1, 0) = <<>> /\ SubSeq(d, 1, Len(d)) = d /\ Len(d) \in Nat
BY SubSeqEmpty, SubSeqFull, LenProperties

(* The next chunk, written where the last one ended.                       *)
LEMMA WritesOn ==
  ASSUME NEW S, NEW d \in Seq(S), NEW n \in Nat, n < Len(d)
  PROVE  Written(SubSeq(d, 1, n), n, d[n + 1]) = SubSeq(d, 1, n + 1)
<1> DEFINE s == SubSeq(d, 1, n)
           t == SubSeq(d, 1, n + 1)
           w == Written(s, n, d[n + 1])
<1>1. Len(d) \in Nat /\ n + 1 \in Nat
  BY LenProperties
<1>2. Len(s) = n /\ \A i \in 1..n : s[i] = d[i]
  <2>1. Len(s) = n - 1 + 1 /\ \A i \in 1..n - 1 + 1 : s[i] = d[1 + i - 1]
    BY <1>1, PartIs
  <2> HIDE DEF s
  <2> QED
    BY <2>1
<1>3. t \in Seq(S) /\ Len(t) = n + 1 /\ \A i \in 1..n + 1 : t[i] = d[i]
  <2>1. /\ t \in Seq(S) /\ Len(t) = n + 1 - 1 + 1
        /\ \A i \in 1..n + 1 - 1 + 1 : t[i] = d[1 + i - 1]
    BY <1>1, PartIs
  <2> HIDE DEF t
  <2> QED
    BY <2>1
<1> HIDE DEF s, t
<1>4. Max({n, n + 1}) = n + 1
  <2>1. \E x \in {n, n + 1} : \A y \in {n, n + 1} : x >= y
    BY <1>1
  <2>2. /\ Max({n, n + 1}) \in {n, n + 1}
        /\ \A y \in {n, n + 1} : Max({n, n + 1}) >= y
    BY <2>1 DEF Max
  <2> QED
    BY <2>2
<1>5. w = [i \in 1..n + 1 |-> IF i = n + 1 THEN d[n + 1] ELSE IF i <= n THEN s[i] ELSE Part]
  BY <1>2, <1>4 DEF Written
<1>6. t = [i \in 1..n + 1 |-> t[i]]
  BY <1>3
<1>7. \A i \in 1..n + 1 :
        t[i] = IF i = n + 1 THEN d[n + 1] ELSE IF i <= n THEN s[i] ELSE Part
  BY <1>2, <1>3
<1>8. w = t
  BY <1>5, <1>6, <1>7
<1> QED
  BY <1>8 DEF s, t

(* DOS finds every name once, and no more of them than there are. *)
LEMMA ListedIsSeq ==
  ASSUME NEW S, IsFiniteSet(S)
  PROVE  SetToSeq(S) \in Seq(S)
<1>1. Cardinality(S) \in Nat /\ ExistsBijection(1..Cardinality(S), S)
  BY FS_CardinalityType
<1>2. \E f \in [1..Cardinality(S) -> S] : IsInjective(f)
  BY <1>1, Zenon DEF ExistsBijection, Bijection, Injection
<1>3. SetToSeq(S) \in [1..Cardinality(S) -> S]
  BY <1>2 DEF SetToSeq
<1> QED
  BY <1>1, <1>3, SeqDef

(* What an operation reads is as it was at first. *)
LEMMA Untouched ==
  ASSUME NEW c \in Clients, DiskIs(c), NEW f, f \notin Changed(c), f \in DOMAIN files
  PROVE  f \in DOMAIN InitFiles /\ files[f] = InitFiles[f] /\ files[f] \in Seq(Chunks)
BY DiskAssumption DEF DiskIs, AsAtFirst

LEMMA SourceStands ==
  ASSUME ClientsAreSound, NEW c \in Clients, step[c] # "idle", DiskIs(c),
         \/ ReadsFirst /\ Op(c).kind = "GET"
         \/ Separate /\ Op(c).kind = "COPY" /\ Op(c).path # Op(c).target,
         Op(c).path \in DOMAIN files
  PROVE  LET f == Op(c).path
         IN  f \in DOMAIN InitFiles /\ files[f] = InitFiles[f] /\ files[f] \in Seq(Chunks)
<1> DEFINE f == Op(c).path
<1>1. /\ script \in Scripts /\ Len(script[c]) \in Nat /\ opno[c] \in 1..Len(script[c])
      /\ Op(c) = script[c][opno[c]]
  BY ScriptIs
<1>2. ASSUME NEW i \in 1..Len(script[c]), i < opno[c]  PROVE f \notin Changes(script[c][i])
  BY <1>1, <1>2 DEF ReadsFirst, Separate
<1>3. f \notin Changes(Op(c))
  BY DEF Changes
<1>4. ASSUME NEW i \in 1..Len(script[c]), i <= opno[c]  PROVE f \notin Changes(script[c][i])
  <2>1. i < opno[c] \/ i = opno[c]
    BY <1>1, <1>4
  <2> QED
    BY <1>1, <1>2, <1>3, <2>1
<1>5. f \notin Changed(c)
  BY <1>4 DEF Changed
<1> QED
  BY <1>5, Untouched

LEMMA ListingStands ==
  ASSUME ClientsAreSound, NEW c \in Clients, step[c] # "idle", DiskIs(c), ReadsFirst,
         Op(c).kind = "DIR"
  PROVE  Listing = FirstListing
<1>1. /\ script \in Scripts /\ Len(script[c]) \in Nat /\ opno[c] \in 1..Len(script[c])
      /\ Op(c) = script[c][opno[c]]
  BY ScriptIs
<1>2. ASSUME NEW i \in 1..Len(script[c]), i <= opno[c]  PROVE Changes(script[c][i]) = {}
  <2>1. CASE i < opno[c]
    BY <1>1, <2>1 DEF ReadsFirst
  <2>2. CASE i = opno[c]
    BY <1>1, <2>2 DEF Changes
  <2> QED
    BY <1>1, <1>2, <2>1, <2>2
<1>3. Changed(c) = {}
  BY <1>2 DEF Changed
<1>4. DOMAIN files \cup dirs = DOMAIN InitFiles \cup InitDirs
  BY <1>3 DEF DiskIs, AsAtFirst
<1> QED
  BY <1>4, Zenon DEF Listing, FirstListing

LEMMA FirstListingIs == FirstListing \in Seq(DOMAIN InitFiles \cup InitDirs)
BY DiskAssumption, ListedIsSeq DEF FirstListing

-----------------------------------------------------------------------------
(* DOS: what the client's request has come to.                             *)

(* A call that fails does nothing, and nothing is said of it but that. *)
LEMMA FailureKeeps ==
  ASSUME HandleIInv, ClientsAreSound, ServerIsSound, NEW c \in Clients, OneHostAt(c),
         UNCHANGED client, DosFails \/ DosBadHandle
  PROVE  Running(c)' /\ OperationIs(c)'
<1>1. /\ ~returned /\ returned' /\ carry' /\ call \notin Closing \cup {"none"}
      /\ UNCHANGED <<g_file, files, dirs, open, op, call, bx, local>>
      /\ faults' = 0 => faults = 0
  <2>1. CASE DosFails
    <3>1. faults' = faults + 1 /\ faults \in Nat
      BY <2>1 DEF DosFails, ServerIsSound
    <3>2. /\ ~returned /\ returned' /\ carry' /\ call \notin Closing \cup {"none"}
          /\ UNCHANGED <<g_file, files, dirs, open, op, call, bx, local>>
      BY <2>1 DEF DosFails, Returns, DosUnchanged
    <3> QED
      BY <3>1, <3>2
  <2>2. CASE DosBadHandle
    BY <2>2 DEF DosBadHandle, Returns, DosUnchanged, Effect, dos, Closing
  <2> QED
    BY <2>1, <2>2
<1>2. Op(c)' = Op(c) /\ Now(c)' = Now(c) /\ UNCHANGED <<step, offset, file_size, got>>
  BY SameOperation, SameRequest DEF client
<1>3. Running(c) /\ OperationIs(c)
  BY <1>1, AtDosNow DEF AtDos, OneHostAt
<1>4. OperationIs(c)'
  BY <1>1, <1>2, <1>3 DEF OperationIs, GetGot, DirGot, PutIs, WasWritten
<1>5. \A n : Holds(c, n) => Holds(c, n)'
  BY <1>1, <1>2 DEF Holds
<1>6. /\ GetBegins(c) => GetBegins(c)'
      /\ GetReads(c)'
      /\ PutBegins(c)'
      /\ CopyWrites(c) => CopyWrites(c)'
  <2>1. GetBegins(c) => GetBegins(c)'
    BY <1>1, <1>2 DEF GetBegins
  <2>2. GetReads(c)'
    BY <1>1, <1>2 DEF GetReads
  <2>3. PutBegins(c)'
    BY <1>1 DEF PutBegins
  <2>4. CopyWrites(c) => CopyWrites(c)'
    BY <1>1, <1>2 DEF CopyWrites
  <2> QED
    BY <2>1, <2>2, <2>3, <2>4
<1>7. ASSUME Copies(c)  PROVE Copies(c)'
  BY <1>1, <1>2, <1>7 DEF Copies, IsAt, Closing
<1>8. op = "DIR_LIST_DATA_REQ" => faults' # 0
  <2>1. op = "DIR_LIST_DATA_REQ" => call \in {"find", "restore_dta"}
    BY <1>3 DEF Running, CallsIn, PathOps
  <2>2. CASE DosFails
    BY <2>2 DEF DosFails, ServerIsSound
  <2>3. CASE DosBadHandle
    BY <2>1, <2>3 DEF DosBadHandle, Effect
  <2> QED
    BY <2>2, <2>3
<1>9. Running(c)'
  <2>1. Running(c) /\ op' = op /\ call' = call /\ returned' /\ carry'
    BY <1>1, <1>3
  <2> QED
    BY <1>1, <1>2, <1>5, <1>6, <1>7, <1>8, <2>1 DEF Running
<1> QED
  BY <1>4, <1>9

LEMMA DosNow ==
  ASSUME HandleIInv, ClientsAreSound, NEW c \in Clients, OneHostAt(c), UNCHANGED client, Dos
  PROVE  /\ Running(c) /\ OperationIs(c) /\ DiskIs(c) /\ step[c] # "idle"
         /\ op = Now(c).type /\ call \in CallsIn(op)
         /\ Op(c)' = Op(c) /\ Now(c)' = Now(c)
         /\ UNCHANGED <<op, call, bx, local, step, offset, file_size, got>>
         /\ ~returned /\ returned'
         /\ KeepsFile /\ Holds(c, op)'
<1>1. call # "none" /\ UNCHANGED <<op, call, bx, local>> /\ ~returned /\ returned'
  BY DosLeaves, DosCalls DEF InDos
<1>2. AtDos(c) /\ step[c] # "idle" /\ OperationIs(c) /\ DiskIs(c)
  BY <1>1, AtDosNow DEF OneHostAt
<1>3. Running(c) /\ op = Now(c).type /\ call \in CallsIn(op) /\ Holds(c, op)
  BY <1>2 DEF AtDos, Running
<1>4. Op(c)' = Op(c) /\ Now(c)' = Now(c) /\ UNCHANGED <<step, offset, file_size, got>>
  BY SameOperation, SameRequest DEF client
<1>5. /\ KeepsFile
      /\ g_file'.filename = g_file.filename /\ g_file'.target = g_file.target
      /\ g_file'.chunk_offset = g_file.chunk_offset /\ g_file'.chunk_count = g_file.chunk_count
      /\ g_file'.dir_start_index = g_file.dir_start_index
      /\ g_file'.ack_offset = g_file.ack_offset
  <2>1. CASE g_file' = g_file
    BY <2>1 DEF KeepsFile
  <2>2. ASSUME NEW b, g_file' = [g_file EXCEPT !.chunk = b]
        PROVE  <1>5!:
    BY <2>2 DEF KeepsFile
  <2> QED
    BY <2>1, <2>2, DosLeaves
<1>6. op = "PUT_DATA" => g_file' = g_file
  <2>1. op = "PUT_DATA" => call = "write"
    BY <1>3 DEF CallsIn, PathOps
  <2>2. call = "write" => g_file' = g_file
    BY CallGoes DEF DosWrite, DosBadHandle, DosFails, Returns
  <2> QED
    BY <2>1, <2>2
<1>7. Holds(c, op)'
  BY <1>1, <1>3, <1>4, <1>5, <1>6 DEF Holds, KeepsFile
<1> QED
  BY <1>1, <1>2, <1>3, <1>4, <1>5, <1>7

(* A file that is opened, at its beginning, with a handle nobody has. *)
LEMMA OpenedIs ==
  ASSUME NEW f, FreeHandles # {}, Opened(f)
  PROVE  /\ ax' \notin DOMAIN open /\ ~carry' /\ returned'
         /\ DOMAIN open' = DOMAIN open \cup {ax'}
         /\ open'[ax'] = [file |-> f, pos |-> 0]
         /\ \A h \in DOMAIN open : open'[h] = open[h]
<1> DEFINE h == Min(FreeHandles)
<1>1. h \notin DOMAIN open
  BY MinIsFree DEF FreeHandles
<1> HIDE DEF h
<1>2. /\ ax' = h /\ ~carry' /\ returned'
      /\ open' = [i \in DOMAIN open \cup {h} |-> IF i = h THEN [file |-> f, pos |-> 0] ELSE open[i]]
  BY Zenon DEF Opened, Returns, h
<1>3. /\ DOMAIN open' = DOMAIN open \cup {h}
      /\ open'[h] = [file |-> f, pos |-> 0]
      /\ \A i \in DOMAIN open : open'[i] = open[i]
  BY <1>1, <1>2
<1> QED
  BY <1>1, <1>2, <1>3

LEMMA GetBeginAtDos ==
  ASSUME HandleIInv, ClientsAreSound, ServerIsSound, NEW c \in Clients, OneHostAt(c),
         UNCHANGED client, Dos, op = "GET_BEGIN"
  PROVE  Running(c)' /\ OperationIs(c)'
<1>1. /\ Running(c) /\ OperationIs(c) /\ DiskIs(c) /\ step[c] # "idle"
      /\ op = Now(c).type /\ call \in CallsIn(op)
      /\ Op(c)' = Op(c) /\ Now(c)' = Now(c)
      /\ UNCHANGED <<op, call, bx, local, step, offset, file_size, got>>
      /\ ~returned /\ returned'
      /\ KeepsFile /\ Holds(c, op)'
  BY DosNow
<1>2. GetBegins(c) /\ g_file.filename = Op(c).path
  BY <1>1 DEF Running, Holds
<1>3. Op(c).kind = "GET" /\ step[c] = "BEGIN"
  BY <1>1, KindIs
<1>4. OperationIs(c)'
  BY <1>1, <1>3 DEF OperationIs, GetGot
<1>5. call \in {"close_old", "open_read", "file_size", "close_failed"}
  BY <1>1 DEF CallsIn
<1>6. ASSUME GetBegins(c)'  PROVE Running(c)'
  BY <1>1, <1>6 DEF Running
<1>7. CASE DosFails
  BY <1>4, <1>7, FailureKeeps
<1>8. CASE call = "open_read" /\ ~DosFails
  <2>1. DosOpen /\ path = Op(c).path
    BY <1>2, <1>8, CallGoes DEF path
  <2>2. CASE path \in DOMAIN files /\ FreeHandles # {}
    <3>1. Opened(path) /\ UNCHANGED files
      BY <2>1, <2>2 DEF DosOpen
    <3>2. ax' \in DOMAIN open' /\ open'[ax'] = [file |-> path, pos |-> 0]
      BY <2>2, <3>1, OpenedIs
    <3>3. GetBegins(c)'
      BY <1>1, <1>8, <2>1, <2>2, <3>1, <3>2 DEF GetBegins, IsAt
    <3> QED
      BY <1>4, <1>6, <3>3
  <2>3. CASE ~(path \in DOMAIN files /\ FreeHandles # {})
    <3>1. carry'
      BY <2>1, <2>3 DEF DosOpen, Returns
    <3>2. GetBegins(c)'
      BY <1>1, <1>8, <3>1 DEF GetBegins
    <3> QED
      BY <1>4, <1>6, <3>2
  <2> QED
    BY <2>2, <2>3
<1>9. CASE call = "file_size" /\ ~DosFails
  <2>1. DosFileSize /\ path = Op(c).path
    BY <1>2, <1>9, CallGoes DEF path
  <2>2. /\ UNCHANGED <<g_file, files, open>> /\ path \in DOMAIN files
        /\ ax' = Len(files[path])
    BY <1>2, <1>9, <2>1 DEF DosFileSize, Returns, dos, GetBegins
  <2>3. ReadsFirst => files[path] = InitFiles[path]
    BY <1>1, <1>3, <2>1, <2>2, SourceStands
  <2>4. GetBegins(c)'
    BY <1>1, <1>2, <1>9, <2>1, <2>2, <2>3 DEF GetBegins
  <2> QED
    BY <1>4, <1>6, <2>4
<1>10. CASE call \in {"close_old", "close_failed"}
  BY <1>1, <1>4, <1>6, <1>10 DEF GetBegins
<1> QED
  BY <1>5, <1>7, <1>8, <1>9, <1>10

(* A read takes the next chunk, or finds the end of the file.              *)
LEMMA ReadIs ==
  ASSUME DosRead, NEW f, f = open[bx].file, NEW at, at = open[bx].pos
  PROVE  /\ ~carry' /\ UNCHANGED <<files, dirs>> /\ DOMAIN open' = DOMAIN open
         /\ \A h \in DOMAIN open : open'[h].file = open[h].file
         /\ \A h \in DOMAIN open : h # bx => open'[h] = open[h]
         /\ \/ /\ f \in DOMAIN files /\ at < Len(files[f])
               /\ ax' = 1 /\ g_file'.chunk = files[f][at + 1] /\ open'[bx].pos = at + 1
            \/ /\ ~(f \in DOMAIN files /\ at < Len(files[f]))
               /\ ax' = 0 /\ open' = open
<1>1. ~carry' /\ UNCHANGED <<files, dirs>> /\ bx \in DOMAIN open
  BY DEF DosRead, Returns
<1>2. CASE f \in DOMAIN files /\ at < Len(files[f])
  <2>1. /\ g_file' = [g_file EXCEPT !.chunk = files[f][at + 1]]
        /\ open' = [open EXCEPT ![bx].pos = at + 1] /\ ax' = 1
    BY <1>2 DEF DosRead, Returns
  <2>2. g_file'.chunk = files[f][at + 1]
    BY <2>1
  <2>3. open'[bx].pos = at + 1
    <3>1. open'[bx] = [open[bx] EXCEPT !.pos = at + 1]
      BY <1>1, <2>1
    <3> QED
      BY <3>1
  <2>4. \A h \in DOMAIN open : /\ open'[h].file = open[h].file
                               /\ h # bx => open'[h] = open[h]
    BY <1>1, <2>1
  <2> QED
    BY <1>1, <1>2, <2>1, <2>2, <2>3, <2>4
<1>3. CASE ~(f \in DOMAIN files /\ at < Len(files[f]))
  <2>1. UNCHANGED <<g_file, open>> /\ ax' = 0
    BY <1>3 DEF DosRead, Returns
  <2> QED
    BY <1>1, <1>3, <2>1
<1> QED
  BY <1>2, <1>3

LEMMA GetReadAtDos ==
  ASSUME HandleIInv, ClientsAreSound, ServerIsSound, NEW c \in Clients, OneHostAt(c),
         UNCHANGED client, Dos, op = "GET_DATA_REQ"
  PROVE  Running(c)' /\ OperationIs(c)'
<1> DEFINE f == Op(c).path
           first == InitFiles[f]
<1>1. /\ Running(c) /\ OperationIs(c) /\ DiskIs(c) /\ step[c] # "idle"
      /\ op = Now(c).type /\ call \in CallsIn(op)
      /\ Op(c)' = Op(c) /\ Now(c)' = Now(c)
      /\ UNCHANGED <<op, call, bx, local, step, offset, file_size, got>>
      /\ ~returned /\ returned'
      /\ KeepsFile /\ Holds(c, op)'
  BY DosNow
<1>2. GetReads(c) /\ bx = g_file.handle /\ call \in {"seek", "read"}
  BY <1>1 DEF Running, CallsIn, HandleIInv, MadeWith, OfFile
<1>3. Op(c).kind = "GET" /\ step[c] = "DATA"
  BY <1>1, KindIs
<1>4. GetGot(c)
  BY <1>1, <1>3 DEF OperationIs
<1>5. f \in DOMAIN files /\ (bx \in DOMAIN open => open[bx].file = f)
  BY <1>2, <1>3, <1>4 DEF GetGot
<1>6. ASSUME GetReads(c)', f \in DOMAIN files',
             g_file.handle \in DOMAIN open' => open'[g_file.handle].file = f
      PROVE  Running(c)' /\ OperationIs(c)'
  <2>1. GetGot(c)'
    BY <1>1, <1>3, <1>4, <1>6 DEF GetGot, KeepsFile
  <2> QED
    BY <1>1, <1>3, <1>6, <2>1 DEF Running, OperationIs
<1>7. CASE DosFails \/ DosBadHandle
  BY <1>7, FailureKeeps
<1>8. CASE call = "seek" /\ ~DosFails /\ ~DosBadHandle
  <2>1. DosSeek
    BY <1>8, CallGoes
  <2>2. /\ bx \in DOMAIN open /\ open' = [open EXCEPT ![bx].pos = ax] /\ UNCHANGED files
        /\ ~carry'
    BY <2>1 DEF DosSeek, Returns
  <2>3. open'[bx].pos = ax /\ open'[bx].file = open[bx].file
    <3>1. open'[bx] = [open[bx] EXCEPT !.pos = ax]
      BY <2>2
    <3> QED
      BY <3>1
  <2>4. ax = offset[c]
    BY <1>1, <1>2, <1>8 DEF GetReads
  <2>5. GetReads(c)'
    BY <1>1, <1>8, <2>3, <2>4 DEF GetReads
  <2> QED
    BY <1>2, <1>5, <1>6, <2>2, <2>3, <2>5
<1>9. CASE call = "read" /\ ~DosFails /\ ~DosBadHandle
  <2>1. DosRead
    BY <1>9, CallGoes
  <2>2. bx \in DOMAIN open /\ open[bx].file = f /\ open[bx].pos = offset[c]
    BY <1>1, <1>2, <1>5, <1>9, <2>1 DEF GetReads, DosRead
  <2>3. /\ ~carry' /\ UNCHANGED files
        /\ open'[bx].file = f
        /\ \/ /\ offset[c] < Len(files[f])
              /\ ax' = 1 /\ g_file'.chunk = files[f][offset[c] + 1]
           \/ ax' = 0
    BY <1>5, <2>1, <2>2, ReadIs
  <2>4. ReadsFirst => files[f] = first
    BY <1>1, <1>3, <1>5, SourceStands
  <2>5. GetReads(c)'
    BY <1>1, <1>9, <2>3, <2>4 DEF GetReads
  <2> QED
    BY <1>2, <1>5, <1>6, <2>3, <2>5
<1> QED
  BY <1>2, <1>7, <1>8, <1>9

(* DOS closes the file of a transfer. *)
LEMMA EndAtDos ==
  ASSUME HandleIInv, ClientsAreSound, ServerIsSound, NEW c \in Clients, OneHostAt(c),
         UNCHANGED client, Dos, op \in {"PUT_END", "GET_END"}
  PROVE  Running(c)' /\ OperationIs(c)'
<1>1. /\ Running(c) /\ OperationIs(c) /\ DiskIs(c) /\ step[c] # "idle"
      /\ op = Now(c).type /\ call \in CallsIn(op)
      /\ Op(c)' = Op(c) /\ Now(c)' = Now(c)
      /\ UNCHANGED <<op, call, bx, local, step, offset, file_size, got>>
      /\ ~returned /\ returned'
      /\ KeepsFile /\ Holds(c, op)'
  BY DosNow
<1>2. call = "close"
  BY <1>1 DEF CallsIn
<1>3. DosClose
  BY <1>2, CallGoes DEF Closing
<1>4. open' = [h \in DOMAIN open \ {bx} |-> open[h]] /\ UNCHANGED files
  BY <1>3 DEF DosClose
<1>5. step[c] = "END" /\ Op(c).kind \in {"GET", "PUT"}
  BY <1>1, KindIs
<1>6. OperationIs(c)'
  <2>1. CASE Op(c).kind = "GET"
    <3>1. GetGot(c)
      BY <1>1, <2>1 DEF OperationIs
    <3>2. GetGot(c)'
      BY <1>1, <1>4, <1>5, <3>1 DEF GetGot, KeepsFile
    <3> QED
      BY <1>1, <2>1, <3>2 DEF OperationIs
  <2>2. CASE Op(c).kind = "PUT"
    <3>1. PutIs(c)
      BY <1>1, <2>2 DEF OperationIs
    <3>2. PutIs(c)'
      BY <1>1, <1>4, <1>5, <3>1 DEF PutIs
    <3> QED
      BY <1>1, <2>2, <3>2 DEF OperationIs
  <2> QED
    BY <1>5, <2>1, <2>2
<1>7. Running(c)'
  BY <1>1 DEF Running
<1> QED
  BY <1>6, <1>7

LEMMA ListAtDos ==
  ASSUME HandleIInv, ClientsAreSound, ServerIsSound, NEW c \in Clients, OneHostAt(c),
         UNCHANGED client, Dos, op = "DIR_LIST_DATA_REQ"
  PROVE  Running(c)' /\ OperationIs(c)'
<1>1. /\ Running(c) /\ OperationIs(c) /\ DiskIs(c) /\ step[c] # "idle"
      /\ op = Now(c).type /\ call \in CallsIn(op)
      /\ Op(c)' = Op(c) /\ Now(c)' = Now(c)
      /\ UNCHANGED <<op, call, bx, local, step, offset, file_size, got>>
      /\ ~returned /\ returned'
      /\ KeepsFile /\ Holds(c, op)'
  BY DosNow
<1>2. call \in {"find", "restore_dta"} /\ Op(c).kind = "DIR"
  BY <1>1, KindIs DEF CallsIn
<1>3. CASE DosFails
  BY <1>3, FailureKeeps
<1>4. CASE DosFind
  <2>1. faults' = faults /\ carry' = ~(local.seen < Len(Listing))
    BY <1>4 DEF DosFind, Returns, dos
  <2>2. OperationIs(c)'
    BY <1>1, <1>2, <2>1 DEF OperationIs, DirGot
  <2>3. ASSUME faults = 0, ListsFirst  PROVE Lists(c)'
    <3>1. Lists(c)
      BY <1>1, <2>3 DEF Running
    <3>2. Listing = FirstListing
      BY <1>1, <1>2, <2>3, ListingStands DEF ListsFirst
    <3>3. Len(FirstListing) \in Nat /\ local.seen \in 0..Len(FirstListing)
      BY <3>1, FirstListingIs, LenProperties DEF Lists
    <3>4. carry' <=> local.seen = Len(FirstListing)
      <4>1. ~(local.seen < Len(FirstListing)) <=> local.seen = Len(FirstListing)
        BY <3>3
      <4> QED
        BY <2>1, <3>2, <4>1, Zenon
    <3> QED
      BY <1>1, <3>1, <3>4 DEF Lists
  <2>4. Running(c)'
    BY <1>1, <2>1, <2>3 DEF Running
  <2> QED
    BY <2>2, <2>4
<1>5. CASE DosRestoreDta
  <2>1. faults' = faults /\ call = "restore_dta"
    BY <1>5 DEF DosRestoreDta, Effect, dos
  <2>2. OperationIs(c)'
    BY <1>1, <1>2, <2>1 DEF OperationIs, DirGot
  <2>3. Lists(c) => Lists(c)'
    BY <1>1, <2>1 DEF Lists, FirstListing
  <2>4. Running(c)'
    BY <1>1, <2>1, <2>3 DEF Running
  <2> QED
    BY <2>2, <2>4
<1> QED
  BY <1>2, <1>3, <1>4, <1>5, CallGoes

(* A file that is created is empty. *)
LEMMA CreatedIs ==
  ASSUME DosCreate, ~carry', NEW f, f = path
  PROVE  /\ ax' \notin DOMAIN open /\ DOMAIN open' = DOMAIN open \cup {ax'}
         /\ open'[ax'] = [file |-> f, pos |-> 0]
         /\ \A h \in DOMAIN open : open'[h] = open[h]
         /\ DOMAIN files' = DOMAIN files \cup {f} /\ files'[f] = <<>>
         /\ \A x \in DOMAIN files : x # f => files'[x] = files[x]
<1>1. ~(f \in dirs \/ FreeHandles = {})
  BY DEF DosCreate, Returns
<1>2. /\ Opened(f)
      /\ files' = [x \in DOMAIN files \cup {f} |-> IF x = f THEN <<>> ELSE files[x]]
  BY <1>1, Zenon DEF DosCreate
<1>3. /\ ax' \notin DOMAIN open /\ DOMAIN open' = DOMAIN open \cup {ax'}
      /\ open'[ax'] = [file |-> f, pos |-> 0]
      /\ \A h \in DOMAIN open : open'[h] = open[h]
  BY <1>1, <1>2, OpenedIs
<1>4. /\ DOMAIN files' = DOMAIN files \cup {f} /\ files'[f] = <<>>
      /\ \A x \in DOMAIN files : x # f => files'[x] = files[x]
  BY <1>2
<1> QED
  BY <1>3, <1>4

LEMMA PutBeginAtDos ==
  ASSUME HandleIInv, ClientsAreSound, ServerIsSound, NEW c \in Clients, OneHostAt(c),
         UNCHANGED client, Dos, op = "PUT_BEGIN"
  PROVE  Running(c)' /\ OperationIs(c)'
<1>1. /\ Running(c) /\ OperationIs(c) /\ DiskIs(c) /\ step[c] # "idle"
      /\ op = Now(c).type /\ call \in CallsIn(op)
      /\ Op(c)' = Op(c) /\ Now(c)' = Now(c)
      /\ UNCHANGED <<op, call, bx, local, step, offset, file_size, got>>
      /\ ~returned /\ returned'
      /\ KeepsFile /\ Holds(c, op)'
  BY DosNow
<1>2. call \in {"close_old", "create"} /\ g_file.filename = Op(c).path
  BY <1>1 DEF Running, Holds, CallsIn
<1>3. Op(c).kind = "PUT" /\ step[c] = "BEGIN"
  BY <1>1, KindIs
<1>4. OperationIs(c)'
  BY <1>1, <1>3 DEF OperationIs, PutIs
<1>5. ASSUME PutBegins(c)'  PROVE Running(c)'
  BY <1>1, <1>5 DEF Running
<1>6. CASE DosFails
  BY <1>4, <1>6, FailureKeeps
<1>7. CASE call = "create" /\ ~DosFails
  <2>1. DosCreate /\ path = Op(c).path
    BY <1>2, <1>7, CallGoes DEF path
  <2>2. ASSUME ~carry'
        PROVE  /\ ax' \in DOMAIN open' /\ open'[ax'] = [file |-> Op(c).path, pos |-> 0]
               /\ Op(c).path \in DOMAIN files' /\ files'[Op(c).path] = <<>>
    <3> PICK f : f = path
      OBVIOUS
    <3>1. /\ DOMAIN open' = DOMAIN open \cup {ax'} /\ open'[ax'] = [file |-> f, pos |-> 0]
          /\ DOMAIN files' = DOMAIN files \cup {f} /\ files'[f] = <<>>
      BY <2>1, <2>2, CreatedIs
    <3>2. f = Op(c).path
      BY <2>1
    <3> QED
      BY <3>1, <3>2
  <2>3. PutBegins(c)'
    BY <1>1, <2>2 DEF PutBegins, IsAt
  <2> QED
    BY <1>4, <1>5, <2>3
<1>8. CASE call = "close_old"
  <2>1. PutBegins(c)'
    BY <1>1, <1>8 DEF PutBegins
  <2> QED
    BY <1>4, <1>5, <2>1
<1> QED
  BY <1>2, <1>6, <1>7, <1>8

(* A write puts a chunk into the file, a whole one if it says so.          *)
LEMMA WriteIs ==
  ASSUME DosWrite, NEW f, f = open[bx].file, NEW at, at = open[bx].pos
  PROVE  /\ bx \in DOMAIN open /\ ~carry' /\ g_file' = g_file /\ UNCHANGED dirs
         /\ DOMAIN open' = DOMAIN open /\ DOMAIN files' = DOMAIN files
         /\ \A h \in DOMAIN open : open'[h].file = open[h].file
         /\ \A h \in DOMAIN open : h # bx => open'[h] = open[h]
         /\ open'[bx].pos = at + 1
         /\ call \notin ShortWrites => ax' = 1
         /\ \A x \in DOMAIN files : x # f => files'[x] = files[x]
         /\ f \in DOMAIN files /\ ax' = 1 => files'[f] = Written(files[f], at, g_file.chunk)
<1>1. PICK short \in BOOLEAN :
        /\ short => call \in ShortWrites
        /\ files' = IF f \notin DOMAIN files THEN files
                    ELSE [files EXCEPT ![f] = Written(files[f], at,
                                                      IF short THEN Part ELSE g_file.chunk)]
        /\ open' = [open EXCEPT ![bx].pos = at + 1]
        /\ Returns(TRUE, IF short THEN 0 ELSE 1)
  BY DEF DosWrite
<1>2. bx \in DOMAIN open /\ g_file' = g_file /\ UNCHANGED dirs
  BY DEF DosWrite
<1>3. ~carry' /\ (ax' = 1 <=> ~short)
  <2>1. Returns(TRUE, IF short THEN 0 ELSE 1)
    BY <1>1, Zenon
  <2>2. CASE short
    <3>1. Returns(TRUE, 0)
      BY <2>1, <2>2, Zenon
    <3>2. ~carry' /\ ax' = 0
      BY <3>1, Zenon DEF Returns
    <3>3. ax' # 1
      BY <3>2
    <3> QED
      BY <2>2, <3>2, <3>3, Zenon
  <2>3. CASE ~short
    <3>1. Returns(TRUE, 1)
      BY <2>1, <2>3, Zenon
    <3> QED
      BY <2>3, <3>1 DEF Returns
  <2> QED
    BY <2>2, <2>3
<1>4. /\ open'[bx] = [open[bx] EXCEPT !.pos = at + 1] /\ DOMAIN open' = DOMAIN open
      /\ \A h \in DOMAIN open : h # bx => open'[h] = open[h]
  BY <1>1, <1>2
<1>5. open'[bx].pos = at + 1 /\ open'[bx].file = open[bx].file
  BY <1>4
<1>6. /\ DOMAIN files' = DOMAIN files
      /\ \A x \in DOMAIN files : x # f => files'[x] = files[x]
      /\ f \in DOMAIN files /\ ~short => files'[f] = Written(files[f], at, g_file.chunk)
  BY <1>1
<1> QED
  BY <1>1, <1>2, <1>3, <1>4, <1>5, <1>6

LEMMA PutDataAtDos ==
  ASSUME HandleIInv, ClientsAreSound, ServerIsSound, NEW c \in Clients, OneHostAt(c),
         UNCHANGED client, Dos, op = "PUT_DATA"
  PROVE  Running(c)' /\ OperationIs(c)'
<1> DEFINE f == Op(c).path
           d == Op(c).data
           e == g_file.expected_offset
<1>1. /\ Running(c) /\ OperationIs(c) /\ DiskIs(c) /\ step[c] # "idle"
      /\ op = Now(c).type /\ call \in CallsIn(op)
      /\ Op(c)' = Op(c) /\ Now(c)' = Now(c)
      /\ UNCHANGED <<op, call, bx, local, step, offset, file_size, got>>
      /\ ~returned /\ returned'
      /\ KeepsFile /\ Holds(c, op)'
  BY DosNow
<1>2. call = "write" /\ bx = g_file.handle /\ e = offset[c] /\ g_file.chunk = d[offset[c] + 1]
  BY <1>1 DEF Running, Holds, CallsIn, HandleIInv, MadeWith, OfFile
<1>3. Op(c).kind = "PUT" /\ step[c] = "DATA"
  BY <1>1, KindIs
<1>4. PutIs(c)
  BY <1>1, <1>3 DEF OperationIs
<1>5. /\ e \in {offset[c], offset[c] + 1} /\ e <= Len(d)
      /\ g_file.handle \in DOMAIN open /\ open[g_file.handle].file = f
      /\ f \in DOMAIN files
      /\ Separate => open[g_file.handle].pos = e /\ files[f] = SubSeq(d, 1, e)
  BY <1>1, <1>3, <1>4 DEF PutIs, WasWritten
<1>6. e \in Nat /\ e < Len(d) /\ d \in Seq(Chunks)
  <2>1. Op(c) \in Operation
    BY <1>1, ScriptIs
  <2>2. Fits(Op(c), step[c], offset[c])
    BY <1>1 DEF ClientsAreSound, ClientIsSound
  <2> QED
    BY <1>2, <1>3, <2>1, <2>2 DEF Operation, Fits
<1>7. CASE DosFails \/ DosBadHandle
  BY <1>7, FailureKeeps
<1>8. CASE DosWrite
  <2>1. /\ ~carry' /\ g_file' = g_file
        /\ DOMAIN open' = DOMAIN open /\ DOMAIN files' = DOMAIN files
        /\ open'[bx].file = f
        /\ Separate => /\ open'[bx].pos = e + 1 /\ ax' = 1
                       /\ files'[f] = Written(SubSeq(d, 1, e), e, d[e + 1])
    <3>1. /\ bx \in DOMAIN open /\ ~carry' /\ g_file' = g_file
          /\ DOMAIN open' = DOMAIN open /\ DOMAIN files' = DOMAIN files
          /\ \A h \in DOMAIN open : open'[h].file = open[h].file
          /\ open'[bx].pos = open[bx].pos + 1
          /\ call \notin ShortWrites => ax' = 1
          /\ f \in DOMAIN files /\ ax' = 1
               => files'[f] = Written(files[f], open[bx].pos, g_file.chunk)
      BY <1>2, <1>5, <1>8, WriteIs
    <3>2. Separate => call \notin ShortWrites
      BY <1>2 DEF Separate
    <3> QED
      BY <1>2, <1>5, <3>1, <3>2
  <2>2. Separate => WasWritten' /\ files'[f] = SubSeq(d, 1, e + 1)
    BY <1>1, <1>2, <1>6, <2>1, WritesOn DEF WasWritten
  <2>3. PutIs(c)'
    BY <1>1, <1>2, <1>3, <1>5, <2>1, <2>2 DEF PutIs, KeepsFile
  <2>4. OperationIs(c)'
    BY <1>1, <1>3, <2>3 DEF OperationIs
  <2>5. Running(c)'
    BY <1>1, <1>2, <2>1 DEF Running
  <2> QED
    BY <2>4, <2>5
<1> QED
  BY <1>2, <1>7, <1>8, CallGoes

LEMMA PathOpAtDos ==
  ASSUME HandleIInv, ClientsAreSound, ServerIsSound, NEW c \in Clients, OneHostAt(c),
         UNCHANGED client, Dos, op \in {"MKDIR", "DELETE", "RENAME"}
  PROVE  Running(c)' /\ OperationIs(c)'
<1> DEFINE o == Op(c)
<1>1. /\ Running(c) /\ OperationIs(c) /\ DiskIs(c) /\ step[c] # "idle"
      /\ op = Now(c).type /\ call \in CallsIn(op)
      /\ Op(c)' = Op(c) /\ Now(c)' = Now(c)
      /\ UNCHANGED <<op, call, bx, local, step, offset, file_size, got>>
      /\ ~returned /\ returned'
      /\ KeepsFile /\ Holds(c, op)'
  BY DosNow
<1>2. /\ g_file.filename = o.path /\ (op = "RENAME" => g_file.target = o.target)
      /\ op = "MKDIR" => call = "mkdir"
      /\ op = "DELETE" => call \in {"rmdir", "unlink"}
      /\ op = "RENAME" => call = "rename"
  BY <1>1 DEF Running, Holds, CallsIn, PathOps
<1>3. o.kind = op /\ op \in PathOps
  BY <1>1, KindIs DEF PathOps
<1>4. OperationIs(c)'
  BY <1>1, <1>3 DEF OperationIs, PathOps
<1>5. ASSUME Separate /\ ~carry' => TookEffect(o)'  PROVE Running(c)'
  BY <1>1, <1>5 DEF Running
<1>6. CASE DosFails
  BY <1>4, <1>6, FailureKeeps
<1>7. CASE DosPath
  <2>1. path = o.path /\ DOMAIN files \cap dirs = {}
    BY <1>1, <1>2 DEF path, DiskIs
  <2>2. ASSUME Separate, ~carry'  PROVE TookEffect(o)'
    <3>1. CASE op = "MKDIR"
      <4>1. o.path \in dirs'
        BY <1>2, <1>7, <2>1, <2>2, <3>1 DEF DosPath, Effect, Returns
      <4> QED
        BY <1>1, <1>3, <3>1, <4>1 DEF TookEffect
    <3>2. CASE op = "DELETE"
      <4>1. o.path \notin dirs' /\ o.path \notin DOMAIN files'
        <5>1. CASE call = "rmdir"
          BY <1>7, <2>1, <2>2, <5>1 DEF DosPath, Effect, Returns
        <5>2. CASE call = "unlink"
          BY <1>7, <2>1, <2>2, <5>2 DEF DosPath, Effect, Returns
        <5> QED
          BY <1>2, <3>2, <5>1, <5>2
      <4> QED
        BY <1>1, <1>3, <3>2, <4>1 DEF TookEffect, Exists
    <3>3. CASE op = "RENAME"
      <4>1. o.path # o.target
        <5>1. /\ script \in Scripts /\ opno[c] \in 1..Len(script[c])
              /\ Op(c) = script[c][opno[c]]
          BY <1>1, ScriptIs
        <5> QED
          BY <1>3, <2>2, <3>3, <5>1 DEF Separate
      <4>2. /\ Exists(path) /\ ~Exists(o.target)
            /\ files' = [f \in {IF x = path THEN o.target ELSE x : x \in DOMAIN files}
                          |-> IF f = o.target THEN files[path] ELSE files[f]]
            /\ dirs' = {IF x = path THEN o.target ELSE x : x \in dirs}
        <5>1. call = "rename" /\ g_file.target = o.target
          BY <1>2, <3>3
        <5>2. /\ Returns(Exists(path) /\ ~Exists(o.target), 0)
              /\ Exists(path) /\ ~Exists(o.target)
                   => /\ files' = [f \in {IF x = path THEN o.target ELSE x : x \in DOMAIN files}
                                     |-> IF f = o.target THEN files[path] ELSE files[f]]
                      /\ dirs' = {IF x = path THEN o.target ELSE x : x \in dirs}
          <6> HIDE DEF o
          <6> QED
            BY <1>7, <5>1, SMTT(30) DEF DosPath, Effect
        <5>3. Exists(path) /\ ~Exists(o.target)
          BY <2>2, <5>2 DEF Returns
        <5> QED
          BY <5>2, <5>3
      <4>3. o.path \notin dirs' /\ o.path \notin DOMAIN files'
        BY <2>1, <4>1, <4>2
      <4>4. o.target \in dirs' \/ o.target \in DOMAIN files'
        BY <2>1, <4>2 DEF Exists
      <4> QED
        BY <1>1, <1>3, <3>3, <4>3, <4>4 DEF TookEffect, Exists
    <3> QED
      BY <3>1, <3>2, <3>3
  <2> QED
    BY <1>4, <1>5, <2>2
<1> QED
  BY <1>2, <1>6, <1>7, CallGoes DEF PathCalls

(* A copy: at each call, what is in the copy is what has been read.        *)
LEMMA CopyAtDos ==
  ASSUME HandleIInv, ClientsAreSound, ServerIsSound, NEW c \in Clients, OneHostAt(c),
         UNCHANGED client, Dos, op = "COPY"
  PROVE  Running(c)' /\ OperationIs(c)'
<1> DEFINE f == Op(c).path
           t == Op(c).target
           n == local.bytes
           m == InitFiles[f]
<1>1. /\ Running(c) /\ OperationIs(c) /\ DiskIs(c) /\ step[c] # "idle"
      /\ op = Now(c).type /\ call \in CallsIn(op)
      /\ Op(c)' = Op(c) /\ Now(c)' = Now(c)
      /\ UNCHANGED <<op, call, bx, local, step, offset, file_size, got>>
      /\ ~returned /\ returned'
      /\ KeepsFile /\ Holds(c, op)'
  BY DosNow
<1>2. /\ g_file.filename = f /\ g_file.target = t
      /\ call \in {"copy_open", "copy_create", "copy_read", "copy_write",
                   "copy_close_out", "copy_close_in"}
      /\ CopyWrites(c) /\ (Separate => Copies(c))
  BY <1>1 DEF Running, Holds, CallsIn, PathOps, Copying
<1>3. Op(c).kind = "COPY"
  BY <1>1, KindIs DEF PathOps
<1>4. OperationIs(c)'
  BY <1>1, <1>3 DEF OperationIs
<1>5. ASSUME CopyWrites(c)', Separate => Copies(c)'  PROVE Running(c)'
  BY <1>1, <1>5 DEF Running
<1>6. Separate => f # t
  BY <1>2 DEF Copies
<1>7. ASSUME Separate, f \in DOMAIN files
      PROVE  files[f] = m /\ m \in Seq(Chunks)
  BY <1>1, <1>3, <1>6, <1>7, SourceStands
<1>8. CASE DosFails
  BY <1>8, FailureKeeps
<1>9. CASE call = "copy_open" /\ DosOpen
  <2>1. path = f
    BY <1>2, <1>9 DEF path
  <2>2. CopyWrites(c)'
    BY <1>1, <1>9 DEF CopyWrites
  <2>3. UNCHANGED files
    BY <1>9 DEF DosOpen
  <2>4. CASE path \in DOMAIN files /\ FreeHandles # {}
    <3>1. Opened(path)
      BY <1>9, <2>4 DEF DosOpen
    <3>2. ax' \in DOMAIN open' /\ open'[ax'] = [file |-> path, pos |-> 0]
      BY <2>4, <3>1, OpenedIs
    <3>3. Separate => Copies(c)'
      BY <1>1, <1>2, <1>9, <2>1, <2>3, <2>4, <3>2 DEF Copies, IsAt
    <3> QED
      BY <1>4, <1>5, <2>2, <3>3
  <2>5. CASE ~(path \in DOMAIN files /\ FreeHandles # {})
    <3>1. carry'
      BY <1>9, <2>5 DEF DosOpen, Returns
    <3>2. Separate => Copies(c)'
      BY <1>1, <1>2, <1>9, <3>1 DEF Copies
    <3> QED
      BY <1>4, <1>5, <2>2, <3>2
  <2> QED
    BY <2>4, <2>5
<1>10. CASE call = "copy_create" /\ DosCreate
  <2>1. path = t
    BY <1>2, <1>10 DEF path
  <2>2. ASSUME ~carry'
        PROVE  /\ ax' \notin DOMAIN open /\ DOMAIN open' = DOMAIN open \cup {ax'}
               /\ open'[ax'] = [file |-> t, pos |-> 0]
               /\ \A h \in DOMAIN open : open'[h] = open[h]
               /\ DOMAIN files' = DOMAIN files \cup {t} /\ files'[t] = <<>>
    BY <1>10, <2>1, <2>2, CreatedIs
  <2>3. CopyWrites(c)'
    BY <1>1, <1>10, <2>2 DEF CopyWrites
  <2>4. DOMAIN files \subseteq DOMAIN files'
    <3>1. files' = files \/ ~carry'
      BY <1>10 DEF DosCreate, Opened, Returns
    <3> QED
      BY <2>2, <3>1
  <2>5. ASSUME Separate  PROVE Copies(c)'
    <3>1. IsAt(local.in, f, 0) /\ f \in DOMAIN files /\ n = 0 /\ f # t
      BY <1>2, <1>10, <2>5 DEF Copies
    <3>2. open' = open \/ ~carry'
      BY <1>10 DEF DosCreate, Opened, Returns
    <3>3. local.in \in DOMAIN open' /\ open'[local.in].file = f /\ open'[local.in].pos = 0
      BY <2>2, <3>1, <3>2 DEF IsAt
    <3> QED
      BY <1>1, <1>10, <2>2, <2>4, <3>1, <3>3 DEF Copies, IsAt
  <2> QED
    BY <1>4, <1>5, <2>3, <2>5
<1>11. CASE call = "copy_read" /\ DosRead
  <2>1. bx = local.in /\ bx \in DOMAIN open
    BY <1>11 DEF HandleIInv, MadeWith, DosRead
  <2>2. /\ ~carry' /\ UNCHANGED <<files, dirs>> /\ DOMAIN open' = DOMAIN open
        /\ \A h \in DOMAIN open : open'[h].file = open[h].file
        /\ \A h \in DOMAIN open : h # bx => open'[h] = open[h]
    BY <1>11, ReadIs
  <2>3. CopyWrites(c)'
    BY <1>1, <1>2, <1>11, <2>2 DEF CopyWrites
  <2>4. ASSUME Separate  PROVE Copies(c)'
    <3>1. /\ IsAt(local.in, f, n) /\ IsAt(local.out, t, n) /\ f \in DOMAIN files /\ f # t
          /\ n \in 0..Len(m) /\ t \in DOMAIN files /\ files[t] = SubSeq(m, 1, n)
      BY <1>1, <1>2, <1>11, <2>4 DEF Copies
    <3>2. files[f] = m /\ m \in Seq(Chunks) /\ Len(m) \in Nat
      BY <1>7, <2>4, <3>1, LenProperties
    <3>3. \/ n < Len(m) /\ ax' = 1 /\ g_file'.chunk = m[n + 1] /\ open'[bx].pos = n + 1
          \/ ~(n < Len(m)) /\ ax' = 0 /\ open' = open
      BY <1>11, <2>1, <3>1, <3>2, ReadIs DEF IsAt
    <3>4. local.in # local.out
      BY <3>1 DEF IsAt
    <3>5. local.out \in DOMAIN open' /\ open'[local.out].file = t /\ open'[local.out].pos = n
      BY <2>1, <2>2, <3>1, <3>4 DEF IsAt
    <3>6. local.in \in DOMAIN open' /\ open'[local.in].file = f
      BY <2>1, <2>2, <3>1 DEF IsAt
    <3>7. CASE n < Len(m) /\ ax' = 1 /\ g_file'.chunk = m[n + 1] /\ open'[bx].pos = n + 1
      BY <1>1, <1>11, <2>1, <2>2, <3>1, <3>5, <3>6, <3>7 DEF Copies, IsAt
    <3>8. CASE ~(n < Len(m)) /\ ax' = 0 /\ open' = open
      <4>1. n = Len(m)
        BY <3>1, <3>2, <3>8
      <4> QED
        BY <1>1, <1>11, <2>1, <2>2, <3>1, <3>8, <4>1 DEF Copies, IsAt
    <3> QED
      BY <3>3, <3>7, <3>8
  <2> QED
    BY <1>4, <1>5, <2>3, <2>4
<1>12. CASE call = "copy_write" /\ DosWrite
  <2>1. bx = local.out /\ bx \in DOMAIN open
    BY <1>12 DEF HandleIInv, MadeWith, DosWrite
  <2>2. /\ ~carry' /\ DOMAIN open' = DOMAIN open /\ DOMAIN files' = DOMAIN files
        /\ \A h \in DOMAIN open : open'[h].file = open[h].file
        /\ \A h \in DOMAIN open : h # bx => open'[h] = open[h]
    BY <1>12, WriteIs
  <2>3. CopyWrites(c)'
    BY <1>1, <1>2, <1>12, <2>2 DEF CopyWrites
  <2>4. ASSUME Separate  PROVE Copies(c)'
    <3>1. /\ IsAt(local.in, f, n + 1) /\ IsAt(local.out, t, n) /\ f \in DOMAIN files /\ f # t
          /\ n \in 0..Len(m) /\ t \in DOMAIN files /\ files[t] = SubSeq(m, 1, n)
          /\ n < Len(m) /\ g_file.chunk = m[n + 1]
      BY <1>1, <1>2, <1>12, <2>4 DEF Copies
    <3>2. m \in Seq(Chunks) /\ Len(m) \in Nat
      BY <1>7, <2>4, <3>1, LenProperties
    <3>3. /\ open'[bx].pos = n + 1
          /\ ax' = 1 => files'[t] = Written(SubSeq(m, 1, n), n, m[n + 1])
      <4>1. t = open[bx].file /\ n = open[bx].pos
        BY <2>1, <3>1 DEF IsAt
      <4>2. /\ open'[bx].pos = n + 1
            /\ t \in DOMAIN files /\ ax' = 1 => files'[t] = Written(files[t], n, g_file.chunk)
        BY <1>12, <4>1, WriteIs
      <4> QED
        BY <3>1, <4>2
    <3>4. ax' = 1 => files'[t] = SubSeq(m, 1, n + 1)
      BY <3>1, <3>2, <3>3, WritesOn
    <3>5. local.in # local.out
      BY <3>1 DEF IsAt
    <3>6. IsAt(local.in, f, n + 1)' /\ IsAt(local.out, t, n + 1)'
      BY <1>1, <2>1, <2>2, <3>1, <3>3, <3>5 DEF IsAt
    <3>7. n + 1 \in 0..Len(m)
      BY <3>1, <3>2
    <3> QED
      BY <1>1, <1>12, <2>2, <3>1, <3>4, <3>6, <3>7 DEF Copies
  <2> QED
    BY <1>4, <1>5, <2>3, <2>4
<1>13. CASE call \in {"copy_close_out", "copy_close_in"} /\ DosClose
  <2>1. UNCHANGED files
    BY <1>13 DEF DosClose
  <2>2. CopyWrites(c)'
    BY <1>1, <1>13 DEF CopyWrites
  <2>3. Separate => Copies(c)'
    BY <1>1, <1>2, <1>13, <2>1 DEF Copies
  <2> QED
    BY <1>4, <1>5, <2>2, <2>3
<1> QED
  BY <1>2, <1>8, <1>9, <1>10, <1>11, <1>12, <1>13, CallGoes DEF Closing

LEMMA DosStep ==
  ASSUME HandleIInv, ClientsAreSound, ServerIsSound, NEW c \in Clients, OneHostAt(c),
         UNCHANGED client, Dos
  PROVE  OneHostAt(c)'
<1>1. /\ step[c] # "idle" /\ op = Now(c).type /\ op' = op /\ UNCHANGED step
      /\ g_file.pending_op = "NONE" /\ NoRequest /\ toClient[c] = <<>>
  <2>1. call # "none"
    BY DosLeaves
  <2>2. AtDos(c)
    BY <2>1, AtDosNow
  <2> QED
    BY <2>2, DosNow DEF AtDos
<1>2. op \in {"PUT_BEGIN", "PUT_DATA", "PUT_END", "GET_BEGIN", "GET_DATA_REQ",
              "GET_END", "DIR_LIST_DATA_REQ", "MKDIR", "DELETE", "RENAME", "COPY"}
  BY <1>1, KindIs DEF PathOps
<1>3. Running(c)' /\ OperationIs(c)'
  BY <1>2, GetBeginAtDos, GetReadAtDos, EndAtDos, ListAtDos, PutBeginAtDos, PutDataAtDos,
     PathOpAtDos, CopyAtDos
<1>4. DiskIs(c)' /\ Reported(c)'
  BY DosKeepsDisk
<1>5. UNCHANGED <<toServer, toClient, ready>> /\ g_file'.pending_op = "NONE"
  <2>1. UNCHANGED <<toServer, toClient, ready>>
    BY DosLeaves DEF wire
  <2>2. g_file' = g_file => g_file'.pending_op = "NONE"
    BY <1>1
  <2>3. ASSUME NEW b, g_file' = [g_file EXCEPT !.chunk = b]  PROVE g_file'.pending_op = "NONE"
    BY <1>1, <2>3
  <2> QED
    BY <2>1, <2>2, <2>3, DosLeaves
<1>6. AtDos(c)'
  BY <1>1, <1>3, <1>5 DEF AtDos, NoRequest, Calm
<1>7. op' # "NONE"
  BY <1>1, <1>2
<1> QED
  BY <1>1, <1>3, <1>4, <1>6, <1>7 DEF OneHostAt, InOnePlace

-----------------------------------------------------------------------------
(* process_idle: from one call to the next, or to the answer.              *)

Served(c) == NoRequest /\ toClient[c] = <<>> /\ step[c] # "idle" /\ OperationIs(c)

LEMMA EnteredNow ==
  ASSUME HandleIInv, NEW c \in Clients, OneHostAt(c), NEW name, name # "NONE", Enter(name)
  PROVE  /\ Served(c) /\ Holds(c, name)
         /\ name = Now(c).type \/ (name = "ACK" /\ Now(c).type = "PUT_DATA")
         /\ local = NoLocal /\ ~returned /\ ~WasWritten
<1>1. g_file.pending_op = name /\ op = "NONE" /\ call = "none"
  BY DEF Enter, HandleIInv, CallsOf
<1>2. Taken(c) /\ step[c] # "idle"
  BY <1>1 DEF OneHostAt, InOnePlace, Resting, OnWire, InPool, AtDos, Answered, NotServed
<1> QED
  BY <1>1, <1>2 DEF OneHostAt, Served, Taken, Pending, WasWritten

LEMMA ReturnedNow ==
  ASSUME NEW c \in Clients, OneHostAt(c), op # "NONE"
  PROVE  /\ Served(c) /\ Running(c) /\ Holds(c, op) /\ op = Now(c).type
         /\ g_file.pending_op = "NONE" /\ DiskIs(c)
<1>1. AtDos(c) /\ step[c] # "idle"
  BY DEF OneHostAt, InOnePlace, Resting, OnWire, InPool, Taken, Answered, NotServed
<1> QED
  BY <1>1 DEF OneHostAt, Served, AtDos, Running

(* What is known of the operation does not change, unless a file is opened *)
(* or a chunk has been written.                                            *)
LEMMA OperationRemains ==
  ASSUME HandleIInv, NEW c \in Clients, UNCHANGED <<client, dos>>, OperationIs(c),
         ~WasWritten, ~WasWritten',
         Op(c).kind = "PUT" /\ step[c] = "DATA" => KeepsFile,
         step[c] \in {"DATA", "END"} => g_file'.handle \in {g_file.handle, NoHandle}
  PROVE  OperationIs(c)'
<1>1. /\ Op(c)' = Op(c)
      /\ UNCHANGED <<step, offset, file_size, got, files, open, faults>>
  BY SameOperation DEF client, dos
<1>2. NoHandle \notin DOMAIN open
  BY NoHandleIsNone DEF HandleIInv
<1>3. GetGot(c) => GetGot(c)'
  BY <1>1, <1>2 DEF GetGot
<1>4. DirGot(c) => DirGot(c)'
  BY <1>1 DEF DirGot
<1>5. ASSUME Op(c).kind = "PUT", PutIs(c)  PROVE PutIs(c)'
  BY <1>1, <1>5 DEF PutIs, KeepsFile
<1> QED
  BY <1>1, <1>3, <1>4, <1>5 DEF OperationIs

(* An answer arrives, or, if the packet it answers was another host's, it  *)
(* does not.                                                               *)
LEMMA AnswerPlaces ==
  ASSUME RepliesAreSound, NEW c \in Clients, OneHostAt(c), UNCHANGED client, Served(c),
         NEW g, NEW r, Answer(g, r), g.pending_op = "NONE", ReplyFits(c, r)', OperationIs(c)'
  PROVE  OneHostAt(c)'
<1>1. /\ toClient' = [toClient EXCEPT ![Mac(r.session)] = Append(@, r)]
      /\ g_file' = g /\ op' = "NONE" /\ local' = NoLocal /\ ~returned'
      /\ UNCHANGED <<toServer, ready, dos>>
  BY DEF Answer, SendToClient, Unchanging
<1>2. toClient'[c] = <<>> \/ toClient'[c] = <<r>>
  <2>1. toClient'[c] = toClient[c] \/ toClient'[c] = Append(toClient[c], r)
    BY <1>1 DEF RepliesAreSound
  <2>2. Append(<<>>, r) = <<r>>
    OBVIOUS
  <2> QED
    BY <2>1, <2>2 DEF Served
<1>3. NoRequest' /\ NotServed' /\ step'[c] # "idle"
  BY <1>1 DEF Served, NoRequest, Calm, NotServed, client
<1>4. InOnePlace(c)'
  <2>1. CASE toClient'[c] = <<>>
    BY <1>3, <2>1 DEF InOnePlace, Resting
  <2>2. CASE toClient'[c] = <<r>>
    <3>1. Head(toClient'[c]) = r /\ Tail(toClient'[c]) = <<>> /\ toClient'[c] # <<>>
      BY <2>2
    <3>2. Answered(c)'
      BY <1>3, <3>1 DEF Answered, Reply
    <3> QED
      BY <1>3, <3>2 DEF InOnePlace
  <2> QED
    BY <1>2, <2>1, <2>2
<1>5. DiskIs(c)' /\ Reported(c)'
  BY <1>1, ReportStands DEF OneHostAt, dos
<1> QED
  BY <1>1, <1>4, <1>5 DEF OneHostAt

(* Most answers are acknowledgements. *)
LEMMA AckPlaces ==
  ASSUME RepliesAreSound, NEW c \in Clients, OneHostAt(c), UNCHANGED client, Served(c),
         NEW g, NEW command, NEW status, NEW off, SendAck(g, command, status, off),
         g.pending_op = "NONE", OperationIs(c)',
         \A r : r.status = status /\ r.offset = off /\ r.data = <<>> => ReplyFits(c, r)'
  PROVE  OneHostAt(c)'
<1> DEFINE r == FileAck(g.client, g.transfer_id, command, status, off)
<1>1. r.status = status /\ r.offset = off /\ r.data = <<>>
  BY DEF FileAck
<1>2. Answer(g, r)
  BY DEF SendAck
<1> HIDE DEF r
<1>3. ReplyFits(c, r)'
  BY <1>1
<1> QED
  BY <1>2, <1>3, AnswerPlaces

LEMMA RefusalFits ==
  ASSUME NEW c, UNCHANGED client, Op(c).kind # "DIR", NEW r, r.status = "ERROR"
  PROVE  ReplyFits(c, r)'
<1>1. Op(c)' = Op(c)
  BY SameOperation DEF client
<1> QED
  BY <1>1 DEF ReplyFits

Calls(name, call_name) == /\ op' = name /\ call' = call_name /\ g_file'.pending_op = "NONE"
                          /\ UNCHANGED toClient /\ Unchanging

LEMMA CallPlaces ==
  ASSUME ClientsAreSound, NEW c \in Clients, OneHostAt(c), UNCHANGED client, Served(c),
         NEW name, name = Now(c).type, Holds(c, name),
         NEW call_name \in CallsIn(name), Calls(name, call_name), KeepsRequest, OperationIs(c)',
         name = "GET_BEGIN" => GetBegins(c)',
         name = "GET_DATA_REQ" => GetReads(c)',
         name = "DIR_LIST_DATA_REQ" /\ faults = 0 /\ ListsFirst => Lists(c)',
         name = "PUT_BEGIN" => PutBegins(c)',
         name = "PUT_DATA" => g_file'.expected_offset = offset[c],
         name \in {"MKDIR", "DELETE", "RENAME"} => ~returned',
         name = "COPY" => CopyWrites(c)' /\ (Separate => Copies(c)')
  PROVE  OneHostAt(c)'
<1>1. Op(c)' = Op(c) /\ Now(c)' = Now(c) /\ UNCHANGED <<step, offset>>
  BY SameOperation, SameRequest DEF client
<1>2. name \in {"PUT_BEGIN", "PUT_DATA", "PUT_END", "GET_BEGIN", "GET_DATA_REQ",
                "GET_END", "DIR_LIST_DATA_REQ"} \cup PathOps
  BY KindIs DEF Served
<1>3. name # "ACK" /\ name # "NONE"
  BY <1>2 DEF PathOps
<1>4. /\ op' = name /\ call' = call_name /\ g_file'.pending_op = "NONE"
      /\ UNCHANGED <<toClient, toServer, ready, dos>>
  BY DEF Calls, Unchanging
<1>5. Holds(c, op)'
  BY <1>1, <1>3, <1>4 DEF Holds, KeepsRequest
<1>6. Running(c)'
  BY <1>1, <1>4, <1>5 DEF Running, dos
<1>7. AtDos(c)' /\ step'[c] # "idle"
  BY <1>1, <1>4, <1>6 DEF AtDos, Served, NoRequest, Calm
<1>8. DiskIs(c)' /\ Reported(c)'
  BY <1>4, ReportStands DEF OneHostAt, dos
<1> QED
  BY <1>3, <1>4, <1>7, <1>8 DEF OneHostAt, InOnePlace

(* A call that process_idle makes has no result yet. *)
LEMMA CallGives ==
  ASSUME NEW name, NEW g, NEW call_name, NEW handle, CallDos(name, g, call_name, handle),
         g.pending_op = "NONE"
  PROVE  /\ Calls(name, call_name) /\ g_file' = g /\ bx' = handle /\ UNCHANGED dos
         /\ call_name \notin Closing => ~returned'
         /\ ~WasWritten'
BY DEF CallDos, Calls, Unchanging, WasWritten, Closing

LEMMA AnswerGives ==
  ASSUME NEW g, NEW r, Answer(g, r)
  PROVE  g_file' = g /\ UNCHANGED dos /\ ~WasWritten'
BY DEF Answer, Unchanging, WasWritten

LEMMA IdleKeepsRequest ==
  /\ Idle.handle = g_file.handle /\ Idle.expected_offset = g_file.expected_offset
  /\ Idle.pending_op = "NONE" /\ (g_file' = Idle => KeepsRequest /\ KeepsFile)
<1>1. /\ Idle.handle = g_file.handle /\ Idle.expected_offset = g_file.expected_offset
      /\ Idle.pending_op = "NONE"
  BY DEF Idle
<1>2. ASSUME g_file' = Idle  PROVE KeepsRequest /\ KeepsFile
  BY <1>2 DEF Idle, KeepsRequest, KeepsFile
<1> QED
  BY <1>1, <1>2

(* An answer that repeats what has been acknowledged. *)
LEMMA AgainAcknowledged ==
  ASSUME HandleIInv, ClientsAreSound, RepliesAreSound, NEW c \in Clients, OneHostAt(c),
         UNCHANGED client, idle_ack
  PROVE  OneHostAt(c)'
<1>1. /\ Served(c) /\ Holds(c, "ACK") /\ ~WasWritten
      /\ "ACK" = Now(c).type \/ Now(c).type = "PUT_DATA"
  BY EnteredNow DEF idle_ack
<1>2. Op(c).kind = "PUT" /\ step[c] = "DATA"
  BY <1>1, KindIs DEF Served, PathOps
<1> DEFINE g == [Idle EXCEPT !.expected_offset = g_file.ack_offset]
<1> PICK r : r = FileAck(g.client, g.transfer_id, "DATA", "OK", g.expected_offset)
  OBVIOUS
<1>3. g_file.ack_offset = g_file.expected_offset
  BY <1>1 DEF Holds
<1>4. /\ g.pending_op = "NONE" /\ g.handle = g_file.handle
      /\ g.expected_offset = g_file.expected_offset
  BY <1>3 DEF Idle
<1>5. Answer(g, r)
  BY DEF idle_ack, send_file_ack, SendAck
<1>6. r.offset = g.expected_offset
  BY DEF FileAck
<1> HIDE DEF g
<1>7. g_file' = g /\ UNCHANGED dos /\ ~WasWritten'
  BY <1>5, AnswerGives
<1>8. OperationIs(c)'
  BY <1>1, <1>4, <1>7, OperationRemains DEF Served, KeepsFile
<1>9. ReplyFits(c, r)'
  <2>1. Op(c)' = Op(c) /\ step' = step
    BY SameOperation DEF client
  <2> QED
    BY <1>2, <1>6, <1>7, <2>1 DEF ReplyFits, PathOps
<1> QED
  BY <1>1, <1>4, <1>5, <1>8, <1>9, AnswerPlaces

(* The file the last transfer left open is closed, and one is opened.      *)
LEMMA BeginIsPlaced ==
  ASSUME HandleIInv, ClientsAreSound, NEW c \in Clients, OneHostAt(c),
         UNCHANGED client, idle_begin
  PROVE  OneHostAt(c)'
<1>1. PICK name \in {"PUT_BEGIN", "GET_BEGIN"} :
        LET first == IF name = "PUT_BEGIN" THEN "create" ELSE "open_read"
        IN  \/ /\ Enter(name)
               /\ IF g_file.active THEN CallDos(name, Idle, "close_old", g_file.handle)
                                   ELSE CallDos(name, Idle, first, NoHandle)
            \/ /\ Returned(name, "close_old")
               /\ CallDos(name, g_file, first, NoHandle)
  BY DEF idle_begin
<1> DEFINE first == IF name = "PUT_BEGIN" THEN "create" ELSE "open_read"
<1>2. /\ first \in CallsIn(name) /\ "close_old" \in CallsIn(name) /\ first \notin Closing
      /\ first # "file_size"
  BY DEF CallsIn, Closing
<1>3. name = Now(c).type /\ step[c] # "idle" => Op(c).kind \in {"PUT", "GET"} /\ step[c] = "BEGIN"
  BY KindIs
<1> HIDE DEF first
<1>4. ASSUME Served(c), Holds(c, name), name = Now(c).type,
             NEW g, g.pending_op = "NONE", g_file' = g => KeepsRequest,
             NEW call_name \in {"close_old", first}, NEW handle,
             CallDos(name, g, call_name, handle)
      PROVE  OneHostAt(c)'
  <2>1. /\ Calls(name, call_name) /\ g_file' = g /\ UNCHANGED dos
        /\ call_name \notin Closing => ~returned'
    BY <1>4, CallGives
  <2>2. call' = call_name
    BY <2>1 DEF Calls
  <2>3. OperationIs(c)'
    <3>1. Op(c)' = Op(c) /\ step' = step /\ got' = got
      BY SameOperation DEF client
    <3> QED
      BY <1>3, <1>4, <3>1 DEF OperationIs, GetGot, PutIs, Served
  <2>4. GetBegins(c)'
    BY <1>2, <1>4, <2>1, <2>2 DEF GetBegins, Closing
  <2>5. PutBegins(c)'
    BY <1>2, <1>4, <2>1, <2>2 DEF PutBegins, Closing
  <2> QED
    BY <1>2, <1>4, <2>1, <2>3, <2>4, <2>5, CallPlaces
<1>5. CASE Enter(name)
  <2>1. Served(c) /\ Holds(c, name) /\ name = Now(c).type
    BY <1>5, EnteredNow
  <2>2. \/ CallDos(name, Idle, "close_old", g_file.handle)
        \/ CallDos(name, Idle, first, NoHandle)
        \/ Returned(name, "close_old")
    BY <1>1 DEF first
  <2>3. ~Returned(name, "close_old")
    BY <1>5 DEF Enter, Returned
  <2> QED
    BY <1>4, <2>1, <2>2, <2>3, IdleKeepsRequest
<1>6. CASE Returned(name, "close_old") /\ CallDos(name, g_file, first, NoHandle)
  <2>1. Served(c) /\ Holds(c, name) /\ name = Now(c).type /\ g_file.pending_op = "NONE"
    BY <1>6, ReturnedNow DEF Returned
  <2>2. g_file' = g_file => KeepsRequest
    BY DEF KeepsRequest
  <2> QED
    BY <1>4, <1>6, <2>1, <2>2
<1> QED
  BY <1>1, <1>5, <1>6 DEF first

(* The file of an upload has been created, or not. *)
LEMMA CreatedIsPlaced ==
  ASSUME HandleIInv, ClientsAreSound, RepliesAreSound, NEW c \in Clients, OneHostAt(c),
         UNCHANGED client, idle_created
  PROVE  OneHostAt(c)'
<1> DEFINE g == [g_file EXCEPT !.handle = IF carry THEN NoHandle ELSE ax,
                               !.expected_offset = 0, !.active = ~carry,
                               !.mode = IF carry THEN "NONE" ELSE "PUT"]
<1> PICK r : r = FileAck(g.client, g.transfer_id, "BEGIN", StatusOf(~carry), g.expected_offset)
  OBVIOUS
<1>1. op = "PUT_BEGIN" /\ call = "create" /\ returned
  BY DEF idle_created, Returned
<1>2. /\ Served(c) /\ Running(c) /\ op = Now(c).type /\ g_file.pending_op = "NONE"
  BY <1>1, ReturnedNow
<1>3. Op(c).kind = "PUT" /\ step[c] = "BEGIN"
  BY <1>1, <1>2, KindIs DEF Served
<1>4. /\ g.pending_op = "NONE" /\ g.expected_offset = 0
      /\ ~carry => g.handle = ax
  BY <1>2
<1>5. Answer(g, r)
  BY DEF idle_created, send_file_ack, SendAck
<1>6. r.status = "OK" => ~carry
  <2>1. r.status = StatusOf(~carry)
    BY DEF FileAck
  <2> QED
    BY <2>1 DEF StatusOf
<1> HIDE DEF g
<1>7. g_file' = g /\ UNCHANGED dos
  BY <1>5, AnswerGives
<1>8. Op(c)' = Op(c) /\ step' = step
  BY SameOperation DEF client
<1>9. OperationIs(c)'
  BY <1>3, <1>8 DEF OperationIs, PutIs
<1>10. PutBegins(c)
  BY <1>1, <1>2 DEF Running
<1>11. r.status = "OK" =>
         /\ IsAt(ax, Op(c).path, 0)
         /\ Op(c).path \in DOMAIN files /\ files[Op(c).path] = <<>>
  BY <1>1, <1>6, <1>10 DEF PutBegins
<1>12. ReplyFits(c, r)'
  BY <1>3, <1>4, <1>6, <1>7, <1>8, <1>11 DEF ReplyFits, PathOps, IsAt, dos
<1> QED
  BY <1>2, <1>4, <1>5, <1>9, <1>12, AnswerPlaces

(* A chunk that is expected is written; any other is refused.              *)
LEMMA PutDataIsPlaced ==
  ASSUME HandleIInv, ClientsAreSound, RepliesAreSound, NEW c \in Clients, OneHostAt(c),
         UNCHANGED client, idle_put_data
  PROVE  OneHostAt(c)'
<1>1. /\ Served(c) /\ Holds(c, "PUT_DATA") /\ Now(c).type = "PUT_DATA" /\ ~WasWritten
  BY EnteredNow DEF idle_put_data
<1>2. Op(c).kind = "PUT" /\ step[c] = "DATA"
  BY <1>1, KindIs DEF Served
<1>3. CASE send_file_ack(Idle, "DATA", "ERROR")
  <2> PICK r : r = FileAck(Idle.client, Idle.transfer_id, "DATA", "ERROR", Idle.expected_offset)
    OBVIOUS
  <2>1. Answer(Idle, r) /\ r.status = "ERROR"
    BY <1>3 DEF send_file_ack, SendAck, FileAck
  <2>2. g_file' = Idle /\ UNCHANGED dos /\ ~WasWritten'
    BY <2>1, AnswerGives
  <2>3. OperationIs(c)'
    BY <1>1, <2>2, IdleKeepsRequest, OperationRemains DEF Served, KeepsFile
  <2>4. ReplyFits(c, r)'
    BY <1>2, <2>1, RefusalFits
  <2> QED
    BY <1>1, <2>1, <2>3, <2>4, IdleKeepsRequest, AnswerPlaces
<1>4. CASE /\ g_file.chunk_offset = g_file.expected_offset
           /\ CallDos("PUT_DATA", Idle, "write", g_file.handle)
  <2>1. /\ Calls("PUT_DATA", "write") /\ g_file' = Idle /\ UNCHANGED dos /\ ~WasWritten'
    BY <1>4, IdleKeepsRequest, CallGives
  <2>2. OperationIs(c)'
    BY <1>1, <2>1, IdleKeepsRequest, OperationRemains DEF Served, KeepsFile
  <2>3. g_file'.expected_offset = offset[c]
    BY <1>1, <1>4, <2>1, IdleKeepsRequest DEF Holds
  <2>4. "write" \in CallsIn("PUT_DATA")
    BY DEF CallsIn
  <2> QED
    BY <1>1, <2>1, <2>2, <2>3, <2>4, IdleKeepsRequest, CallPlaces
<1> QED
  BY <1>3, <1>4 DEF idle_put_data

(* Once it is written the next chunk is expected, which is what the        *)
(* acknowledgement says.                                                   *)
LEMMA WrittenIsPlaced ==
  ASSUME HandleIInv, ClientsAreSound, RepliesAreSound, NEW c \in Clients, OneHostAt(c),
         UNCHANGED client, idle_written
  PROVE  OneHostAt(c)'
<1>1. op = "PUT_DATA" /\ call = "write" /\ returned
  BY DEF idle_written, Returned
<1>2. /\ Served(c) /\ Running(c) /\ Holds(c, op) /\ op = Now(c).type /\ g_file.pending_op = "NONE"
  BY <1>1, ReturnedNow
<1>3. Op(c).kind = "PUT" /\ step[c] = "DATA"
  BY <1>1, <1>2, KindIs DEF Served
<1> DEFINE e == g_file.expected_offset
           g == [g_file EXCEPT !.expected_offset = @ + g_file.chunk_count]
<1>4. /\ e = offset[c] /\ g_file.chunk_count = 1
      /\ offset[c] \in Nat /\ offset[c] < Len(Op(c).data) /\ Len(Op(c).data) \in Nat
  <2>1. e = offset[c] /\ g_file.chunk_count = 1
    BY <1>1, <1>2 DEF Running, Holds
  <2>2. Op(c) \in Operation /\ Fits(Op(c), step[c], offset[c])
    BY <1>2, ScriptIs DEF ClientsAreSound, ClientIsSound, Served
  <2> QED
    BY <1>3, <2>1, <2>2, LenProperties DEF Fits, Operation
<1>5. Op(c)' = Op(c) /\ UNCHANGED <<step, offset>>
  BY SameOperation DEF client
<1>6. ASSUME NEW h, NEW status, send_file_ack(h, "DATA", status), h.pending_op = "NONE",
             OperationIs(c)'
      PROVE  OneHostAt(c)'
  <2> PICK r : r = FileAck(h.client, h.transfer_id, "DATA", status, h.expected_offset)
    OBVIOUS
  <2>1. Answer(h, r) /\ r.offset = h.expected_offset
    BY <1>6 DEF send_file_ack, SendAck, FileAck
  <2>2. g_file' = h
    BY <2>1, AnswerGives
  <2>3. ReplyFits(c, r)'
    BY <1>3, <1>5, <2>1, <2>2 DEF ReplyFits, PathOps
  <2> QED
    BY <1>2, <1>6, <2>1, <2>3, AnswerPlaces
<1>7. PutIs(c)
  BY <1>2, <1>3 DEF Served, OperationIs
<1>8. CASE WasWritten
  <2>1. send_file_ack(g, "DATA", "OK")
    BY <1>8, Zenon DEF idle_written, WasWritten, StatusOf
  <2>2. g.pending_op = "NONE" /\ g.expected_offset = e + 1 /\ g.handle = g_file.handle
    BY <1>2, <1>4
  <2> HIDE DEF g
  <2>3. g_file' = g /\ UNCHANGED dos /\ ~WasWritten'
    BY <2>1, AnswerGives DEF send_file_ack, SendAck
  <2>4. UNCHANGED <<files, open>>
    BY <2>3 DEF dos
  <2>5. e + 1 \in {offset[c], offset[c] + 1} /\ e + 1 <= Len(Op(c).data)
    BY <1>4
  <2>6. PutIs(c)'
    BY <1>3, <1>5, <1>7, <1>8, <2>2, <2>3, <2>4, <2>5 DEF PutIs
  <2>7. OperationIs(c)'
    BY <1>3, <1>5, <2>6 DEF OperationIs
  <2> QED
    BY <1>6, <2>1, <2>2, <2>7
<1>9. CASE ~WasWritten
  <2>1. ~(~carry /\ ax = 1)
    BY <1>1, <1>9 DEF WasWritten
  <2>2. send_file_ack(g_file, "DATA", "ERROR")
    BY <2>1, Zenon DEF idle_written, StatusOf
  <2>3. g_file' = g_file /\ UNCHANGED dos /\ ~WasWritten'
    BY <2>2, AnswerGives DEF send_file_ack, SendAck
  <2>4. OperationIs(c)'
    BY <1>2, <1>9, <2>3, OperationRemains DEF Served, KeepsFile
  <2> QED
    BY <1>2, <1>6, <2>2, <2>4
<1> QED
  BY <1>8, <1>9

(* The file of a transfer is closed. *)
LEMMA EndIsPlaced ==
  ASSUME HandleIInv, ClientsAreSound, RepliesAreSound, NEW c \in Clients, OneHostAt(c),
         UNCHANGED client, idle_end
  PROVE  OneHostAt(c)'
<1>1. PICK name \in {"PUT_END", "GET_END"} :
        \/ Enter(name) /\ CallDos(name, Idle, "close", g_file.handle)
        \/ Returned(name, "close") /\ send_file_ack(Closed(g_file), "END", local.status)
  BY DEF idle_end
<1>2. name = Now(c).type /\ step[c] # "idle" => Op(c).kind \in {"PUT", "GET"} /\ step[c] = "END"
  BY KindIs
<1>3. CASE Enter(name) /\ CallDos(name, Idle, "close", g_file.handle)
  <2>1. Served(c) /\ Holds(c, name) /\ name = Now(c).type /\ ~WasWritten
    BY <1>3, EnteredNow
  <2>2. Calls(name, "close") /\ g_file' = Idle /\ UNCHANGED dos /\ ~WasWritten'
    BY <1>3, IdleKeepsRequest, CallGives
  <2>3. OperationIs(c)'
    BY <2>1, <2>2, IdleKeepsRequest, OperationRemains DEF Served, KeepsFile
  <2>4. "close" \in CallsIn(name)
    BY DEF CallsIn
  <2> QED
    BY <2>1, <2>2, <2>3, <2>4, IdleKeepsRequest, CallPlaces
<1>4. CASE Returned(name, "close") /\ send_file_ack(Closed(g_file), "END", local.status)
  <2>1. /\ Served(c) /\ op = name /\ op = Now(c).type /\ g_file.pending_op = "NONE"
        /\ ~WasWritten
    BY <1>4, ReturnedNow DEF Returned, WasWritten
  <2> DEFINE g == Closed(g_file)
  <2> PICK r : r = FileAck(g.client, g.transfer_id, "END", local.status, g.expected_offset)
    OBVIOUS
  <2>2. Answer(g, r)
    BY <1>4 DEF send_file_ack, SendAck
  <2>3. g.pending_op = "NONE" /\ g.handle = NoHandle
    BY <2>1 DEF Closed
  <2> HIDE DEF g
  <2>4. g_file' = g /\ UNCHANGED dos /\ ~WasWritten'
    BY <2>2, AnswerGives
  <2>5. Op(c).kind \in {"PUT", "GET"} /\ step[c] = "END"
    BY <1>2, <2>1 DEF Served
  <2>6. OperationIs(c)'
    BY <2>1, <2>3, <2>4, <2>5, OperationRemains DEF Served
  <2>7. Op(c)' = Op(c) /\ step' = step
    BY SameOperation DEF client
  <2>8. ReplyFits(c, r)'
    BY <2>5, <2>7 DEF ReplyFits, PathOps
  <2> QED
    BY <2>1, <2>2, <2>3, <2>6, <2>8, AnswerPlaces
<1> QED
  BY <1>1, <1>3, <1>4

(* A download: while it begins nothing is known of the operation but that  *)
(* nothing has been received.                                              *)
LEMMA GetBeginNow ==
  ASSUME ClientsAreSound, NEW c \in Clients, OneHostAt(c), UNCHANGED client, op = "GET_BEGIN"
  PROVE  /\ Served(c) /\ Holds(c, op) /\ op = Now(c).type /\ g_file.pending_op = "NONE"
         /\ GetBegins(c) /\ Op(c).kind = "GET" /\ step[c] = "BEGIN"
         /\ Op(c)' = Op(c) /\ step' = step /\ OperationIs(c)'
<1>1. /\ Served(c) /\ Running(c) /\ Holds(c, op) /\ op = Now(c).type
      /\ g_file.pending_op = "NONE"
  BY ReturnedNow
<1>2. Op(c).kind = "GET" /\ step[c] = "BEGIN"
  BY <1>1, KindIs DEF Served
<1>3. Op(c)' = Op(c) /\ step' = step /\ got' = got
  BY SameOperation DEF client
<1>4. OperationIs(c)'
  BY <1>1, <1>2, <1>3 DEF Served, OperationIs, GetGot
<1> QED
  BY <1>1, <1>2, <1>3, <1>4 DEF Running

LEMMA OpenedIsPlaced ==
  ASSUME HandleIInv, ClientsAreSound, RepliesAreSound, NEW c \in Clients, OneHostAt(c),
         UNCHANGED client, idle_opened
  PROVE  OneHostAt(c)'
<1> DEFINE g == [Closed(g_file) EXCEPT !.handle = IF carry THEN NoHandle ELSE ax,
                                       !.expected_offset = 0, !.size = 0]
<1>1. op = "GET_BEGIN" /\ call = "open_read" /\ returned
  BY DEF idle_opened, Returned
<1>2. /\ Served(c) /\ Holds(c, op) /\ op = Now(c).type /\ g_file.pending_op = "NONE"
      /\ GetBegins(c) /\ Op(c).kind = "GET" /\ step[c] = "BEGIN"
      /\ Op(c)' = Op(c) /\ step' = step /\ OperationIs(c)'
  BY <1>1, GetBeginNow
<1>3. g.pending_op = "NONE" /\ (~carry => g.handle = ax)
  BY <1>2 DEF Closed
<1>4. g_file' = g => KeepsRequest
  BY DEF Closed, KeepsRequest
<1>5. \/ carry /\ send_file_ack(g, "BEGIN", "ERROR")
      \/ ~carry /\ CallDos("GET_BEGIN", g, "file_size", NoHandle)
  BY DEF idle_opened
<1> HIDE DEF g
<1>6. CASE carry /\ send_file_ack(g, "BEGIN", "ERROR")
  <2> PICK r : r = FileAck(g.client, g.transfer_id, "BEGIN", "ERROR", g.expected_offset)
    OBVIOUS
  <2>1. Answer(g, r) /\ r.status = "ERROR"
    BY <1>6 DEF send_file_ack, SendAck, FileAck
  <2>2. ReplyFits(c, r)'
    BY <1>2, <2>1, RefusalFits
  <2> QED
    BY <1>2, <1>3, <2>1, <2>2, AnswerPlaces
<1>7. CASE ~carry /\ CallDos("GET_BEGIN", g, "file_size", NoHandle)
  <2>1. /\ Calls("GET_BEGIN", "file_size") /\ g_file' = g /\ UNCHANGED dos
        /\ "file_size" \notin Closing => ~returned'
    BY <1>3, <1>7, CallGives
  <2>2. ~returned' /\ "file_size" \in CallsIn("GET_BEGIN")
    BY <2>1 DEF Closing, CallsIn
  <2>3. GetBegins(c)'
    BY <1>1, <1>2, <1>3, <1>7, <2>1, <2>2 DEF GetBegins, Calls, dos
  <2> QED
    BY <1>1, <1>2, <1>4, <2>1, <2>2, <2>3, CallPlaces
<1> QED
  BY <1>5, <1>6, <1>7

LEMMA SizedIsPlaced ==
  ASSUME HandleIInv, ClientsAreSound, RepliesAreSound, NEW c \in Clients, OneHostAt(c),
         UNCHANGED client, idle_sized
  PROVE  OneHostAt(c)'
<1> DEFINE g1 == [g_file EXCEPT !.size = ax, !.active = TRUE, !.mode = "GET"]
           g2 == [g_file EXCEPT !.size = NoSize]
           g3 == [g_file EXCEPT !.handle = NoHandle]
<1>1. op = "GET_BEGIN" /\ returned /\ call \in {"file_size", "close_failed"}
  BY DEF idle_sized, Returned
<1>2. /\ Served(c) /\ Holds(c, op) /\ op = Now(c).type /\ g_file.pending_op = "NONE"
      /\ GetBegins(c) /\ Op(c).kind = "GET" /\ step[c] = "BEGIN"
      /\ Op(c)' = Op(c) /\ step' = step /\ OperationIs(c)'
  BY <1>1, GetBeginNow
<1>3. /\ g1.pending_op = "NONE" /\ g1.handle = g_file.handle
      /\ g2.pending_op = "NONE" /\ g2.handle = g_file.handle
      /\ g3.pending_op = "NONE"
  BY <1>2
<1>4. g_file' = g2 => KeepsRequest
  BY DEF KeepsRequest
<1>5. \/ call = "file_size" /\ ~carry /\ SendAck(g1, "BEGIN", "OK", ax)
      \/ call = "file_size" /\ SendAck(g2, "BEGIN", "OK", NoSize)
      \/ CallDos("GET_BEGIN", g2, "close_failed", g_file.handle)
      \/ SendAck(g3, "BEGIN", "ERROR", g3.expected_offset)
  BY DEF idle_sized, Returned, send_file_ack
<1> HIDE DEF g1, g2, g3
<1>6. ASSUME NEW g, g.pending_op = "NONE", g.handle = g_file.handle, call = "file_size",
             NEW off, SendAck(g, "BEGIN", "OK", off),
             ReadsFirst => off \in {Len(InitFiles[Op(c).path]), NoSize}
      PROVE  OneHostAt(c)'
  <2> PICK r : r = FileAck(g.client, g.transfer_id, "BEGIN", "OK", off)
    OBVIOUS
  <2>1. Answer(g, r) /\ r.offset = off
    BY <1>6 DEF SendAck, FileAck
  <2>2. g_file' = g /\ UNCHANGED dos
    BY <2>1, AnswerGives
  <2>3. /\ Op(c).path \in DOMAIN files /\ g_file.handle \in DOMAIN open
        /\ open[g_file.handle].file = Op(c).path
    BY <1>2, <1>6 DEF GetBegins
  <2>4. ReplyFits(c, r)'
    BY <1>2, <1>6, <2>1, <2>2, <2>3 DEF ReplyFits, PathOps, dos
  <2> QED
    BY <1>2, <1>6, <2>1, <2>4, AnswerPlaces
<1>7. CASE call = "file_size" /\ ~carry /\ SendAck(g1, "BEGIN", "OK", ax)
  <2>1. ReadsFirst => ax = Len(InitFiles[Op(c).path])
    BY <1>1, <1>2, <1>7 DEF GetBegins
  <2> QED
    BY <1>3, <1>6, <1>7, <2>1
<1>8. CASE call = "file_size" /\ SendAck(g2, "BEGIN", "OK", NoSize)
  BY <1>3, <1>6, <1>8
<1>9. CASE CallDos("GET_BEGIN", g2, "close_failed", g_file.handle)
  <2>1. Calls("GET_BEGIN", "close_failed") /\ g_file' = g2
    BY <1>3, <1>9, CallGives
  <2>2. "close_failed" \in CallsIn("GET_BEGIN")
    BY DEF CallsIn
  <2>3. GetBegins(c)'
    BY <2>1 DEF GetBegins, Calls
  <2> QED
    BY <1>1, <1>2, <1>4, <2>1, <2>2, <2>3, CallPlaces
<1>10. CASE SendAck(g3, "BEGIN", "ERROR", g3.expected_offset)
  <2> PICK r : r = FileAck(g3.client, g3.transfer_id, "BEGIN", "ERROR", g3.expected_offset)
    OBVIOUS
  <2>1. Answer(g3, r) /\ r.status = "ERROR"
    BY <1>10 DEF SendAck, FileAck
  <2>2. ReplyFits(c, r)'
    BY <1>2, <2>1, RefusalFits
  <2> QED
    BY <1>2, <1>3, <2>1, <2>2, AnswerPlaces
<1> QED
  BY <1>5, <1>7, <1>8, <1>9, <1>10

(* A chunk of a download. *)
LEMMA GetRefused ==
  ASSUME HandleIInv, RepliesAreSound, NEW c \in Clients, OneHostAt(c), UNCHANGED client,
         Served(c), ~WasWritten, Op(c).kind = "GET",
         NEW g, g.pending_op = "NONE", g.handle = g_file.handle, send_file_get_data(g, "ERROR")
  PROVE  OneHostAt(c)'
<1> PICK r : r = FileGetData(g.client, g.transfer_id, "ERROR", g.chunk_offset,
                             SubSeq(<<g.chunk>>, 1, g.chunk_count))
  OBVIOUS
<1>1. Answer(g, r) /\ r.status = "ERROR"
  BY DEF send_file_get_data, FileGetData
<1>2. g_file' = g /\ UNCHANGED dos /\ ~WasWritten'
  BY <1>1, AnswerGives
<1>3. OperationIs(c)'
  BY <1>2, OperationRemains DEF Served
<1>4. ReplyFits(c, r)'
  BY <1>1, RefusalFits
<1> QED
  BY <1>1, <1>3, <1>4, AnswerPlaces

LEMMA GetDataIsPlaced ==
  ASSUME HandleIInv, ClientsAreSound, RepliesAreSound, NEW c \in Clients, OneHostAt(c),
         UNCHANGED client, idle_get_data_req
  PROVE  OneHostAt(c)'
<1>1. /\ Served(c) /\ Holds(c, "GET_DATA_REQ") /\ Now(c).type = "GET_DATA_REQ" /\ ~WasWritten
      /\ ~returned
  BY EnteredNow DEF idle_get_data_req
<1>2. Op(c).kind = "GET" /\ step[c] = "DATA"
  BY <1>1, KindIs DEF Served
<1> DEFINE g == [Idle EXCEPT !.chunk_count = 0]
<1>3. CASE send_file_get_data(g, "ERROR")
  <2>1. g.pending_op = "NONE" /\ g.handle = g_file.handle
    BY DEF Idle
  <2> HIDE DEF g
  <2> QED
    BY <1>1, <1>2, <1>3, <2>1, GetRefused
<1>4. CASE /\ op' = "GET_DATA_REQ" /\ g_file' = Idle
           /\ call' = "seek" /\ bx' = g_file.handle /\ ax' = g_file.chunk_offset
           /\ UNCHANGED <<toClient, returned, carry, local>> /\ Unchanging
  <2>1. Calls("GET_DATA_REQ", "seek") /\ "seek" \in CallsIn("GET_DATA_REQ") /\ UNCHANGED dos
    BY <1>4, IdleKeepsRequest DEF Calls, CallsIn, Unchanging
  <2>2. ~WasWritten' /\ ~returned'
    BY <1>1, <1>4 DEF WasWritten
  <2>3. OperationIs(c)'
    BY <1>1, <1>4, <2>1, <2>2, IdleKeepsRequest, OperationRemains DEF Served, KeepsFile
  <2>4. GetReads(c)'
    <3>1. offset' = offset /\ g_file.chunk_offset = offset[c]
      BY <1>1 DEF Holds, client
    <3> QED
      BY <1>4, <2>2, <3>1 DEF GetReads
  <2> QED
    BY <1>1, <1>4, <2>1, <2>3, <2>4, IdleKeepsRequest, CallPlaces
<1> QED
  BY <1>3, <1>4 DEF idle_get_data_req

LEMMA SoughtIsPlaced ==
  ASSUME HandleIInv, ClientsAreSound, RepliesAreSound, NEW c \in Clients, OneHostAt(c),
         UNCHANGED client, idle_sought
  PROVE  OneHostAt(c)'
<1>1. op = "GET_DATA_REQ" /\ call = "seek" /\ returned /\ ~WasWritten /\ bx = g_file.handle
  BY DEF idle_sought, Returned, WasWritten, HandleIInv, MadeWith, OfFile
<1>2. /\ Served(c) /\ Running(c) /\ Holds(c, op) /\ op = Now(c).type
      /\ g_file.pending_op = "NONE"
  BY <1>1, ReturnedNow
<1>3. Op(c).kind = "GET"
  BY <1>1, <1>2, KindIs DEF Served
<1> DEFINE g == [g_file EXCEPT !.chunk_count = 0]
<1>4. CASE carry
  <2>1. g.pending_op = "NONE" /\ g.handle = g_file.handle
    BY <1>2
  <2>2. send_file_get_data(g, "ERROR")
    BY <1>4 DEF idle_sought
  <2> HIDE DEF g
  <2> QED
    BY <1>1, <1>2, <1>3, <2>1, <2>2, GetRefused
<1>5. CASE ~carry
  <2>1. CallDos("GET_DATA_REQ", g_file, "read", g_file.handle)
    BY <1>5 DEF idle_sought
  <2>2. /\ Calls("GET_DATA_REQ", "read") /\ g_file' = g_file /\ bx' = g_file.handle
        /\ UNCHANGED dos /\ ~WasWritten'
        /\ "read" \notin Closing => ~returned'
    BY <1>2, <2>1, CallGives
  <2>3. KeepsRequest /\ OperationIs(c)'
    BY <1>1, <1>2, <2>2, OperationRemains DEF Served, KeepsFile, KeepsRequest
  <2>4. GetReads(c)'
    <3>1. bx \in DOMAIN open => open[bx].pos = offset[c]
      BY <1>1, <1>2, <1>5 DEF Running, GetReads
    <3>2. ~returned' /\ call' = "read" /\ UNCHANGED <<open, offset>>
      BY <2>2 DEF Closing, Calls, dos, client
    <3> QED
      BY <1>1, <2>2, <3>1, <3>2 DEF GetReads
  <2>5. "read" \in CallsIn("GET_DATA_REQ")
    BY DEF CallsIn
  <2> QED
    BY <1>1, <1>2, <2>2, <2>3, <2>4, <2>5, CallPlaces
<1> QED
  BY <1>4, <1>5

LEMMA ReadIsPlaced ==
  ASSUME HandleIInv, ClientsAreSound, RepliesAreSound, NEW c \in Clients, OneHostAt(c),
         UNCHANGED client, idle_read
  PROVE  OneHostAt(c)'
<1>1. op = "GET_DATA_REQ" /\ call = "read" /\ returned /\ ~WasWritten
  BY DEF idle_read, Returned, WasWritten
<1>2. /\ Served(c) /\ Running(c) /\ Holds(c, op) /\ op = Now(c).type
      /\ g_file.pending_op = "NONE"
  BY <1>1, ReturnedNow
<1>3. Op(c).kind = "GET" /\ step[c] = "DATA"
  BY <1>1, <1>2, KindIs DEF Served
<1> DEFINE h == [g_file EXCEPT !.chunk_count = 0]
           g == [g_file EXCEPT !.chunk_count = ax,
                               !.expected_offset = g_file.chunk_offset + ax]
<1>4. CASE carry
  <2>1. h.pending_op = "NONE" /\ h.handle = g_file.handle
    BY <1>2
  <2>2. send_file_get_data(h, "ERROR")
    BY <1>4 DEF idle_read
  <2> HIDE DEF h
  <2> QED
    BY <1>1, <1>2, <1>3, <2>1, <2>2, GetRefused
<1>5. CASE ~carry
  <2>1. send_file_get_data(g, "OK")
    BY <1>5 DEF idle_read
  <2>2. /\ g.pending_op = "NONE" /\ g.handle = g_file.handle /\ g.chunk = g_file.chunk
        /\ g.chunk_count = ax
    BY <1>2
  <2> HIDE DEF g
  <2> PICK r : r = FileGetData(g.client, g.transfer_id, "OK", g.chunk_offset,
                               SubSeq(<<g.chunk>>, 1, g.chunk_count))
    OBVIOUS
  <2>3. Answer(g, r) /\ r.data = SubSeq(<<g.chunk>>, 1, g.chunk_count)
    BY <2>1 DEF send_file_get_data, FileGetData
  <2>4. g_file' = g /\ UNCHANGED dos /\ ~WasWritten'
    BY <2>3, AnswerGives
  <2>5. OperationIs(c)'
    BY <1>1, <1>2, <1>3, <2>2, <2>4, OperationRemains DEF Served
  <2>6. Op(c)' = Op(c) /\ UNCHANGED <<step, offset>>
    BY SameOperation DEF client
  <2>7. ReadsFirst => \/ r.data = <<>>
                      \/ /\ offset[c] < Len(InitFiles[Op(c).path])
                         /\ r.data = <<InitFiles[Op(c).path][offset[c] + 1]>>
    <3>1. ReadsFirst => \/ ax = 0
                        \/ /\ ax = 1 /\ offset[c] < Len(InitFiles[Op(c).path])
                           /\ g_file.chunk = InitFiles[Op(c).path][offset[c] + 1]
      BY <1>1, <1>2, <1>5 DEF Running, GetReads
    <3>2. /\ ax = 0 => r.data = <<>>
          /\ ax = 1 => r.data = <<g_file.chunk>>
      <4>1. <<g_file.chunk>> \in Seq({g_file.chunk}) /\ Len(<<g_file.chunk>>) = 1
        OBVIOUS
      <4> QED
        BY <2>2, <2>3, <4>1, WholeIs
    <3> QED
      BY <3>1, <3>2
  <2>8. ReplyFits(c, r)'
    BY <1>3, <2>6, <2>7 DEF ReplyFits, PathOps
  <2> QED
    BY <1>2, <2>2, <2>3, <2>5, <2>8, AnswerPlaces
<1> QED
  BY <1>4, <1>5

(* A page of a listing. *)
LEMMA ListBeginsIsPlaced ==
  ASSUME HandleIInv, ClientsAreSound, NEW c \in Clients, OneHostAt(c),
         UNCHANGED client, idle_dir_list_data_req
  PROVE  OneHostAt(c)'
<1> DEFINE n == "DIR_LIST_DATA_REQ"
<1>1. Served(c) /\ Holds(c, n) /\ Now(c).type = n /\ ~WasWritten /\ local = NoLocal
  BY EnteredNow DEF idle_dir_list_data_req
<1>2. Op(c).kind = "DIR" /\ offset[c] \in Nat
  BY <1>1, KindIs DEF Served, ClientsAreSound, ClientIsSound, Fits
<1>3. CallDos(n, Idle, "find", NoHandle) /\ UNCHANGED local
  BY DEF idle_dir_list_data_req
<1>4. /\ Calls(n, "find") /\ g_file' = Idle /\ UNCHANGED dos /\ ~WasWritten'
      /\ "find" \notin Closing => ~returned'
  BY <1>3, IdleKeepsRequest, CallGives
<1>5. OperationIs(c)'
  BY <1>1, <1>4, IdleKeepsRequest, OperationRemains DEF Served, KeepsFile
<1>6. ASSUME ListsFirst  PROVE Lists(c)'
  <2>1. /\ local'.seen = 0 /\ local'.entries = <<>> /\ offset' = offset
        /\ call' = "find" /\ ~returned'
    BY <1>1, <1>3, <1>4 DEF NoLocal, Closing, client, Calls
  <2>2. SubSeq(FirstListing, offset[c] + 1, 0) = <<>>
    BY <1>2, SubSeqEmpty
  <2>3. 0 < PageEntries /\ Len(FirstListing) \in Nat
    BY <1>6, FileClientAssumption, FileServerAssumption, FirstListingIs, LenProperties
    DEF ListsFirst
  <2>4. FirstListing' = FirstListing
    BY DEF FirstListing
  <2>5. Len(<<>>) = 0 /\ 0 \in 0..Len(FirstListing)
    BY <2>3
  <2> QED
    BY <2>1, <2>2, <2>3, <2>4, <2>5 DEF Lists
<1>7. "find" \in CallsIn(n)
  BY DEF CallsIn
<1> QED
  BY <1>1, <1>4, <1>5, <1>6, <1>7, IdleKeepsRequest, CallPlaces

(* An answer with what was on the disk from the offset on, up to its end   *)
(* unless the page is full.                                                *)
LEMMA PageIsAnswered ==
  ASSUME HandleIInv, ClientsAreSound, RepliesAreSound, NEW c \in Clients, OneHostAt(c),
         UNCHANGED client, op = "DIR_LIST_DATA_REQ", returned, ~WasWritten,
         NEW k, send_dir_list_data(k),
         faults = 0 /\ ListsFirst =>
           \E j \in 0..Len(FirstListing) - offset[c] :
             /\ k = SubSeq(FirstListing, offset[c] + 1, offset[c] + j)
             /\ j < PageEntries => offset[c] + j = Len(FirstListing)
  PROVE  OneHostAt(c)'
<1>1. Served(c) /\ op = Now(c).type /\ g_file.pending_op = "NONE"
  BY ReturnedNow
<1>2. Op(c).kind = "DIR"
  BY <1>1, KindIs DEF Served
<1>3. Op(c)' = Op(c) /\ UNCHANGED <<step, offset>> /\ FirstListing' = FirstListing
  BY SameOperation DEF client, FirstListing
<1> PICK r : r = DirListData(g_file.client, g_file.dir_request_id, "OK",
                             g_file.dir_start_index, k)
  OBVIOUS
<1>4. Answer(g_file, r) /\ r.data = k
  BY DEF send_dir_list_data, DirListData
<1>5. g_file' = g_file /\ UNCHANGED dos /\ ~WasWritten'
  BY <1>4, AnswerGives
<1>6. OperationIs(c)'
  BY <1>1, <1>5, OperationRemains DEF Served, KeepsFile
<1>7. ReplyFits(c, r)'
  BY <1>2, <1>3, <1>4, <1>5 DEF ReplyFits, PathOps, dos
<1> QED
  BY <1>1, <1>4, <1>6, <1>7, AnswerPlaces

LEMMA FoundIsPlaced ==
  ASSUME HandleIInv, ClientsAreSound, RepliesAreSound, NEW c \in Clients, OneHostAt(c),
         UNCHANGED client, idle_found
  PROVE  OneHostAt(c)'
<1> DEFINE n == "DIR_LIST_DATA_REQ"
           off == offset[c]
           seen == local.seen
           d == FirstListing
           entries == IF seen >= g_file.dir_start_index
                      THEN Append(local.entries, Listing[seen + 1]) ELSE local.entries
           next == IF Len(entries) = PageEntries THEN "restore_dta" ELSE "find"
<1>1. op = n /\ call = "find" /\ returned /\ ~WasWritten
  BY DEF idle_found, Returned, WasWritten
<1>2. /\ Served(c) /\ Running(c) /\ Holds(c, op) /\ op = Now(c).type
      /\ g_file.pending_op = "NONE" /\ DiskIs(c)
  BY <1>1, ReturnedNow
<1>3. Op(c).kind = "DIR" /\ off \in Nat /\ g_file.dir_start_index = off
  BY <1>1, <1>2, KindIs DEF Served, ClientsAreSound, ClientIsSound, Fits, Holds
<1>4. Op(c)' = Op(c) /\ UNCHANGED <<step, offset>> /\ FirstListing' = d
  BY SameOperation DEF client, FirstListing
<1>5. ASSUME faults = 0, ListsFirst
      PROVE  /\ d \in Seq(DOMAIN InitFiles \cup InitDirs) /\ Len(d) \in Nat
             /\ off \in 0..Len(d) /\ seen \in 0..Len(d) /\ Listing = d
             /\ local.entries = SubSeq(d, off + 1, seen) /\ Len(local.entries) < PageEntries
             /\ carry <=> seen = Len(d)
             /\ PageEntries \in Nat
  <2>1. Lists(c) /\ DirGot(c)
    BY <1>1, <1>2, <1>3, <1>5 DEF Running, Served, OperationIs
  <2>2. d \in Seq(DOMAIN InitFiles \cup InitDirs) /\ Len(d) \in Nat
    BY FirstListingIs, LenProperties
  <2>3. Listing = d
    BY <1>2, <1>3, <1>5, ListingStands DEF ListsFirst, Served
  <2> QED
    BY <1>1, <2>1, <2>2, <2>3, FileServerAssumption DEF Lists, DirGot
<1>6. ASSUME faults = 0, ListsFirst, ~carry
      PROVE  /\ seen + 1 \in 0..Len(d) /\ entries = SubSeq(d, off + 1, seen + 1)
             /\ off <= seen => Len(entries) = Len(local.entries) + 1
                               /\ Len(entries) = seen + 1 - off
             /\ ~(off <= seen) => entries = local.entries /\ Len(entries) = 0
             /\ Len(local.entries) \in Nat
  <2>1. /\ d \in Seq(DOMAIN InitFiles \cup InitDirs) /\ Len(d) \in Nat /\ off \in 0..Len(d)
        /\ seen \in 0..Len(d) /\ Listing = d /\ local.entries = SubSeq(d, off + 1, seen)
        /\ seen # Len(d)
    BY <1>5, <1>6
  <2>2. seen < Len(d) /\ seen + 1 \in 0..Len(d) /\ seen \in Nat /\ off + 1 \in Nat \ {0}
    BY <1>3, <2>1
  <2>3. CASE off <= seen
    <3>1. entries = Append(local.entries, d[seen + 1])
      BY <1>3, <2>1, <2>2, <2>3
    <3> HIDE DEF entries, d, seen, off
    <3>2. SubSeq(d, off + 1, seen + 1) = Append(SubSeq(d, off + 1, seen), d[seen + 1])
      BY <1>3, <2>1, <2>2, <2>3, PartGrows
    <3>3. /\ Len(SubSeq(d, off + 1, seen)) = seen - (off + 1) + 1
          /\ Len(SubSeq(d, off + 1, seen + 1)) = seen + 1 - (off + 1) + 1
      BY <1>3, <2>1, <2>2, <2>3, PartIs
    <3>4. /\ seen - (off + 1) + 1 = seen - off
          /\ seen + 1 - (off + 1) + 1 = seen + 1 - off /\ seen + 1 - off = seen - off + 1
          /\ seen - off \in Nat
      BY <1>3, <2>2, <2>3
    <3>5. entries = SubSeq(d, off + 1, seen + 1)
      BY <2>1, <3>1, <3>2
    <3>6. Len(local.entries) = seen - off /\ Len(entries) = seen + 1 - off
      BY <2>1, <3>3, <3>4, <3>5
    <3> QED
      BY <2>2, <2>3, <3>4, <3>5, <3>6
  <2>4. CASE ~(off <= seen)
    <3>1. entries = local.entries
      BY <1>3, <2>1, <2>2, <2>4
    <3> HIDE DEF entries, d, seen, off
    <3>2. off + 1 \in Int /\ seen \in Int /\ seen + 1 \in Int
          /\ seen < off + 1 /\ seen + 1 < off + 1
      BY <1>3, <2>2, <2>4
    <3>3. SubSeq(d, off + 1, seen) = <<>> /\ SubSeq(d, off + 1, seen + 1) = <<>>
      BY <3>2, SubSeqEmpty
    <3>4. local.entries = <<>>
      BY <2>1, <3>3
    <3>5. Len(entries) = 0 /\ Len(local.entries) \in Nat
      BY <3>1, <3>4
    <3> QED
      BY <2>2, <2>4, <3>1, <3>3, <3>4, <3>5
  <2> QED
    BY <2>3, <2>4
<1>7. \/ carry /\ send_dir_list_data(local.entries)
      \/ /\ ~carry
         /\ CallDos(n, g_file, next, NoHandle)
         /\ local' = [local EXCEPT !.seen = @ + 1, !.entries = entries]
  BY DEF idle_found
<1>8. next \in {"find", "restore_dta"}
  OBVIOUS
<1>9. CASE carry /\ send_dir_list_data(local.entries)
  <2>1. ASSUME faults = 0, ListsFirst
        PROVE  \E j \in 0..Len(d) - off : /\ local.entries = SubSeq(d, off + 1, off + j)
                                          /\ j < PageEntries => off + j = Len(d)
    <3>1. Len(d) \in Nat /\ off \in 0..Len(d) /\ local.entries = SubSeq(d, off + 1, Len(d))
      BY <1>5, <1>9, <2>1
    <3>2. Len(d) - off \in 0..Len(d) - off /\ off + (Len(d) - off) = Len(d)
      BY <3>1
    <3> QED
      BY <3>1, <3>2
  <2> QED
    BY <1>1, <1>9, <2>1, PageIsAnswered
<1>10. CASE /\ ~carry
            /\ CallDos(n, g_file, next, NoHandle)
            /\ local' = [local EXCEPT !.seen = @ + 1, !.entries = entries]
  <2> HIDE DEF next, entries
  <2>1. /\ Calls(n, next) /\ g_file' = g_file /\ UNCHANGED dos /\ ~WasWritten'
        /\ next \notin Closing => ~returned'
    BY <1>2, <1>8, <1>10, CallGives
  <2>2. OperationIs(c)'
    BY <1>1, <1>2, <2>1, OperationRemains DEF Served, KeepsFile
  <2>3. ASSUME faults = 0, ListsFirst  PROVE Lists(c)'
    <3>1. local'.seen = seen + 1 /\ local'.entries = entries
      BY <1>10
    <3>2. /\ seen + 1 \in 0..Len(d) /\ entries = SubSeq(d, off + 1, seen + 1)
          /\ Len(entries) \in {0, Len(local.entries) + 1}
          /\ PageEntries \in Nat /\ Len(local.entries) < PageEntries /\ Len(local.entries) \in Nat
      BY <1>5, <1>6, <1>10, <2>3
    <3>3. next = "find" => Len(entries) < PageEntries
      <4>1. next = "find" => Len(entries) # PageEntries
        BY DEF next
      <4>2. 0 < PageEntries
        BY <2>3, FileClientAssumption, FileServerAssumption DEF ListsFirst
      <4> PICK a, e : a = Len(entries) /\ e = Len(local.entries)
        OBVIOUS
      <4>3. a \in {0, e + 1} /\ e \in Nat /\ PageEntries \in Nat /\ e < PageEntries
        BY <3>2
      <4> QED
        BY <4>1, <4>2, <4>3
    <3>4. next # "find" => Len(entries) = PageEntries
      BY DEF next
    <3>5. ~returned' /\ call' = next
      BY <1>8, <2>1 DEF Closing, Calls
    <3> QED
      BY <1>4, <3>1, <3>2, <3>3, <3>4, <3>5 DEF Lists
  <2>4. next \in CallsIn(n) /\ KeepsRequest
    BY <1>8, <2>1 DEF CallsIn, KeepsRequest
  <2> QED
    BY <1>1, <1>2, <2>1, <2>2, <2>3, <2>4, CallPlaces
<1> QED
  BY <1>7, <1>9, <1>10

LEMMA RestoredIsPlaced ==
  ASSUME HandleIInv, ClientsAreSound, RepliesAreSound, NEW c \in Clients, OneHostAt(c),
         UNCHANGED client, idle_restored
  PROVE  OneHostAt(c)'
<1> DEFINE d == FirstListing
           off == offset[c]
<1>1. /\ op = "DIR_LIST_DATA_REQ" /\ call = "restore_dta" /\ returned /\ ~WasWritten
      /\ send_dir_list_data(local.entries)
  BY DEF idle_restored, Returned, WasWritten
<1>2. /\ Served(c) /\ Running(c) /\ op = Now(c).type
  BY <1>1, ReturnedNow
<1>3. Op(c).kind = "DIR"
  BY <1>1, <1>2, KindIs DEF Served
<1>4. ASSUME faults = 0, ListsFirst
      PROVE  \E j \in 0..Len(d) - off : /\ local.entries = SubSeq(d, off + 1, off + j)
                                        /\ j < PageEntries => off + j = Len(d)
  <2>1. Lists(c) /\ DirGot(c)
    BY <1>1, <1>2, <1>3, <1>4 DEF Running, Served, OperationIs
  <2>2. /\ d \in Seq(DOMAIN InitFiles \cup InitDirs) /\ Len(d) \in Nat
        /\ off \in 0..Len(d) /\ local.seen \in 0..Len(d)
        /\ local.entries = SubSeq(d, off + 1, local.seen) /\ Len(local.entries) = PageEntries
        /\ PageEntries \in Nat \ {0}
    BY <1>1, <1>4, <2>1, FirstListingIs, LenProperties, FileServerAssumption, FileClientAssumption
    DEF Lists, DirGot, ListsFirst
  <2> HIDE DEF d, off
  <2> PICK seen : seen = local.seen
    OBVIOUS
  <2>3. off \in Nat /\ seen \in Nat /\ off + 1 \in Nat \ {0} /\ seen <= Len(d) /\ off <= Len(d)
        /\ Len(SubSeq(d, off + 1, seen)) = PageEntries
    BY <2>2
  <2>4. off + 1 <= seen
    <3> SUFFICES ASSUME ~(off + 1 <= seen)  PROVE FALSE
      OBVIOUS
    <3>1. SubSeq(d, off + 1, seen) = <<>>
      BY <2>3, SubSeqEmpty
    <3> QED
      BY <2>2, <2>3, <3>1
  <2>5. Len(SubSeq(d, off + 1, seen)) = seen - (off + 1) + 1
    BY <2>2, <2>3, <2>4, PartIs
  <2> PICK m, j : m = Len(d) /\ j = seen - off
    OBVIOUS
  <2>6. j = PageEntries /\ j \in 0..m - off /\ off + j = seen
    <3>1. m \in Nat /\ seen - (off + 1) + 1 = PageEntries /\ off <= m /\ seen <= m
      BY <2>2, <2>3, <2>5
    <3> QED
      BY <2>3, <2>4, <3>1
  <2>7. local.entries = SubSeq(d, off + 1, off + j)
    BY <2>2, <2>6, Zenon
  <2>8. ~(j < PageEntries)
    BY <2>2, <2>6
  <2> QED
    BY <2>6, <2>7, <2>8
<1> QED
  BY <1>1, <1>4, PageIsAnswered

(* The operations on paths. *)
LEMMA NotOntoItself ==
  ASSUME ClientsAreSound, NEW c \in Clients, step[c] # "idle", Separate, Op(c).kind = "RENAME"
  PROVE  Op(c).path # Op(c).target
BY ScriptIs DEF Separate

LEMMA PathOpIsPlaced ==
  ASSUME HandleIInv, ClientsAreSound, RepliesAreSound, NEW c \in Clients, OneHostAt(c),
         UNCHANGED client, idle_path_op
  PROVE  OneHostAt(c)'
<1>1. PICK name \in {"MKDIR", "DELETE", "RENAME"} :
        \/ /\ Enter(name)
           /\ IF name = "RENAME" /\ g_file.filename = g_file.target
              THEN send_file_ack(Idle, name, "OK")
              ELSE CallDos(name, Idle, CallOf(name), NoHandle) /\ UNCHANGED local
        \/ /\ op = name /\ returned /\ ~ticking
           /\ send_file_ack(g_file, name, StatusOf(~carry))
  BY DEF idle_path_op
<1>2. Op(c)' = Op(c) /\ UNCHANGED <<step, offset>>
  BY SameOperation DEF client
<1>3. CASE Enter(name)
           /\ IF name = "RENAME" /\ g_file.filename = g_file.target
              THEN send_file_ack(Idle, name, "OK")
              ELSE CallDos(name, Idle, CallOf(name), NoHandle) /\ UNCHANGED local
  <2>1. Served(c) /\ Holds(c, name) /\ Now(c).type = name /\ ~WasWritten
    BY <1>3, EnteredNow
  <2>2. Op(c).kind = name /\ step[c] = name
    BY <2>1, KindIs DEF Served, PathOps
  <2>3. CASE name = "RENAME" /\ g_file.filename = g_file.target
    <3>1. SendAck(Idle, name, "OK", Idle.expected_offset)
      BY <1>3, <2>3 DEF send_file_ack
    <3>2. g_file' = Idle /\ UNCHANGED dos /\ ~WasWritten'
      BY <3>1, AnswerGives DEF SendAck
    <3>3. OperationIs(c)'
      BY <2>1, <2>2, <3>2, OperationRemains DEF Served
    <3>4. ~Separate
      BY <2>1, <2>2, <2>3, NotOntoItself DEF Holds, Served, PathOps
    <3>5. \A r : r.status = "OK" => ReplyFits(c, r)'
      BY <1>2, <2>2, <2>3, <3>4 DEF ReplyFits
    <3> QED
      BY <2>1, <3>1, <3>3, <3>5, IdleKeepsRequest, AckPlaces
  <2>4. CASE ~(name = "RENAME" /\ g_file.filename = g_file.target)
    <3>1. CallDos(name, Idle, CallOf(name), NoHandle)
      BY <1>3, <2>4
    <3>2. CallOf(name) \in CallsIn(name) /\ CallOf(name) \notin Closing
      BY DEF CallOf, CallsIn, Closing, PathOps
    <3> PICK call_name : call_name = CallOf(name)
      OBVIOUS
    <3>3. /\ Calls(name, call_name) /\ g_file' = Idle /\ UNCHANGED dos
          /\ ~returned' /\ ~WasWritten'
      BY <3>1, <3>2, IdleKeepsRequest, CallGives
    <3>4. OperationIs(c)'
      BY <2>1, <2>2, <3>3, OperationRemains DEF Served
    <3> QED
      BY <2>1, <3>2, <3>3, <3>4, IdleKeepsRequest, CallPlaces
  <2> QED
    BY <2>3, <2>4
<1>4. CASE /\ op = name /\ returned /\ ~ticking
           /\ send_file_ack(g_file, name, StatusOf(~carry))
  <2>1. /\ Served(c) /\ Running(c) /\ op = Now(c).type /\ g_file.pending_op = "NONE"
    BY <1>4, ReturnedNow
  <2>2. Op(c).kind = name /\ step[c] = name
    BY <1>4, <2>1, KindIs DEF Served, PathOps
  <2>3. ~WasWritten
    BY <1>4, <2>1 DEF WasWritten, Running, CallsIn, PathOps
  <2>4. SendAck(g_file, name, StatusOf(~carry), g_file.expected_offset)
    BY <1>4 DEF send_file_ack
  <2>5. g_file' = g_file /\ UNCHANGED dos /\ ~WasWritten'
    BY <2>4, AnswerGives DEF SendAck
  <2>6. OperationIs(c)'
    BY <2>1, <2>2, <2>3, <2>5, OperationRemains DEF Served
  <2>7. ~carry /\ Separate => TookEffect(Op(c))'
    BY <1>2, <1>4, <2>1, <2>5 DEF Running, TookEffect, Exists, dos
  <2>8. \A r : r.status = StatusOf(~carry) => ReplyFits(c, r)'
    BY <1>2, <2>2, <2>7 DEF ReplyFits, StatusOf
  <2> QED
    BY <2>1, <2>4, <2>6, <2>8, AckPlaces
<1> QED
  BY <1>1, <1>3, <1>4

(* A copy, from call to call. *)
LEMMA CopyNow ==
  ASSUME ClientsAreSound, NEW c \in Clients, OneHostAt(c), UNCHANGED client, op = "COPY"
  PROVE  /\ Served(c) /\ Holds(c, "COPY") /\ Now(c).type = "COPY" /\ g_file.pending_op = "NONE"
         /\ DiskIs(c) /\ CopyWrites(c) /\ (Separate => Copies(c))
         /\ call \in {"copy_open", "copy_create"} \cup Copying
<1>1. Served(c) /\ Running(c) /\ Holds(c, op) /\ op = Now(c).type /\ g_file.pending_op = "NONE"
      /\ DiskIs(c)
  BY ReturnedNow
<1> QED
  BY <1>1 DEF Running, CallsIn, PathOps

LEMMA CopyAnswerIsPlaced ==
  ASSUME HandleIInv, ClientsAreSound, RepliesAreSound, NEW c \in Clients, OneHostAt(c),
         UNCHANGED client, Served(c), Now(c).type = "COPY", ~WasWritten,
         NEW g, g.pending_op = "NONE", NEW status, send_file_ack(g, "COPY", status),
         status = "OK" /\ Separate => TookEffect(Op(c))
  PROVE  OneHostAt(c)'
<1>1. Op(c).kind = "COPY" /\ step[c] = "COPY"
  BY KindIs DEF Served, PathOps
<1>2. Op(c)' = Op(c) /\ UNCHANGED <<step, offset>>
  BY SameOperation DEF client
<1>3. SendAck(g, "COPY", status, g.expected_offset)
  BY DEF send_file_ack
<1>4. g_file' = g /\ UNCHANGED dos /\ ~WasWritten'
  BY <1>3, AnswerGives DEF SendAck
<1>5. OperationIs(c)'
  BY <1>1, <1>4, OperationRemains DEF Served
<1>6. status = "OK" /\ Separate => TookEffect(Op(c))'
  BY <1>2, <1>4 DEF TookEffect, Exists, dos
<1>7. \A r : r.status = status => ReplyFits(c, r)'
  BY <1>1, <1>2, <1>6 DEF ReplyFits
<1> QED
  BY <1>3, <1>5, <1>7, AckPlaces

LEMMA CopyCallIsPlaced ==
  ASSUME HandleIInv, ClientsAreSound, NEW c \in Clients, OneHostAt(c),
         UNCHANGED client, Served(c), Now(c).type = "COPY", Holds(c, "COPY"), ~WasWritten,
         NEW g, g.pending_op = "NONE", g_file' = g => KeepsRequest,
         NEW call_name \in {"copy_open", "copy_create"} \cup Copying, NEW handle,
         CallDos("COPY", g, call_name, handle),
         CopyWrites(c)', Separate => Copies(c)'
  PROVE  OneHostAt(c)'
<1>1. Op(c).kind = "COPY" /\ step[c] = "COPY"
  BY KindIs DEF Served, PathOps
<1>2. Calls("COPY", call_name) /\ g_file' = g /\ UNCHANGED dos /\ ~WasWritten'
  BY CallGives
<1>3. OperationIs(c)'
  BY <1>1, <1>2, OperationRemains DEF Served
<1>4. call_name \in CallsIn("COPY")
  BY DEF CallsIn, PathOps
<1> QED
  BY <1>2, <1>3, <1>4, CallPlaces

LEMMA CopyIsPlaced ==
  ASSUME HandleIInv, ClientsAreSound, RepliesAreSound, NEW c \in Clients, OneHostAt(c),
         UNCHANGED client, idle_copy
  PROVE  OneHostAt(c)'
<1> DEFINE f == Op(c).path
           t == Op(c).target
           g == [g_file EXCEPT !.expected_offset = 0]
<1>1. Op(c)' = Op(c) /\ UNCHANGED <<step, offset>>
  BY SameOperation DEF client
<1>2. CASE Enter("COPY")
  <2>1. Served(c) /\ Holds(c, "COPY") /\ Now(c).type = "COPY" /\ local = NoLocal
        /\ ~returned /\ ~WasWritten
    BY <1>2, EnteredNow
  <2>2. CASE g_file.filename = g_file.target
    <3>1. send_file_ack([Idle EXCEPT !.expected_offset = 0], "COPY", "ERROR")
      BY <1>2, <2>2 DEF idle_copy, Enter, Returned
    <3>2. [Idle EXCEPT !.expected_offset = 0].pending_op = "NONE"
      BY IdleKeepsRequest DEF Idle
    <3> QED
      BY <2>1, <3>1, <3>2, CopyAnswerIsPlaced
  <2>3. CASE g_file.filename # g_file.target
    <3>1. CallDos("COPY", Idle, "copy_open", NoHandle) /\ UNCHANGED local
      BY <1>2, <2>3 DEF idle_copy, Enter, Returned
    <3>2. /\ ~returned' /\ call' = "copy_open" /\ local'.bytes = 0
      BY <2>1, <3>1 DEF CallDos, Closing, NoLocal
    <3>3. f # t
      BY <2>1, <2>3 DEF Holds, PathOps
    <3>4. CopyWrites(c)' /\ Copies(c)'
      BY <1>1, <3>2, <3>3 DEF CopyWrites, Copies
    <3> QED
      BY <2>1, <3>1, <3>4, IdleKeepsRequest, CopyCallIsPlaced
  <2> QED
    BY <2>2, <2>3
<1>3. ASSUME op = "COPY", call # "write"
      PROVE  /\ Served(c) /\ Holds(c, "COPY") /\ Now(c).type = "COPY" /\ g_file.pending_op = "NONE"
             /\ DiskIs(c) /\ CopyWrites(c) /\ (Separate => Copies(c)) /\ ~WasWritten
             /\ g_file' = g_file => KeepsRequest
             /\ Op(c).kind = "COPY"
  <2>1. /\ Served(c) /\ Holds(c, "COPY") /\ Now(c).type = "COPY" /\ g_file.pending_op = "NONE"
        /\ DiskIs(c) /\ CopyWrites(c) /\ (Separate => Copies(c))
    BY <1>3, CopyNow
  <2> QED
    BY <1>3, <2>1, KindIs DEF Served, PathOps, WasWritten, KeepsRequest
<1>4. CASE Returned("COPY", "copy_open") /\ carry
           /\ send_file_ack(g, "COPY", "ERROR")
  <2>1. op = "COPY" /\ call # "write"
    BY <1>4 DEF Returned
  <2>2. g.pending_op = "NONE"
    BY <1>3, <2>1
  <2> QED
    BY <1>3, <1>4, <2>1, <2>2, CopyAnswerIsPlaced
<1>5. CASE /\ Returned("COPY", "copy_open") /\ ~carry
           /\ CopyNext(NoHandle, "copy_create")
           /\ local' = [local EXCEPT !.in = ax]
  <2>1. op = "COPY" /\ call = "copy_open" /\ returned /\ ~carry
    BY <1>5 DEF Returned
  <2>2. CallDos("COPY", g_file, "copy_create", NoHandle)
    BY <1>5 DEF CopyNext
  <2>3. /\ ~returned' /\ call' = "copy_create" /\ UNCHANGED <<open, files>>
    BY <2>2 DEF CallDos, Closing, Unchanging, dos
  <2>4. local'.in = ax /\ local'.bytes = local.bytes
    BY <1>5, <2>1, <1>3
  <2>5. CopyWrites(c)'
    BY <2>3 DEF CopyWrites
  <2>6. Separate => Copies(c)'
    <3> SUFFICES ASSUME Separate  PROVE Copies(c)'
      OBVIOUS
    <3>1. Copies(c)
      BY <1>3, <2>1
    <3>2. f # t /\ local.bytes = 0 /\ IsAt(ax, f, 0) /\ f \in DOMAIN files
      BY <2>1, <3>1 DEF Copies
    <3>3. IsAt(local.in, f, 0)'
      BY <1>1, <2>3, <2>4, <3>2 DEF IsAt
    <3> QED
      BY <1>1, <2>3, <2>4, <3>2, <3>3 DEF Copies
  <2> QED
    BY <1>3, <2>1, <2>2, <2>5, <2>6, CopyCallIsPlaced
<1>6. CASE Returned("COPY", "copy_create") /\ carry /\ CopyDone("ERROR")
  <2>1. op = "COPY" /\ call = "copy_create"
    BY <1>6 DEF Returned
  <2>2. CallDos("COPY", g_file, "copy_close_out", local.out)
        /\ local' = [local EXCEPT !.status = "ERROR"]
    BY <1>6 DEF CopyDone, CopyNext
  <2>3. /\ call' = "copy_close_out" /\ UNCHANGED <<open, files>>
    BY <2>2 DEF CallDos, Unchanging, dos
  <2>4. CopyWrites(c)'
    BY <2>3 DEF CopyWrites
  <2>5. Separate => Copies(c)'
    <3>1. local'.status # "OK"
      BY <2>2, <1>3, <2>1
    <3>2. Separate => f # t /\ f \in DOMAIN files
      BY <1>3, <2>1 DEF Copies
    <3> QED
      BY <1>1, <2>3, <3>1, <3>2 DEF Copies
  <2> QED
    BY <1>3, <2>1, <2>2, <2>4, <2>5, CopyCallIsPlaced DEF Copying
<1>7. CASE /\ Returned("COPY", "copy_create") /\ ~carry
           /\ CopyNext(local.in, "copy_read")
           /\ local' = [local EXCEPT !.out = ax]
  <2>1. op = "COPY" /\ call = "copy_create" /\ returned /\ ~carry
    BY <1>7 DEF Returned
  <2>2. CallDos("COPY", g_file, "copy_read", local.in)
    BY <1>7 DEF CopyNext
  <2>3. /\ ~returned' /\ call' = "copy_read" /\ UNCHANGED <<open, files>>
    BY <2>2 DEF CallDos, Closing, Unchanging, dos
  <2>4. local'.out = ax /\ local'.in = local.in /\ local'.bytes = local.bytes
    BY <1>7, <1>3, <2>1
  <2>5. CopyWrites(c)'
    BY <1>1, <1>3, <2>1, <2>3, <2>4 DEF CopyWrites
  <2>6. Separate => Copies(c)'
    <3> SUFFICES ASSUME Separate  PROVE Copies(c)'
      OBVIOUS
    <3>1. Copies(c)
      BY <1>3, <2>1
    <3>2. /\ f # t /\ local.bytes = 0 /\ IsAt(local.in, f, 0) /\ f \in DOMAIN files
          /\ IsAt(ax, t, 0) /\ t \in DOMAIN files /\ files[t] = <<>>
      BY <2>1, <3>1 DEF Copies
    <3>3. InitFiles[f] \in Seq(Chunks)
      BY <1>3, <2>1, <3>2, SourceStands DEF Served
    <3>4. SubSeq(InitFiles[f], 1, 0) = <<>> /\ 0 \in 0..Len(InitFiles[f])
      BY <3>3, WholeIs
    <3>5. IsAt(local.in, f, 0)' /\ IsAt(local.out, t, 0)'
      BY <1>1, <2>3, <2>4, <3>2 DEF IsAt
    <3> QED
      BY <1>1, <2>3, <2>4, <3>2, <3>4, <3>5 DEF Copies
  <2> QED
    BY <1>3, <2>1, <2>2, <2>5, <2>6, CopyCallIsPlaced DEF Copying
<1> QED
  BY <1>2, <1>4, <1>5, <1>6, <1>7 DEF idle_copy

LEMMA CopyingNow ==
  ASSUME ClientsAreSound, NEW c \in Clients, OneHostAt(c), UNCHANGED client, op = "COPY",
         call \in Copying
  PROVE  /\ Served(c) /\ Holds(c, "COPY") /\ Now(c).type = "COPY" /\ g_file.pending_op = "NONE"
         /\ CopyWrites(c) /\ ~WasWritten
         /\ g_file' = g_file => KeepsRequest
         /\ Op(c)' = Op(c) /\ Op(c).kind = "COPY"
         /\ Separate => /\ Copies(c)
                        /\ Op(c).path # Op(c).target /\ Op(c).path \in DOMAIN files
                        /\ InitFiles[Op(c).path] \in Seq(Chunks)
<1>1. /\ Served(c) /\ Holds(c, "COPY") /\ Now(c).type = "COPY" /\ g_file.pending_op = "NONE"
      /\ DiskIs(c) /\ CopyWrites(c) /\ (Separate => Copies(c))
  BY CopyNow
<1>2. Op(c).kind = "COPY" /\ Op(c)' = Op(c)
  BY <1>1, SameOperation, KindIs DEF Served, PathOps, client
<1>3. ~WasWritten /\ (g_file' = g_file => KeepsRequest)
  BY DEF WasWritten, Copying, KeepsRequest
<1>4. Separate => Op(c).path # Op(c).target /\ Op(c).path \in DOMAIN files
  BY <1>1 DEF Copies, Copying
<1>5. Separate => InitFiles[Op(c).path] \in Seq(Chunks)
  BY <1>1, <1>2, <1>4, SourceStands DEF Served
<1> QED
  BY <1>1, <1>2, <1>3, <1>4, <1>5

LEMMA CopyClosing ==
  ASSUME HandleIInv, ClientsAreSound, NEW c \in Clients, OneHostAt(c), UNCHANGED client,
         op = "COPY", call \in Copying, NEW status, CopyDone(status),
         status = "OK" /\ Separate =>
           Op(c).target \in DOMAIN files /\ files[Op(c).target] = InitFiles[Op(c).path]
  PROVE  OneHostAt(c)'
<1>1. /\ Served(c) /\ Holds(c, "COPY") /\ Now(c).type = "COPY" /\ g_file.pending_op = "NONE"
      /\ ~WasWritten /\ (g_file' = g_file => KeepsRequest) /\ Op(c)' = Op(c)
      /\ Separate => Op(c).path # Op(c).target /\ Op(c).path \in DOMAIN files
  BY CopyingNow
<1>2. CallDos("COPY", g_file, "copy_close_out", local.out)
      /\ local' = [local EXCEPT !.status = status]
  BY DEF CopyDone, CopyNext
<1>3. call' = "copy_close_out" /\ UNCHANGED <<open, files>>
  BY <1>2 DEF CallDos, Unchanging, dos
<1>4. CopyWrites(c)'
  BY <1>3 DEF CopyWrites
<1>5. local'.status = status
  BY <1>2
<1>6. Separate => Copies(c)'
  BY <1>1, <1>3, <1>5 DEF Copies
<1> QED
  BY <1>1, <1>2, <1>4, <1>6, CopyCallIsPlaced DEF Copying

LEMMA CopyingIsPlaced ==
  ASSUME HandleIInv, ClientsAreSound, RepliesAreSound, NEW c \in Clients, OneHostAt(c),
         UNCHANGED client, idle_copying
  PROVE  OneHostAt(c)'
<1> DEFINE f == Op(c).path
           t == Op(c).target
           m == InitFiles[f]
           n == local.bytes
<1>1. op = "COPY" /\ call \in Copying /\ returned
  BY DEF idle_copying, Returned, Copying
<1>2. /\ Served(c) /\ Holds(c, "COPY") /\ Now(c).type = "COPY" /\ g_file.pending_op = "NONE"
      /\ CopyWrites(c) /\ ~WasWritten
      /\ g_file' = g_file => KeepsRequest
      /\ Op(c)' = Op(c) /\ Op(c).kind = "COPY"
      /\ Separate => Copies(c) /\ f # t /\ f \in DOMAIN files /\ m \in Seq(Chunks)
  BY <1>1, CopyingNow
<1>3. Separate => SubSeq(m, 1, Len(m)) = m
  BY <1>2, WholeIs
<1>4. CASE Returned("COPY", "copy_read") /\ (carry \/ ax = 0) /\ CopyDone(StatusOf(~carry))
  <2>1. call = "copy_read" /\ returned
    BY <1>4 DEF Returned
  <2>2. StatusOf(~carry) = "OK" /\ Separate => t \in DOMAIN files /\ files[t] = m
    <3> SUFFICES ASSUME StatusOf(~carry) = "OK", Separate
                 PROVE  t \in DOMAIN files /\ files[t] = m
      OBVIOUS
    <3>1. ~carry
      BY DEF StatusOf
    <3>2. ax = 0
      BY <1>4, <3>1
    <3>3. n = Len(m) /\ t \in DOMAIN files /\ files[t] = SubSeq(m, 1, n)
      BY <1>2, <2>1, <3>1, <3>2 DEF Copies
    <3> QED
      BY <1>3, <3>3
  <2> QED
    BY <1>1, <1>4, <2>2, CopyClosing
<1>5. CASE /\ Returned("COPY", "copy_read") /\ ~carry /\ ax = 1
           /\ CopyNext(local.out, "copy_write") /\ UNCHANGED local
  <2>1. call = "copy_read" /\ returned /\ ~carry /\ ax = 1 /\ local' = local
    BY <1>5 DEF Returned
  <2>2. CallDos("COPY", g_file, "copy_write", local.out)
    BY <1>5 DEF CopyNext
  <2>3. /\ ~returned' /\ call' = "copy_write" /\ UNCHANGED <<open, files, g_file>>
    BY <2>2 DEF CallDos, Closing, Unchanging, dos
  <2>4. CopyWrites(c)'
    BY <1>2, <2>1, <2>3 DEF CopyWrites
  <2>5. Separate => Copies(c)'
    <3> SUFFICES ASSUME Separate  PROVE Copies(c)'
      OBVIOUS
    <3>1. /\ IsAt(local.in, f, n + 1) /\ IsAt(local.out, t, n) /\ n \in 0..Len(m)
          /\ t \in DOMAIN files /\ files[t] = SubSeq(m, 1, n)
          /\ n < Len(m) /\ g_file.chunk = m[n + 1]
      BY <1>2, <2>1 DEF Copies
    <3>2. IsAt(local.in, f, n + 1)' /\ IsAt(local.out, t, n)'
      BY <1>2, <2>1, <2>3, <3>1 DEF IsAt
    <3> QED
      BY <1>2, <2>1, <2>3, <3>1, <3>2 DEF Copies
  <2> QED
    BY <1>1, <1>2, <2>2, <2>4, <2>5, CopyCallIsPlaced DEF Copying
<1>6. CASE Returned("COPY", "copy_write") /\ (carry \/ ax = 0) /\ CopyDone("ERROR")
  BY <1>1, <1>6, CopyClosing
<1>7. CASE /\ Returned("COPY", "copy_write") /\ ~carry /\ ax = 1
           /\ CopyNext(local.in, "copy_read")
           /\ local' = [local EXCEPT !.bytes = @ + 1]
  <2>1. call = "copy_write" /\ returned /\ ~carry /\ ax = 1
    BY <1>7 DEF Returned
  <2>2. CallDos("COPY", g_file, "copy_read", local.in)
    BY <1>7 DEF CopyNext
  <2>3. /\ ~returned' /\ call' = "copy_read" /\ UNCHANGED <<open, files, g_file>>
    BY <2>2 DEF CallDos, Closing, Unchanging, dos
  <2>4. local'.in = local.in /\ local'.out = local.out /\ local'.bytes = n + 1
    BY <1>7
  <2>5. CopyWrites(c)'
    BY <1>2, <2>1, <2>3, <2>4 DEF CopyWrites
  <2>6. Separate => Copies(c)'
    <3> SUFFICES ASSUME Separate  PROVE Copies(c)'
      OBVIOUS
    <3>1. /\ IsAt(local.in, f, n + 1) /\ IsAt(local.out, t, n + 1) /\ n + 1 \in 0..Len(m)
          /\ t \in DOMAIN files /\ files[t] = SubSeq(m, 1, n + 1)
      BY <1>2, <2>1 DEF Copies
    <3>2. IsAt(local.in, f, n)' /\ IsAt(local.out, t, n)'
      BY <1>2, <2>3, <2>4, <3>1 DEF IsAt
    <3> QED
      BY <1>2, <2>3, <2>4, <3>1, <3>2 DEF Copies
  <2> QED
    BY <1>1, <1>2, <2>2, <2>5, <2>6, CopyCallIsPlaced DEF Copying
<1>8. CASE /\ Returned("COPY", "copy_close_out")
           /\ CopyNext(local.in, "copy_close_in") /\ UNCHANGED local
  <2>1. call = "copy_close_out" /\ local' = local
    BY <1>8 DEF Returned
  <2>2. CallDos("COPY", g_file, "copy_close_in", local.in)
    BY <1>8 DEF CopyNext
  <2>3. call' = "copy_close_in" /\ UNCHANGED <<open, files>>
    BY <2>2 DEF CallDos, Unchanging, dos
  <2>4. CopyWrites(c)'
    BY <2>3 DEF CopyWrites
  <2>5. Separate => Copies(c)'
    <3>1. Separate /\ local.status = "OK" => t \in DOMAIN files /\ files[t] = m
      BY <1>2, <2>1 DEF Copies
    <3> QED
      BY <1>2, <2>1, <2>3, <3>1 DEF Copies
  <2> QED
    BY <1>1, <1>2, <2>2, <2>4, <2>5, CopyCallIsPlaced DEF Copying
<1>9. CASE /\ Returned("COPY", "copy_close_in")
           /\ send_file_ack([g_file EXCEPT !.expected_offset = local.bytes], "COPY", local.status)
  <2>1. call = "copy_close_in"
    BY <1>9 DEF Returned
  <2>2. local.status = "OK" /\ Separate => TookEffect(Op(c))
    BY <1>2, <2>1 DEF Copies, TookEffect
  <2>3. [g_file EXCEPT !.expected_offset = local.bytes].pending_op = "NONE"
    BY <1>2
  <2> QED
    BY <1>2, <1>9, <2>2, <2>3, CopyAnswerIsPlaced
<1> QED
  BY <1>4, <1>5, <1>6, <1>7, <1>8, <1>9 DEF idle_copying

LEMMA IdleStep ==
  ASSUME HandleIInv, ClientsAreSound, RepliesAreSound, NEW c \in Clients, OneHostAt(c),
         UNCHANGED client, file_transfer_process_idle
  PROVE  OneHostAt(c)'
BY AgainAcknowledged, BeginIsPlaced, CreatedIsPlaced, PutDataIsPlaced, WrittenIsPlaced,
   EndIsPlaced, OpenedIsPlaced, SizedIsPlaced, GetDataIsPlaced, SoughtIsPlaced, ReadIsPlaced,
   ListBeginsIsPlaced, FoundIsPlaced, RestoredIsPlaced, PathOpIsPlaced, CopyIsPlaced,
   CopyingIsPlaced
   DEF file_transfer_process_idle

-----------------------------------------------------------------------------
(* The client.                                                             *)

LEMMA NothingCarried == Calm(<<>>)
BY DEF Calm

(* When a client starts, is answered, or gives up waiting, its request is  *)
(* nowhere else.                                                           *)
LEMMA FreeNow ==
  ASSUME RepliesAreSound, NEW c \in Clients, OneHostAt(c),
         \/ step[c] = "idle" /\ UNCHANGED toClient
         \/ Takes(c)
         \/ Quiet(c) /\ UNCHANGED toClient
  PROVE  /\ NoRequest /\ NotServed /\ toClient'[c] = <<>>
         /\ Takes(c) => ReplyFits(c, Reply(c))
<1>1. CASE Takes(c)
  <2>1. Answered(c) /\ toClient' = [toClient EXCEPT ![c] = Tail(@)]
    BY <1>1 DEF Takes, OneHostAt, InOnePlace, Resting, OnWire, InPool, Taken, AtDos
  <2>2. toClient'[c] = <<>>
    BY <2>1 DEF Answered, RepliesAreSound
  <2> QED
    BY <2>1, <2>2 DEF Answered
<1>2. CASE step[c] = "idle" /\ UNCHANGED toClient
  BY <1>2 DEF Takes, OneHostAt, InOnePlace, Resting
<1>3. CASE Quiet(c) /\ UNCHANGED toClient
  BY <1>3, NothingCarried DEF Takes, Quiet, NoRequest, NotServed
<1> QED
  BY <1>1, <1>2, <1>3

LEMMA SendsOne ==
  ASSUME NEW c \in Clients, Calm(ready), NotServed, UNCHANGED server, toClient'[c] = <<>>,
         NEW s \in Seq(Asked), Calm(s), toServer' = Append(s, Now(c)'), step'[c] # "idle"
  PROVE  InOnePlace(c)'
<1> PICK r : r = Now(c)'
  OBVIOUS
<1> DEFINE T == Asked \cup {r}
<1>1. s \in Seq(T) /\ r \in T
  <2>1. \A i \in 1..Len(s) : s[i] \in T
    BY ElementOfSeq
  <2> QED
    BY <2>1, SeqOfElements
<1>2. Carries(toServer', r)
  BY <1>1, CalmAppend
<1>3. Calm(ready)' /\ NotServed'
  BY DEF NotServed, server, Calm
<1> QED
  BY <1>2, <1>3 DEF InOnePlace, OnWire, Carries

LEMMA SendsNone ==
  ASSUME RequestsAreSound, NEW c \in Clients, NoRequest, NotServed, UNCHANGED server,
         toClient'[c] = <<>>,
         UNCHANGED toServer \/ \E p \in Asked : p.type \in Silent /\ SendToServer(p)
  PROVE  InOnePlace(c)'
<1>1. Calm(toServer)'
  <2>1. CASE UNCHANGED toServer
    BY <2>1 DEF NoRequest, Calm
  <2>2. ASSUME NEW p \in Asked, p.type \in Silent, SendToServer(p)
        PROVE  Calm(toServer)'
    <3>1. Calm(Append(toServer, p))
      BY <2>2, CalmAppend DEF NoRequest, RequestsAreSound
    <3> QED
      BY <2>2, <3>1 DEF SendToServer, Calm
  <2> QED
    BY <2>1, <2>2
<1>2. Calm(ready)' /\ NotServed'
  BY DEF NoRequest, NotServed, server, Calm
<1> QED
  BY <1>1, <1>2 DEF InOnePlace, Resting, NoRequest

(* What the server and DOS have done stands when a client moves.           *)
LEMMA DiskStands ==
  ASSUME NEW c, UNCHANGED <<script, dos>>, opno[c] \in Nat, opno'[c] \in Nat,
         opno[c] <= opno'[c], DiskIs(c)
  PROVE  DiskIs(c)'
<1>1. Changed(c) \subseteq Changed(c)'
  <2>1. \A j \in 1..Len(script[c]) : j <= opno[c] => j <= opno'[c]
    OBVIOUS
  <2> QED
    BY <2>1 DEF Changed
<1> QED
  BY <1>1 DEF DiskIs, AsAtFirst, dos

LEMMA AsksNow ==
  ASSUME ClientsAreSound, NEW c \in Clients, NEW at, NEW off, Ask(c, at, off)
  PROVE  /\ Now(c)' = RequestFor(c, at, off)
         /\ Op(c)' = Op(c) /\ step'[c] = at /\ offset'[c] = off
         /\ UNCHANGED <<script, opno, results>>
<1>1. Op(c)' = Op(c) /\ Session(c)' = Session(c) /\ Id(c)' = Id(c)
      /\ UNCHANGED <<script, opno, results>>
  BY SameOperation DEF Ask
<1>2. step'[c] = at /\ offset'[c] = off
  BY DEF Ask, ClientsAreSound
<1> QED
  BY <1>1, <1>2 DEF Now, RequestFor, Packet

LEMMA AskIsPlaced ==
  ASSUME RequestsAreSound, ClientsAreSound, NEW c \in Clients, OneHostAt(c),
         UNCHANGED <<server, dos>>, NoRequest, NotServed, toClient'[c] = <<>>,
         NEW at \in Steps \ {"idle"}, NEW off, Ask(c, at, off),
         NEW s \in Seq(Asked), Calm(s), toServer' = Append(s, RequestFor(c, at, off)),
         DOMAIN file_size' = DOMAIN file_size, OperationIs(c)'
  PROVE  OneHostAt(c)'
<1>1. /\ Now(c)' = RequestFor(c, at, off) /\ step'[c] # "idle"
      /\ UNCHANGED <<script, opno, results>>
  BY AsksNow
<1>2. InOnePlace(c)'
  BY <1>1, SendsOne DEF NoRequest
<1>3. DiskIs(c)'
  BY <1>1, DiskStands DEF OneHostAt, ClientsAreSound
<1>4. Reported(c)'
  BY <1>1 DEF OneHostAt, Reported, TookEffect, Exists, dos
<1> QED
  BY <1>2, <1>3, <1>4 DEF OneHostAt, server

LEMMA AgainIsPlaced ==
  ASSUME RequestsAreSound, ClientsAreSound, NEW c \in Clients, OneHostAt(c), step[c] # "idle",
         UNCHANGED <<server, dos>>, NoRequest, NotServed, toClient'[c] = <<>>,
         SendToServer(RequestFor(c, step[c], offset[c])),
         UNCHANGED <<script, opno, step, offset, file_size, got, results>>
  PROVE  OneHostAt(c)'
<1>1. Now(c)' = Now(c) /\ Op(c)' = Op(c)
  BY SameRequest, SameOperation
<1>2. InOnePlace(c)'
  <2>1. toServer' = Append(toServer, Now(c)')
    BY <1>1 DEF SendToServer, Now
  <2> QED
    BY <2>1, SendsOne DEF NoRequest, RequestsAreSound
<1>3. DiskIs(c)'
  BY DiskStands DEF OneHostAt, ClientsAreSound
<1>4. Reported(c)'
  BY DEF OneHostAt, Reported, TookEffect, Exists, dos
<1>5. OperationIs(c)'
  BY <1>1 DEF OneHostAt, server, dos, OperationIs, GetGot, DirGot, PutIs, WasWritten
<1> QED
  BY <1>2, <1>3, <1>4, <1>5 DEF OneHostAt, server

(* What an operation that is reported complete has to show. *)
Shows(c, data) ==
  /\ Separate => TookEffect(Op(c))
  /\ ReadsFirst /\ Op(c).kind = "GET" => data = InitFiles[Op(c).path]
  /\ ListsFirst /\ Op(c).kind = "DIR" /\ faults = 0 => data = FirstListing

LEMMA FinishIsPlaced ==
  ASSUME RequestsAreSound, ClientsAreSound, NEW c \in Clients, OneHostAt(c), step[c] # "idle",
         UNCHANGED <<server, dos>>, NoRequest, NotServed, toClient'[c] = <<>>,
         NEW outcome, NEW data, Finish(c, outcome, data),
         UNCHANGED toServer \/ \E p \in Asked : p.type \in Silent /\ SendToServer(p),
         outcome = "complete" => Shows(c, data)
  PROVE  OneHostAt(c)'
<1> PICK r : r = [outcome |-> outcome, data |-> data]
  OBVIOUS
<1>1. /\ script' = script /\ step'[c] = "idle" /\ opno'[c] = opno[c] + 1
      /\ opno[c] \in Nat \ {0} /\ opno'[c] \in Nat /\ DOMAIN file_size' = DOMAIN file_size
  BY DEF Finish, ClientsAreSound
<1>2. /\ c \in DOMAIN results /\ IsSeq(results[c]) /\ Len(results[c]) = opno[c] - 1
      /\ c \in DOMAIN file_size
  BY DEF OneHostAt, Reported
<1>3. results'[c] = Append(results[c], r) /\ DOMAIN results' = DOMAIN results
  BY <1>2 DEF Finish
<1>4. /\ IsSeq(results'[c]) /\ Len(results'[c]) = opno[c] /\ results'[c][opno[c]] = r
      /\ \A i \in 1..Len(results'[c]) :
           i # opno[c] => i \in 1..Len(results[c]) /\ results'[c][i] = results[c][i]
  <2>1. /\ IsSeq(Append(results[c], r)) /\ Len(Append(results[c], r)) = Len(results[c]) + 1
        /\ Append(results[c], r)[Len(results[c]) + 1] = r
        /\ \A i \in 1..Len(results[c]) : Append(results[c], r)[i] = results[c][i]
    BY <1>2, AppendIsSeq
  <2>2. Len(results[c]) + 1 = opno[c]
    BY <1>1, <1>2
  <2>3. \A i \in 1..opno[c] : i # opno[c] => i \in 1..opno[c] - 1
    BY <1>1
  <2> QED
    BY <1>2, <1>3, <2>1, <2>2, <2>3
<1>5. \A o : TookEffect(o)' <=> TookEffect(o)
  BY DEF TookEffect, Exists, dos
<1> PICK o : o = script[c][opno[c]]
  OBVIOUS
<1>6. faults' = faults /\ (outcome = "complete" =>
        /\ Separate => TookEffect(o)
        /\ ReadsFirst /\ o.kind = "GET" => data = InitFiles[o.path]
        /\ ListsFirst /\ o.kind = "DIR" /\ faults = 0 => data = FirstListing)
  BY DEF Shows, Op, dos
<1>7. ASSUME NEW i \in 1..Len(results'[c]), results'[c][i].outcome = "complete",
             NEW p, p = script[c][i]
      PROVE  /\ Separate => TookEffect(p)
             /\ ReadsFirst /\ p.kind = "GET" => results'[c][i].data = InitFiles[p.path]
             /\ ListsFirst /\ p.kind = "DIR" /\ faults = 0 => results'[c][i].data = FirstListing
  <2>1. CASE i = opno[c]
    BY <1>4, <1>6, <1>7, <2>1
  <2>2. CASE i # opno[c]
    <3>1. i \in 1..Len(results[c]) /\ results'[c][i] = results[c][i]
      BY <1>4, <2>2
    <3> QED
      BY <1>7, <3>1 DEF OneHostAt, Reported
  <2> QED
    BY <2>1, <2>2
<1>8. Reported(c)'
  <2>1. \A i \in 1..Len(results'[c]) : results'[c][i].outcome = "complete" =>
          \A p : p = script[c][i] =>
             /\ Separate => TookEffect(p)'
             /\ ReadsFirst /\ p.kind = "GET" => results'[c][i].data = InitFiles[p.path]
             /\ ListsFirst /\ p.kind = "DIR" /\ faults' = 0
                  => results'[c][i].data = FirstListing
    BY <1>5, <1>6, <1>7
  <2>2. /\ c \in DOMAIN results' /\ c \in DOMAIN file_size'
        /\ Len(results'[c]) = opno'[c] - 1
    BY <1>1, <1>2, <1>3, <1>4
  <2> QED
    BY <1>1, <1>4, <2>1, <2>2 DEF Reported, FirstListing
<1>9. DiskIs(c)'
  BY <1>1, DiskStands DEF OneHostAt
<1>10. OperationIs(c)'
  BY <1>1 DEF OperationIs
<1>11. InOnePlace(c)'
  BY SendsNone
<1> QED
  BY <1>8, <1>9, <1>10, <1>11 DEF OneHostAt, server

LEMMA AskNextIsPlaced ==
  ASSUME RequestsAreSound, ClientsAreSound, NEW c \in Clients, OneHostAt(c),
         UNCHANGED <<server, dos>>, NoRequest, NotServed, toClient'[c] = <<>>,
         NEW at \in Steps \ {"idle"}, NEW off, AskNext(c, at, off),
         DOMAIN file_size' = DOMAIN file_size, OperationIs(c)'
  PROVE  OneHostAt(c)'
BY AskIsPlaced DEF AskNext, SendToServer, NoRequest, RequestsAreSound

LEMMA StartIsPlaced ==
  ASSUME RequestsAreSound, RepliesAreSound, ClientsAreSound, NEW c \in Clients, OneHostAt(c),
         UNCHANGED <<server, dos>>, Start(c)
  PROVE  OneHostAt(c)'
<1> DEFINE kind == Op(c).kind
           first == CASE kind \in {"PUT", "GET"} -> "BEGIN"
                      [] kind = "DIR" -> "PAGE"
                      [] kind \in PathOps -> kind
           opening == IF kind = "DIR" THEN <<Packet(c, "DIR_LIST_BEGIN")>> ELSE <<>>
           r == RequestFor(c, first, 0)
<1>1. /\ step[c] = "idle" /\ opno[c] <= Len(script[c])
      /\ Ask(c, first, 0) /\ UNCHANGED <<toClient, file_size, got>>
      /\ toServer' = toServer \o Append(opening, r)
  BY DEF Start
<1>2. Asking(c) /\ kind \in {"PUT", "GET", "DIR"} \cup PathOps
  BY <1>1, AtAnOperation DEF Kinds
<1>3. /\ first \in Steps \ {"idle"} /\ Fits(Op(c), first, 0)
      /\ kind \in {"PUT", "GET"} => first = "BEGIN"
  <2>1. CASE kind \in {"PUT", "GET"}
    BY <2>1 DEF Steps, Fits, PathOps
  <2>2. CASE kind = "DIR"
    BY <2>2 DEF Steps, Fits, PathOps
  <2>3. CASE kind \in PathOps
    BY <2>3 DEF Steps, Fits, PathOps
  <2> QED
    BY <1>2, <2>1, <2>2, <2>3
<1>4. NoRequest /\ NotServed /\ toClient'[c] = <<>> /\ toServer \in Seq(Asked)
  BY <1>1, FreeNow DEF RequestsAreSound
<1>5. r \in Asked
  BY <1>2, <1>3, RequestIsAsked
<1>6. \E s \in Seq(Asked) : Calm(s) /\ toServer' = Append(s, r)
  <2>1. CASE kind # "DIR"
    <3>1. toServer' = toServer \o Append(<<>>, r)
      BY <1>1, <2>1
    <3> HIDE DEF r
    <3>2. toServer \o Append(<<>>, r) = Append(toServer, r)
      BY <1>4, <1>5
    <3> QED
      BY <1>4, <3>1, <3>2 DEF NoRequest
  <2>2. CASE kind = "DIR"
    <3> DEFINE p == Packet(c, "DIR_LIST_BEGIN")
    <3>1. p \in Asked /\ p.type = "DIR_LIST_BEGIN"
      <4>1. "DIR_LIST_BEGIN" \in RequestType /\ ~NoListings
        BY <1>2, <2>2 DEF RequestType, Asking
      <4> QED
        BY <1>2, <4>1, PacketIsAsked DEF Packet
    <3>2. toServer' = toServer \o Append(<<p>>, r)
      BY <1>1, <2>2
    <3> HIDE DEF p, r
    <3>3. Append(toServer, p) \in Seq(Asked) /\ Calm(Append(toServer, p))
      BY <1>4, <3>1, CalmAppend, AppendProperties DEF NoRequest, Silent
    <3>4. toServer \o Append(<<p>>, r) = Append(Append(toServer, p), r)
      BY <1>4, <1>5, <3>1
    <3> QED
      BY <3>2, <3>3, <3>4
  <2> QED
    BY <2>1, <2>2
<1>7. OperationIs(c)'
  <2>1. /\ Op(c)' = Op(c) /\ step'[c] = first /\ offset'[c] = 0 /\ got'[c] = <<>>
    BY <1>1, AsksNow DEF ClientsAreSound, ClientIsSound
  <2>2. CASE kind = "GET"
    BY <1>3, <2>1, <2>2 DEF OperationIs, GetGot
  <2>3. CASE kind = "DIR"
    <3>1. SubSeq(FirstListing, 1, 0) = <<>> /\ 0 \in 0..Len(FirstListing)
      BY FirstListingIs, WholeIs
    <3>2. FirstListing' = FirstListing
      BY DEF FirstListing
    <3> QED
      BY <2>1, <2>3, <3>1, <3>2 DEF OperationIs, DirGot
  <2>4. CASE kind = "PUT"
    BY <1>3, <2>1, <2>4 DEF OperationIs, PutIs
  <2>5. CASE kind \in PathOps
    BY <2>1, <2>5 DEF OperationIs, PathOps
  <2> QED
    BY <1>2, <2>2, <2>3, <2>4, <2>5
<1> QED
  BY <1>1, <1>3, <1>4, <1>6, <1>7, AskIsPlaced

LEMMA DiscardIsPlaced ==
  ASSUME RequestsAreSound, RepliesAreSound, NEW c \in Clients, OneHostAt(c),
         UNCHANGED <<server, dos>>, Discard(c)
  PROVE  OneHostAt(c)'
<1>1. Takes(c) /\ UNCHANGED <<toServer, client>>
  BY DEF Discard
<1>2. InOnePlace(c)'
  BY <1>1, FreeNow, SendsNone
<1>3. OperationIs(c)'
  BY <1>1, OperationStands DEF OneHostAt, server, KeepsFile
<1>4. DiskIs(c)' /\ Reported(c)'
  BY <1>1, ReportStands DEF OneHostAt, dos
<1> QED
  BY <1>2, <1>3, <1>4 DEF OneHostAt, server

LEMMA SendAgainIsPlaced ==
  ASSUME RequestsAreSound, ClientsAreSound, NEW c \in Clients, OneHostAt(c), step[c] # "idle",
         UNCHANGED <<server, dos>>, NoRequest, NotServed, toClient'[c] = <<>>, SendAgain(c)
  PROVE  OneHostAt(c)'
<1>1. \/ /\ SendToServer(RequestFor(c, step[c], offset[c]))
         /\ UNCHANGED <<script, opno, step, offset, file_size, got, results>>
      \/ Finish(c, "failed", <<>>) /\ UNCHANGED toServer
  BY DEF SendAgain
<1> QED
  BY <1>1, AgainIsPlaced, FinishIsPlaced

(* The answers to an upload. *)
LEMMA GrantedNow ==
  ASSUME RepliesAreSound, ClientsAreSound, NEW c \in Clients, OneHostAt(c),
         UNCHANGED <<server, dos>>, NEW kind, NEW at, Granted(c, kind, at)
  PROVE  /\ NoRequest /\ NotServed /\ toClient'[c] = <<>> /\ ReplyFits(c, Reply(c))
         /\ step[c] = at /\ step[c] # "idle" /\ Op(c).kind = kind /\ Reply(c).status = "OK"
         /\ Fits(Op(c), at, offset[c]) /\ Op(c) \in Operation
         /\ OperationIs(c) /\ ~WasWritten /\ ~WasWritten'
         /\ UNCHANGED <<g_file, files, open, faults>>
<1>1. Takes(c) /\ Reply(c).status = "OK" /\ Op(c).kind = kind /\ step[c] = at
  BY DEF Granted
<1>2. step[c] # "idle" /\ NoRequest /\ NotServed /\ toClient'[c] = <<>> /\ ReplyFits(c, Reply(c))
  BY <1>1, FreeNow DEF Takes
<1>3. Fits(Op(c), at, offset[c]) /\ Op(c) \in Operation
  BY <1>1, <1>2, ScriptIs DEF ClientsAreSound, ClientIsSound
<1>4. ~WasWritten /\ ~WasWritten'
  BY <1>2 DEF OneHostAt, NotServed, WasWritten, server
<1> QED
  BY <1>1, <1>2, <1>3, <1>4 DEF OneHostAt, server, dos

LEMMA PutIsPlaced ==
  ASSUME RequestsAreSound, RepliesAreSound, ClientsAreSound, NEW c \in Clients, OneHostAt(c),
         UNCHANGED <<server, dos>>, put(c)
  PROVE  OneHostAt(c)'
<1> DEFINE d == Op(c).data
           n == Len(d)
           f == Op(c).path
           e == g_file.expected_offset
           here == Reply(c).offset
           at(off) == IF off < n THEN "DATA" ELSE "END"
<1>1. PICK a \in {"BEGIN", "DATA", "END"} : Granted(c, "PUT", a)
  BY DEF put
<1>2. /\ NoRequest /\ NotServed /\ toClient'[c] = <<>> /\ ReplyFits(c, Reply(c))
      /\ step[c] = a /\ step[c] # "idle" /\ Op(c).kind = "PUT" /\ Reply(c).status = "OK"
      /\ Fits(Op(c), a, offset[c]) /\ OperationIs(c) /\ ~WasWritten /\ ~WasWritten'
      /\ UNCHANGED <<g_file, files, open>>
  BY <1>1, GrantedNow
<1>3. PutIs(c) /\ d \in Seq(Chunks) /\ n \in Nat /\ SubSeq(d, 1, 0) = <<>> /\ SubSeq(d, 1, n) = d
  <2>1. d \in Seq(Chunks)
    BY <1>1, GrantedNow DEF Operation
  <2> QED
    BY <1>2, <2>1, WholeIs DEF OperationIs
<1>4. CASE Fails(c)
  BY <1>2, <1>4, FinishIsPlaced DEF Fails
<1>5. ASSUME NEW off \in Nat, off <= n, off = e,
             AskNext(c, at(off), off), UNCHANGED <<file_size, got>>,
             /\ g_file.handle \in DOMAIN open /\ open[g_file.handle].file = f
             /\ f \in DOMAIN files,
             Separate => open[g_file.handle].pos = off /\ files[f] = SubSeq(d, 1, off)
      PROVE  OneHostAt(c)'
  <2>1. at(off) \in Steps \ {"idle"}
    BY DEF Steps
  <2>2. /\ Op(c)' = Op(c) /\ step'[c] = at(off) /\ offset'[c] = off
    BY <1>5, AsksNow DEF AskNext
  <2>3. PutIs(c)'
    <3>1. CASE off < n
      <4>1. step'[c] = "DATA"
        BY <2>2, <3>1
      <4> HIDE DEF d, n, f
      <4> QED
        BY <1>2, <1>5, <2>2, <3>1, <4>1 DEF PutIs, d, n, f
    <3>2. CASE ~(off < n)
      <4>1. step'[c] = "END" /\ off = n
        BY <1>3, <1>5, <2>2, <3>2
      <4> QED
        BY <1>2, <1>3, <1>5, <2>2, <4>1 DEF PutIs
    <3> QED
      BY <3>1, <3>2
  <2>4. OperationIs(c)'
    BY <1>2, <2>2, <2>3 DEF OperationIs
  <2> QED
    BY <1>2, <1>5, <2>1, <2>4, AskNextIsPlaced
<1>6. CASE a = "BEGIN"
  <2>1. \/ AskNext(c, at(0), 0) /\ UNCHANGED <<file_size, got>>
        \/ Fails(c)
    BY <1>2, <1>6 DEF put, Granted
  <2>2. /\ IsAt(g_file.handle, f, 0) /\ e = 0 /\ f \in DOMAIN files /\ files[f] = <<>>
    BY <1>2, <1>6 DEF ReplyFits
  <2> QED
    BY <1>3, <1>4, <1>5, <2>1, <2>2 DEF IsAt
<1>7. CASE a = "DATA"
  <2>1. \/ here = offset[c] + 1 /\ AskNext(c, at(here), here) /\ UNCHANGED <<file_size, got>>
        \/ Fails(c)
    BY <1>2, <1>7 DEF put, Granted
  <2>2. here = e
    BY <1>2, <1>7 DEF ReplyFits
  <2>3. /\ e <= n /\ offset[c] \in Nat
        /\ g_file.handle \in DOMAIN open /\ open[g_file.handle].file = f
        /\ f \in DOMAIN files
        /\ Separate => open[g_file.handle].pos = e /\ files[f] = SubSeq(d, 1, e)
    BY <1>2, <1>3, <1>7 DEF PutIs, Fits
  <2> QED
    BY <1>4, <1>5, <2>1, <2>2, <2>3
<1>8. CASE a = "END"
  <2>1. /\ Finish(c, IF here = n THEN "complete" ELSE "failed", <<>>) /\ UNCHANGED toServer
    BY <1>2, <1>8 DEF put, Granted
  <2>2. Shows(c, <<>>)
    BY <1>2, <1>3, <1>8 DEF Shows, TookEffect, PutIs
  <2> QED
    BY <1>2, <2>1, <2>2, FinishIsPlaced
<1> QED
  BY <1>6, <1>7, <1>8

(* The answers to a download. *)
LEMMA GetIsPlaced ==
  ASSUME RequestsAreSound, RepliesAreSound, ClientsAreSound, NEW c \in Clients, OneHostAt(c),
         UNCHANGED <<server, dos>>, get(c)
  PROVE  OneHostAt(c)'
<1> DEFINE f == Op(c).path
           m == InitFiles[f]
           data == Reply(c).data
           size == Reply(c).offset
           at(off, n) == IF off < n THEN "DATA" ELSE "END"
<1>1. PICK a \in {"BEGIN", "DATA", "END"} : Granted(c, "GET", a)
  BY DEF get
<1>2. /\ NoRequest /\ NotServed /\ toClient'[c] = <<>> /\ ReplyFits(c, Reply(c))
      /\ step[c] = a /\ step[c] # "idle" /\ Op(c).kind = "GET" /\ Reply(c).status = "OK"
      /\ Fits(Op(c), a, offset[c]) /\ OperationIs(c)
      /\ UNCHANGED <<g_file, files, open>>
  BY <1>1, GrantedNow
<1>3. /\ GetGot(c) /\ c \in DOMAIN file_size /\ c \in DOMAIN got /\ offset[c] \in Nat
  BY <1>2 DEF OperationIs, OneHostAt, Reported, ClientsAreSound, Fits
<1>4. f \in DOMAIN files => f \in DOMAIN InitFiles \/ ~ReadsFirst
  <2>1. DiskIs(c) /\ (f \in DOMAIN files /\ ReadsFirst => f \in DOMAIN InitFiles)
    BY <1>2, SourceStands DEF OneHostAt
  <2> QED
    BY <2>1
<1>5. ReadsFirst /\ f \in DOMAIN files => /\ m \in Seq(Chunks) /\ Len(m) \in Nat /\ Len(m) < NoSize
                                          /\ SubSeq(m, 1, 0) = <<>> /\ SubSeq(m, 1, Len(m)) = m
  BY <1>4, WholeIs, DiskAssumption
<1>6. CASE Fails(c)
  BY <1>2, <1>6, FinishIsPlaced DEF Fails
<1>7. ASSUME NEW off, NEW n, AskNext(c, at(off, n), off), file_size'[c] = n,
             DOMAIN file_size' = DOMAIN file_size,
             f \in DOMAIN files, g_file.handle \in DOMAIN open => open[g_file.handle].file = f,
             ReadsFirst => /\ n \in {Len(m), NoSize}
                           /\ off \in 0..Len(m) /\ got'[c] = SubSeq(m, 1, off)
      PROVE  OneHostAt(c)'
  <2>1. at(off, n) \in {"DATA", "END"} /\ at(off, n) \in Steps \ {"idle"}
    BY DEF Steps
  <2>2. /\ Op(c)' = Op(c) /\ step'[c] = at(off, n) /\ offset'[c] = off
    BY <1>7, AsksNow DEF AskNext
  <2>3. ReadsFirst /\ at(off, n) = "END" => off = Len(m)
    <3> SUFFICES ASSUME ReadsFirst, ~(off < n)  PROVE off = Len(m)
      OBVIOUS
    <3> PICK k : k = Len(m)
      OBVIOUS
    <3>1. NoSize \in Nat /\ k \in Nat /\ k < NoSize /\ n \in {k, NoSize} /\ off \in 0..k
      BY <1>5, <1>7, FileServerAssumption
    <3>2. off = k
      BY <3>1
    <3> QED
      BY <3>2
  <2>4. GetGot(c)'
    BY <1>2, <1>7, <2>1, <2>2, <2>3 DEF GetGot
  <2>5. OperationIs(c)'
    BY <1>2, <2>2, <2>4 DEF OperationIs
  <2> QED
    BY <1>2, <1>7, <2>1, <2>5, AskNextIsPlaced
<1>8. CASE a = "BEGIN"
  <2>1. /\ file_size' = [file_size EXCEPT ![c] = size]
        /\ AskNext(c, at(0, size), 0) /\ UNCHANGED got
    BY <1>2, <1>8 DEF get, Granted
  <2>2. /\ f \in DOMAIN files /\ ReadsFirst => size \in {Len(m), NoSize}
        /\ g_file.handle \in DOMAIN open => open[g_file.handle].file = f
        /\ f \in DOMAIN files
    BY <1>2, <1>8 DEF ReplyFits
  <2>3. got'[c] = <<>>
    BY <1>2, <1>3, <1>8, <2>1 DEF GetGot
  <2>4. file_size'[c] = size /\ DOMAIN file_size' = DOMAIN file_size
    BY <1>3, <2>1
  <2>5. ReadsFirst => 0 \in 0..Len(m) /\ got'[c] = SubSeq(m, 1, 0)
    BY <1>5, <2>2, <2>3
  <2> QED
    BY <1>7, <2>1, <2>2, <2>4, <2>5
<1>9. CASE a = "DATA"
  <2>1. \/ Fails(c)
        \/ /\ data # <<>> /\ got' = [got EXCEPT ![c] = @ \o data]
           /\ AskNext(c, at(offset[c] + 1, file_size[c]), offset[c] + 1)
           /\ UNCHANGED file_size
    BY <1>2, <1>9 DEF get, Granted
  <2>2. ASSUME data # <<>>, got' = [got EXCEPT ![c] = @ \o data],
               AskNext(c, at(offset[c] + 1, file_size[c]), offset[c] + 1),
               UNCHANGED file_size
        PROVE  OneHostAt(c)'
    <3>1. /\ f \in DOMAIN files
          /\ g_file.handle \in DOMAIN open => open[g_file.handle].file = f
          /\ ReadsFirst => /\ file_size[c] \in {Len(m), NoSize} /\ offset[c] \in 0..Len(m)
                           /\ got[c] = SubSeq(m, 1, offset[c])
      BY <1>2, <1>3, <1>9 DEF GetGot
    <3>2. ReadsFirst => offset[c] < Len(m) /\ data = <<m[offset[c] + 1]>>
      BY <1>2, <1>9, <2>2 DEF ReplyFits
    <3>3. got'[c] = got[c] \o data
      BY <1>3, <2>2
    <3>4. ReadsFirst => got'[c] = SubSeq(m, 1, offset[c] + 1)
      <4> SUFFICES ASSUME ReadsFirst  PROVE got'[c] = SubSeq(m, 1, offset[c] + 1)
        OBVIOUS
      <4>1. m \in Seq(Chunks) /\ Len(m) \in Nat
        BY <1>5, <3>1
      <4> PICK k, mm : k = offset[c] /\ mm = m
        OBVIOUS
      <4> PICK b, x : b = SubSeq(mm, 1, k) /\ x = mm[k + 1]
        OBVIOUS
      <4>2. k \in Nat /\ k < Len(mm) /\ mm \in Seq(Chunks) /\ 1 \in Nat \ {0} /\ 1 <= k + 1
            /\ k <= Len(mm)
        BY <1>3, <3>2, <4>1
      <4>3. b \in Seq(Chunks) /\ x \in Chunks
        BY <4>2, PartIs
      <4>4. SubSeq(mm, 1, k + 1) = Append(b, x)
        BY <4>2, PartGrows
      <4>5. b \o <<x>> = Append(b, x)
        BY <4>3, AppendIsConcat
      <4> QED
        BY <3>1, <3>2, <3>3, <4>4, <4>5
    <3>5. ReadsFirst => offset[c] + 1 \in 0..Len(m)
      BY <1>3, <1>5, <3>1, <3>2
    <3> QED
      BY <1>7, <2>2, <3>1, <3>4, <3>5
  <2> QED
    BY <1>6, <2>1, <2>2
<1>10. CASE a = "END"
  <2>1. Finish(c, "complete", got[c]) /\ UNCHANGED toServer
    BY <1>2, <1>10 DEF get, Granted
  <2>2. ReadsFirst => got[c] = m
    BY <1>2, <1>3, <1>5, <1>10 DEF GetGot
  <2>3. Shows(c, got[c])
    BY <1>2, <2>2 DEF Shows, TookEffect
  <2> QED
    BY <1>2, <2>1, <2>3, FinishIsPlaced
<1> QED
  BY <1>8, <1>9, <1>10

(* The answer to an operation on paths. *)
LEMMA PathOpIsDone ==
  ASSUME RequestsAreSound, RepliesAreSound, ClientsAreSound, NEW c \in Clients, OneHostAt(c),
         UNCHANGED <<server, dos>>, path_op_done(c)
  PROVE  OneHostAt(c)'
<1>1. PICK kind \in PathOps : /\ Granted(c, kind, kind) /\ Finish(c, "complete", <<>>)
                              /\ UNCHANGED toServer
  BY DEF path_op_done
<1>2. /\ NoRequest /\ NotServed /\ toClient'[c] = <<>> /\ ReplyFits(c, Reply(c))
      /\ step[c] # "idle" /\ Op(c).kind = kind /\ Reply(c).status = "OK"
  BY <1>1, GrantedNow
<1>3. Shows(c, <<>>)
  BY <1>2 DEF Shows, ReplyFits, PathOps
<1> QED
  BY <1>1, <1>2, <1>3, FinishIsPlaced

(* A page of a listing. *)
LEMMA PageIsPlaced ==
  ASSUME RequestsAreSound, RepliesAreSound, ClientsAreSound, NEW c \in Clients, OneHostAt(c),
         UNCHANGED <<server, dos>>, dir_page(c)
  PROVE  OneHostAt(c)'
<1> DEFINE data == Reply(c).data
           entries == got[c] \o data
           d == FirstListing
           off == offset[c]
<1>1. Granted(c, "DIR", "PAGE")
  BY DEF dir_page
<1>2. /\ NoRequest /\ NotServed /\ toClient'[c] = <<>> /\ ReplyFits(c, Reply(c))
      /\ step[c] = "PAGE" /\ step[c] # "idle" /\ Op(c).kind = "DIR" /\ OperationIs(c)
      /\ UNCHANGED faults
  BY <1>1, GrantedNow
<1>3. c \in DOMAIN got
  BY DEF ClientsAreSound
<1>4. ASSUME faults = 0, ListsFirst
      PROVE  \E k \in Nat : /\ off + k \in 0..Len(d) /\ entries = SubSeq(d, 1, off + k)
                            /\ Len(data) = k /\ Len(entries) = off + k
                            /\ k < FullPage => off + k = Len(d)
  <2>1. off \in 0..Len(d) /\ got[c] = SubSeq(d, 1, off) /\ d \in Seq(DOMAIN InitFiles \cup InitDirs)
        /\ Len(d) \in Nat
    BY <1>2, <1>4, FirstListingIs, LenProperties DEF OperationIs, DirGot
  <2>2. PICK k \in 0..Len(d) - off : /\ data = SubSeq(d, off + 1, off + k)
                                     /\ k < PageEntries => off + k = Len(d)
    BY <1>2, <1>4 DEF ReplyFits
  <2>3. k \in Nat /\ off \in Nat /\ off + k \in 0..Len(d) /\ off + k <= Len(d)
    BY <2>1
  <2>4. /\ entries = SubSeq(d, 1, off + k) /\ Len(data) = k
        /\ Len(SubSeq(d, 1, off + k)) = off + k
    <3> HIDE DEF d, off, entries, data
    <3>1. /\ SubSeq(d, 1, off) \o SubSeq(d, off + 1, off + k) = SubSeq(d, 1, off + k)
          /\ Len(SubSeq(d, off + 1, off + k)) = k
      BY <2>1, <2>3, PartsJoin
    <3>2. off + k \in Nat /\ off + k + 0 <= Len(d)
      BY <2>3
    <3>3. Len(SubSeq(d, 1, off + k)) = off + k
      BY <2>1, <3>2, PartsJoin
    <3> QED
      BY <2>1, <2>2, <3>1, <3>3 DEF entries
  <2>5. k < FullPage => k < PageEntries
    BY <1>4, <2>3, FileClientAssumption, FileServerAssumption DEF ListsFirst
  <2> QED
    BY <2>2, <2>3, <2>4, <2>5
<1>5. CASE /\ Len(data) < FullPage /\ Finish(c, "complete", entries)
           /\ SendToServer(Packet(c, "DIR_LIST_END"))
  <2>1. Packet(c, "DIR_LIST_END") \in Asked /\ Packet(c, "DIR_LIST_END").type = "DIR_LIST_END"
    <3>1. opno[c] <= Len(script[c])
      BY <1>2 DEF ClientsAreSound, ClientIsSound
    <3>2. Asking(c) /\ ~NoListings
      BY <1>2, <3>1, AtAnOperation DEF Asking
    <3>3. "DIR_LIST_END" \in RequestType
      BY DEF RequestType
    <3> QED
      BY <3>2, <3>3, PacketIsAsked DEF Packet
  <2>2. ListsFirst /\ faults = 0 => entries = d
    <3> SUFFICES ASSUME ListsFirst, faults = 0  PROVE entries = d
      OBVIOUS
    <3>1. PICK k \in Nat : /\ entries = SubSeq(d, 1, off + k) /\ Len(data) = k
                           /\ k < FullPage => off + k = Len(d)
      BY <1>4
    <3>2. SubSeq(d, 1, Len(d)) = d
      BY FirstListingIs, WholeIs
    <3> QED
      BY <1>5, <3>1, <3>2
  <2>3. Shows(c, entries)
    BY <1>2, <2>2 DEF Shows, TookEffect
  <2> HIDE DEF entries
  <2> QED
    BY <1>2, <1>5, <2>1, <2>3, FinishIsPlaced DEF Silent
<1>6. CASE /\ ~(Len(data) < FullPage) /\ got' = [got EXCEPT ![c] = entries]
           /\ AskNext(c, "PAGE", Len(entries)) /\ UNCHANGED file_size
  <2>1. /\ Op(c)' = Op(c) /\ step'[c] = "PAGE" /\ offset'[c] = Len(entries)
        /\ got'[c] = entries
    BY <1>3, <1>6, AsksNow DEF AskNext
  <2>2. faults = 0 /\ ListsFirst => DirGot(c)'
    <3> SUFFICES ASSUME faults = 0, ListsFirst  PROVE DirGot(c)'
      OBVIOUS
    <3>1. Len(entries) \in 0..Len(d) /\ entries = SubSeq(d, 1, Len(entries))
      BY <1>4
    <3>2. d' = d
      BY DEF FirstListing
    <3> HIDE DEF entries
    <3> QED
      BY <2>1, <3>1, <3>2 DEF DirGot
  <2>3. OperationIs(c)'
    BY <1>2, <2>1, <2>2 DEF OperationIs
  <2>4. "PAGE" \in Steps \ {"idle"}
    BY DEF Steps
  <2> HIDE DEF entries
  <2> QED
    BY <1>2, <1>6, <2>3, <2>4, AskNextIsPlaced
<1> QED
  BY <1>5, <1>6 DEF dir_page

LEMMA ClientMoves ==
  ASSUME OneHost, RequestsAreSound, RepliesAreSound, ClientsAreSound,
         NEW c \in Clients, OneHostAt(c), ClientStep(c)
  PROVE  OneHostAt(c)'
<1>1. UNCHANGED <<server, dos>>
  BY DEF ClientStep
<1>2. CASE Refused(c)
  <2>1. Takes(c) /\ SendAgain(c) /\ step[c] # "idle"
    BY <1>2 DEF Refused, Takes
  <2> QED
    BY <1>1, <2>1, FreeNow, SendAgainIsPlaced
<1>3. CASE TimesOut(c)
  <2>1. Quiet(c) /\ SendAgain(c) /\ step[c] # "idle" /\ UNCHANGED toClient
    BY <1>3 DEF TimesOut, Timeout, OneHost
  <2> QED
    BY <1>1, <2>1, FreeNow, SendAgainIsPlaced
<1> QED
  BY <1>1, <1>2, <1>3, StartIsPlaced, DiscardIsPlaced, PutIsPlaced, GetIsPlaced,
     PathOpIsDone, PageIsPlaced DEF ClientStep, ClientNext

-----------------------------------------------------------------------------
(* The theorems.                                                           *)

LEMMA OneHostInit == Init => OneHostIInv
<1> SUFFICES ASSUME Init, NEW c \in Clients  PROVE OneHostAt(c)
  BY DEF OneHostIInv
<1> USE DEF Init, WireInit, ServerInit, ClientInit, file_transfer_init
<1>1. op = "NONE" /\ local = NoLocal /\ ~returned /\ step[c] = "idle"
  OBVIOUS
<1>2. InOnePlace(c)
  BY NothingCarried DEF InOnePlace, Resting, NoRequest, NotServed
<1>3. OperationIs(c)
  BY <1>1 DEF OperationIs
<1>4. DiskIs(c)
  BY DiskAssumption DEF DiskIs, AsAtFirst
<1>5. Reported(c)
  <2>1. /\ c \in DOMAIN results /\ c \in DOMAIN file_size
        /\ results[c] = <<>> /\ opno[c] = 1
    OBVIOUS
  <2>2. IsSeq(<<>>) /\ Len(<<>>) = 0
    BY EmptyIsSeq
  <2> QED
    BY <2>1, <2>2 DEF Reported
<1> QED
  BY <1>1, <1>2, <1>3, <1>4, <1>5 DEF OneHostAt

LEMMA NothingMoves ==
  ASSUME NEW c, OneHostAt(c), UNCHANGED vars
  PROVE  OneHostAt(c)'
<1>1. OnlyMoves /\ g_file' = g_file /\ UNCHANGED <<toServer, ready, toClient>>
  BY DEF vars, wire, server, OnlyMoves, KeepsRequest, KeepsFile
<1>2. /\ Now(c)' = Now(c) /\ step' = step
      /\ NotServed => NotServed'
      /\ NoRequest' => /\ Resting(c) => Resting(c)'
                       /\ Taken(c) => Taken(c)'
                       /\ AtDos(c) => AtDos(c)'
                       /\ Answered(c) => Answered(c)'
  BY <1>1, PlaceStands
<1>3. NoRequest => NoRequest'
  BY <1>1 DEF NoRequest, Calm
<1>4. /\ OnWire(c) => OnWire(c)'
      /\ InPool(c) => InPool(c)'
  BY <1>1, <1>2 DEF OnWire, InPool, Carries, Calm
<1>5. InOnePlace(c)'
  BY <1>2, <1>3, <1>4 DEF OneHostAt, InOnePlace, Resting, Taken, AtDos, Answered
<1> QED
  BY <1>1, <1>5, MovesKeep

LEMMA OneHostStep ==
  ASSUME OneHost, TransferIInv, OneHostIInv, [Next]_vars
  PROVE  OneHostIInv'
<1> SUFFICES ASSUME NEW c \in Clients  PROVE OneHostAt(c)'
  BY DEF OneHostIInv
<1>1. /\ OneHostAt(c) /\ HandleIInv /\ RequestsAreSound /\ RepliesAreSound
      /\ ServerIsSound /\ ClientsAreSound
  BY DEF OneHostIInv, TransferIInv
<1>2. CASE ServerNext /\ UNCHANGED client
  BY <1>1, <1>2, ReceptionKeeps, HandlersKeep, IdleStep, DosStep DEF ServerNext
<1>3. ASSUME NEW d \in Clients, ClientStep(d)  PROVE OneHostAt(c)'
  <2>1. d = c
    BY DEF OneHost
  <2> QED
    BY <1>1, <1>3, <2>1, ClientMoves
<1>4. CASE Lose
  BY <1>1, <1>4, LosingKeeps
<1>5. CASE UNCHANGED vars
  BY <1>1, <1>5, NothingMoves
<1> QED
  BY <1>2, <1>3, <1>4, <1>5 DEF Next

(* The request is in one place, and its answer true, in every state.       *)
THEOREM OneRequestAtATime ==
  ASSUME OneHost
  PROVE  Spec => [](TransferIInv /\ OneHostIInv)
<1>1. Init => TransferIInv /\ OneHostIInv
  BY TransferInit, OneHostInit
<1>2. TransferIInv /\ OneHostIInv /\ [Next]_vars => (TransferIInv /\ OneHostIInv)'
  BY TransferStep, OneHostStep
<1> QED
  BY <1>1, <1>2, PTL DEF Spec

(* What has been reported complete is in the script. *)
LEMMA Reports ==
  ASSUME OneHostIInv, TransferIInv, NEW c \in Clients, NEW i \in 1..Len(script[c]), Completed(c, i)
  PROVE  /\ Separate => TookEffect(script[c][i])
         /\ ReadsFirst /\ script[c][i].kind = "GET"
              => results[c][i].data = InitFiles[script[c][i].path]
         /\ ListsFirst /\ script[c][i].kind = "DIR" /\ faults = 0
              => results[c][i].data = FirstListing
<1>1. Reported(c) /\ opno[c] \in Nat /\ script[c] \in Seq(Operation)
  BY FileClientAssumption DEF OneHostIInv, OneHostAt, TransferIInv, ClientsAreSound
<1>2. i \in Nat \ {0} /\ Len(results[c]) = opno[c] - 1 /\ i <= Len(results[c])
      /\ results[c][i].outcome = "complete"
  BY <1>1 DEF Reported, Completed, HasReturned
<1>3. i \in 1..Len(results[c])
  BY <1>1, <1>2
<1> QED
  BY <1>1, <1>2, <1>3 DEF Reported

(* A download that a client has reported complete is the remote file as it *)
(* was on the disk, chunk by chunk (file_transfer_get and                  *)
(* FILE_OP_GET_DATA_REQ): whatever frames are lost, whatever DOS calls     *)
(* fail, no retry is answered with another chunk than the one asked for,   *)
(* and no chunk is written twice or left out.                              *)
THEOREM DownloadsAreExact ==
  ASSUME OneHost, ReadsFirst
  PROVE  Spec => []DownloadIsExact
<1>1. TransferIInv /\ OneHostIInv => DownloadIsExact
  BY Reports DEF DownloadIsExact
<1> QED
  BY <1>1, OneRequestAtATime, PTL

(* A listing that a client has completed holds each entry of the directory *)
(* once and in order (remote_dir_fetch and collect_dir_entries).           *)
THEOREM ListingsAreWhole ==
  ASSUME OneHost, ListsFirst
  PROVE  Spec => []ListingIsWhole
<1>1. TransferIInv /\ OneHostIInv => ListingIsWhole
  BY Reports DEF ListingIsWhole, FirstListing
<1> QED
  BY <1>1, OneRequestAtATime, PTL

(* What a client has reported complete is so, and stays so: an upload is   *)
(* on the disk, a copy is made, a path is removed, created or renamed, and *)
(* no retry of a later operation undoes it.                                *)
THEOREM CompletesAreDone ==
  ASSUME OneHost, Separate
  PROVE  Spec => []CompleteIsDone
<1>1. TransferIInv /\ OneHostIInv => CompleteIsDone
  BY Reports DEF CompleteIsDone
<1> QED
  BY <1>1, OneRequestAtATime, PTL
===============================================================================
