--------------------------- MODULE MCFileTransfer ---------------------------
(* Scripts and disks for the model-checking runs of FileTransfer.          *)
EXTENDS FileTransfer

Do(kind, path_, target, data) ==
  [kind |-> kind, path |-> path_, target |-> target, data |-> data, is_dir |-> FALSE,
   session |-> 1]

(* One download of two chunks. *)
OneFile == "F" :> <<"x", "y">>
OneGet == {[c \in Clients |-> <<Do("GET", "F", None, <<>>)>>]}

(* Two deletions in one session. *)
TwoFiles == OneFile @@ "G" :> <<"x">>
TwoDeletes ==
  {[c \in Clients |-> <<Do("DELETE", "F", None, <<>>), Do("DELETE", "G", None, <<>>)>>]}

(* Either two uploads, one after the other, of which one replaces a file,  *)
(* or a commander session in which no two operations are of one kind.      *)
Upload == <<Do("PUT", "F", None, <<"y", "x">>)>>
TwoPuts ==
  [c \in Clients |-> Upload \o <<[Do("PUT", "K", None, <<"y">>) EXCEPT !.session = 2]>>]
PathOpsOnce ==
  [c \in Clients |->
     <<Do("RENAME", "F", "H", <<>>), Do("MKDIR", "D", None, <<>>),
       Do("DELETE", "G", None, <<>>)>>]
PutsOrPathOps == {TwoPuts, PathOpsOnce}

(* Two hosts at the same time, of which one uploads and the other lists    *)
(* the directory.                                                          *)
PutAndDir ==
  {[c \in Clients |-> IF c = "A" THEN Upload ELSE <<Do("DIR", None, None, <<>>)>>]}
OneSmall  == "G" :> <<"x">>

(* A commander session: a listing of three entries, two to a page, and     *)
(* then one operation of each kind.                                        *)
WholeSession ==
  {[c \in Clients |->
     <<Do("DIR", None, None, <<>>), Do("GET", "F", None, <<>>),
       Do("PUT", "L", None, <<"y", "x">>), Do("COPY", "F", "H", <<>>),
       Do("RENAME", "F", "K", <<>>), Do("MKDIR", "D", None, <<>>),
       [Do("DELETE", "E", None, <<>>) EXCEPT !.is_dir = TRUE]>>]}
=============================================================================
