------------------------------ MODULE Commander ------------------------------
(***************************************************************************)
(* The two panels of file-commander and what its keys do: ui/commander.c,  *)
(* run_commander and all it calls.  Commands go to one of two disks, the   *)
(* remote DOS one through net/file_transfer.c and net/remote_dir.c, whose  *)
(* contract is used here (FileTransfer has them in detail): what returns 0 *)
(* was done; what does not was not done, half done, or done without the    *)
(* answer.  A file is viewed and edited through a temporary copy.          *)
(***************************************************************************)
EXTENDS Naturals, SequencesExt, Picking

CONSTANTS
  Order,      \* all names, in the order in which directories are listed
  Dot, DotDot,
  InitDisk,   \* the files and directories of each side
  Typed,      \* what a user may type at a prompt: names separated by slashes
  Dir,        \* the content of a directory
  Part,       \* a file of which a part was written
  Foreign,    \* a file written by another program: also by the editor of a local one
  None,       \* no file
  MaxOps, MaxFaults, MaxOthers, MaxSaves

Sides == {"remote", "local"}

Paths(d) == DOMAIN d \cup {<<>>}
IsDir(d, p) == p = <<>> \/ (p \in DOMAIN d /\ d[p] = Dir)
IsFile(d, p) == p \in DOMAIN d /\ d[p] # Dir

Names == ToSet(Order) \cup {Dot, DotDot}

ASSUME CommanderAssumption ==
  /\ MaxOps \in Nat /\ MaxFaults \in Nat /\ MaxOthers \in Nat /\ MaxSaves \in Nat
  /\ Order \in Seq(ToSet(Order)) /\ Dot # DotDot /\ {Dot, DotDot} \cap ToSet(Order) = {}
  /\ \A p \in Typed : p \in Seq(Names) /\ p # <<>>
  /\ DOMAIN InitDisk = Sides
  /\ \A s \in Sides : \A p \in DOMAIN InitDisk[s] :
       /\ p \in Seq(ToSet(Order)) /\ p # <<>>
       /\ IsDir(InitDisk[s], Front(p)) /\ InitDisk[s][p] \notin Nat
  /\ {Dir, Part, Foreign, None} \cap Nat = {}   \* the drafts are numbers

VARIABLES
  disk,      \* for each side, the content of every path there is
  panel,     \* cwd, entries, selected (from 1) and loaded of both panels
  focus,
  pc,        \* "keys", or what the command under way is about to do
  job,       \* that command
  temp,      \* the temporary copy of the file viewed or edited
  before,    \* its fingerprint before the editor ran
  leftover,  \* the temporary copies that were kept
  running,
  ops, faults, others, saves,   \* bounded by the constants
  \* History.
  unsaved,   \* what the user last saved in the editor, unless it is uploaded
  listed     \* for each side, the directory the entries were read from

counters == <<ops, faults, others, saves>>
editing  == <<temp, before, leftover, unsaved>>
screen   == <<panel, focus, listed>>
vars == <<disk, panel, focus, pc, job, temp, before, leftover, running, counters,
          unsaved, listed>>

NoJob == [kind |-> "none", side |-> "local", source |-> <<>>, target |-> <<>>,
          is_dir |-> FALSE, plain |-> TRUE, asked |-> FALSE, shown |-> <<>>, seen |-> {}]

-----------------------------------------------------------------------------
(* Paths.                                                                  *)

Parent(p) == IF p = <<>> THEN p ELSE Front(p)

(* Where one more name leads to.                                           *)
Enter(at, name) == CASE name = Dot -> at
                     [] name = DotDot -> Parent(at)
                     [] OTHER -> Append(at, name)

(* The path DOS or Linux finds behind one with dots in it (realpath). *)
Resolve(p) ==
  LET at[i \in 0..Len(p)] == IF i = 0 THEN <<>> ELSE Enter(at[i - 1], p[i])
  IN  at[Len(p)]

remote_path_join(dir, typed) ==
  CASE typed = <<Dot>> -> dir
    [] typed = <<DotDot>> -> Parent(dir)
    [] OTHER -> dir \o typed

Join(side, typed) == IF side = "remote" THEN remote_path_join(panel[side].cwd, typed)
                     ELSE panel[side].cwd \o typed

-----------------------------------------------------------------------------
(* Panels.                                                                 *)

Navigation(side, d, dir) == CASE dir = <<>> -> <<>>
                              [] side = "local" -> <<DotDot>>
                              [] side = "remote" /\ IsDir(d, dir) -> <<Dot, DotDot>>
                              [] OTHER -> <<>>

(* A directory that has vanished from the DOS disk is listed as empty.  No *)
(* directory has more entries than a panel (MAX_LOCAL_ENTRIES and          *)
(* REMOTE_DIR_MAX_ENTRIES).                                                *)
Listing(side, d, dir) ==
  LET Entry(name) == [name |-> name,
                      is_dir |-> name \in {Dot, DotDot} \/ IsDir(d, Append(dir, name))]
      there == {name \in ToSet(Order) : Append(dir, name) \in DOMAIN d}
      names == Navigation(side, d, dir) \o Picked(Order, there)
  IN  [i \in DOMAIN names |-> Entry(names[i])]

Fresh(side, d, dir) ==
  [cwd |-> dir, entries |-> Listing(side, d, dir), selected |-> 1, loaded |-> TRUE]

PathsIn(d, dir) == {p \in DOMAIN d : Parent(p) = dir}

\* Mutant: the path of the panel changes and the old entries stay valid.
Bug_FetchFails(dir) ==
  /\ faults < MaxFaults /\ faults' = faults + 1
  /\ panel' = [panel EXCEPT !["remote"].cwd = dir]
  /\ UNCHANGED listed

(* remote_dir_fetch fails.  The pages it did get are in the entries all the *)
(* same; which entries they have overwritten does not matter, because no   *)
(* key looks at the entries of a panel that is not loaded.                 *)
FetchFails(dir) ==
  /\ faults < MaxFaults /\ faults' = faults + 1
  /\ panel' = [panel EXCEPT !["remote"].cwd = dir, !["remote"].loaded = FALSE]
  /\ UNCHANGED listed

(* remote_panel_load, after the disk has become d. *)
remote_panel_load(d, dir) ==
  \/ /\ panel' = [panel EXCEPT !["remote"] = Fresh("remote", d, dir)]
     /\ listed' = [listed EXCEPT !["remote"] = dir]
     /\ UNCHANGED faults
  \/ FetchFails(dir)

\* Mutant: the selection stays where it was, though the listing is shorter.
Bug_local_panel_load(d, dir) ==
  /\ IF IsDir(d, dir)
     THEN /\ panel' = [panel EXCEPT !["local"] =
                          [@ EXCEPT !.cwd = dir, !.entries = Listing("local", d, dir)]]
          /\ listed' = [listed EXCEPT !["local"] = dir]
     ELSE UNCHANGED <<panel, listed>>
  /\ UNCHANGED faults

(* local_panel_load: the panel stays as it is if there is no such directory. *)
local_panel_load(d, dir) ==
  /\ IF IsDir(d, dir)
     THEN /\ panel' = [panel EXCEPT !["local"] = Fresh("local", d, dir)]
          /\ listed' = [listed EXCEPT !["local"] = dir]
     ELSE UNCHANGED <<panel, listed>>
  /\ UNCHANGED faults

Load(side, d) == IF side = "remote" THEN remote_panel_load(d, panel[side].cwd)
                 ELSE local_panel_load(d, panel[side].cwd)

Unloaded == UNCHANGED <<panel, listed, faults>>

CanSelect(side) == panel[side].loaded /\ panel[side].entries # <<>>
Selected(side)  == panel[side].entries[panel[side].selected]
FileSelected(side) == CanSelect(side) /\ ~Selected(side).is_dir
SelectedPath(side) == Append(panel[side].cwd, Selected(side).name)

(* History: the paths the commander sees, by stat or in its listing. *)
Shown(side) == Append(listed[side], Selected(side).name)
Seen(side) == IF side = "local" THEN DOMAIN disk["local"]
              ELSE {Append(listed[side], panel[side].entries[i].name) :
                      i \in DOMAIN panel[side].entries}

remote_name_exists(typed) ==
  /\ panel["remote"].loaded /\ Len(typed) = 1
  /\ \E i \in DOMAIN panel["remote"].entries : panel["remote"].entries[i].name = typed[1]

-----------------------------------------------------------------------------
(* Keys that only move about: Tab, Up, Down, Enter, r, and those that quit. *)

AtKeys == pc = "keys" /\ running

OnlyPanels == UNCHANGED <<disk, pc, job, running, ops, others, saves, editing>>

Tab == /\ AtKeys
       /\ focus' = IF focus = "remote" THEN "local" ELSE "remote"
       /\ UNCHANGED <<panel, listed, faults>> /\ OnlyPanels

Move(to) == /\ AtKeys /\ to \in DOMAIN panel[focus].entries
            /\ panel' = [panel EXCEPT ![focus].selected = to]
            /\ UNCHANGED <<focus, listed, faults>> /\ OnlyPanels

Up   == Move(panel[focus].selected - 1)
Down == Move(panel[focus].selected + 1)

EntersDirectory(side) == AtKeys /\ focus = side /\ CanSelect(side) /\ Selected(side).is_dir

local_panel_enter ==
  /\ EntersDirectory("local")
  /\ local_panel_load(disk["local"], Resolve(SelectedPath("local")))
  /\ UNCHANGED focus /\ OnlyPanels

remote_panel_enter ==
  /\ EntersDirectory("remote")
  /\ remote_panel_load(disk["remote"], Join("remote", <<Selected("remote").name>>))
  /\ UNCHANGED focus /\ OnlyPanels

Refresh == AtKeys /\ Load(focus, disk[focus]) /\ UNCHANGED focus /\ OnlyPanels

Quit == /\ AtKeys /\ running' = FALSE
        /\ UNCHANGED <<disk, screen, pc, job, counters, editing>>

-----------------------------------------------------------------------------
(* A command takes its source from the selected entry and its target from  *)
(* a prompt, refuses or asks by what it knows of the target, and acts.     *)

Command(kind, side, source, target, plain, question) ==
  /\ AtKeys /\ ops < MaxOps
  /\ ops' = ops + 1
  /\ job' = [kind |-> kind, side |-> side, source |-> source, target |-> target,
             is_dir |-> kind = "delete" /\ Selected(side).is_dir,
             plain |-> plain, asked |-> FALSE,
             shown |-> IF kind \in {"rename", "delete"} THEN Shown(side) ELSE <<>>,
             seen |-> IF kind \in {"copy", "rename"} THEN Seen(side) ELSE {}]
  /\ pc' = IF question THEN "confirm" ELSE "act"
  /\ UNCHANGED <<disk, screen, running, faults, others, saves, editing>>

(* An empty answer takes the default, the name of the selected entry.      *)
Prompted(side) ==
  Typed \cup (IF CanSelect(side) /\ ~Selected(side).is_dir THEN {<<Selected(side).name>>} ELSE {})

upload_selected ==
  /\ focus = "local" /\ FileSelected("local")
  /\ \E typed \in Prompted("local") :
        Command("upload", "remote", SelectedPath("local"), Join("remote", typed), TRUE, FALSE)

download_prompted ==
  /\ \E from \in (IF focus = "remote" THEN Prompted("remote") ELSE Typed) :
       \E to \in Typed \cup {from} :
         Command("download", "local", Join("remote", from), Join("local", to), TRUE, FALSE)

\* Mutant: the listing is not looked at.
Bug_copy_selected ==
  /\ FileSelected(focus)
  /\ \E typed \in Typed :
       LET target == Join(focus, typed)
       IN  /\ target # SelectedPath(focus)
           /\ Command("copy", focus, SelectedPath(focus), target, Len(typed) = 1,
                      focus = "local" /\ Resolve(target) \in Paths(disk["local"]))

copy_selected ==
  /\ FileSelected(focus)
  /\ \E typed \in Typed :
       LET target == Join(focus, typed)
       IN  /\ target # SelectedPath(focus)
           /\ Command("copy", focus, SelectedPath(focus), target, Len(typed) = 1,
                      IF focus = "remote" THEN remote_name_exists(typed)
                      ELSE Resolve(target) \in Paths(disk["local"]))

NoNavigation(side) ==
  CanSelect(side)
  /\ Selected(side).name \notin (IF side = "remote" THEN {Dot, DotDot} ELSE {DotDot})

rename_move_selected ==
  /\ NoNavigation(focus)
  /\ \E typed \in Typed :
       LET target == Join(focus, typed)
       IN  /\ target # SelectedPath(focus)
           /\ focus = "remote" => ~remote_name_exists(typed)
           /\ Command("rename", focus, SelectedPath(focus), target, Len(typed) = 1,
                      focus = "local" /\ Resolve(target) \in Paths(disk["local"]))

mkdir_selected ==
  /\ \E typed \in Typed : Command("mkdir", focus, <<>>, Join(focus, typed), TRUE, FALSE)

delete_selected ==
  /\ NoNavigation(focus)
  /\ Command("delete", focus, SelectedPath(focus), SelectedPath(focus), TRUE, TRUE)

(* prompt_confirm *)
Answer ==
  /\ pc = "confirm"
  /\ \/ pc' = "act" /\ job' = [job EXCEPT !.asked = TRUE]
     \/ pc' = "keys" /\ job' = NoJob
  /\ UNCHANGED <<disk, screen, running, counters, editing>>

-----------------------------------------------------------------------------
(* What a command does to the disk it changes: the set of the disks it may *)
(* leave when it succeeds; empty if DOS or Linux must refuse it.           *)

Write(d, p, c) == IF p # <<>> /\ IsDir(d, Parent(p)) /\ ~IsDir(d, p)
                  THEN {[q \in DOMAIN d \cup {p} |-> IF q = p THEN c ELSE d[q]]} ELSE {}

Unlink(d, p) == [q \in DOMAIN d \ {p} |-> d[q]]

Rename(d, p, q) ==
  LET Kept  == {r \in DOMAIN d : ~IsPrefix(p, r) /\ r # q}
      Moved == {r \in DOMAIN d : IsPrefix(p, r)}
      To(r) == q \o SubSeq(r, Len(p) + 1, Len(r))
      targets == {To(r) : r \in Moved}
      From(t) == CHOOSE r \in Moved : To(r) = t
  IN  [r \in Kept \cup targets |-> IF r \in targets THEN d[From(r)] ELSE d[r]]

(* rename(2) replaces a file by a file or an empty directory by a          *)
(* directory, and does nothing if both are the same; DOS refuses any       *)
(* target there is.                                                        *)
MayRename(side, d, p, q) ==
  /\ p \in DOMAIN d /\ IsDir(d, Parent(q)) /\ ~IsPrefix(p, q)
  /\ q \in Paths(d) => /\ side = "local" /\ q # <<>>
                       /\ IsDir(d, q) <=> IsDir(d, p)
                       /\ PathsIn(d, q) = {}

Effect(j) ==
  LET d == disk[j.side]
      other == disk[IF j.side = "remote" THEN "local" ELSE "remote"]
      p == Resolve(j.source)
      q == Resolve(j.target)
  IN  CASE j.kind \in {"upload", "download"} -> IF IsFile(other, p) THEN Write(d, q, other[p]) ELSE {}
        [] j.kind = "copy" ->   \* the target is truncated before the source is read
             IF IsFile(d, p) THEN Write(d, q, IF p = q THEN Part ELSE d[p]) ELSE {}
        [] j.kind = "rename" ->
             IF MayRename(j.side, d, p, q) THEN {Rename(d, p, q)}
             ELSE IF j.side = "local" /\ p = q /\ p \in DOMAIN d THEN {d} ELSE {}
        [] j.kind = "mkdir" -> IF q \in Paths(d) THEN {} ELSE Write(d, q, Dir)
        [] j.kind = "delete" ->
             IF q \in DOMAIN d /\ (IsDir(d, q) <=> j.is_dir) /\ PathsIn(d, q) = {}
             THEN {Unlink(d, q)} ELSE {}

(* ... and those it may leave when it fails half way: a part of the file,  *)
(* or, across the LAN, all of it and no answer.                            *)
Damage(j) ==
  LET d == disk[j.side]
  IN  {d} \cup (IF j.side = "remote" \/ j.kind = "download" THEN Effect(j) ELSE {})
          \cup (IF j.kind \in {"upload", "download", "copy"} /\ Effect(j) # {}
                THEN Write(d, Resolve(j.target), Part) ELSE {})

\* Mutant: a download does not read the local directory again.
Bug_Act ==
  /\ pc = "act"
  /\ \/ \E d \in Effect(job) : /\ disk' = [disk EXCEPT ![job.side] = d]
                               /\ IF job.kind = "download" THEN Unloaded ELSE Load(job.side, d)
     \/ /\ Effect(job) = {}
        /\ UNCHANGED disk /\ Unloaded
     \/ /\ faults < MaxFaults /\ faults' = faults + 1
        /\ \E d \in Damage(job) : disk' = [disk EXCEPT ![job.side] = d]
        /\ UNCHANGED <<panel, listed>>
  /\ pc' = "keys" /\ job' = NoJob
  /\ UNCHANGED <<focus, running, ops, others, saves, editing>>

(* The command is carried out.  One that succeeds reads the directory of   *)
(* the panel again (on the side it has changed).                           *)
Act ==
  /\ pc = "act"
  /\ \/ \E d \in Effect(job) : /\ disk' = [disk EXCEPT ![job.side] = d]
                               /\ Load(job.side, d)
     \/ /\ Effect(job) = {}
        /\ UNCHANGED disk /\ Unloaded
     \/ /\ faults < MaxFaults /\ faults' = faults + 1
        /\ \E d \in Damage(job) : disk' = [disk EXCEPT ![job.side] = d]
        /\ UNCHANGED <<panel, listed>>
  /\ pc' = "keys" /\ job' = NoJob
  /\ UNCHANGED <<focus, running, ops, others, saves, editing>>

-----------------------------------------------------------------------------
(* Viewing and editing.  A local file is opened where it is.  What the user *)
(* saves of a remote one are drafts, which are numbered.                   *)

Draft == saves + 1

CanSave == saves < MaxSaves /\ saves' = Draft

edit_local_selected ==
  /\ AtKeys /\ focus = "local" /\ FileSelected("local") /\ ops < MaxOps
  /\ \E d \in Write(disk["local"], SelectedPath("local"), Foreign) :
       /\ disk' = [disk EXCEPT !["local"] = d]
       /\ Load("local", d)
  /\ ops' = ops + 1
  /\ UNCHANGED <<focus, pc, job, running, others, saves, editing>>

(* The remote file is downloaded to a new temporary directory, which is    *)
(* removed, and nothing has happened, if the download fails.               *)
Fetch(next) ==
  /\ AtKeys /\ focus = "remote" /\ FileSelected("remote") /\ ops < MaxOps
  /\ LET p == SelectedPath("remote")
     IN  /\ IsFile(disk["remote"], p)
         /\ temp' = disk["remote"][p]
         /\ job' = [NoJob EXCEPT !.kind = "upload", !.side = "remote", !.target = p]
  /\ pc' = next
  /\ ops' = ops + 1
  /\ UNCHANGED <<disk, screen, running, faults, others, saves, before, leftover, unsaved>>

view_remote_selected == Fetch("pager")
edit_remote_selected == Fetch("fingerprint")

(* The copy is kept, and its name is printed; or it is removed.            *)
KeepTemp   == leftover' = leftover \cup {temp}
RemoveTemp == UNCHANGED leftover   \* remove_temp_edit

BackToKeys == /\ pc' = "keys" /\ job' = NoJob
              /\ temp' = None /\ before' = None
              /\ UNCHANGED <<focus, running, ops, others>>

NothingUploaded == UNCHANGED <<disk, panel, listed>>

PagerExits == /\ pc = "pager"
              /\ RemoveTemp /\ BackToKeys /\ NothingUploaded
              /\ UNCHANGED <<faults, saves, unsaved>>

(* file_fingerprint, before the editor and after it. *)
Fingerprint ==
  /\ pc = "fingerprint"
  /\ before' = temp
  /\ pc' = "editor"
  /\ UNCHANGED <<disk, screen, job, running, counters, temp, leftover, unsaved>>

FingerprintFails ==
  /\ pc \in {"fingerprint", "compare"}
  /\ faults < MaxFaults /\ faults' = faults + 1
  /\ KeepTemp /\ BackToKeys /\ NothingUploaded
  /\ UNCHANGED <<saves, unsaved>>

EditorSaves ==
  /\ pc = "editor" /\ CanSave
  /\ temp' = Draft /\ unsaved' = Draft
  /\ UNCHANGED <<disk, screen, pc, job, running, ops, faults, others, before, leftover>>

\* Mutant: the copy is removed when the editor exits with an error.
Bug_EditorFails ==
  /\ pc = "editor"
  /\ RemoveTemp /\ BackToKeys /\ NothingUploaded
  /\ UNCHANGED <<faults, saves, unsaved>>

EditorFails ==
  /\ pc = "editor"
  /\ KeepTemp /\ BackToKeys /\ NothingUploaded
  /\ UNCHANGED <<faults, saves, unsaved>>

EditorExits ==
  /\ pc = "editor"
  /\ pc' = "compare"
  /\ UNCHANGED <<disk, screen, job, running, counters, editing>>

(* shell_prompt_upload_choice is asked only about a file that has changed. *)
Compare ==
  /\ pc = "compare"
  /\ \/ /\ temp # before
        /\ pc' = "ask"
        /\ UNCHANGED <<disk, screen, job, running, counters, editing>>
     \/ /\ temp = before
        /\ RemoveTemp /\ BackToKeys
        /\ Load("remote", disk["remote"])
        /\ UNCHANGED <<disk, saves, unsaved>>

UploadDeclined ==
  /\ pc = "ask"
  /\ KeepTemp /\ BackToKeys
  /\ Load("remote", disk["remote"])
  /\ UNCHANGED <<disk, saves, unsaved>>

(* file_transfer_put of the temporary copy. *)
UploadEdited ==
  /\ pc = "ask"
  /\ LET d == disk["remote"]
     IN \/ \E e \in Write(d, job.target, temp) :
             /\ disk' = [disk EXCEPT !["remote"] = e]
             /\ unsaved' = None
             /\ RemoveTemp /\ Load("remote", e)
        \/ /\ Write(d, job.target, temp) = {}
           /\ KeepTemp /\ NothingUploaded /\ UNCHANGED <<faults, unsaved>>
        \/ /\ faults < MaxFaults /\ faults' = faults + 1
           /\ \E e \in {d} \cup Write(d, job.target, temp) \cup Write(d, job.target, Part) :
                disk' = [disk EXCEPT !["remote"] = e]
           /\ KeepTemp
           /\ UNCHANGED <<panel, listed, unsaved>>
  /\ BackToKeys
  /\ UNCHANGED saves

-----------------------------------------------------------------------------
(* Somebody else writes or removes a file or directory, at any time: DOS is *)
(* in use, and so is Linux.                                                *)
Others ==
  /\ running /\ others < MaxOthers /\ others' = others + 1
  /\ \E s \in Sides, p \in UNION {DOMAIN InitDisk[t] : t \in Sides} :
       LET d == disk[s]
       IN  \E e \in Write(d, p, Foreign)
                    \cup (IF p \in DOMAIN d /\ PathsIn(d, p) = {} THEN {Unlink(d, p)} ELSE {}) :
             disk' = [disk EXCEPT ![s] = e]
  /\ UNCHANGED <<screen, pc, job, running, ops, faults, saves, editing>>

-----------------------------------------------------------------------------
(* commander_run; the first remote listing may fail. *)
Init ==
  /\ disk = InitDisk
  /\ faults \in {0, 1} \cap 0..MaxFaults
  /\ panel = [s \in Sides |->
                IF s = "remote" /\ faults = 1
                THEN [cwd |-> <<>>, entries |-> <<>>, selected |-> 1, loaded |-> FALSE]
                ELSE Fresh(s, InitDisk[s], <<>>)]
  /\ focus = "local"
  /\ pc = "keys" /\ job = NoJob /\ running = TRUE
  /\ temp = None /\ before = None /\ leftover = {} /\ unsaved = None
  /\ ops = 0 /\ others = 0 /\ saves = 0
  /\ listed = [s \in Sides |-> <<>>]

process_commander_key ==
  \/ Tab \/ Up \/ Down \/ local_panel_enter \/ remote_panel_enter \/ Refresh \/ Quit
  \/ upload_selected \/ download_prompted \/ copy_selected \/ rename_move_selected
  \/ mkdir_selected \/ delete_selected
  \/ edit_local_selected \/ view_remote_selected \/ edit_remote_selected

GoesOn == \/ Answer \/ Act \/ PagerExits \/ Fingerprint \/ FingerprintFails
          \/ EditorSaves \/ EditorExits \/ EditorFails \/ Compare
          \/ UploadDeclined \/ UploadEdited

Next == process_commander_key \/ GoesOn \/ Others

Spec == Init /\ [][Next]_vars

-----------------------------------------------------------------------------
(* Properties.                                                             *)

Contents == {Dir, Part, Foreign} \cup 1..MaxSaves
            \cup UNION {{InitDisk[s][p] : p \in DOMAIN InitDisk[s]} : s \in Sides}

(* Types, and: every file lies in a directory there is, and the cursor of  *)
(* a panel is on one of its entries, whatever was reloaded under it.       *)
TypeOK ==
  /\ \A s \in Sides : \A p \in DOMAIN disk[s] :
       disk[s][p] \in Contents /\ p # <<>> /\ IsDir(disk[s], Parent(p))
  /\ \A s \in Sides : /\ panel[s].cwd \in Seq(Names) /\ panel[s].loaded \in BOOLEAN
                      /\ panel[s].entries # <<>> => panel[s].selected \in DOMAIN panel[s].entries
  /\ focus \in Sides /\ running \in BOOLEAN
  /\ pc \in {"keys", "confirm", "act", "pager", "fingerprint", "editor", "compare", "ask"}
  /\ temp \in Contents \cup {None} /\ before \in Contents \cup {None}
  /\ leftover \subseteq Contents /\ unsaved \in 1..MaxSaves \cup {None}
  /\ ops \in 0..MaxOps /\ faults \in 0..MaxFaults
  /\ others \in 0..MaxOthers /\ saves \in 0..MaxSaves

(* "If you keep changes local only, or if uploading fails, the temporary   *)
(* edited copy is preserved" (file-commander/README.md): what the user has *)
(* saved in the editor and not uploaded is in the temporary file or in one *)
(* that was kept, whichever step of edit_remote_selected fails.            *)
EditsAreNeverLost == unsaved # None => unsaved \in leftover \cup {temp}

(* With nothing failing and nobody else at work, both panels show what is  *)
(* in their directories, after every command on either side.               *)
ListingIsCurrent ==
  faults = 0 /\ others = 0 =>
    \A s \in Sides : panel[s].entries = Listing(s, disk[s], panel[s].cwd)

(* The two that follow say what a step of the commander may do to files. *)
CommanderStep == others' = others /\ pc = "act"

(* Something vanishes only because it was renamed, or because the user has *)
(* confirmed the deletion of just that entry, as it was shown: the panel's *)
(* path and its entries belong together even if the listing that should    *)
(* have replaced them failed.                                              *)
OnlyWhatWasShownVanishes ==
  [][\A s \in Sides : \A p \in DOMAIN disk[s] \ DOMAIN disk'[s] :
       CommanderStep => \/ job.kind = "rename" /\ IsPrefix(job.shown, p)
                        \/ job.kind = "delete" /\ job.asked /\ p = job.shown]_vars

(* A copy or a rename replaces a file only after "Overwrite?" was answered *)
(* with yes; unless the file appeared after the commander had looked, or a *)
(* target typed with a directory names it, for which the remote panel's    *)
(* remote_name_exists has nothing to compare.                              *)
NothingSeenIsReplacedUnasked ==
  [][\A s \in Sides : \A p \in DOMAIN disk[s] \cap DOMAIN disk'[s] :
       CommanderStep /\ job.kind \in {"copy", "rename"} /\ disk[s][p] # disk'[s][p]
         => job.asked \/ p \notin job.seen \/ ~job.plain]_vars
=============================================================================
