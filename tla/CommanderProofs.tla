--------------------------- MODULE CommanderProofs ---------------------------
(***************************************************************************)
(* Proofs about Commander, for any disks, any number of commands, of       *)
(* failures and of other programs' writes.  What was saved in the editor   *)
(* is lost by no step of edit_remote_selected, whichever fails; and what   *)
(* the panels show, what a command removes and what it replaces is what    *)
(* the user has seen and asked for.                                        *)
(***************************************************************************)
EXTENDS Commander, SeqLemmas, TLAPS

-----------------------------------------------------------------------------
(* No content that is a draft is one still to come.  A draft is therefore  *)
(* never what the file was before the editor ran, and a comparison of the  *)
(* two tells whether there is anything to upload.                          *)
IsPast(c) == c \in Nat => c <= saves
AllPast(d) == \A p \in DOMAIN d : IsPast(d[p])

Kinds == {"upload", "download", "copy", "rename", "mkdir", "delete"}

InEditor == pc \in {"editor", "compare", "ask"}

(* The inductive invariant.                                                *)
DraftIInv ==
  /\ saves \in Nat
  /\ focus \in Sides /\ job.side \in Sides
  /\ pc \in {"confirm", "act"} => job.kind \in Kinds
  /\ DOMAIN disk = Sides
  /\ \A s \in Sides : AllPast(disk[s])
  /\ IsPast(temp) /\ IsPast(before)
  /\ unsaved # None => \/ unsaved \in leftover
                       \/ InEditor /\ unsaved = temp /\ temp # before

-----------------------------------------------------------------------------
(* What the commands leave on a disk.                                      *)
LEMMA WriteIsPast ==
  ASSUME NEW d, AllPast(d), NEW p, NEW c, IsPast(c), NEW e \in Write(d, p, c)
  PROVE  AllPast(e)
BY DEF Write, AllPast

LEMMA RenameIsPast ==
  ASSUME NEW d, AllPast(d), NEW p, NEW q
  PROVE  AllPast(Rename(d, p, q))
<1> DEFINE Kept  == {r \in DOMAIN d : ~IsPrefix(p, r) /\ r # q}
           Moved == {r \in DOMAIN d : IsPrefix(p, r)}
           To(r) == q \o SubSeq(r, Len(p) + 1, Len(r))
           targets == {To(r) : r \in Moved}
           From(t) == CHOOSE r \in Moved : To(r) = t
           e == [r \in Kept \cup targets |-> IF r \in targets THEN d[From(r)] ELSE d[r]]
<1>1. Rename(d, p, q) = e
  BY DEF Rename
<1>2. \A t \in targets : From(t) \in DOMAIN d
  <2> HIDE DEF To
  <2>1. \A t \in targets : \E r \in Moved : To(r) = t
    OBVIOUS
  <2>2. \A t \in targets : From(t) \in Moved
    BY <2>1
  <2> QED
    BY <2>2
<1>3. \A r \in Kept : r \in DOMAIN d
  OBVIOUS
<1> HIDE DEF Kept, targets, From
<1>4. AllPast(e)
  BY <1>2, <1>3 DEF AllPast
<1> QED
  BY <1>1, <1>4

(* The contents that a command takes from nowhere else are no drafts.      *)
LEMMA OthersArePast == IsPast(Dir) /\ IsPast(Part) /\ IsPast(Foreign) /\ IsPast(None)
BY CommanderAssumption DEF IsPast

LEMMA EffectIsPast ==
  ASSUME DraftIInv, pc = "act", NEW e \in Effect(job)
  PROVE  AllPast(e)
<1> DEFINE d == disk[job.side]
           other == disk[IF job.side = "remote" THEN "local" ELSE "remote"]
           p == Resolve(job.source)
           q == Resolve(job.target)
<1>1. AllPast(d) /\ AllPast(other)
  BY DEF DraftIInv, Sides
<1>2. \/ IsFile(other, p) /\ e \in Write(d, q, other[p])
      \/ IsFile(d, p) /\ e \in Write(d, q, IF p = q THEN Part ELSE d[p])
      \/ e = Rename(d, p, q)
      \/ e = d
      \/ e \in Write(d, q, Dir)
      \/ e = Unlink(d, q)
  <2>1. CASE job.kind \in {"upload", "download"}
    BY <2>1 DEF Effect
  <2>2. CASE job.kind = "copy"
    BY <2>2 DEF Effect
  <2>3. CASE job.kind = "rename"
    BY <2>3 DEF Effect
  <2>4. CASE job.kind = "mkdir"
    BY <2>4 DEF Effect
  <2>5. CASE job.kind = "delete"
    BY <2>5 DEF Effect
  <2> QED
    BY <2>1, <2>2, <2>3, <2>4, <2>5 DEF DraftIInv, Kinds
<1> HIDE DEF d, other, p, q
<1>3. CASE IsFile(other, p) /\ e \in Write(d, q, other[p])
  BY <1>1, <1>3, WriteIsPast DEF IsFile, AllPast
<1>4. CASE IsFile(d, p) /\ e \in Write(d, q, IF p = q THEN Part ELSE d[p])
  <2>1. IsPast(IF p = q THEN Part ELSE d[p])
    BY <1>1, <1>4, OthersArePast DEF IsFile, AllPast
  <2> QED
    BY <1>1, <1>4, <2>1, WriteIsPast
<1>5. CASE e \in Write(d, q, Dir)
  BY <1>1, <1>5, OthersArePast, WriteIsPast
<1>6. CASE e = Unlink(d, q)
  BY <1>1, <1>6 DEF Unlink, AllPast
<1> QED
  BY <1>1, <1>2, <1>3, <1>4, <1>5, <1>6, RenameIsPast

LEMMA DamageIsPast ==
  ASSUME DraftIInv, pc = "act", NEW e \in Damage(job)
  PROVE  AllPast(e)
<1>1. AllPast(disk[job.side])
  BY DEF DraftIInv
<1>2. \/ e = disk[job.side]
      \/ e \in Effect(job)
      \/ e \in Write(disk[job.side], Resolve(job.target), Part)
  BY Zenon DEF Damage
<1> QED
  BY <1>1, <1>2, EffectIsPast, OthersArePast, WriteIsPast

-----------------------------------------------------------------------------
(* A step that has no part in the editing.  It may change one disk.        *)
OneDisk == \/ UNCHANGED disk
           \/ \E s \in Sides : \E d : AllPast(d) /\ disk' = [disk EXCEPT ![s] = d]

LEMMA OneDiskIsPast ==
  ASSUME DraftIInv, OneDisk, saves' = saves
  PROVE  DOMAIN disk' = Sides /\ \A s \in Sides : AllPast(disk[s])'
<1>1. CASE UNCHANGED disk
  BY <1>1 DEF DraftIInv, AllPast, IsPast
<1>2. ASSUME NEW s \in Sides, NEW d, AllPast(d), disk' = [disk EXCEPT ![s] = d]
      PROVE  DOMAIN disk' = Sides /\ \A t \in Sides : AllPast(disk[t])'
  <2>1. DOMAIN disk' = DOMAIN disk
    BY <1>2
  <2>2. \A t \in Sides : disk'[t] = IF t = s THEN d ELSE disk[t]
    BY <1>2 DEF DraftIInv
  <2> QED
    BY <1>2, <2>1, <2>2 DEF DraftIInv, AllPast, IsPast
<1> QED
  BY <1>1, <1>2 DEF OneDisk
(* Most steps leave the temporary copy and what was kept of others alone.  *)
Aside ==
  /\ OneDisk /\ UNCHANGED <<saves, temp, before, leftover, unsaved>>
  /\ focus' \in Sides /\ job'.side \in Sides
  /\ pc' \in {"confirm", "act"} => job'.kind \in Kinds
  /\ InEditor => InEditor'

LEMMA AsideIsPast == ASSUME DraftIInv, Aside  PROVE DraftIInv'
<1>1. DOMAIN disk' = Sides /\ \A s \in Sides : AllPast(disk[s])'
  BY OneDiskIsPast DEF Aside
<1>2. IsPast(temp)' /\ IsPast(before)'
  BY DEF DraftIInv, Aside, IsPast
<1>3. (unsaved # None => \/ unsaved \in leftover
                         \/ InEditor /\ unsaved = temp /\ temp # before)'
  BY DEF DraftIInv, Aside
<1> QED
  BY <1>1, <1>2, <1>3 DEF DraftIInv, Aside

LEMMA CommandIsAside ==
  ASSUME DraftIInv, NEW kind \in Kinds, NEW side \in Sides, NEW source, NEW target,
         NEW plain, NEW question, Command(kind, side, source, target, plain, question)
  PROVE  Aside
BY DEF Command, AtKeys, screen, editing, Aside, OneDisk, DraftIInv, InEditor

LEMMA KeysAreAside ==
  ASSUME DraftIInv,
         \/ Tab \/ Up \/ Down \/ local_panel_enter \/ remote_panel_enter \/ Refresh \/ Quit
         \/ upload_selected \/ download_prompted \/ copy_selected \/ rename_move_selected
         \/ mkdir_selected \/ delete_selected \/ edit_local_selected
  PROVE  Aside
<1>1. CASE Tab
  BY <1>1 DEF Tab, OnlyPanels, editing, Aside, OneDisk, DraftIInv, InEditor, Sides
<1>2. CASE Up \/ Down \/ local_panel_enter \/ remote_panel_enter \/ Refresh
  BY <1>2 DEF Up, Down, Move, local_panel_enter, remote_panel_enter, Refresh,
              OnlyPanels, editing, Aside, OneDisk, DraftIInv, InEditor
<1>3. CASE Quit
  BY <1>3 DEF Quit, screen, counters, editing, Aside, OneDisk, DraftIInv, InEditor
<1>4. CASE upload_selected
  BY <1>4, CommandIsAside DEF upload_selected, Kinds, Sides
<1>5. CASE download_prompted
  BY <1>5, CommandIsAside DEF download_prompted, Kinds, Sides
<1>6. CASE copy_selected
  BY <1>6, CommandIsAside DEF copy_selected, Kinds, DraftIInv
<1>7. CASE rename_move_selected
  BY <1>7, CommandIsAside DEF rename_move_selected, Kinds, DraftIInv
<1>8. CASE mkdir_selected
  BY <1>8, CommandIsAside DEF mkdir_selected, Kinds, DraftIInv
<1>9. CASE delete_selected
  BY <1>9, CommandIsAside DEF delete_selected, Kinds, DraftIInv
<1>10. CASE edit_local_selected
  <2>1. PICK d \in Write(disk["local"], SelectedPath("local"), Foreign) :
          disk' = [disk EXCEPT !["local"] = d]
    BY <1>10 DEF edit_local_selected
  <2>2. AllPast(d)
    BY <2>1, OthersArePast, WriteIsPast DEF DraftIInv, Sides
  <2>3. OneDisk
    BY <2>1, <2>2 DEF OneDisk, Sides
  <2> QED
    BY <1>10, <2>3 DEF edit_local_selected, editing, Aside, DraftIInv, InEditor
<1> QED
  BY <1>1, <1>2, <1>3, <1>4, <1>5, <1>6, <1>7, <1>8, <1>9, <1>10

LEMMA ActIsAside == ASSUME DraftIInv, Act  PROVE Aside
<1>1. \/ \E d \in Effect(job) : disk' = [disk EXCEPT ![job.side] = d]
      \/ UNCHANGED disk
      \/ \E d \in Damage(job) : disk' = [disk EXCEPT ![job.side] = d]
  BY DEF Act
<1>2. pc = "act"
  BY DEF Act
<1>3. OneDisk
  BY <1>1, <1>2, EffectIsPast, DamageIsPast DEF OneDisk, DraftIInv
<1>4. job'.side = "local" /\ pc' = "keys" /\ focus' = focus
  BY DEF Act, NoJob
<1>5. UNCHANGED <<saves, temp, before, leftover, unsaved>>
  BY DEF Act, editing
<1> QED
  BY <1>2, <1>3, <1>4, <1>5 DEF Aside, DraftIInv, Sides, InEditor

LEMMA OthersAreAside == ASSUME DraftIInv, Others  PROVE Aside
<1>1. PICK s \in Sides, p \in UNION {DOMAIN InitDisk[t] : t \in Sides} :
        \E e \in Write(disk[s], p, Foreign) \cup {disk[s], Unlink(disk[s], p)} :
          disk' = [disk EXCEPT ![s] = e]
  BY DEF Others
<1>2. AllPast(disk[s]) /\ AllPast(Unlink(disk[s], p))
  BY DEF DraftIInv, AllPast, Unlink
<1>3. OneDisk
  BY <1>1, <1>2, OthersArePast, WriteIsPast DEF OneDisk
<1> QED
  BY <1>3 DEF Others, screen, editing, Aside, DraftIInv, InEditor

-----------------------------------------------------------------------------
(* The steps of view_remote_selected and edit_remote_selected.             *)
LEMMA FetchIsSound ==
  ASSUME DraftIInv, NEW next \in {"pager", "fingerprint"}, Fetch(next)
  PROVE  DraftIInv'
<1>1. focus' = focus /\ job'.side = "remote" /\ disk' = disk /\ pc = "keys" /\ pc' = next
  BY DEF Fetch, AtKeys, screen, NoJob
<1>2. UNCHANGED <<saves, before, leftover, unsaved>>
  BY DEF Fetch
<1>3. IsPast(temp')
  BY DEF Fetch, IsFile, DraftIInv, AllPast, Sides
<1> QED
  BY <1>1, <1>2, <1>3 DEF DraftIInv, AllPast, IsPast, InEditor, Sides

(* Back at the keys, what is unsaved must have been kept.                  *)
LEMMA BackIsSound ==
  ASSUME DraftIInv, BackToKeys, OneDisk, saves' = saves,
         unsaved' # None => unsaved' \in leftover'
  PROVE  DraftIInv'
<1>1. DOMAIN disk' = Sides /\ \A s \in Sides : AllPast(disk[s])'
  BY OneDiskIsPast
<1>2. pc' = "keys" /\ job'.side = "local" /\ focus' = focus
      /\ temp' = None /\ before' = None
  BY DEF BackToKeys, NoJob
<1> QED
  BY <1>1, <1>2, OthersArePast DEF DraftIInv, IsPast, Sides

LEMMA BackSteps ==
  ASSUME DraftIInv,
         PagerExits \/ FingerprintFails \/ EditorFails \/ UploadDeclined \/ UploadEdited
  PROVE  DraftIInv'
<1>1. CASE PagerExits
  BY <1>1, BackIsSound
  DEF PagerExits, RemoveTemp, NothingUploaded, OneDisk, DraftIInv, InEditor
<1>2. CASE FingerprintFails \/ EditorFails
  BY <1>2, BackIsSound
  DEF FingerprintFails, EditorFails, KeepTemp, NothingUploaded, OneDisk, DraftIInv
<1>3. CASE UploadDeclined
  BY <1>3, BackIsSound DEF UploadDeclined, KeepTemp, OneDisk, DraftIInv
<1>4. CASE UploadEdited
  <2> DEFINE d == disk["remote"]
             p == job.target
  <2>1. \/ disk' = disk
        \/ \E e \in {d} \cup Write(d, p, temp) \cup Write(d, p, Part) :
             disk' = [disk EXCEPT !["remote"] = e]
    BY <1>4 DEF UploadEdited, NothingUploaded
  <2>2. AllPast(d) /\ IsPast(temp)
    BY DEF DraftIInv, Sides
  <2>3. OneDisk
    BY <2>1, <2>2, OthersArePast, WriteIsPast DEF OneDisk, Sides
  <2>4. unsaved' = None \/ (unsaved' = unsaved /\ leftover' = leftover \cup {temp})
    BY <1>4 DEF UploadEdited, KeepTemp
  <2>5. BackToKeys /\ saves' = saves
    BY <1>4 DEF UploadEdited
  <2> QED
    BY <2>3, <2>4, <2>5, BackIsSound DEF DraftIInv
<1> QED
  BY <1>1, <1>2, <1>3, <1>4

LEMMA FingerprintIsSound == ASSUME DraftIInv, Fingerprint  PROVE DraftIInv'
<1>1. /\ disk' = disk /\ focus' = focus /\ job' = job /\ saves' = saves /\ temp' = temp
      /\ leftover' = leftover /\ unsaved' = unsaved
  BY DEF Fingerprint, screen, counters
<1>2. pc = "fingerprint" /\ pc' = "editor" /\ before' = temp
  BY DEF Fingerprint
<1> QED
  BY <1>1, <1>2 DEF DraftIInv, AllPast, IsPast, InEditor

(* A new draft differs from all there is, and so from the file as it was.  *)
LEMMA EditorSavesIsSound == ASSUME DraftIInv, EditorSaves  PROVE DraftIInv'
<1>1. /\ disk' = disk /\ focus' = focus /\ job' = job /\ pc' = pc /\ pc = "editor"
      /\ leftover' = leftover /\ before' = before
  BY DEF EditorSaves, screen
<1>2. saves' = saves + 1 /\ temp' = saves' /\ unsaved' = saves' /\ saves' \in Nat
  BY DEF EditorSaves, CanSave, Draft, DraftIInv
<1>3. \A c : IsPast(c) => IsPast(c)' /\ c # saves'
  BY <1>2 DEF IsPast, DraftIInv
<1>4. \A s \in Sides : AllPast(disk[s])'
  BY <1>1, <1>3 DEF DraftIInv, AllPast
<1>5. before' # temp' /\ IsPast(before)' /\ IsPast(temp)'
  BY <1>1, <1>2, <1>3 DEF DraftIInv, IsPast
<1> QED
  BY <1>1, <1>2, <1>4, <1>5 DEF DraftIInv, InEditor

LEMMA CompareIsSound == ASSUME DraftIInv, Compare  PROVE DraftIInv'
<1>1. CASE temp # before /\ pc' = "ask"
  BY <1>1, AsideIsPast
  DEF Compare, screen, counters, editing, Aside, OneDisk, DraftIInv, InEditor
<1>2. CASE temp = before /\ BackToKeys /\ RemoveTemp /\ UNCHANGED <<disk, saves, unsaved>>
  BY <1>2, BackIsSound DEF RemoveTemp, OneDisk, DraftIInv
<1> QED
  BY <1>1, <1>2 DEF Compare

-----------------------------------------------------------------------------
LEMMA InitIsSound == Init => DraftIInv
<1> SUFFICES ASSUME Init  PROVE DraftIInv
  OBVIOUS
<1>1. \A s \in Sides : AllPast(disk[s])
  BY CommanderAssumption DEF Init, AllPast, IsPast
<1> QED
  BY <1>1, OthersArePast, CommanderAssumption DEF Init, DraftIInv, NoJob, Sides

LEMMA StepIsSound == DraftIInv /\ [Next]_vars => DraftIInv'
<1> SUFFICES ASSUME DraftIInv, [Next]_vars  PROVE DraftIInv'
  OBVIOUS
<1>1. CASE Answer \/ EditorExits \/ UNCHANGED vars
  <2>1. CASE Answer
    <3>1. disk' = disk /\ focus' = focus /\ UNCHANGED <<saves, editing>>
      BY <2>1 DEF Answer, screen, counters
    <3>2. job'.side \in Sides /\ (pc' \in {"confirm", "act"} => job'.kind \in Kinds)
      <4>1. CASE pc' = "act" /\ job' = [job EXCEPT !.asked = TRUE]
        <5>1. job'.side = job.side /\ job'.kind = job.kind
          BY <4>1
        <5> QED
          BY <2>1, <4>1, <5>1 DEF Answer, DraftIInv
      <4>2. CASE pc' = "keys" /\ job' = NoJob
        BY <4>2 DEF NoJob, Sides
      <4> QED
        BY <2>1, <4>1, <4>2 DEF Answer
    <3>3. pc = "confirm"
      BY <2>1 DEF Answer
    <3> QED
      BY <3>1, <3>2, <3>3, AsideIsPast DEF editing, Aside, OneDisk, DraftIInv, InEditor
  <2>2. CASE EditorExits
    BY <2>2, AsideIsPast
    DEF EditorExits, screen, counters, editing, Aside, OneDisk, DraftIInv, InEditor
  <2>3. CASE UNCHANGED vars
    BY <2>3, AsideIsPast DEF vars, counters, Aside, OneDisk, DraftIInv, InEditor
  <2> QED
    BY <1>1, <2>1, <2>2, <2>3
<1>2. CASE process_commander_key
  <2>1. CASE view_remote_selected \/ edit_remote_selected
    BY <2>1, FetchIsSound DEF view_remote_selected, edit_remote_selected
  <2> QED
    BY <1>2, <2>1, KeysAreAside, AsideIsPast DEF process_commander_key
<1>3. CASE Act \/ Others
  BY <1>3, ActIsAside, OthersAreAside, AsideIsPast
<1> QED
  BY <1>1, <1>2, <1>3, BackSteps, FingerprintIsSound, EditorSavesIsSound, CompareIsSound
  DEF Next, GoesOn

(* What the user has saved in the editor and not uploaded is in the        *)
(* temporary file, or in one that edit_remote_selected has kept, whichever *)
(* of its steps fails, and however often.                                  *)
THEOREM NoEditIsLost == Spec => []EditsAreNeverLost
<1>1. DraftIInv => EditsAreNeverLost
  BY DEF DraftIInv, EditsAreNeverLost
<1> QED
  BY <1>1, InitIsSound, StepIsSound, PTL DEF Spec

-----------------------------------------------------------------------------
(* The other properties of Commander.  First its paths.                    *)
Plain == ToSet(Order)

LEMMA NamesOfPaths ==
  /\ Names = Plain \cup {Dot, DotDot} /\ Dot \notin Plain /\ DotDot \notin Plain
  /\ Dot # DotDot /\ Order \in Seq(Plain)
BY CommanderAssumption DEF Names, Plain

LEMMA ParentOfPath ==
  ASSUME NEW T, NEW p \in Seq(T), p # <<>>
  PROVE  /\ Parent(p) \in Seq(T) /\ Len(p) \in Nat \ {0} /\ Len(Parent(p)) = Len(p) - 1
         /\ \A i \in 1..(Len(p) - 1) : Parent(p)[i] = p[i]
         /\ p = Append(Parent(p), p[Len(p)])
<1>1. Len(p) \in Nat \ {0} /\ Parent(p) = SubSeq(p, 1, Len(p) - 1)
  BY DEF Parent, Front
<1>2. \A i \in 1..(Len(p) - 1) : p[i] \in T
  BY <1>1
<1>3. /\ Parent(p) \in Seq(T) /\ Len(Parent(p)) = Len(p) - 1
      /\ \A i \in 1..(Len(p) - 1) : Parent(p)[i] = p[i]
  <2>1. PICK m : m \in Nat /\ m = Len(p) - 1
    BY <1>1
  <2>2. /\ SubSeq(p, 1, m) \in Seq(T)
        /\ Len(SubSeq(p, 1, m)) = IF 1 <= m THEN m - 1 + 1 ELSE 0
        /\ \A i \in 1..(m - 1 + 1) : SubSeq(p, 1, m)[i] = p[1 + i - 1]
    BY <1>2, <2>1, SubSeqProperties
  <2>3. Len(SubSeq(p, 1, m)) = m /\ \A i \in 1..m : SubSeq(p, 1, m)[i] = p[i]
    BY <2>1, <2>2
  <2> QED
    BY <1>1, <2>1, <2>2, <2>3
<1>4. PICK q : q = Append(Parent(p), p[Len(p)])
  OBVIOUS
<1>5. /\ q \in Seq(T) /\ Len(q) = Len(p)
      /\ \A i \in 1..(Len(p) - 1) : q[i] = Parent(p)[i]
      /\ q[Len(p)] = p[Len(p)]
  <2>1. p[Len(p)] \in T
    BY <1>1
  <2> QED
    BY <1>1, <1>3, <1>4, <2>1, AppendProperties
<1>6. p = q
  <2>1. \A i \in 1..Len(p) : p[i] = q[i]
    BY <1>1, <1>3, <1>5
  <2> QED
    BY <1>5, <2>1, SeqEqual
<1> QED
  BY <1>1, <1>3, <1>4, <1>6

LEMMA ParentStays == ASSUME NEW T, NEW p \in Seq(T)  PROVE Parent(p) \in Seq(T)
<1>1. CASE p = <<>>
  BY <1>1 DEF Parent
<1> QED
  BY <1>1, ParentOfPath

LEMMA ParentOfAppend ==
  ASSUME NEW T, NEW p \in Seq(T), NEW e \in T
  PROVE  Append(p, e) \in Seq(T) /\ Append(p, e) # <<>> /\ Parent(Append(p, e)) = p
<1>1. PICK q : q = Append(p, e)
  OBVIOUS
<1>2. /\ q \in Seq(T) /\ q # <<>> /\ Len(q) = Len(p) + 1 /\ Len(p) \in Nat
      /\ \A i \in 1..Len(p) : q[i] = p[i]
  BY <1>1, AppendProperties, LenProperties
<1>3. /\ Parent(q) \in Seq(T) /\ Len(Parent(q)) = Len(q) - 1
      /\ \A i \in 1..(Len(q) - 1) : Parent(q)[i] = q[i]
  BY <1>2, ParentOfPath
<1>4. Parent(q) = p
  <2>1. Len(Parent(q)) = Len(p) /\ \A i \in 1..Len(p) : Parent(q)[i] = p[i]
    BY <1>2, <1>3
  <2> QED
    BY <1>3, <2>1, SeqEqual
<1> QED
  BY <1>1, <1>2, <1>4

LEMMA EnterStays == ASSUME NEW p \in Seq(Plain), NEW name \in Names
                    PROVE  Enter(p, name) \in Seq(Plain)
<1>1. CASE name = Dot
  BY <1>1, NamesOfPaths DEF Enter
<1>2. CASE name = DotDot
  BY <1>2, ParentStays, NamesOfPaths DEF Enter
<1>3. CASE name \in Plain
  BY <1>3, NamesOfPaths DEF Enter
<1> QED
  BY <1>1, <1>2, <1>3, NamesOfPaths

(* Resolve follows its path name by name and never leaves the disk.        *)
LEMMA ResolveSteps ==
  ASSUME NEW p \in Seq(Names)
  PROVE  \E f : /\ f \in [0..Len(p) -> Seq(Plain)] /\ f[0] = <<>>
                /\ \A i \in 1..Len(p) : f[i] = Enter(f[i - 1], p[i])
                /\ Resolve(p) = f[Len(p)]
<1> DEFINE N == Len(p)
           V == Seq(Plain)
           g == [i \in 1..N |-> [v \in V |-> Enter(v, p[i])]]
           F == CHOOSE f : f = [i \in 0..N |-> IF i = 0 THEN <<>> ELSE Enter(f[i - 1], p[i])]
<1>1. N \in Nat /\ <<>> \in V
  OBVIOUS
<1>2. \A i \in 1..N : p[i] \in Names /\ g[i] \in [V -> V] /\ \A v \in V : g[i][v] = Enter(v, p[i])
  <2> SUFFICES ASSUME NEW i \in 1..N
               PROVE  p[i] \in Names /\ g[i] \in [V -> V] /\ \A v \in V : g[i][v] = Enter(v, p[i])
    OBVIOUS
  <2>1. p[i] \in Names
    OBVIOUS
  <2>2. \A v \in V : Enter(v, p[i]) \in V
    BY <2>1, EnterStays
  <2> HIDE DEF V
  <2> QED
    BY <2>1, <2>2
<1> HIDE DEF V, g
<1>3. PICK f \in [0..N -> V] : Solves(f, N, <<>>, g)
  BY <1>1, <1>2, RecursionHasSolution
<1>4. f = [i \in 0..N |-> IF i = 0 THEN <<>> ELSE Enter(f[i - 1], p[i])]
  <2> DEFINE h == [i \in 0..N |-> IF i = 0 THEN <<>> ELSE Enter(f[i - 1], p[i])]
  <2>1. ASSUME NEW i \in 0..N  PROVE f[i] = h[i]
    <3>1. CASE i = 0
      BY <1>3, <3>1 DEF Solves
    <3>2. CASE i # 0
      <4>1. i \in 1..N /\ i - 1 \in 0..N
        BY <3>2
      <4>2. f[i] = g[i][f[i - 1]] /\ f[i - 1] \in V
        BY <4>1, <1>3 DEF Solves
      <4> QED
        BY <1>2, <3>2, <4>1, <4>2
    <3> QED
      BY <3>1, <3>2
  <2> QED
    BY <2>1, <1>3
<1>5. F = [i \in 0..N |-> IF i = 0 THEN <<>> ELSE Enter(F[i - 1], p[i])]
  BY <1>4
<1>6. Resolve(p) = F[N]
  BY DEF Resolve
<1> HIDE DEF F
<1>7. F[0] = <<>> /\ \A i \in 1..N : F[i] = Enter(F[i - 1], p[i])
  <2>1. 0 \in 0..N
    BY <1>1
  <2>2. \A i \in 1..N : i \in 0..N /\ i # 0
    BY <1>1
  <2> QED
    BY <1>5, <2>1, <2>2
<1>8. \A i \in 0..N : F[i] \in V
  <2> DEFINE In == {i \in Nat : i <= N => F[i] \in V}
  <2>1. 0 \in In
    BY <1>1, <1>7
  <2>2. ASSUME NEW i \in Nat, i \in In  PROVE i + 1 \in In
    <3> SUFFICES ASSUME i + 1 <= N  PROVE F[i + 1] \in V
      OBVIOUS
    <3>1. i + 1 \in 1..N /\ (i + 1) - 1 = i /\ F[i] \in V
      BY <2>2
    <3>2. F[i + 1] = Enter(F[i], p[i + 1]) /\ p[i + 1] \in Names
      BY <1>2, <1>7, <3>1
    <3> QED
      BY <3>1, <3>2, EnterStays DEF V
  <2> HIDE DEF In
  <2>3. Nat \subseteq In
    BY <2>1, <2>2, NatInduct
  <2> QED
    BY <2>3 DEF In
<1>9. F \in [0..N -> V]
  BY <1>5, <1>8
<1> QED
  BY <1>6, <1>7, <1>9 DEF V

LEMMA ResolveStays == ASSUME NEW p \in Seq(Names)  PROVE Resolve(p) \in Seq(Plain)
<1>1. Len(p) \in 0..Len(p)
  OBVIOUS
<1> QED
  BY <1>1, ResolveSteps

(* A path without dots leads where it says.                                *)
LEMMA ResolvePlain == ASSUME NEW p \in Seq(Plain)  PROVE p \in Seq(Names) /\ Resolve(p) = p
<1>1. p \in Seq(Names) /\ Len(p) \in Nat
  BY SeqMonotonic, NamesOfPaths
<1>2. PICK f : /\ f[0] = <<>>
               /\ \A i \in 1..Len(p) : f[i] = Enter(f[i - 1], p[i])
               /\ Resolve(p) = f[Len(p)]
  BY <1>1, ResolveSteps
<1> DEFINE Upto == {i \in Nat : i <= Len(p) => f[i] = SubSeq(p, 1, i)}
<1>3. 0 \in Upto
  <2>1. SubSeq(p, 1, 0) = <<>>
    BY SubSeqEmpty
  <2> QED
    BY <1>2, <2>1
<1>4. ASSUME NEW i \in Nat, i \in Upto  PROVE i + 1 \in Upto
  <2> SUFFICES ASSUME i + 1 <= Len(p)  PROVE f[i + 1] = SubSeq(p, 1, i + 1)
    OBVIOUS
  <2>1. i + 1 \in 1..Len(p) /\ (i + 1) - 1 = i /\ p[i + 1] \in Plain /\ f[i] = SubSeq(p, 1, i)
    BY <1>1, <1>4
  <2>2. f[i + 1] = Append(SubSeq(p, 1, i), p[i + 1])
    <3>1. f[i + 1] = Enter(f[i], p[i + 1])
      BY <1>2, <2>1
    <3> QED
      BY <2>1, <3>1, NamesOfPaths DEF Enter
  <2>3. SubSeq(p, 1, i) \in Seq(Plain)
    <3>1. \A k \in 1..i : p[k] \in Plain
      BY <1>1, <2>1
    <3> QED
      BY <3>1, SubSeqProperties
  <2>4. SubSeq(p, 1, i + 1) = SubSeq(p, 1, i) \o <<p[i + 1]>>
    <3>1. 1 \in 1..Len(p) /\ i + 1 \in 1..Len(p)
      BY <2>1
    <3> QED
      BY <2>1, <3>1, SubSeqRecursiveSecond
  <2> QED
    BY <2>1, <2>2, <2>3, <2>4, AppendIsConcat
<1> HIDE DEF Upto
<1>5. Len(p) \in Upto
  BY <1>1, <1>3, <1>4, NatInduct
<1>6. Resolve(p) = SubSeq(p, 1, Len(p))
  BY <1>1, <1>2, <1>5 DEF Upto
<1> QED
  BY <1>1, <1>6, SubSeqFull

-----------------------------------------------------------------------------
(* Prefixes, and disks, which are trees.                                   *)
LEMMA PrefixIs ==
  ASSUME NEW T, NEW s \in Seq(T), NEW t \in Seq(T)
  PROVE  IsPrefix(s, t) <=> Len(s) <= Len(t) /\ \A i \in 1..Len(s) : s[i] = t[i]
<1>1. Len(s) \in Nat /\ Len(t) \in Nat /\ SubSeq(s, 1, Len(s)) = s
  BY SubSeqFull
<1>2. ASSUME Len(s) <= Len(t)
      PROVE  s = SubSeq(t, 1, Len(s)) <=> \A i \in 1..Len(s) : s[i] = t[i]
  <2>1. PICK m : m \in Nat /\ m = Len(s)
    BY <1>1
  <2>2. \A i \in 1..m : t[i] \in T
    BY <1>1, <1>2, <2>1
  <2>3. /\ SubSeq(t, 1, m) \in Seq(T)
        /\ Len(SubSeq(t, 1, m)) = IF 1 <= m THEN m - 1 + 1 ELSE 0
        /\ \A i \in 1..(m - 1 + 1) : SubSeq(t, 1, m)[i] = t[1 + i - 1]
    BY <2>1, <2>2, SubSeqProperties
  <2>4. Len(SubSeq(t, 1, m)) = m /\ \A i \in 1..m : SubSeq(t, 1, m)[i] = t[i]
    BY <2>1, <2>3
  <2> QED
    BY <2>1, <2>3, <2>4, SeqEqual
<1> QED
  BY <1>1, <1>2 DEF IsPrefix

LEMMA PrefixOfParent ==
  ASSUME NEW T, NEW s \in Seq(T), NEW t \in Seq(T), t # <<>>
  PROVE  /\ IsPrefix(s, Parent(t)) => IsPrefix(s, t)
         /\ IsPrefix(s, t) /\ s # t => IsPrefix(s, Parent(t))
<1>1. /\ Parent(t) \in Seq(T) /\ Len(t) \in Nat \ {0} /\ Len(Parent(t)) = Len(t) - 1
      /\ \A i \in 1..(Len(t) - 1) : Parent(t)[i] = t[i]
  BY ParentOfPath
<1>2. Len(s) \in Nat
  OBVIOUS
<1>3. IsPrefix(s, Parent(t)) <=> Len(s) <= Len(Parent(t)) /\ \A i \in 1..Len(s) : s[i] = Parent(t)[i]
  BY <1>1, PrefixIs
<1>4. IsPrefix(s, t) <=> Len(s) <= Len(t) /\ \A i \in 1..Len(s) : s[i] = t[i]
  BY PrefixIs
<1>5. ASSUME IsPrefix(s, t), Len(s) = Len(t)  PROVE s = t
  BY <1>4, <1>5, SeqEqual
<1> QED
  BY <1>1, <1>2, <1>3, <1>4, <1>5

Tree(d) == \A p \in DOMAIN d :
             d[p] \in Contents /\ p \in Seq(Plain) /\ p # <<>> /\ IsDir(d, Parent(p))

(* Whatever has something below it is a directory with something in it.    *)
LEMMA Below ==
  ASSUME NEW d, Tree(d), NEW q \in Seq(Plain), NEW t \in DOMAIN d, IsPrefix(q, t), t # q
  PROVE  IsDir(d, q) /\ PathsIn(d, q) # {}
<1> DEFINE Goal == IsDir(d, q) /\ PathsIn(d, q) # {}
           Upto == {n \in Nat : \A r \in DOMAIN d :
                                  IsPrefix(q, r) /\ r # q /\ Len(r) <= n => Goal}
<1>1. 0 \in Upto
  BY DEF Tree
<1>2. ASSUME NEW n \in Nat, n \in Upto  PROVE n + 1 \in Upto
  <2> SUFFICES ASSUME NEW r \in DOMAIN d, IsPrefix(q, r), r # q, Len(r) <= n + 1  PROVE Goal
    OBVIOUS
  <2>1. r \in Seq(Plain) /\ r # <<>> /\ IsDir(d, Parent(r))
    BY DEF Tree
  <2>2. Parent(r) \in Seq(Plain) /\ Len(Parent(r)) = Len(r) - 1 /\ Len(r) \in Nat
    BY <2>1, ParentOfPath
  <2>3. CASE Parent(r) = q
    BY <2>1, <2>3 DEF PathsIn
  <2>4. CASE Parent(r) # q
    <3>1. IsPrefix(q, Parent(r))
      BY <2>1, PrefixOfParent
    <3>2. Parent(r) # <<>>
      <4>1. Len(q) \in Nat /\ (Len(q) = 0 => q = <<>>)
        OBVIOUS
      <4>2. Len(q) <= Len(Parent(r))
        BY <2>2, <3>1, PrefixIs
      <4> QED
        BY <2>4, <4>1, <4>2
    <3> QED
      BY <1>2, <2>1, <2>2, <2>4, <3>1, <3>2 DEF IsDir
  <2> QED
    BY <2>3, <2>4
<1> HIDE DEF Goal, Upto
<1>3. Len(t) \in Upto
  <2>1. Len(t) \in Nat
    BY DEF Tree
  <2> QED
    BY <1>1, <1>2, <2>1, NatInduct
<1>4. Goal
  BY <1>3 DEF Upto
<1> QED
  BY <1>4 DEF Goal

LEMMA ParentIsAnother == ASSUME NEW p \in Seq(Plain), p # <<>>  PROVE Parent(p) # p
BY ParentOfPath

LEMMA WriteKeepsTree ==
  ASSUME NEW d, Tree(d), NEW p \in Seq(Plain), NEW c \in Contents, NEW e \in Write(d, p, c)
  PROVE  /\ Tree(e) /\ DOMAIN d \subseteq DOMAIN e
         /\ \A r \in DOMAIN d : r # p => e[r] = d[r]
         /\ \A r : IsDir(d, r) => IsDir(e, r)
<1>1. /\ p # <<>> /\ IsDir(d, Parent(p)) /\ ~IsDir(d, p)
      /\ e = [q \in DOMAIN d \cup {p} |-> IF q = p THEN c ELSE d[q]]
  BY DEF Write
<1>2. \A r : IsDir(d, r) => IsDir(e, r)
  BY <1>1 DEF IsDir
<1>3. Tree(e)
  <2> SUFFICES ASSUME NEW r \in DOMAIN e
               PROVE  e[r] \in Contents /\ r \in Seq(Plain) /\ r # <<>> /\ IsDir(e, Parent(r))
    BY DEF Tree
  <2>1. CASE r = p
    BY <1>1, <1>2, <2>1
  <2>2. CASE r # p
    BY <1>1, <1>2, <2>2 DEF Tree
  <2> QED
    BY <2>1, <2>2
<1> QED
  BY <1>1, <1>2, <1>3

LEMMA UnlinkKeepsTree ==
  ASSUME NEW d, Tree(d), NEW q, PathsIn(d, q) = {}
  PROVE  Tree(Unlink(d, q)) /\ \A r : IsDir(d, r) /\ r # q => IsDir(Unlink(d, q), r)
<1>1. \A r : IsDir(d, r) /\ r # q => IsDir(Unlink(d, q), r)
  BY DEF Unlink, IsDir
<1>2. \A r \in DOMAIN d : Parent(r) # q
  BY DEF PathsIn
<1> QED
  BY <1>1, <1>2 DEF Tree, Unlink

(* Where Rename moves the paths below p.                                   *)
RenamedTo(p, q, r) == q \o SubSeq(r, Len(p) + 1, Len(r))

Grafted(t, p, q, r) ==
  /\ t \in Seq(Plain) /\ Len(t) = Len(q) + (Len(r) - Len(p)) /\ Len(p) <= Len(r)
  /\ \A i \in 1..Len(q) : t[i] = q[i]
  /\ \A i \in 1..(Len(r) - Len(p)) : t[Len(q) + i] = r[Len(p) + i]

LEMMA RenamedPath ==
  ASSUME NEW p \in Seq(Plain), NEW q \in Seq(Plain), NEW r \in Seq(Plain), IsPrefix(p, r)
  PROVE  Grafted(RenamedTo(p, q, r), p, q, r)
<1>1. Len(p) \in Nat /\ Len(q) \in Nat /\ Len(r) \in Nat /\ Len(p) <= Len(r)
  BY PrefixIs
<1>2. PICK m : m \in Nat /\ m = Len(p) + 1
  BY <1>1
<1>3. PICK u : u = SubSeq(r, m, Len(r))
  OBVIOUS
<1>4. u \in Seq(Plain) /\ Len(u) = Len(r) - Len(p)
      /\ \A i \in 1..Len(u) : u[i] = r[Len(p) + i]
  <2>1. \A i \in m..Len(r) : r[i] \in Plain
    BY <1>1, <1>2
  <2>2. /\ u \in Seq(Plain)
        /\ Len(u) = IF m <= Len(r) THEN Len(r) - m + 1 ELSE 0
        /\ \A i \in 1..(Len(r) - m + 1) : u[i] = r[m + i - 1]
    BY <1>1, <1>2, <1>3, <2>1, SubSeqProperties
  <2> QED
    BY <1>1, <1>2, <2>2
<1>5. PICK t : t = q \o u
  OBVIOUS
<1>6. RenamedTo(p, q, r) = t
  BY <1>2, <1>3, <1>5 DEF RenamedTo
<1>7. /\ t \in Seq(Plain) /\ Len(t) = Len(q) + Len(u)
      /\ \A i \in 1..Len(q) : t[i] = q[i]
      /\ \A i \in 1..Len(u) : t[Len(q) + i] = u[i]
  <2>1. Len(u) \in Nat
    BY <1>4
  <2>2. /\ q \o u \in Seq(Plain) /\ Len(q \o u) = Len(q) + Len(u)
        /\ \A i \in 1..(Len(q) + Len(u)) :
             (q \o u)[i] = IF i <= Len(q) THEN q[i] ELSE u[i - Len(q)]
    BY <1>4, ConcatProperties, Zenon
  <2>3. /\ t \in Seq(Plain) /\ Len(t) = Len(q) + Len(u)
        /\ \A i \in 1..(Len(q) + Len(u)) : t[i] = IF i <= Len(q) THEN q[i] ELSE u[i - Len(q)]
    BY <1>5, <2>2, Zenon
  <2>4. ASSUME NEW i \in 1..Len(u)  PROVE t[Len(q) + i] = u[i]
    <3>1. /\ Len(q) + i \in 1..(Len(q) + Len(u)) /\ ~(Len(q) + i <= Len(q))
          /\ (Len(q) + i) - Len(q) = i
      BY <1>1, <2>1
    <3> QED
      BY <2>3, <3>1
  <2>5. \A i \in 1..Len(q) : t[i] = q[i]
    BY <1>1, <2>1, <2>3
  <2> QED
    BY <2>3, <2>4, <2>5
<1> QED
  BY <1>1, <1>4, <1>6, <1>7 DEF Grafted

(* No two paths are moved to the same place, and what lies in a directory  *)
(* still does.                                                             *)
LEMMA RenamedApart ==
  ASSUME NEW p \in Seq(Plain), NEW q \in Seq(Plain),
         NEW r \in Seq(Plain), IsPrefix(p, r), NEW s \in Seq(Plain), IsPrefix(p, s),
         RenamedTo(p, q, r) = RenamedTo(p, q, s)
  PROVE  r = s
<1>1. PICK t : t = RenamedTo(p, q, r) /\ t = RenamedTo(p, q, s)
  OBVIOUS
<1>2. Grafted(t, p, q, r) /\ Grafted(t, p, q, s)
  BY <1>1, RenamedPath
<1>4. /\ \A i \in 1..Len(p) : p[i] = r[i] /\ p[i] = s[i]
      /\ Len(p) \in Nat /\ Len(q) \in Nat /\ Len(r) \in Nat /\ Len(s) \in Nat
  BY PrefixIs
<1>5. Len(r) = Len(s)
  BY <1>2, <1>4 DEF Grafted
<1>6. ASSUME NEW i \in 1..Len(r)  PROVE r[i] = s[i]
  <2>1. CASE i <= Len(p)
    BY <1>4, <2>1
  <2>2. CASE ~(i <= Len(p))
    <3>1. PICK k : k \in 1..(Len(r) - Len(p)) /\ i = Len(p) + k
      <4>1. i - Len(p) \in 1..(Len(r) - Len(p)) /\ i = Len(p) + (i - Len(p))
        BY <1>4, <2>2
      <4> QED
        BY <4>1
    <3>2. t[Len(q) + k] = r[Len(p) + k] /\ t[Len(q) + k] = s[Len(p) + k]
      BY <1>2, <1>5, <3>1 DEF Grafted
    <3> QED
      BY <3>1, <3>2
  <2> QED
    BY <2>1, <2>2
<1> QED
  BY <1>5, <1>6, SeqEqual

LEMMA RenamedParent ==
  ASSUME NEW p \in Seq(Plain), NEW q \in Seq(Plain),
         NEW r \in Seq(Plain), IsPrefix(p, r), r # p
  PROVE  /\ RenamedTo(p, q, r) # <<>> /\ IsPrefix(p, Parent(r))
         /\ Parent(RenamedTo(p, q, r)) = RenamedTo(p, q, Parent(r))
<1>1. PICK t : t = RenamedTo(p, q, r)
  OBVIOUS
<1>2. /\ t \in Seq(Plain) /\ Len(t) = Len(q) + (Len(r) - Len(p)) /\ Len(p) <= Len(r)
      /\ \A i \in 1..Len(q) : t[i] = q[i]
      /\ \A i \in 1..(Len(r) - Len(p)) : t[Len(q) + i] = r[Len(p) + i]
  <2>1. Grafted(t, p, q, r)
    BY <1>1, RenamedPath
  <2> QED
    BY <2>1 DEF Grafted
<1>3. /\ Len(p) \in Nat /\ Len(q) \in Nat /\ Len(r) \in Nat /\ Len(p) # Len(r)
  <2>1. Len(p) = Len(r) => p = r
    <3>1. \A i \in 1..Len(p) : p[i] = r[i]
      BY PrefixIs
    <3> QED
      BY <3>1, SeqEqual
  <2> QED
    BY <2>1
<1>4. r # <<>> /\ t # <<>>
  BY <1>2, <1>3
<1>5. IsPrefix(p, Parent(r))
  BY <1>4, PrefixOfParent
<1>6. /\ Parent(r) \in Seq(Plain) /\ Len(Parent(r)) = Len(r) - 1
      /\ \A i \in 1..(Len(r) - 1) : Parent(r)[i] = r[i]
  BY <1>4, ParentOfPath
<1>7. /\ Parent(t) \in Seq(Plain) /\ Len(Parent(t)) = Len(t) - 1
      /\ \A i \in 1..(Len(t) - 1) : Parent(t)[i] = t[i]
  BY <1>2, <1>4, ParentOfPath
<1>8. PICK u : u = RenamedTo(p, q, Parent(r))
  OBVIOUS
<1>9. /\ u \in Seq(Plain) /\ Len(u) = Len(q) + (Len(Parent(r)) - Len(p))
      /\ \A i \in 1..Len(q) : u[i] = q[i]
      /\ \A i \in 1..(Len(Parent(r)) - Len(p)) : u[Len(q) + i] = Parent(r)[Len(p) + i]
  <2>1. Grafted(u, p, q, Parent(r))
    BY <1>5, <1>6, <1>8, RenamedPath
  <2> QED
    BY <2>1 DEF Grafted
<1>10. Len(u) = Len(Parent(t)) /\ Len(u) \in Nat
  BY <1>2, <1>3, <1>6, <1>7, <1>9
<1>11. ASSUME NEW i \in 1..Len(u)  PROVE u[i] = Parent(t)[i]
  <2>1. i \in 1..(Len(t) - 1)
    BY <1>2, <1>3, <1>7, <1>10
  <2>2. CASE i <= Len(q)
    BY <1>2, <1>3, <1>7, <1>9, <2>1, <2>2
  <2>3. CASE ~(i <= Len(q))
    <3>1. PICK k : k \in Nat /\ i = Len(q) + k
      <4>1. i - Len(q) \in Nat /\ i = Len(q) + (i - Len(q))
        BY <1>3, <1>10, <2>3
      <4> QED
        BY <4>1
    <3>2. /\ k \in 1..(Len(Parent(r)) - Len(p)) /\ k \in 1..(Len(r) - Len(p))
          /\ Len(p) + k \in 1..(Len(r) - 1)
      BY <1>2, <1>3, <1>6, <1>9, <1>10, <2>3, <3>1
    <3>3. u[i] = r[Len(p) + k]
      BY <1>6, <1>9, <3>1, <3>2
    <3>4. t[i] = r[Len(p) + k]
      BY <1>2, <3>1, <3>2
    <3> QED
      BY <1>7, <2>1, <3>3, <3>4
  <2> QED
    BY <2>2, <2>3
<1>12. u = Parent(t)
  BY <1>7, <1>9, <1>10, <1>11, SeqEqual
<1> QED
  BY <1>1, <1>4, <1>5, <1>8, <1>12

(* A rename takes away only what is below p, changes nothing that stays    *)
(* but q, and leaves a tree.                                               *)
LEMMA RenameKeepsTree ==
  ASSUME NEW d, Tree(d), NEW p \in DOMAIN d, NEW q \in Seq(Plain), q # <<>>,
         IsDir(d, Parent(q)), ~IsPrefix(p, q), q \in Paths(d) => PathsIn(d, q) = {},
         NEW e, e = Rename(d, p, q)
  PROVE  /\ Tree(e)
         /\ \A r \in DOMAIN d \ DOMAIN e : IsPrefix(p, r)
         /\ \A r \in DOMAIN d \cap DOMAIN e : r # q => e[r] = d[r]
         /\ \A r : IsDir(d, r) /\ ~IsPrefix(p, r) /\ r # q => IsDir(e, r)
<1> DEFINE Kept  == {r \in DOMAIN d : ~IsPrefix(p, r) /\ r # q}
           Moved == {r \in DOMAIN d : IsPrefix(p, r)}
           targets == {RenamedTo(p, q, r) : r \in Moved}
           From(t) == CHOOSE r \in Moved : RenamedTo(p, q, r) = t
<1>1. /\ p \in Seq(Plain) /\ p # <<>>
      /\ \A r \in DOMAIN d : r \in Seq(Plain) /\ r # <<>> /\ d[r] \in Contents
                             /\ IsDir(d, Parent(r))
  BY DEF Tree
<1>2. \A r \in Moved : From(RenamedTo(p, q, r)) = r
  <2> SUFFICES ASSUME NEW r \in Moved  PROVE From(RenamedTo(p, q, r)) = r
    OBVIOUS
  <2>1. PICK s : s = From(RenamedTo(p, q, r))
    OBVIOUS
  <2>2. s \in Moved /\ RenamedTo(p, q, s) = RenamedTo(p, q, r)
    BY <2>1
  <2> QED
    BY <1>1, <2>1, <2>2, RenamedApart
<1>3. e = [r \in Kept \cup targets |-> IF r \in targets THEN d[From(r)] ELSE d[r]]
  BY Zenon DEF Rename, RenamedTo
<1> HIDE DEF From
<1>4. /\ DOMAIN e = Kept \cup targets
      /\ \A r \in Kept : r \notin targets => e[r] = d[r]
      /\ \A r \in Moved : e[RenamedTo(p, q, r)] = d[r]
  BY <1>2, <1>3
<1>5. \A r \in DOMAIN d : r \in targets => r = q
  <2> SUFFICES ASSUME NEW s \in Moved, NEW r \in DOMAIN d, r = RenamedTo(p, q, s), r # q
               PROVE  FALSE
    OBVIOUS
  <2>1. Grafted(r, p, q, s)
    BY <1>1, RenamedPath
  <2>2. Len(q) <= Len(r) /\ \A i \in 1..Len(q) : q[i] = r[i]
    <3>1. Len(q) \in Nat /\ Len(s) \in Nat /\ Len(p) \in Nat
      BY <1>1
    <3> QED
      BY <2>1, <3>1 DEF Grafted
  <2>3. IsPrefix(q, r)
    BY <1>1, <2>2, PrefixIs
  <2>4. IsDir(d, q) /\ PathsIn(d, q) # {}
    BY <2>3, Below
  <2> QED
    BY <2>4 DEF IsDir, Paths
<1>6. p \in Moved /\ RenamedTo(p, q, p) = q
  <2>1. IsPrefix(p, p)
    BY <1>1, PrefixIs
  <2>2. SubSeq(p, Len(p) + 1, Len(p)) = <<>>
    BY <1>1, SubSeqEmpty
  <2> QED
    BY <2>1, <2>2, ConcatEmptySeq DEF RenamedTo
<1> HIDE DEF Moved, targets
<1>7. \A r : IsDir(d, r) /\ ~IsPrefix(p, r) /\ r # q => IsDir(e, r)
  BY <1>4, <1>5 DEF IsDir
<1>8. \A r \in DOMAIN d \ DOMAIN e : IsPrefix(p, r)
  BY <1>4, <1>6 DEF targets
<1>9. \A r \in DOMAIN d \cap DOMAIN e : r # q => e[r] = d[r]
  BY <1>4, <1>5
<1>10. ASSUME NEW r \in Kept
       PROVE  e[r] \in Contents /\ r \in Seq(Plain) /\ r # <<>> /\ IsDir(e, Parent(r))
  <2>1. e[r] = d[r]
    BY <1>4, <1>5
  <2>2. ~IsPrefix(p, Parent(r))
    BY <1>1, PrefixOfParent
  <2>3. Parent(r) # q
    BY <1>1 DEF PathsIn, Paths, IsDir
  <2> QED
    BY <1>1, <1>7, <2>1, <2>2, <2>3
<1>11. ASSUME NEW s \in Moved, NEW r, r = RenamedTo(p, q, s)
       PROVE  e[r] \in Contents /\ r \in Seq(Plain) /\ r # <<>> /\ IsDir(e, Parent(r))
  <2>1. e[r] \in Contents
    BY <1>1, <1>4, <1>11 DEF Moved
  <2>2. CASE s = p
    <3>1. r = q /\ Parent(q) # q
      BY <1>6, <1>11, <2>2, ParentIsAnother
    <3>2. ~IsPrefix(p, Parent(q))
      BY <1>1, PrefixOfParent
    <3> QED
      BY <1>7, <2>1, <3>1, <3>2
  <2>3. CASE s # p
    <3>1. s \in Seq(Plain) /\ IsPrefix(p, s) /\ s # <<>> /\ IsDir(d, Parent(s))
      BY <1>1 DEF Moved
    <3>2. r # <<>> /\ IsPrefix(p, Parent(s)) /\ Parent(r) = RenamedTo(p, q, Parent(s))
      BY <1>1, <1>11, <2>3, <3>1, RenamedParent
    <3>3. r \in Seq(Plain)
      <4>1. Grafted(r, p, q, s)
        BY <1>1, <1>11, <3>1, RenamedPath
      <4> QED
        BY <4>1 DEF Grafted
    <3>4. Parent(s) # <<>>
      <4>1. Parent(s) \in Seq(Plain)
        BY <3>1, ParentStays
      <4>2. Len(p) <= Len(Parent(s)) /\ Len(p) \in Nat \ {0}
        BY <1>1, <3>2, <4>1, PrefixIs
      <4> QED
        BY <4>2
    <3>5. Parent(s) \in Moved /\ d[Parent(s)] = Dir
      BY <3>1, <3>2, <3>4 DEF IsDir, Moved
    <3>6. Parent(r) \in targets /\ e[Parent(r)] = Dir
      BY <1>4, <3>2, <3>5 DEF targets
    <3> QED
      BY <1>4, <2>1, <3>2, <3>3, <3>6 DEF IsDir
  <2> QED
    BY <2>2, <2>3
<1>12. Tree(e)
  <2>1. \A r \in targets : \E s \in Moved : r = RenamedTo(p, q, s)
    BY DEF targets
  <2> QED
    BY <1>4, <1>10, <1>11, <2>1 DEF Tree
<1> QED
  BY <1>7, <1>8, <1>9, <1>12

-----------------------------------------------------------------------------
(* The inductive invariant.  Disks are trees.                              *)
DisksAreTrees == DOMAIN disk = Sides /\ \A s \in Sides : Tree(disk[s])

(* What looks like a directory with dots is one, and no local one is ".".  *)
EntriesOf(side) == {e \in [name : Names, is_dir : BOOLEAN] :
                      /\ e.name \in {Dot, DotDot} => e.is_dir
                      /\ side = "local" => e.name # Dot}

PanelOf(side) == [cwd : Seq(Plain), entries : Seq(EntriesOf(side)),
                  selected : Nat, loaded : BOOLEAN]

(* The path of a panel is that of its entries, or it counts as not loaded. *)
PanelsAreSound ==
  /\ DOMAIN panel = Sides /\ DOMAIN listed = Sides
  /\ \A s \in Sides : /\ panel[s] \in PanelOf(s) /\ listed[s] \in Seq(Plain)
                      /\ panel[s].entries # <<>> => panel[s].selected \in DOMAIN panel[s].entries
                      /\ panel[s].loaded => panel[s].cwd = listed[s]

(* A local directory that is not there is not read again, so ListingIs-    *)
(* Current needs that no command takes away the one the panel is in.       *)
Standing == IsDir(disk["local"], panel["local"].cwd)

PanelsAreCurrent ==
  faults = 0 /\ others = 0 =>
    Standing /\ \A s \in Sides : panel[s].entries = Listing(s, disk[s], panel[s].cwd)

Jobs == [kind : Kinds \cup {"none"}, side : Sides, source : Seq(Names), target : Seq(Names),
         is_dir : BOOLEAN, plain : BOOLEAN, asked : BOOLEAN,
         shown : Seq(Names), seen : SUBSET Seq(Names)]

(* A command that removes is about an entry of the panel as it is.         *)
RemovesShown ==
  job.kind \in {"rename", "delete"} =>
    /\ job.shown \in Seq(Plain) /\ job.shown # <<>>
    /\ Parent(job.shown) = panel[job.side].cwd
    /\ job.source = job.shown /\ (job.kind = "delete" => job.target = job.shown)

ReplacesAsked ==
  job.kind \in {"copy", "rename"} /\ job.plain /\ ~job.asked => Resolve(job.target) \notin job.seen

JobIsSound ==
  /\ job \in Jobs
  /\ pc \in {"confirm", "act"} => job.kind # "none" /\ RemovesShown
  /\ pc = "act" => ReplacesAsked /\ (job.kind = "delete" => job.asked)

WithCopy == {"pager", "fingerprint", "editor", "compare", "ask"}

CopyIsSound ==
  /\ pc \in {"keys", "confirm", "act"} \cup WithCopy
  /\ focus \in Sides /\ running \in BOOLEAN
  /\ temp \in Contents \cup {None} /\ before \in Contents \cup {None}
  /\ pc \in WithCopy => temp \in Contents /\ job.target \in Seq(Plain)
  /\ leftover \subseteq Contents /\ unsaved \in 1..MaxSaves \cup {None}
  /\ ops \in 0..MaxOps /\ faults \in 0..MaxFaults
  /\ others \in 0..MaxOthers /\ saves \in 0..MaxSaves

CommanderIInv == /\ DisksAreTrees /\ PanelsAreSound /\ PanelsAreCurrent
                 /\ JobIsSound /\ CopyIsSound

-----------------------------------------------------------------------------
(* Reading a directory.                                                    *)
NamesIn(side) == IF side = "local" THEN Names \ {Dot} ELSE Names

LEMMA ListedNames ==
  ASSUME NEW side \in Sides, NEW d, NEW dir, NEW there
  PROVE  Navigation(side, d, dir) \o Picked(Order, there) \in Seq(NamesIn(side))
<1>1. Navigation(side, d, dir) \in Seq(NamesIn(side))
  <2>1. DotDot \in NamesIn(side) /\ (side = "remote" => Dot \in NamesIn(side))
    BY NamesOfPaths DEF NamesIn
  <2>2. <<>> \in Seq(NamesIn(side)) /\ <<DotDot>> \in Seq(NamesIn(side))
    BY <2>1
  <2>3. side = "remote" => <<Dot, DotDot>> \in Seq(NamesIn(side))
    BY <2>1
  <2> QED
    BY <2>2, <2>3 DEF Navigation
<1>2. Picked(Order, there) \in Seq(NamesIn(side))
  <2>1. Picked(Order, there) \in Seq(Plain \cap there)
    BY NamesOfPaths, PickedElements
  <2>2. (Plain \cap there) \subseteq NamesIn(side)
    BY NamesOfPaths DEF NamesIn
  <2> QED
    BY <2>1, <2>2, SeqMonotonic
<1> QED
  BY <1>1, <1>2, ConcatProperties

LEMMA ListingIsSound ==
  ASSUME NEW side \in Sides, NEW d, NEW dir
  PROVE  Listing(side, d, dir) \in Seq(EntriesOf(side))
<1> DEFINE there == {name \in ToSet(Order) : Append(dir, name) \in DOMAIN d}
           Entry(name) == [name |-> name,
                           is_dir |-> name \in {Dot, DotDot} \/ IsDir(d, Append(dir, name))]
<1>1. PICK names : names = Navigation(side, d, dir) \o Picked(Order, there)
  OBVIOUS
<1>2. names \in Seq(NamesIn(side))
  BY <1>1, ListedNames
<1>3. Listing(side, d, dir) = [i \in DOMAIN names |-> Entry(names[i])]
  BY <1>1 DEF Listing
<1>4. \A name \in NamesIn(side) : Entry(name) \in EntriesOf(side)
  BY NamesOfPaths DEF NamesIn, EntriesOf, IsDir
<1>5. DOMAIN names = 1..Len(names) /\ Len(names) \in Nat
      /\ \A i \in 1..Len(names) : names[i] \in NamesIn(side)
  BY <1>2
<1> HIDE DEF Entry
<1>6. \A i \in 1..Len(names) : Entry(names[i]) \in EntriesOf(side)
  BY <1>4, <1>5
<1>7. [i \in 1..Len(names) |-> Entry(names[i])] \in Seq(EntriesOf(side))
  BY <1>5, <1>6
<1> QED
  BY <1>3, <1>5, <1>7

LEMMA FreshIsSound ==
  ASSUME NEW side \in Sides, NEW d, NEW dir \in Seq(Plain)
  PROVE  /\ Fresh(side, d, dir) \in PanelOf(side)
         /\ Fresh(side, d, dir).entries # <<>>
              => Fresh(side, d, dir).selected \in DOMAIN Fresh(side, d, dir).entries
         /\ Fresh(side, d, dir).cwd = dir
         /\ Fresh(side, d, dir).entries = Listing(side, d, dir)
<1>1. PICK list : list = Listing(side, d, dir)
  OBVIOUS
<1>2. list \in Seq(EntriesOf(side))
  BY <1>1, ListingIsSound
<1>3. list # <<>> => 1 \in DOMAIN list
  BY <1>2
<1>4. Fresh(side, d, dir) = [cwd |-> dir, entries |-> list, selected |-> 1, loaded |-> TRUE]
  BY <1>1 DEF Fresh
<1> QED
  BY <1>1, <1>2, <1>3, <1>4 DEF PanelOf

(* What reading the directory dir of disk d on side s comes to.            *)
Rereads(s, d, dir) ==
  /\ PanelsAreSound'
  /\ \A t \in Sides \ {s} : panel'[t] = panel[t]
  /\ \/ faults < MaxFaults /\ faults' = faults + 1
     \/ /\ faults' = faults /\ (s = "local" => IsDir(d, dir))
        /\ panel'[s].cwd = dir /\ panel'[s].entries = Listing(s, d, dir)
     \/ faults' = faults /\ panel' = panel /\ s = "local" /\ ~IsDir(d, dir)

LEMMA LoadRereads ==
  ASSUME PanelsAreSound, NEW s \in Sides, NEW d, NEW dir \in Seq(Plain),
         \/ s = "remote" /\ remote_panel_load(d, dir)
         \/ s = "local" /\ local_panel_load(d, dir)
  PROVE  Rereads(s, d, dir)
<1>1. ASSUME panel' = [panel EXCEPT ![s] = Fresh(s, d, dir)],
             listed' = [listed EXCEPT ![s] = dir], faults' = faults, s = "local" => IsDir(d, dir)
      PROVE  Rereads(s, d, dir)
  <2>1. /\ DOMAIN panel' = Sides /\ DOMAIN listed' = Sides
        /\ panel'[s] = Fresh(s, d, dir) /\ listed'[s] = dir
        /\ \A t \in Sides \ {s} : panel'[t] = panel[t] /\ listed'[t] = listed[t]
    BY <1>1 DEF PanelsAreSound
  <2>2. PanelsAreSound'
    BY <2>1, FreshIsSound DEF PanelsAreSound
  <2>3. panel'[s].cwd = dir /\ panel'[s].entries = Listing(s, d, dir)
    BY <2>1, FreshIsSound
  <2> QED
    BY <1>1, <2>1, <2>2, <2>3 DEF Rereads
<1>2. CASE s = "remote" /\ FetchFails(dir)
  <2>1. panel["remote"] \in PanelOf("remote")
    BY <1>2 DEF PanelsAreSound
  <2>2. /\ faults < MaxFaults /\ faults' = faults + 1 /\ listed' = listed
        /\ panel' = [panel EXCEPT !["remote"].cwd = dir, !["remote"].loaded = FALSE]
    BY <1>2 DEF FetchFails
  <2>3. /\ DOMAIN panel' = Sides
        /\ \A t \in Sides \ {s} : panel'[t] = panel[t]
        /\ panel'["remote"] = [panel["remote"] EXCEPT !.cwd = dir, !.loaded = FALSE]
    BY <1>2, <2>2 DEF PanelsAreSound
  <2>4. /\ panel'["remote"] \in PanelOf("remote") /\ ~panel'["remote"].loaded
        /\ panel'["remote"].entries = panel["remote"].entries
        /\ panel'["remote"].selected = panel["remote"].selected
    BY <2>1, <2>3 DEF PanelOf
  <2>5. PanelsAreSound'
    BY <1>2, <2>2, <2>3, <2>4 DEF PanelsAreSound, Sides
  <2> QED
    BY <2>2, <2>3, <2>5 DEF Rereads
<1>3. CASE s = "local" /\ ~IsDir(d, dir) /\ UNCHANGED <<panel, listed, faults>>
  BY <1>3 DEF Rereads, PanelsAreSound
<1> QED
  BY <1>1, <1>2, <1>3 DEF remote_panel_load, local_panel_load

(* A panel stays current if its directory is read after its disk changed.  *)
LEMMA RereadIsCurrent ==
  ASSUME PanelsAreCurrent, faults \in Nat,
         NEW s \in Sides, NEW d, disk'[s] = d, \A t \in Sides \ {s} : disk'[t] = disk[t],
         others' = others, NEW dir, Rereads(s, d, dir),
         faults = 0 /\ others = 0 /\ s = "local" /\ Standing => IsDir(d, dir) \/ d = disk[s]
  PROVE  PanelsAreCurrent'
<1> SUFFICES ASSUME faults' = 0, others' = 0
             PROVE  Standing' /\ \A t \in Sides :
                      panel'[t].entries = Listing(t, disk'[t], panel'[t].cwd)
  BY DEF PanelsAreCurrent
<1>1. faults' = faults /\ faults = 0 /\ others = 0
  BY DEF Rereads
<1>2. Standing /\ \A t \in Sides : panel[t].entries = Listing(t, disk[t], panel[t].cwd)
  BY <1>1 DEF PanelsAreCurrent
<1>3. disk'[s] = d /\ \A t \in Sides \ {s} : disk'[t] = disk[t] /\ panel'[t] = panel[t]
  BY DEF Rereads
<1>4. \A t \in Sides \ {s} : panel'[t].entries = Listing(t, disk'[t], panel'[t].cwd)
  BY <1>2, <1>3
<1>5. CASE /\ s = "local" => IsDir(d, dir)
           /\ panel'[s].cwd = dir /\ panel'[s].entries = Listing(s, d, dir)
  BY <1>2, <1>3, <1>4, <1>5 DEF Standing, Sides
<1>6. CASE panel' = panel /\ s = "local" /\ ~IsDir(d, dir)
  BY <1>1, <1>2, <1>3, <1>4, <1>6 DEF Standing, Sides
<1> QED
  BY <1>1, <1>5, <1>6 DEF Rereads

LEMMA UnreadIsCurrent ==
  ASSUME PanelsAreCurrent, faults \in Nat, others \in Nat,
         \/ UNCHANGED <<disk, panel>> /\ faults' \in {faults, faults + 1}
                                      /\ others' \in {others, others + 1}
         \/ faults' = faults + 1 \/ others' = others + 1
  PROVE  PanelsAreCurrent'
BY DEF PanelsAreCurrent, Standing

-----------------------------------------------------------------------------
(* What a command takes from a panel and a prompt.                         *)
LEMMA SelectedIsListed ==
  ASSUME PanelsAreSound, NEW s \in Sides, CanSelect(s)
  PROVE  /\ Selected(s) \in EntriesOf(s) /\ panel[s].cwd \in Seq(Plain)
         /\ SelectedPath(s) \in Seq(Names) /\ Shown(s) = SelectedPath(s)
         /\ panel[s].cwd = listed[s]
         /\ Selected(s).is_dir \in BOOLEAN /\ Selected(s).name \in Names
<1>1. /\ panel[s] \in PanelOf(s) /\ panel[s].cwd = listed[s]
      /\ panel[s].selected \in DOMAIN panel[s].entries
  BY DEF PanelsAreSound, CanSelect
<1>2. panel[s].entries \in Seq(EntriesOf(s)) /\ panel[s].cwd \in Seq(Plain)
  BY <1>1 DEF PanelOf
<1>3. Selected(s) \in EntriesOf(s)
  BY <1>1, <1>2 DEF Selected
<1>4. Selected(s).is_dir \in BOOLEAN /\ Selected(s).name \in Names
  BY <1>3 DEF EntriesOf
<1>5. panel[s].cwd \in Seq(Names)
  BY <1>2, ResolvePlain
<1>6. SelectedPath(s) \in Seq(Names)
  BY <1>4, <1>5 DEF SelectedPath
<1> QED
  BY <1>1, <1>2, <1>3, <1>4, <1>6 DEF SelectedPath, Shown

LEMMA SelectedIsPlain ==
  ASSUME PanelsAreSound, NEW s \in Sides, CanSelect(s), NoNavigation(s) \/ ~Selected(s).is_dir
  PROVE  /\ SelectedPath(s) \in Seq(Plain) /\ SelectedPath(s) # <<>>
         /\ Parent(SelectedPath(s)) = panel[s].cwd
<1>1. Selected(s) \in EntriesOf(s) /\ panel[s].cwd \in Seq(Plain)
  BY SelectedIsListed
<1>2. Selected(s).name \in Plain
  BY <1>1, NamesOfPaths DEF EntriesOf, NoNavigation, Sides
<1> QED
  BY <1>1, <1>2, ParentOfAppend DEF SelectedPath

LEMMA JoinStays ==
  ASSUME PanelsAreSound, NEW s \in Sides, NEW typed \in Seq(Names)
  PROVE  Join(s, typed) \in Seq(Names)
<1>1. panel[s].cwd \in Seq(Names)
  BY ResolvePlain DEF PanelsAreSound, PanelOf
<1>2. panel[s].cwd \o typed \in Seq(Names)
  BY <1>1, ConcatProperties
<1>3. remote_path_join(panel[s].cwd, typed) \in Seq(Names)
  BY <1>1, <1>2, ParentStays DEF remote_path_join
<1> QED
  BY <1>2, <1>3 DEF Join, Sides

LEMMA PromptedArePaths ==
  ASSUME PanelsAreSound, NEW s \in Sides, NEW typed \in Prompted(s)
  PROVE  typed \in Seq(Names)
<1>1. CASE typed \in Typed
  BY <1>1, CommanderAssumption
<1>2. CASE CanSelect(s) /\ typed = <<Selected(s).name>>
  BY <1>2, SelectedIsListed
<1> QED
  BY <1>1, <1>2 DEF Prompted

LEMMA RemoteEnterStays ==
  ASSUME PanelsAreSound, CanSelect("remote")
  PROVE  Join("remote", <<Selected("remote").name>>) \in Seq(Plain)
<1>1. PICK name : name = Selected("remote").name
  OBVIOUS
<1>2. name \in Names /\ panel["remote"].cwd \in Seq(Plain)
  BY <1>1, SelectedIsListed DEF Sides
<1>3. /\ <<name>> = <<Dot>> <=> name = Dot
      /\ <<name>> = <<DotDot>> <=> name = DotDot
  OBVIOUS
<1>4. CASE name \in Plain
  <2>1. <<name>> \in Seq(Plain)
    BY <1>4
  <2>2. panel["remote"].cwd \o <<name>> \in Seq(Plain)
    BY <1>2, <2>1, ConcatProperties
  <2> QED
    BY <1>1, <1>3, <1>4, <2>2, NamesOfPaths DEF Join, remote_path_join
<1>5. CASE name \in {Dot, DotDot}
  BY <1>1, <1>2, <1>3, <1>5, ParentStays, NamesOfPaths DEF Join, remote_path_join
<1> QED
  BY <1>2, <1>4, <1>5, NamesOfPaths

-----------------------------------------------------------------------------
(* Steps that leave the disks and the copy alone.                          *)
LEMMA CommanderFacts ==
  ASSUME CommanderIInv
  PROVE  /\ DisksAreTrees /\ PanelsAreSound /\ PanelsAreCurrent /\ JobIsSound /\ CopyIsSound
         /\ faults \in Nat /\ others \in Nat /\ job \in Jobs /\ focus \in Sides
         /\ \A s \in Sides : panel[s].cwd \in Seq(Plain) /\ Tree(disk[s])
<1>1. DisksAreTrees /\ PanelsAreSound /\ PanelsAreCurrent /\ JobIsSound /\ CopyIsSound
  BY DEF CommanderIInv
<1>2. faults \in Nat /\ others \in Nat /\ job \in Jobs /\ focus \in Sides
  BY <1>1, CommanderAssumption DEF CopyIsSound, JobIsSound
<1>3. \A s \in Sides : panel[s].cwd \in Seq(Plain) /\ Tree(disk[s])
  BY <1>1 DEF PanelsAreSound, PanelOf, DisksAreTrees
<1> QED
  BY <1>1, <1>2, <1>3

(* Keys that only move about.                                              *)
LEMMA MoveKeeps ==
  ASSUME CommanderIInv, NEW to, Move(to)
  PROVE  CommanderIInv'
<1>1. /\ to \in DOMAIN panel[focus].entries /\ pc = "keys"
      /\ panel' = [panel EXCEPT ![focus].selected = to]
      /\ UNCHANGED <<focus, listed, faults, disk, pc, job, running, ops, others, saves,
                     temp, before, leftover, unsaved>>
  BY DEF Move, AtKeys, OnlyPanels, editing
<1>2. /\ DOMAIN panel' = Sides /\ \A s \in Sides \ {focus} : panel'[s] = panel[s]
      /\ panel'[focus] = [panel[focus] EXCEPT !.selected = to]
  BY <1>1, CommanderFacts DEF PanelsAreSound
<1>3. panel[focus] \in PanelOf(focus) /\ to \in Nat
  BY <1>1, CommanderFacts DEF PanelsAreSound, PanelOf
<1>4. /\ panel'[focus] \in PanelOf(focus) /\ panel'[focus].selected = to
      /\ panel'[focus].entries = panel[focus].entries /\ panel'[focus].cwd = panel[focus].cwd
      /\ panel'[focus].loaded = panel[focus].loaded
  BY <1>2, <1>3 DEF PanelOf
<1>5. PanelsAreSound'
  BY <1>1, <1>2, <1>4, CommanderFacts DEF PanelsAreSound
<1>6. PanelsAreCurrent'
  BY <1>1, <1>2, <1>4, CommanderFacts DEF PanelsAreCurrent, Standing, Sides
<1>7. DisksAreTrees' /\ JobIsSound' /\ CopyIsSound'
  BY <1>1, CommanderFacts DEF DisksAreTrees, JobIsSound, CopyIsSound, WithCopy
<1> QED
  BY <1>5, <1>6, <1>7 DEF CommanderIInv

LEMMA PanelKeysKeep ==
  ASSUME CommanderIInv, local_panel_enter \/ remote_panel_enter \/ Refresh
  PROVE  CommanderIInv'
<1>1. /\ pc = "keys"
      /\ UNCHANGED <<focus, disk, pc, job, running, ops, others, saves,
                     temp, before, leftover, unsaved>>
  BY DEF local_panel_enter, remote_panel_enter, Refresh, EntersDirectory, AtKeys, OnlyPanels, editing
<1>2. \E s \in Sides, dir \in Seq(Plain) :
        \/ s = "remote" /\ remote_panel_load(disk[s], dir)
        \/ s = "local" /\ local_panel_load(disk[s], dir)
  <2>1. CASE local_panel_enter
    <3>1. Resolve(SelectedPath("local")) \in Seq(Plain)
      BY <2>1, CommanderFacts, SelectedIsListed, ResolveStays
      DEF local_panel_enter, EntersDirectory, Sides
    <3> QED
      BY <2>1, <3>1 DEF local_panel_enter, Sides
  <2>2. CASE remote_panel_enter
    <3>1. Join("remote", <<Selected("remote").name>>) \in Seq(Plain)
      BY <2>2, CommanderFacts, RemoteEnterStays DEF remote_panel_enter, EntersDirectory
    <3> QED
      BY <2>2, <3>1 DEF remote_panel_enter, Sides
  <2>3. CASE Refresh
    BY <2>3, CommanderFacts DEF Refresh, Load, Sides
  <2> QED
    BY <2>1, <2>2, <2>3
<1>3. PICK s \in Sides, dir \in Seq(Plain) : Rereads(s, disk[s], dir)
  BY <1>2, CommanderFacts, LoadRereads
<1>4. PanelsAreCurrent'
  BY <1>1, <1>3, CommanderFacts, RereadIsCurrent
<1>5. faults' \in 0..MaxFaults
  BY <1>3, CommanderFacts, CommanderAssumption DEF Rereads, CopyIsSound
<1>6. DisksAreTrees' /\ JobIsSound' /\ CopyIsSound'
  BY <1>1, <1>5, CommanderFacts DEF DisksAreTrees, JobIsSound, CopyIsSound, WithCopy
<1> QED
  BY <1>3, <1>4, <1>6 DEF CommanderIInv, Rereads

(* Steps after which panels and disks are as they were.                    *)
LEMMA StillKeeps ==
  ASSUME CommanderIInv, UNCHANGED <<disk, panel, listed>>,
         faults' \in {faults, faults + 1}, others' = others, JobIsSound', CopyIsSound'
  PROVE  CommanderIInv'
<1>1. PanelsAreCurrent'
  BY CommanderFacts, UnreadIsCurrent
<1>2. DisksAreTrees' /\ PanelsAreSound'
  BY CommanderFacts DEF DisksAreTrees, PanelsAreSound
<1> QED
  BY <1>1, <1>2 DEF CommanderIInv

LEMMA TabKeeps == ASSUME CommanderIInv, Tab \/ Quit  PROVE CommanderIInv'
<1>1. /\ pc = "keys" /\ focus' \in Sides /\ running' \in BOOLEAN
      /\ UNCHANGED <<panel, listed, faults, disk, pc, job, ops, others, saves,
                     temp, before, leftover, unsaved>>
  BY CommanderFacts DEF Tab, Quit, AtKeys, OnlyPanels, editing, screen, counters, Sides, CopyIsSound
<1>2. JobIsSound' /\ CopyIsSound'
  BY <1>1, CommanderFacts DEF JobIsSound, CopyIsSound, WithCopy
<1> QED
  BY <1>1, <1>2, StillKeeps

-----------------------------------------------------------------------------
(* Commands.                                                               *)
LEMMA SeenArePaths ==
  ASSUME PanelsAreSound, DisksAreTrees, NEW s \in Sides
  PROVE  Seen(s) \in SUBSET Seq(Names)
<1>1. CASE s = "local"
  BY <1>1, ResolvePlain DEF Seen, DisksAreTrees, Tree
<1>2. CASE s # "local"
  <2>1. listed[s] \in Seq(Names) /\ panel[s].entries \in Seq(EntriesOf(s)) /\ s = "remote"
    BY <1>2, ResolvePlain DEF PanelsAreSound, PanelOf, Sides
  <2>2. \A i \in DOMAIN panel[s].entries : panel[s].entries[i].name \in Names
    BY <2>1 DEF EntriesOf
  <2>3. \A i \in DOMAIN panel[s].entries :
          Append(listed[s], panel[s].entries[i].name) \in Seq(Names)
    BY <2>1, <2>2, AppendProperties
  <2> QED
    BY <2>1, <2>3 DEF Seen
<1> QED
  BY <1>1, <1>2

(* A name that the remote panel does not show leads to nothing it shows.   *)
LEMMA UnlistedIsUnseen ==
  ASSUME PanelsAreSound, CanSelect("remote"), NEW typed \in Seq(Names), Len(typed) = 1,
         ~remote_name_exists(typed)
  PROVE  Resolve(Join("remote", typed)) \notin Seen("remote")
<1>1. PICK dir : dir = panel["remote"].cwd
  OBVIOUS
<1>2. PICK x : x = typed[1]
  OBVIOUS
<1>3. x \in Names /\ typed = <<x>> /\ dir \in Seq(Plain) /\ listed["remote"] = dir
  <2>1. panel["remote"].cwd \in Seq(Plain) /\ panel["remote"].cwd = listed["remote"]
    BY SelectedIsListed DEF Sides
  <2>2. typed[1] \in Names /\ typed = <<typed[1]>>
    <3>1. typed[1] \in Names
      OBVIOUS
    <3>2. PICK t : t = <<typed[1]>>
      OBVIOUS
    <3>3. t \in Seq(Names) /\ Len(t) = 1 /\ t[1] = typed[1]
      BY <3>1, <3>2
    <3>4. Len(typed) = Len(t) /\ \A i \in 1..Len(typed) : typed[i] = t[i]
      BY <3>3
    <3> QED
      BY <3>1, <3>2, <3>3, <3>4, SeqEqual
  <2> QED
    BY <1>1, <1>2, <2>1, <2>2
<1>4. /\ dir \in Seq(Names) /\ Resolve(dir) = dir
      /\ Parent(dir) \in Seq(Plain) /\ Resolve(Parent(dir)) = Parent(dir)
  BY <1>3, ResolvePlain, ParentStays
<1>5. ASSUME NEW p \in Seen("remote")
      PROVE  \E n \in Names : n # x /\ p = Append(dir, n) /\ Parent(p) = dir /\ p # <<>>
                              /\ Len(p) = Len(dir) + 1
  <2>1. PICK i \in DOMAIN panel["remote"].entries :
          p = Append(listed["remote"], panel["remote"].entries[i].name)
    BY <1>5 DEF Seen
  <2>2. panel["remote"].entries \in Seq(EntriesOf("remote"))
    BY DEF PanelsAreSound, PanelOf, Sides
  <2>3. PICK n : n = panel["remote"].entries[i].name
    OBVIOUS
  <2>4. n \in Names
    BY <2>2, <2>3 DEF EntriesOf
  <2>5. n # x
    BY <1>2, <2>3 DEF remote_name_exists, CanSelect
  <2>6. p = Append(dir, n)
    BY <1>3, <2>1, <2>3
  <2>7. Len(p) = Len(dir) + 1
    BY <1>4, <2>4, <2>6, AppendProperties
  <2> QED
    BY <1>4, <2>4, <2>5, <2>6, <2>7, ParentOfAppend
<1>6. Len(dir) \in Nat /\ Len(Parent(dir)) <= Len(dir)
  <2>1. CASE dir = <<>>
    BY <2>1 DEF Parent
  <2>2. CASE dir # <<>>
    BY <1>3, <2>2, ParentOfPath
  <2> QED
    BY <2>1, <2>2
<1>7. /\ <<x>> = <<Dot>> <=> x = Dot
      /\ <<x>> = <<DotDot>> <=> x = DotDot
  OBVIOUS
<1>8. CASE x = Dot
  <2>1. Resolve(Join("remote", typed)) = dir
    BY <1>1, <1>3, <1>4, <1>7, <1>8, NamesOfPaths DEF Join, remote_path_join
  <2> QED
    BY <1>5, <1>6, <2>1
<1>9. CASE x = DotDot
  <2>1. Resolve(Join("remote", typed)) = Parent(dir)
    BY <1>1, <1>3, <1>4, <1>7, <1>9, NamesOfPaths DEF Join, remote_path_join
  <2> QED
    BY <1>5, <1>6, <2>1
<1>10. CASE x \in Plain
  <2>1. Join("remote", typed) = dir \o <<x>>
    BY <1>1, <1>3, <1>7, <1>10, NamesOfPaths DEF Join, remote_path_join
  <2>2. Join("remote", typed) = Append(dir, x)
    BY <1>3, <1>10, <2>1, AppendIsConcat
  <2>3. Resolve(Join("remote", typed)) = Append(dir, x)
    BY <1>3, <1>10, <2>2, AppendProperties, ResolvePlain
  <2>4. \A n \in Names : Append(dir, n) = Append(dir, x) => n = x
    BY <1>3, <1>4, AppendInjective
  <2> QED
    BY <1>5, <2>3, <2>4
<1> QED
  BY <1>3, <1>8, <1>9, <1>10, NamesOfPaths

LEMMA CommandKeeps ==
  ASSUME CommanderIInv, NEW kind \in Kinds, NEW side \in Sides,
         NEW source \in Seq(Names), NEW target \in Seq(Names),
         NEW plain \in BOOLEAN, NEW question \in BOOLEAN,
         Command(kind, side, source, target, plain, question),
         kind \in {"rename", "delete"} =>
           /\ NoNavigation(side) /\ source = SelectedPath(side)
           /\ kind = "delete" => target = source /\ question,
         kind \in {"copy", "rename"} /\ plain /\ ~question => Resolve(target) \notin Seen(side)
  PROVE  CommanderIInv'
<1>1. /\ pc = "keys" /\ pc' = (IF question THEN "confirm" ELSE "act")
      /\ ops < MaxOps /\ ops' = ops + 1
      /\ UNCHANGED <<disk, panel, focus, listed, running, faults, others, saves,
                     temp, before, leftover, unsaved>>
  BY DEF Command, AtKeys, screen, editing
<1>2. job' = [kind |-> kind, side |-> side, source |-> source, target |-> target,
              is_dir |-> kind = "delete" /\ Selected(side).is_dir,
              plain |-> plain, asked |-> FALSE,
              shown |-> IF kind \in {"rename", "delete"} THEN Shown(side) ELSE <<>>,
              seen |-> IF kind \in {"copy", "rename"} THEN Seen(side) ELSE {}]
  BY DEF Command
<1>3. Seen(side) \in SUBSET Seq(Names)
  BY CommanderFacts, SeenArePaths
<1>4. kind \in {"rename", "delete"} =>
        /\ Shown(side) \in Seq(Plain) /\ Shown(side) # <<>> /\ Shown(side) \in Seq(Names)
        /\ Parent(Shown(side)) = panel[side].cwd /\ source = Shown(side)
  BY CommanderFacts, SelectedIsListed, SelectedIsPlain DEF NoNavigation
<1>5. job' \in Jobs
  <2>1. (kind = "delete" /\ Selected(side).is_dir) \in BOOLEAN
    OBVIOUS
  <2>2. (IF kind \in {"rename", "delete"} THEN Shown(side) ELSE <<>>) \in Seq(Names)
    BY <1>4
  <2>3. (IF kind \in {"copy", "rename"} THEN Seen(side) ELSE {}) \in SUBSET Seq(Names)
    BY <1>3
  <2> HIDE DEF Shown, Seen
  <2> QED
    BY <1>2, <2>1, <2>2, <2>3 DEF Jobs
<1>6. /\ job'.kind = kind /\ job'.side = side /\ job'.source = source /\ job'.target = target
      /\ job'.plain = plain /\ job'.asked = FALSE
      /\ kind \in {"rename", "delete"} => job'.shown = Shown(side)
      /\ kind \in {"copy", "rename"} => job'.seen = Seen(side)
  BY <1>2
<1>7. JobIsSound'
  <2>1. RemovesShown'
    BY <1>1, <1>4, <1>6 DEF RemovesShown
  <2>2. pc' = "act" => ReplacesAsked' /\ (job'.kind = "delete" => job'.asked)
    BY <1>1, <1>6 DEF ReplacesAsked
  <2>3. job'.kind # "none"
    BY <1>6 DEF Kinds
  <2> QED
    BY <1>5, <2>1, <2>2, <2>3 DEF JobIsSound
<1>8. CopyIsSound'
  BY <1>1, CommanderFacts, CommanderAssumption DEF CopyIsSound, WithCopy
<1> QED
  BY <1>1, <1>7, <1>8, StillKeeps

LEMMA CommandsKeep ==
  ASSUME CommanderIInv,
         \/ upload_selected \/ download_prompted \/ copy_selected \/ rename_move_selected
         \/ mkdir_selected \/ delete_selected
  PROVE  CommanderIInv'
<1>1. \A typed \in Typed : typed \in Seq(Names)
  BY CommanderAssumption
<1>2. \A s \in Sides : CanSelect(s) => SelectedPath(s) \in Seq(Names)
  BY CommanderFacts, SelectedIsListed
<1>3. \A s \in Sides, typed \in Seq(Names) : Join(s, typed) \in Seq(Names)
  BY CommanderFacts, JoinStays
<1>4. \A s \in Sides : \A typed \in Prompted(s) : typed \in Seq(Names)
  BY CommanderFacts, PromptedArePaths
<1>5. "local" \in Sides /\ "remote" \in Sides /\ focus \in Sides
  BY CommanderFacts DEF Sides
<1>6. CASE upload_selected
  <2>1. PICK typed \in Prompted("local") :
          Command("upload", "remote", SelectedPath("local"), Join("remote", typed), TRUE, FALSE)
    BY <1>6 DEF upload_selected
  <2>2. CanSelect("local")
    BY <1>6 DEF upload_selected, FileSelected
  <2> QED
    BY <1>2, <1>3, <1>4, <1>5, <2>1, <2>2, CommandKeeps DEF Kinds
<1>7. CASE download_prompted
  <2>1. PICK from \in (IF focus = "remote" THEN Prompted("remote") ELSE Typed) :
          \E to \in Typed \cup {from} :
            Command("download", "local", Join("remote", from), Join("local", to), TRUE, FALSE)
    BY <1>7 DEF download_prompted
  <2>1a. PICK to \in Typed \cup {from} :
          Command("download", "local", Join("remote", from), Join("local", to), TRUE, FALSE)
    BY <2>1
  <2>2. from \in Seq(Names) /\ to \in Seq(Names)
    BY <1>1, <1>4, <1>5
  <2>3. Join("remote", from) \in Seq(Names) /\ Join("local", to) \in Seq(Names)
    BY <1>3, <1>5, <2>2
  <2> QED
    BY <1>5, <2>1a, <2>3, CommandKeeps DEF Kinds
<1>8. CASE copy_selected
  <2>1. PICK typed \in Typed :
          Command("copy", focus, SelectedPath(focus), Join(focus, typed), Len(typed) = 1,
                  IF focus = "remote" THEN remote_name_exists(typed)
                  ELSE Resolve(Join(focus, typed)) \in Paths(disk["local"]))
    BY <1>8 DEF copy_selected
  <2>2. CanSelect(focus)
    BY <1>8 DEF copy_selected, FileSelected
  <2>3. PICK question \in BOOLEAN :
          question = IF focus = "remote" THEN remote_name_exists(typed)
                     ELSE Resolve(Join(focus, typed)) \in Paths(disk["local"])
    <3>1. (IF focus = "remote" THEN remote_name_exists(typed)
           ELSE Resolve(Join(focus, typed)) \in Paths(disk["local"])) \in BOOLEAN
      <4>1. remote_name_exists(typed) \in BOOLEAN
        BY DEF remote_name_exists
      <4>2. (Resolve(Join(focus, typed)) \in Paths(disk["local"])) \in BOOLEAN
        OBVIOUS
      <4>3. CASE focus = "remote"
        BY <4>1, <4>3, Zenon
      <4>4. CASE focus # "remote"
        BY <4>2, <4>4, Zenon
      <4> QED
        BY <4>3, <4>4, Zenon
    <3> QED
      BY <3>1, Zenon
  <2>4. ASSUME Len(typed) = 1, ~question  PROVE Resolve(Join(focus, typed)) \notin Seen(focus)
    <3>1. CASE focus = "remote"
      BY <1>1, <2>2, <2>3, <2>4, <3>1, CommanderFacts, UnlistedIsUnseen
    <3>2. CASE focus = "local"
      BY <2>3, <2>4, <3>2 DEF Seen, Paths
    <3> QED
      BY <1>5, <3>1, <3>2 DEF Sides
  <2>5. PICK plain \in BOOLEAN : plain = (Len(typed) = 1)
    OBVIOUS
  <2>6. Command("copy", focus, SelectedPath(focus), Join(focus, typed), plain, question)
    BY <2>1, <2>3, <2>5
  <2>7. SelectedPath(focus) \in Seq(Names) /\ Join(focus, typed) \in Seq(Names)
    BY <1>1, <1>2, <1>3, <1>5, <2>2
  <2>8. plain /\ ~question => Resolve(Join(focus, typed)) \notin Seen(focus)
    BY <2>4, <2>5
  <2>9. "copy" \in Kinds /\ "copy" # "delete"
    BY DEF Kinds
  <2> QED
    BY <1>5, <2>2, <2>6, <2>7, <2>8, <2>9, CommandKeeps
<1>9. CASE rename_move_selected
  <2>1. PICK typed \in Typed :
          /\ focus = "remote" => ~remote_name_exists(typed)
          /\ Command("rename", focus, SelectedPath(focus), Join(focus, typed), Len(typed) = 1,
                     focus = "local" /\ Resolve(Join(focus, typed)) \in Paths(disk["local"]))
    BY <1>9 DEF rename_move_selected
  <2>2. NoNavigation(focus) /\ CanSelect(focus)
    BY <1>9 DEF rename_move_selected, NoNavigation
  <2>3. PICK question \in BOOLEAN :
          question = (focus = "local" /\ Resolve(Join(focus, typed)) \in Paths(disk["local"]))
    OBVIOUS
  <2>4. ASSUME Len(typed) = 1, ~question  PROVE Resolve(Join(focus, typed)) \notin Seen(focus)
    <3>1. CASE focus = "remote"
      BY <1>1, <2>1, <2>2, <2>4, <3>1, CommanderFacts, UnlistedIsUnseen
    <3>2. CASE focus = "local"
      BY <2>3, <2>4, <3>2 DEF Seen, Paths
    <3> QED
      BY <1>5, <3>1, <3>2 DEF Sides
  <2>5. PICK plain \in BOOLEAN : plain = (Len(typed) = 1)
    OBVIOUS
  <2>6. Command("rename", focus, SelectedPath(focus), Join(focus, typed), plain, question)
    BY <2>1, <2>3, <2>5
  <2>7. SelectedPath(focus) \in Seq(Names) /\ Join(focus, typed) \in Seq(Names)
    BY <1>1, <1>2, <1>3, <1>5, <2>2
  <2>8. plain /\ ~question => Resolve(Join(focus, typed)) \notin Seen(focus)
    BY <2>4, <2>5
  <2>9. "rename" \in Kinds /\ "rename" # "delete"
    BY DEF Kinds
  <2> QED
    BY <1>5, <2>2, <2>6, <2>7, <2>8, <2>9, CommandKeeps
<1>10. CASE mkdir_selected
  <2>1. PICK typed \in Typed : Command("mkdir", focus, <<>>, Join(focus, typed), TRUE, FALSE)
    BY <1>10 DEF mkdir_selected
  <2>2. Join(focus, typed) \in Seq(Names) /\ <<>> \in Seq(Names)
    BY <1>1, <1>3, <1>5
  <2>3. "mkdir" \in Kinds /\ "mkdir" \notin {"rename", "delete", "copy"}
    BY DEF Kinds
  <2> QED
    BY <1>5, <2>1, <2>2, <2>3, CommandKeeps
<1>11. CASE delete_selected
  <2>1. Command("delete", focus, SelectedPath(focus), SelectedPath(focus), TRUE, TRUE)
        /\ NoNavigation(focus) /\ CanSelect(focus)
    BY <1>11 DEF delete_selected, NoNavigation
  <2> QED
    BY <1>2, <1>5, <2>1, CommandKeeps DEF Kinds
<1> QED
  BY <1>6, <1>7, <1>8, <1>9, <1>10, <1>11

LEMMA AnswerKeeps == ASSUME CommanderIInv, Answer  PROVE CommanderIInv'
<1>1. /\ pc = "confirm" /\ job \in Jobs /\ job.kind # "none" /\ RemovesShown
      /\ UNCHANGED <<disk, panel, focus, listed, running, ops, faults, others, saves,
                     temp, before, leftover, unsaved>>
  BY CommanderFacts DEF Answer, screen, counters, editing, JobIsSound
<1>2. CASE pc' = "act" /\ job' = [job EXCEPT !.asked = TRUE]
  <2>1. /\ job' \in Jobs /\ job'.asked = TRUE
        /\ job'.kind = job.kind /\ job'.side = job.side
        /\ job'.source = job.source /\ job'.target = job.target /\ job'.shown = job.shown
    BY <1>1, <1>2 DEF Jobs
  <2>2. JobIsSound'
    BY <1>1, <1>2, <2>1 DEF JobIsSound, RemovesShown, ReplacesAsked
  <2>3. CopyIsSound'
    BY <1>1, <1>2, CommanderFacts DEF CopyIsSound, WithCopy
  <2> QED
    BY <1>1, <2>2, <2>3, StillKeeps
<1>3. CASE pc' = "keys" /\ job' = NoJob
  <2>1. JobIsSound'
    BY <1>3 DEF JobIsSound, NoJob, Jobs, Sides
  <2>2. CopyIsSound'
    BY <1>1, <1>3, CommanderFacts DEF CopyIsSound, WithCopy
  <2> QED
    BY <1>1, <2>1, <2>2, StillKeeps
<1> QED
  BY <1>2, <1>3 DEF Answer

-----------------------------------------------------------------------------
(* What a command may do to the disk it is about.                          *)
Allowed(e) ==
  LET d == disk[job.side]
  IN  /\ Tree(e)
      /\ \A r \in DOMAIN d \ DOMAIN e : \/ job.kind = "rename" /\ IsPrefix(job.shown, r)
                                        \/ job.kind = "delete" /\ job.asked /\ r = job.shown
      /\ \A r \in DOMAIN d \cap DOMAIN e :
           job.kind \in {"copy", "rename"} /\ d[r] # e[r] => r = Resolve(job.target)
      /\ job.side = "local" /\ Standing => IsDir(e, panel["local"].cwd)

LEMMA ContentsOfCommands == {Dir, Part, Foreign} \subseteq Contents
BY DEF Contents

LEMMA WrittenIsAllowed ==
  ASSUME CommanderIInv, NEW c \in Contents, NEW e \in Write(disk[job.side], Resolve(job.target), c)
  PROVE  Allowed(e)
<1> DEFINE d == disk[job.side]
           q == Resolve(job.target)
<1>1. Tree(d) /\ q \in Seq(Plain)
  BY CommanderFacts, ResolveStays DEF Jobs
<1>2. e \in Write(d, q, c)
  OBVIOUS
<1>3. /\ Tree(e) /\ DOMAIN d \subseteq DOMAIN e
      /\ \A r \in DOMAIN d : r # q => e[r] = d[r]
      /\ \A r : IsDir(d, r) => IsDir(e, r)
  BY <1>1, <1>2, WriteKeepsTree
<1> QED
  BY <1>3 DEF Allowed, Standing

LEMMA EffectIsAllowed ==
  ASSUME CommanderIInv, pc = "act", NEW e \in Effect(job)
  PROVE  Allowed(e)
<1> DEFINE d == disk[job.side]
           other == disk[IF job.side = "remote" THEN "local" ELSE "remote"]
           p == Resolve(job.source)
           q == Resolve(job.target)
<1>1. /\ job \in Jobs /\ job.side \in Sides /\ job.kind # "none"
      /\ RemovesShown /\ (job.kind = "delete" => job.asked)
  BY CommanderFacts DEF JobIsSound, Jobs
<1>2. Tree(d) /\ Tree(other) /\ p \in Seq(Plain) /\ q \in Seq(Plain)
  BY <1>1, CommanderFacts, ResolveStays DEF Jobs, Sides
<1>3. \/ IsFile(other, p) /\ e \in Write(d, q, other[p])
      \/ IsFile(d, p) /\ e \in Write(d, q, IF p = q THEN Part ELSE d[p])
      \/ job.kind = "rename" /\ MayRename(job.side, d, p, q) /\ e = Rename(d, p, q)
      \/ e = d
      \/ e \in Write(d, q, Dir)
      \/ job.kind = "delete" /\ q \in DOMAIN d /\ PathsIn(d, q) = {} /\ e = Unlink(d, q)
  <2>1. CASE job.kind \in {"upload", "download"}
    BY <2>1 DEF Effect
  <2>2. CASE job.kind = "copy"
    BY <2>2 DEF Effect
  <2>3. CASE job.kind = "rename"
    BY <2>3 DEF Effect
  <2>4. CASE job.kind = "mkdir"
    BY <2>4 DEF Effect
  <2>5. CASE job.kind = "delete"
    BY <2>5 DEF Effect
  <2> QED
    BY <1>1, <2>1, <2>2, <2>3, <2>4, <2>5 DEF Jobs, Kinds
<1>4. job.kind \in {"rename", "delete"} =>
        /\ job.shown \in Seq(Plain) /\ job.shown # <<>> /\ p = job.shown
        /\ Parent(p) = panel[job.side].cwd /\ (job.kind = "delete" => q = job.shown)
  BY <1>1, ResolvePlain DEF RemovesShown
<1>5. ASSUME NEW c \in Contents, e \in Write(d, q, c)  PROVE Allowed(e)
  BY <1>5, WrittenIsAllowed
<1>6. CASE IsFile(other, p) /\ e \in Write(d, q, other[p])
  BY <1>2, <1>5, <1>6 DEF IsFile, Tree
<1>7. CASE IsFile(d, p) /\ e \in Write(d, q, IF p = q THEN Part ELSE d[p])
  <2>1. (IF p = q THEN Part ELSE d[p]) \in Contents
    BY <1>2, <1>7, ContentsOfCommands DEF IsFile, Tree
  <2> QED
    BY <1>5, <1>7, <2>1
<1>8. CASE e \in Write(d, q, Dir)
  BY <1>5, <1>8, ContentsOfCommands
<1>9. CASE e = d
  BY <1>2, <1>9 DEF Allowed, Standing
<1>10. CASE job.kind = "delete" /\ q \in DOMAIN d /\ PathsIn(d, q) = {} /\ e = Unlink(d, q)
  <2>1. Tree(e) /\ \A r : IsDir(d, r) /\ r # q => IsDir(e, r)
    BY <1>2, <1>10, UnlinkKeepsTree
  <2>2. /\ DOMAIN e = DOMAIN d \ {q} /\ q = job.shown /\ job.asked
        /\ panel[job.side].cwd # q
    BY <1>1, <1>4, <1>10, ParentIsAnother DEF Unlink
  <2> HIDE DEF q
  <2> QED
    BY <1>10, <2>1, <2>2 DEF Allowed, Standing
<1>11. CASE job.kind = "rename" /\ MayRename(job.side, d, p, q) /\ e = Rename(d, p, q)
  <2>1. /\ p \in DOMAIN d /\ IsDir(d, Parent(q)) /\ ~IsPrefix(p, q) /\ q # <<>>
        /\ q \in Paths(d) => PathsIn(d, q) = {}
    BY <1>11 DEF MayRename, Paths
  <2>2. /\ Tree(e)
        /\ \A r \in DOMAIN d \ DOMAIN e : IsPrefix(p, r)
        /\ \A r \in DOMAIN d \cap DOMAIN e : r # q => e[r] = d[r]
        /\ \A r : IsDir(d, r) /\ ~IsPrefix(p, r) /\ r # q => IsDir(e, r)
    <3> HIDE DEF d, p, q
    <3> QED
      BY <1>2, <1>11, <2>1, RenameKeepsTree
  <2>3. p = job.shown /\ p # <<>> /\ Parent(p) = panel[job.side].cwd
    BY <1>4, <1>11
  <2>4. ~IsPrefix(p, Parent(p))
    <3>1. Parent(p) \in Seq(Plain) /\ Len(Parent(p)) < Len(p)
      BY <1>2, <2>3, ParentOfPath
    <3> QED
      BY <1>2, <3>1, PrefixIs
  <2>5. IsDir(d, Parent(p)) => Parent(p) # q
    BY <2>1 DEF PathsIn, Paths, IsDir
  <2>6. d = disk[job.side] /\ q = Resolve(job.target)
    OBVIOUS
  <2> HIDE DEF d, p, q
  <2>7. job.side = "local" /\ Standing => IsDir(e, panel["local"].cwd)
    BY <2>2, <2>3, <2>4, <2>5, <2>6 DEF Standing
  <2> QED
    BY <1>11, <2>2, <2>3, <2>6, <2>7 DEF Allowed
<1> QED
  BY <1>3, <1>6, <1>7, <1>8, <1>9, <1>10, <1>11

LEMMA DamageIsAllowed ==
  ASSUME CommanderIInv, pc = "act", NEW e \in Damage(job)
  PROVE  Allowed(e)
<1>1. \/ e = disk[job.side]
      \/ e \in Effect(job)
      \/ e \in Write(disk[job.side], Resolve(job.target), Part)
  BY Zenon DEF Damage
<1>2. CASE e = disk[job.side]
  <2>1. Tree(disk[job.side])
    BY CommanderFacts DEF Jobs
  <2> QED
    BY <1>2, <2>1 DEF Allowed, Standing
<1> QED
  BY <1>1, <1>2, EffectIsAllowed, WrittenIsAllowed, ContentsOfCommands

LEMMA DiskBecomes ==
  ASSUME DisksAreTrees, NEW s \in Sides, NEW e, Tree(e), disk' = [disk EXCEPT ![s] = e]
  PROVE  /\ DisksAreTrees' /\ disk'[s] = e
         /\ \A t \in Sides \ {s} : disk'[t] = disk[t]
<1>1. DOMAIN disk' = Sides /\ disk'[s] = e /\ \A t \in Sides \ {s} : disk'[t] = disk[t]
  BY DEF DisksAreTrees
<1> QED
  BY <1>1 DEF DisksAreTrees

LEMMA ActKeeps == ASSUME CommanderIInv, Act  PROVE CommanderIInv'
<1>1. /\ pc = "act" /\ pc' = "keys" /\ job' = NoJob
      /\ UNCHANGED <<focus, running, ops, others, saves, temp, before, leftover, unsaved>>
  BY DEF Act, editing
<1>2. job.side \in Sides
  BY CommanderFacts DEF Jobs
<1>3. JobIsSound'
  BY <1>1 DEF JobIsSound, NoJob, Jobs, Sides
<1>4. ASSUME faults' \in 0..MaxFaults  PROVE CopyIsSound'
  BY <1>1, <1>4, CommanderFacts DEF CopyIsSound, WithCopy
<1>5. faults \in 0..MaxFaults /\ MaxFaults \in Nat
  BY CommanderFacts, CommanderAssumption DEF CopyIsSound
<1>6. CASE \E e \in Effect(job) : disk' = [disk EXCEPT ![job.side] = e] /\ Load(job.side, e)
  <2>1. PICK e \in Effect(job) : disk' = [disk EXCEPT ![job.side] = e] /\ Load(job.side, e)
    BY <1>6
  <2>2. Allowed(e)
    BY <1>1, EffectIsAllowed
  <2>3. Tree(e) /\ (job.side = "local" /\ Standing => IsDir(e, panel[job.side].cwd))
    BY <2>2 DEF Allowed
  <2>4. Rereads(job.side, e, panel[job.side].cwd)
    BY <1>2, <2>1, CommanderFacts, LoadRereads DEF Load, Sides
  <2>5. /\ DisksAreTrees' /\ disk'[job.side] = e
        /\ \A t \in Sides \ {job.side} : disk'[t] = disk[t]
    BY <1>2, <2>1, <2>3, CommanderFacts, DiskBecomes
  <2>6. PanelsAreCurrent'
    BY <1>1, <1>2, <2>3, <2>4, <2>5, CommanderFacts, RereadIsCurrent
  <2>7. PanelsAreSound' /\ faults' \in 0..MaxFaults
    BY <1>5, <2>4 DEF Rereads
  <2> QED
    BY <1>3, <1>4, <2>5, <2>6, <2>7 DEF CommanderIInv
<1>7. CASE UNCHANGED <<disk, panel, listed, faults>>
  BY <1>1, <1>3, <1>4, <1>5, <1>7, StillKeeps
<1>8. CASE /\ faults < MaxFaults /\ faults' = faults + 1 /\ UNCHANGED <<panel, listed>>
           /\ \E e \in Damage(job) : disk' = [disk EXCEPT ![job.side] = e]
  <2>1. PICK e \in Damage(job) : disk' = [disk EXCEPT ![job.side] = e]
    BY <1>8
  <2>2. Tree(e)
    BY <1>1, DamageIsAllowed DEF Allowed
  <2>3. DisksAreTrees'
    BY <1>2, <2>1, <2>2, CommanderFacts, DiskBecomes
  <2>4. PanelsAreCurrent' /\ PanelsAreSound'
    BY <1>8, CommanderFacts, UnreadIsCurrent DEF PanelsAreSound
  <2>5. faults' \in 0..MaxFaults
    BY <1>5, <1>8
  <2> QED
    BY <1>3, <1>4, <2>3, <2>4, <2>5 DEF CommanderIInv
<1> QED
  BY <1>6, <1>7, <1>8 DEF Act, Unloaded

-----------------------------------------------------------------------------
(* Editing, and other programs.                                            *)
LEMMA EditLocalKeeps == ASSUME CommanderIInv, edit_local_selected  PROVE CommanderIInv'
<1>1. /\ pc = "keys" /\ ops < MaxOps /\ ops' = ops + 1 /\ FileSelected("local")
      /\ UNCHANGED <<focus, pc, job, running, others, saves, temp, before, leftover, unsaved>>
  BY DEF edit_local_selected, AtKeys, editing
<1>2. PICK e \in Write(disk["local"], SelectedPath("local"), Foreign) :
        disk' = [disk EXCEPT !["local"] = e] /\ Load("local", e)
  BY DEF edit_local_selected
<1>3. SelectedPath("local") \in Seq(Plain) /\ "local" \in Sides
  BY <1>1, CommanderFacts, SelectedIsPlain DEF FileSelected, Sides
<1>4. Tree(e) /\ \A r : IsDir(disk["local"], r) => IsDir(e, r)
  BY <1>2, <1>3, CommanderFacts, ContentsOfCommands, WriteKeepsTree
<1>5. Rereads("local", e, panel["local"].cwd)
  BY <1>2, <1>3, CommanderFacts, LoadRereads DEF Load
<1>6. /\ DisksAreTrees' /\ disk'["local"] = e
      /\ \A t \in Sides \ {"local"} : disk'[t] = disk[t]
  BY <1>2, <1>3, <1>4, CommanderFacts, DiskBecomes
<1>7. PanelsAreCurrent'
  BY <1>1, <1>3, <1>4, <1>5, <1>6, CommanderFacts, RereadIsCurrent DEF Standing
<1>8. PanelsAreSound' /\ faults' \in 0..MaxFaults
  BY <1>5, CommanderFacts, CommanderAssumption DEF Rereads, CopyIsSound
<1>9. JobIsSound' /\ CopyIsSound'
  BY <1>1, <1>8, CommanderFacts, CommanderAssumption DEF JobIsSound, CopyIsSound, WithCopy
<1> QED
  BY <1>6, <1>7, <1>8, <1>9 DEF CommanderIInv

LEMMA FetchKeeps ==
  ASSUME CommanderIInv, NEW next \in {"pager", "fingerprint"}, Fetch(next)
  PROVE  CommanderIInv'
<1>1. /\ pc = "keys" /\ pc' = next /\ ops < MaxOps /\ ops' = ops + 1 /\ FileSelected("remote")
      /\ UNCHANGED <<disk, panel, focus, listed, running, faults, others, saves,
                     before, leftover, unsaved>>
  BY DEF Fetch, AtKeys, screen
<1>2. PICK p : p = SelectedPath("remote")
  OBVIOUS
<1>3. /\ IsFile(disk["remote"], p) /\ temp' = disk["remote"][p]
      /\ job' = [NoJob EXCEPT !.kind = "upload", !.side = "remote", !.target = p]
  BY <1>2 DEF Fetch
<1>4. p \in Seq(Plain) /\ p \in Seq(Names)
  BY <1>1, <1>2, CommanderFacts, SelectedIsPlain, ResolvePlain DEF FileSelected, Sides
<1>5. temp' \in Contents
  BY <1>3, CommanderFacts DEF IsFile, Tree, Sides
<1>6. job' \in Jobs /\ job'.target = p
  <2>1. PICK none : none = <<>>
    OBVIOUS
  <2>2. none \in Seq(Names) /\ {} \in SUBSET Seq(Names)
    BY <2>1
  <2>3. job' = [kind |-> "upload", side |-> "remote", source |-> none, target |-> p,
                is_dir |-> FALSE, plain |-> TRUE, asked |-> FALSE, shown |-> none, seen |-> {}]
    BY <1>3, <2>1 DEF NoJob
  <2> QED
    BY <1>4, <2>2, <2>3 DEF Jobs, Kinds, Sides
<1>7. pc' \in WithCopy /\ pc' \notin {"confirm", "act"}
  BY <1>1 DEF WithCopy
<1>8. JobIsSound'
  BY <1>6, <1>7 DEF JobIsSound
<1>9. CopyIsSound
  BY CommanderFacts
<1>10. ops' \in 0..MaxOps
  BY <1>1, <1>9, CommanderAssumption DEF CopyIsSound
<1>11. CopyIsSound'
  BY <1>1, <1>4, <1>5, <1>6, <1>7, <1>9, <1>10 DEF CopyIsSound
<1> QED
  BY <1>1, <1>8, <1>11, StillKeeps

LEMMA BackKeeps ==
  ASSUME CommanderIInv, BackToKeys, saves' = saves, pc \in WithCopy, faults' \in 0..MaxFaults,
         leftover' \subseteq leftover \cup {temp}, unsaved' \in {unsaved, None}
  PROVE  JobIsSound' /\ CopyIsSound'
<1>1. /\ pc' = "keys" /\ job' = NoJob /\ temp' = None /\ before' = None
      /\ UNCHANGED <<focus, running, ops, others>>
  BY DEF BackToKeys
<1>2. JobIsSound'
  BY <1>1 DEF JobIsSound, NoJob, Jobs, Sides
<1>3. CopyIsSound'
  BY <1>1, CommanderFacts DEF CopyIsSound, WithCopy
<1> QED
  BY <1>2, <1>3

LEMMA LeavingKeeps ==
  ASSUME CommanderIInv, PagerExits \/ FingerprintFails \/ EditorFails
  PROVE  CommanderIInv'
<1>1. /\ BackToKeys /\ pc \in WithCopy /\ saves' = saves /\ unsaved' = unsaved
      /\ leftover' \subseteq leftover \cup {temp}
      /\ UNCHANGED <<disk, panel, listed>>
      /\ faults' = faults \/ (faults < MaxFaults /\ faults' = faults + 1)
  BY DEF PagerExits, FingerprintFails, EditorFails, RemoveTemp, KeepTemp, NothingUploaded, WithCopy
<1>2. faults' \in 0..MaxFaults /\ faults' \in {faults, faults + 1}
  BY <1>1, CommanderFacts, CommanderAssumption DEF CopyIsSound
<1>3. JobIsSound' /\ CopyIsSound'
  BY <1>1, <1>2, BackKeeps
<1>4. others' = others
  BY <1>1 DEF BackToKeys
<1> QED
  BY <1>1, <1>2, <1>3, <1>4, StillKeeps

LEMMA EditingKeeps ==
  ASSUME CommanderIInv, Fingerprint \/ EditorSaves \/ EditorExits
  PROVE  CommanderIInv'
<1>1. /\ pc \in WithCopy /\ pc' \in WithCopy
      /\ UNCHANGED <<disk, panel, listed, focus, job, running, ops, faults, others, leftover>>
  BY DEF Fingerprint, EditorSaves, EditorExits, screen, counters, editing, WithCopy
<1>2. saves \in 0..MaxSaves /\ temp \in Contents /\ 1..MaxSaves \subseteq Contents
      /\ MaxSaves \in Nat
  BY <1>1, CommanderFacts, CommanderAssumption DEF CopyIsSound, Contents
<1>3. \/ saves' = saves /\ temp' = temp /\ unsaved' = unsaved
      \/ saves < MaxSaves /\ saves' = saves + 1 /\ temp' = saves' /\ unsaved' = saves'
  BY DEF Fingerprint, EditorSaves, EditorExits, CanSave, Draft, counters, editing
<1>4. before' = before \/ before' = temp
  BY DEF Fingerprint, EditorSaves, EditorExits, editing
<1>5. /\ saves' \in 0..MaxSaves /\ temp' \in Contents
      /\ unsaved' = unsaved \/ unsaved' \in 1..MaxSaves
  <2>1. CASE saves < MaxSaves /\ saves' = saves + 1 /\ temp' = saves' /\ unsaved' = saves'
    <3>1. saves' \in 1..MaxSaves /\ saves' \in 0..MaxSaves
      BY <1>2, <2>1
    <3> QED
      BY <1>2, <2>1, <3>1
  <2> QED
    BY <1>2, <1>3, <2>1
<1>6. JobIsSound'
  BY <1>1, CommanderFacts DEF JobIsSound, WithCopy
<1>7. CopyIsSound'
  BY <1>1, <1>4, <1>5, CommanderFacts DEF CopyIsSound
<1> QED
  BY <1>1, <1>6, <1>7, StillKeeps

LEMMA CompareKeeps == ASSUME CommanderIInv, Compare \/ UploadDeclined  PROVE CommanderIInv'
<1>1. CASE Compare /\ temp # before /\ pc' = "ask"
  <2>1. /\ UNCHANGED <<disk, panel, listed, focus, job, running, ops, faults, others, saves,
                       temp, before, leftover, unsaved>>
        /\ pc \in WithCopy /\ pc' \in WithCopy
    BY <1>1 DEF Compare, screen, counters, editing, BackToKeys, WithCopy
  <2>2. JobIsSound' /\ CopyIsSound'
    BY <2>1, CommanderFacts DEF JobIsSound, CopyIsSound, WithCopy
  <2> QED
    BY <2>1, <2>2, StillKeeps
<1>2. CASE /\ BackToKeys /\ Load("remote", disk["remote"]) /\ pc \in WithCopy
           /\ leftover' \subseteq leftover \cup {temp} /\ UNCHANGED <<disk, saves, unsaved>>
  <2>1. Rereads("remote", disk["remote"], panel["remote"].cwd)
    BY <1>2, CommanderFacts, LoadRereads DEF Load, Sides
  <2>2. PanelsAreSound' /\ faults' \in 0..MaxFaults
    BY <2>1, CommanderFacts, CommanderAssumption DEF Rereads, CopyIsSound
  <2>3. JobIsSound' /\ CopyIsSound'
    BY <1>2, <2>2, BackKeeps
  <2>4. PanelsAreCurrent'
    BY <1>2, <2>1, CommanderFacts, RereadIsCurrent DEF BackToKeys, Sides
  <2>5. DisksAreTrees'
    BY <1>2, CommanderFacts DEF DisksAreTrees
  <2> QED
    BY <2>2, <2>3, <2>4, <2>5 DEF CommanderIInv
<1> QED
  BY <1>1, <1>2 DEF Compare, UploadDeclined, RemoveTemp, KeepTemp, WithCopy

LEMMA UploadKeeps == ASSUME CommanderIInv, UploadEdited  PROVE CommanderIInv'
<1> DEFINE d == disk["remote"]
<1>1. BackToKeys /\ saves' = saves /\ pc \in WithCopy /\ others' = others
  BY DEF UploadEdited, BackToKeys, WithCopy
<1>2. Tree(d) /\ job.target \in Seq(Plain) /\ temp \in Contents /\ "remote" \in Sides
  BY <1>1, CommanderFacts DEF CopyIsSound, Sides
<1>3. leftover' \subseteq leftover \cup {temp} /\ unsaved' \in {unsaved, None}
  BY DEF UploadEdited, RemoveTemp, KeepTemp
<1>4. ASSUME faults' \in 0..MaxFaults  PROVE JobIsSound' /\ CopyIsSound'
  BY <1>1, <1>3, <1>4, BackKeeps
<1>5. faults \in 0..MaxFaults /\ MaxFaults \in Nat
  BY CommanderFacts, CommanderAssumption DEF CopyIsSound
<1>6. CASE \E e \in Write(d, job.target, temp) :
             disk' = [disk EXCEPT !["remote"] = e] /\ Load("remote", e)
  <2>1. PICK e \in Write(d, job.target, temp) :
          disk' = [disk EXCEPT !["remote"] = e] /\ Load("remote", e)
    BY <1>6
  <2>2. Tree(e)
    BY <1>2, <2>1, WriteKeepsTree
  <2>3. Rereads("remote", e, panel["remote"].cwd)
    BY <1>2, <2>1, CommanderFacts, LoadRereads DEF Load
  <2>4. /\ DisksAreTrees' /\ disk'["remote"] = e
        /\ \A t \in Sides \ {"remote"} : disk'[t] = disk[t]
    BY <1>2, <2>1, <2>2, CommanderFacts, DiskBecomes
  <2>5. PanelsAreCurrent'
    BY <1>1, <1>2, <2>3, <2>4, CommanderFacts, RereadIsCurrent
  <2>6. PanelsAreSound' /\ faults' \in 0..MaxFaults
    BY <1>5, <2>3 DEF Rereads
  <2> QED
    BY <1>4, <2>4, <2>5, <2>6 DEF CommanderIInv
<1>7. CASE UNCHANGED <<disk, panel, listed, faults>>
  BY <1>1, <1>4, <1>5, <1>7, StillKeeps
<1>8. CASE /\ faults < MaxFaults /\ faults' = faults + 1 /\ UNCHANGED <<panel, listed>>
           /\ \E e \in {d} \cup Write(d, job.target, temp) \cup Write(d, job.target, Part) :
                disk' = [disk EXCEPT !["remote"] = e]
  <2>1. PICK e \in {d} \cup Write(d, job.target, temp) \cup Write(d, job.target, Part) :
          disk' = [disk EXCEPT !["remote"] = e]
    BY <1>8
  <2>2. Tree(e)
    BY <1>2, <2>1, ContentsOfCommands, WriteKeepsTree
  <2>3. DisksAreTrees'
    BY <1>2, <2>1, <2>2, CommanderFacts, DiskBecomes
  <2>4. PanelsAreCurrent' /\ PanelsAreSound'
    BY <1>8, CommanderFacts, UnreadIsCurrent DEF PanelsAreSound
  <2>5. faults' \in 0..MaxFaults
    BY <1>5, <1>8
  <2> QED
    BY <1>4, <2>3, <2>4, <2>5 DEF CommanderIInv
<1> QED
  BY <1>6, <1>7, <1>8 DEF UploadEdited, NothingUploaded

LEMMA OthersKeep == ASSUME CommanderIInv, Others  PROVE CommanderIInv'
<1>1. /\ others < MaxOthers /\ others' = others + 1
      /\ UNCHANGED <<panel, focus, listed, pc, job, running, ops, faults, saves,
                     temp, before, leftover, unsaved>>
  BY DEF Others, screen, editing
<1>2. PICK s \in Sides, p \in UNION {DOMAIN InitDisk[t] : t \in Sides} :
        \E e : /\ \/ e \in Write(disk[s], p, Foreign)
                  \/ PathsIn(disk[s], p) = {} /\ e = Unlink(disk[s], p)
               /\ disk' = [disk EXCEPT ![s] = e]
  BY DEF Others
<1>3. PICK e : /\ \/ e \in Write(disk[s], p, Foreign)
                  \/ PathsIn(disk[s], p) = {} /\ e = Unlink(disk[s], p)
               /\ disk' = [disk EXCEPT ![s] = e]
  BY <1>2
<1>4. p \in Seq(Plain)
  BY CommanderAssumption DEF Plain
<1>5. Tree(e)
  BY <1>3, <1>4, CommanderFacts, ContentsOfCommands, WriteKeepsTree, UnlinkKeepsTree
<1>6. DisksAreTrees'
  BY <1>3, <1>5, CommanderFacts, DiskBecomes
<1>7. PanelsAreSound' /\ JobIsSound'
  BY <1>1, CommanderFacts DEF PanelsAreSound, JobIsSound, RemovesShown, ReplacesAsked
<1>8. PanelsAreCurrent'
  BY <1>1, CommanderFacts, UnreadIsCurrent
<1>9. CopyIsSound'
  BY <1>1, CommanderFacts, CommanderAssumption DEF CopyIsSound, WithCopy
<1> QED
  BY <1>6, <1>7, <1>8, <1>9 DEF CommanderIInv

-----------------------------------------------------------------------------
(* The start, and every step.                                              *)
LEMMA InitialDisks == Init => DisksAreTrees
<1> SUFFICES ASSUME Init  PROVE DisksAreTrees
  OBVIOUS
<1>1. disk = InitDisk /\ DOMAIN InitDisk = Sides
  BY CommanderAssumption DEF Init
<1>2. ASSUME NEW s \in Sides, NEW p \in DOMAIN InitDisk[s]
      PROVE  /\ InitDisk[s][p] \in Contents /\ p \in Seq(Plain) /\ p # <<>>
             /\ IsDir(InitDisk[s], Parent(p))
  <2>1. p \in Seq(Plain) /\ p # <<>> /\ IsDir(InitDisk[s], Front(p))
    BY <1>2, CommanderAssumption DEF Plain
  <2>2. InitDisk[s][p] \in Contents
    BY <1>2 DEF Contents
  <2> QED
    BY <2>1, <2>2 DEF Parent
<1> QED
  BY <1>1, <1>2 DEF DisksAreTrees, Tree

LEMMA InitialPanels == Init => PanelsAreSound /\ PanelsAreCurrent
<1> SUFFICES ASSUME Init  PROVE PanelsAreSound /\ PanelsAreCurrent
  OBVIOUS
<1>1. <<>> \in Seq(Plain)
  OBVIOUS
<1>2. /\ DOMAIN panel = Sides /\ DOMAIN listed = Sides
      /\ \A s \in Sides : listed[s] = <<>>
  BY DEF Init
<1>3. /\ disk = InitDisk /\ panel["local"] = Fresh("local", InitDisk["local"], <<>>)
      /\ \/ faults = 1 /\ panel["remote"] = [cwd |-> <<>>, entries |-> <<>>,
                                             selected |-> 1, loaded |-> FALSE]
         \/ faults # 1 /\ panel["remote"] = Fresh("remote", InitDisk["remote"], <<>>)
  BY DEF Init, Sides
<1>4. [cwd |-> <<>>, entries |-> <<>>, selected |-> 1, loaded |-> FALSE] \in PanelOf("remote")
  <2>1. PICK none : none = <<>>
    OBVIOUS
  <2>2. none \in Seq(Plain) /\ none \in Seq(EntriesOf("remote"))
    BY <2>1
  <2>3. [cwd |-> none, entries |-> none, selected |-> 1, loaded |-> FALSE] \in PanelOf("remote")
    BY <2>2 DEF PanelOf
  <2> QED
    BY <2>1, <2>3
<1>5. ASSUME NEW s \in Sides, panel[s] = Fresh(s, InitDisk[s], <<>>)
      PROVE  /\ panel[s] \in PanelOf(s)
             /\ panel[s].entries # <<>> => panel[s].selected \in DOMAIN panel[s].entries
             /\ panel[s].cwd = <<>> /\ panel[s].entries = Listing(s, InitDisk[s], <<>>)
  <2>1. PICK root : root = <<>>
    OBVIOUS
  <2>2. root \in Seq(Plain) /\ panel[s] = Fresh(s, InitDisk[s], root)
    BY <1>1, <1>5, <2>1
  <2>3. /\ panel[s] \in PanelOf(s)
        /\ panel[s].entries # <<>> => panel[s].selected \in DOMAIN panel[s].entries
        /\ panel[s].cwd = root /\ panel[s].entries = Listing(s, InitDisk[s], root)
    BY <2>2, FreshIsSound
  <2> QED
    BY <2>1, <2>3
<1>6. PanelsAreSound
  <2>1. "local" \in Sides /\ "remote" \in Sides /\ \A s \in Sides : s = "local" \/ s = "remote"
    BY DEF Sides
  <2>2. \A s \in Sides : /\ panel[s] \in PanelOf(s)
                         /\ panel[s].entries # <<>> =>
                              panel[s].selected \in DOMAIN panel[s].entries
                         /\ panel[s].loaded => panel[s].cwd = <<>>
    <3>1. CASE panel["remote"] = Fresh("remote", InitDisk["remote"], <<>>)
      BY <1>3, <1>5, <2>1, <3>1
    <3>2. CASE panel["remote"] = [cwd |-> <<>>, entries |-> <<>>, selected |-> 1, loaded |-> FALSE]
      <4>1. /\ panel["remote"] \in PanelOf("remote")
            /\ panel["remote"].entries = <<>> /\ panel["remote"].cwd = <<>>
        BY <1>4, <3>2
      <4> QED
        BY <1>3, <1>5, <2>1, <4>1
    <3> QED
      BY <1>3, <3>1, <3>2
  <2> QED
    BY <1>1, <1>2, <2>2 DEF PanelsAreSound
<1>7. PanelsAreCurrent
  BY <1>3, <1>5 DEF PanelsAreCurrent, Standing, Sides, IsDir
<1> QED
  BY <1>6, <1>7

LEMMA InitCommander == Init => CommanderIInv
<1> SUFFICES ASSUME Init  PROVE CommanderIInv
  OBVIOUS
<1>1. pc = "keys" /\ job = NoJob /\ faults \in 0..MaxFaults
  BY DEF Init
<1>2. JobIsSound
  BY <1>1 DEF JobIsSound, NoJob, Jobs, Sides
<1>3. CopyIsSound
  BY <1>1, CommanderAssumption DEF Init, CopyIsSound, WithCopy, Sides
<1> QED
  BY <1>2, <1>3, InitialDisks, InitialPanels DEF CommanderIInv

LEMMA NextCommander == CommanderIInv /\ [Next]_vars => CommanderIInv'
<1> SUFFICES ASSUME CommanderIInv, [Next]_vars  PROVE CommanderIInv'
  OBVIOUS
<1>1. CASE Tab \/ Quit
  BY <1>1, TabKeeps
<1>2. CASE Up \/ Down
  BY <1>2, MoveKeeps DEF Up, Down
<1>3. CASE local_panel_enter \/ remote_panel_enter \/ Refresh
  BY <1>3, PanelKeysKeep
<1>4. CASE \/ upload_selected \/ download_prompted \/ copy_selected \/ rename_move_selected
           \/ mkdir_selected \/ delete_selected
  BY <1>4, CommandsKeep
<1>5. CASE edit_local_selected
  BY <1>5, EditLocalKeeps
<1>6. CASE view_remote_selected \/ edit_remote_selected
  BY <1>6, FetchKeeps DEF view_remote_selected, edit_remote_selected
<1>7. CASE Answer \/ Act
  BY <1>7, AnswerKeeps, ActKeeps
<1>8. CASE PagerExits \/ FingerprintFails \/ EditorFails
  BY <1>8, LeavingKeeps
<1>9. CASE Fingerprint \/ EditorSaves \/ EditorExits
  BY <1>9, EditingKeeps
<1>10. CASE Compare \/ UploadDeclined
  BY <1>10, CompareKeeps
<1>11. CASE UploadEdited
  BY <1>11, UploadKeeps
<1>12. CASE Others
  BY <1>12, OthersKeep
<1>13. CASE UNCHANGED vars
  <2>1. UNCHANGED <<disk, panel, focus, pc, job, temp, before, leftover, running,
                    ops, faults, others, saves, unsaved, listed>>
    BY <1>13 DEF vars, counters
  <2>2. JobIsSound' /\ CopyIsSound'
    BY <2>1, CommanderFacts DEF JobIsSound, RemovesShown, ReplacesAsked, CopyIsSound
  <2> QED
    BY <2>1, <2>2, StillKeeps
<1> QED
  BY <1>1, <1>2, <1>3, <1>4, <1>5, <1>6, <1>7, <1>8, <1>9, <1>10, <1>11, <1>12, <1>13
  DEF Next, process_commander_key, GoesOn

(* When a command acts, one disk becomes what the command may leave.       *)
LEMMA ActIsAllowed ==
  ASSUME CommanderIInv, [Next]_vars, CommanderStep, NEW s \in Sides
  PROVE  disk'[s] = disk[s] \/ (s = job.side /\ Allowed(disk'[s]))
<1>1. pc = "act" /\ others' = others /\ others \in Nat
  BY CommanderFacts DEF CommanderStep
<1>2. CASE Act
  <2>1. disk' = disk \/ \E e : Allowed(e) /\ disk' = [disk EXCEPT ![job.side] = e]
    BY <1>1, <1>2, EffectIsAllowed, DamageIsAllowed DEF Act
  <2> QED
    BY <2>1, CommanderFacts DEF DisksAreTrees
<1>3. ~Others
  BY <1>1 DEF Others
<1>4. ~process_commander_key
  BY <1>1 DEF process_commander_key, Tab, Up, Down, Move, local_panel_enter, remote_panel_enter,
              EntersDirectory, Refresh, Quit, upload_selected, download_prompted, copy_selected,
              rename_move_selected, mkdir_selected, delete_selected, Command,
              edit_local_selected, view_remote_selected, edit_remote_selected, Fetch, AtKeys
<1>5. GoesOn => Act
  BY <1>1 DEF GoesOn, Answer, PagerExits, Fingerprint, FingerprintFails, EditorSaves,
              EditorExits, EditorFails, Compare, UploadDeclined, UploadEdited
<1>6. CASE UNCHANGED vars
  BY <1>6 DEF vars
<1> QED
  BY <1>2, <1>3, <1>4, <1>5, <1>6 DEF Next

-----------------------------------------------------------------------------
(* The types; every file lies in a directory there is, and the cursor of a *)
(* panel is on an entry of it: a listing may become shorter, and the       *)
(* directory it is about may vanish, under the cursor.                     *)
THEOREM TypeCorrect == Spec => []TypeOK
<1>1. ASSUME CommanderIInv  PROVE TypeOK
  <2>1. \A s \in Sides : /\ panel[s].cwd \in Seq(Names) /\ panel[s].loaded \in BOOLEAN
                         /\ panel[s].entries # <<>> =>
                              panel[s].selected \in DOMAIN panel[s].entries
    BY <1>1, CommanderFacts, ResolvePlain DEF PanelsAreSound, PanelOf
  <2>2. \A s \in Sides : \A p \in DOMAIN disk[s] :
          disk[s][p] \in Contents /\ p # <<>> /\ IsDir(disk[s], Parent(p))
    BY <1>1, CommanderFacts DEF Tree
  <2> QED
    BY <1>1, <2>1, <2>2, CommanderFacts DEF TypeOK, CopyIsSound, WithCopy
<1> QED
  BY <1>1, InitCommander, NextCommander, PTL DEF Spec

(* While nothing has failed and nobody else has written, each panel shows  *)
(* just what is in its directory, whatever commands were given on either   *)
(* side: a command leaves the directory of the local panel in place, so    *)
(* that it can be read again.                                              *)
THEOREM ListingStaysCurrent == Spec => []ListingIsCurrent
<1>1. CommanderIInv => ListingIsCurrent
  BY CommanderFacts DEF PanelsAreCurrent, ListingIsCurrent
<1> QED
  BY <1>1, InitCommander, NextCommander, PTL DEF Spec

(* A command makes vanish only what was renamed, or the one entry whose    *)
(* deletion was confirmed as it was shown, whatever failed before.         *)
THEOREM OnlyShownVanishes == Spec => OnlyWhatWasShownVanishes
<1> DEFINE Vanishes ==
      \A s \in Sides : \A p \in DOMAIN disk[s] \ DOMAIN disk'[s] :
        CommanderStep => \/ job.kind = "rename" /\ IsPrefix(job.shown, p)
                         \/ job.kind = "delete" /\ job.asked /\ p = job.shown
<1>1. CommanderIInv /\ [Next]_vars => Vanishes
  <2> SUFFICES ASSUME CommanderIInv, [Next]_vars, CommanderStep,
                      NEW s \in Sides, NEW p \in DOMAIN disk[s] \ DOMAIN disk'[s]
               PROVE  \/ job.kind = "rename" /\ IsPrefix(job.shown, p)
                      \/ job.kind = "delete" /\ job.asked /\ p = job.shown
    BY Zenon DEF Vanishes
  <2>1. s = job.side /\ Allowed(disk'[s])
    BY ActIsAllowed
  <2> QED
    BY <2>1 DEF Allowed
<1>2. CommanderIInv /\ [Next]_vars => [Vanishes]_vars
  BY <1>1
<1> QED
  BY <1>2, InitCommander, NextCommander, PTL DEF Spec, OnlyWhatWasShownVanishes

(* A copy or a rename to a plain name replaces a file that the commander   *)
(* could see only after the user has answered "Overwrite?" with yes.       *)
THEOREM NothingSeenReplaced == Spec => NothingSeenIsReplacedUnasked
<1> DEFINE Replaces ==
      \A s \in Sides : \A p \in DOMAIN disk[s] \cap DOMAIN disk'[s] :
        CommanderStep /\ job.kind \in {"copy", "rename"} /\ disk[s][p] # disk'[s][p]
          => job.asked \/ p \notin job.seen \/ ~job.plain
<1>1. CommanderIInv /\ [Next]_vars => Replaces
  <2> SUFFICES ASSUME CommanderIInv, [Next]_vars, CommanderStep,
                      NEW s \in Sides, NEW p \in DOMAIN disk[s] \cap DOMAIN disk'[s],
                      job.kind \in {"copy", "rename"}, disk[s][p] # disk'[s][p]
               PROVE  job.asked \/ p \notin job.seen \/ ~job.plain
    BY Zenon DEF Replaces
  <2>1. s = job.side /\ Allowed(disk'[s])
    BY ActIsAllowed
  <2>2. p = Resolve(job.target)
    BY <2>1 DEF Allowed
  <2> QED
    BY <2>2, CommanderFacts DEF JobIsSound, ReplacesAsked, CommanderStep
<1>2. CommanderIInv /\ [Next]_vars => [Replaces]_vars
  BY <1>1
<1> QED
  BY <1>2, InitCommander, NextCommander, PTL DEF Spec, NothingSeenIsReplacedUnasked
=============================================================================
