------------------------------ MODULE Resident ------------------------------
(***************************************************************************)
(* The life of the server as a resident program: server/main.c,            *)
(* server/resident.c, and pktdrv_init and pktdrv_done of server/pktdrv.c.  *)
(*                                                                         *)
(* The program hooks three interrupt vectors and gives the packet driver   *)
(* a receiver, then leaves main without leaving memory.  Run again with    *)
(* -u, it asks its resident instance through INT 2Fh to take itself away.  *)
(* Other programs hook the same vectors before it and after it.            *)
(*                                                                         *)
(* A timer tick, or a frame, may come between any two steps: interrupts    *)
(* are enabled in main, and in int2f_handler too, whose stub loads the     *)
(* flags from ax.  So the invariants must hold after every single store.   *)
(***************************************************************************)
EXTENDS Naturals, Sequences, FiniteSets

CONSTANTS
  MaxRuns,   (* bound: how often the user runs the program                  *)
  Others,    (* other resident programs                                     *)
  Hooks,     (* for each of them, the vectors it hooks                      *)
  MayFail,   (* the calls that may fail                                     *)
  Bios,      (* stands for the handlers that were there at power-on         *)
  None       (* no handler, no receiver                                     *)

Instances == 1..MaxRuns      \* a run of the program, and what it leaves

(* The order in which they are hooked, checked and restored. *)
Hooked  == <<"int08", "int28", "int2f">>
Vectors == {Hooked[k] : k \in DOMAIN Hooked}

Calls == {"probe", "access_type", "driver_info", "get_address", "release_type", "tsr"}

ASSUME ResidentAssumption ==
  /\ MaxRuns \in Nat
  /\ Hooks \in [Others -> SUBSET Vectors]
  /\ MayFail \subseteq Calls
  /\ IsFiniteSet(Others) /\ Others \cap Instances = {}
  /\ Bios # None /\ {Bios, None} \cap (Others \cup Instances) = {}

Programs == Instances \cup Others

VARIABLES
  vector,      \* the interrupt vector table
  original,    \* int08_original_handler and the like, of each program
  receiver,    \* whom the packet driver calls up
  g_pktdrv_handle,   \* of each instance: TRUE when it has one
  memory,      \* the instances and other programs that hold their memory
  environment, \* the instances whose environment block is allocated
  buffers,     \* the instances that have run buffer_init
  pc, k,       \* where main stands, and at which vector
  me, resident, \* the instance that runs main, the one it installs or removes
  unload,      \* main's local
  runs,
  failed       \* history: the calls that have failed so far

driver == <<receiver, g_pktdrv_handle>>
blocks == <<memory, environment>>
main   == <<pc, k, me, resident, unload, runs>>
vars == <<vector, original, driver, blocks, buffers, main, failed>>

Init ==
  /\ vector = [v \in Vectors |-> Bios]
  /\ original = [p \in Programs |-> [v \in Vectors |-> None]]
  /\ receiver = None
  /\ g_pktdrv_handle = [i \in Instances |-> FALSE]
  /\ memory = {} /\ environment = {} /\ buffers = {} /\ failed = {}
  /\ pc = "prompt" /\ k = 1 /\ me = 0 /\ resident = 0 /\ unload = FALSE /\ runs = 0

-----------------------------------------------------------------------------
(* An interrupt goes from handler to handler: each chains to the one it    *)
(* found when it hooked the vector.                                        *)
Before(p, v) == IF p \in {Bios, None} THEN p ELSE original[p][v]

Depth == 0..(Cardinality(Programs) + 1)

Chain(v) == LET at[n \in Depth] == IF n = 0 THEN vector[v] ELSE Before(at[n - 1], v)
            IN  at

Reaches(v, p) == \E n \in Depth : Chain(v)[n] = p

(* MULTIPLEX_CMD_INSTALL_CHECK: the instance whose int2f_isr answers.      *)
Answering == {i \in Instances : Reaches("int2f", i)}

\* Mutant: int 28h is not looked at.
Bug_NotAll(i) == vector["int08"] = i /\ vector["int2f"] = i

(* resident_uninstall_check returns 0: nobody has hooked a vector since.   *)
resident_uninstall_check(i) == \A v \in Vectors : vector[v] = i

-----------------------------------------------------------------------------
(* The other programs, which are polite: they go only if nobody has hooked *)
(* one of their vectors since.  DOS runs one program at a time.            *)
Load(o) ==
  /\ pc = "prompt" /\ o \notin memory
  /\ memory' = memory \cup {o}
  /\ original' = [original EXCEPT ![o] = [v \in Vectors |-> IF v \in Hooks[o] THEN vector[v] ELSE @[v]]]
  /\ vector' = [v \in Vectors |-> IF v \in Hooks[o] THEN o ELSE vector[v]]
  /\ UNCHANGED <<driver, environment, buffers, main, failed>>

Unload(o) ==
  /\ pc = "prompt" /\ o \in memory
  /\ \A v \in Hooks[o] : vector[v] = o
  /\ memory' = memory \ {o}
  /\ vector' = [v \in Vectors |-> IF v \in Hooks[o] THEN original[o][v] ELSE vector[v]]
  /\ original' = [original EXCEPT ![o] = [v \in Vectors |-> None]]
  /\ UNCHANGED <<driver, environment, buffers, main, failed>>

-----------------------------------------------------------------------------
(* main, until it knows whether it is installed.                           *)

Goto(from, to) == pc = from /\ pc' = to

Same == UNCHANGED <<me, resident, unload, runs>>

(* The user runs the program; DOS gives it memory and an environment. *)
Run ==
  /\ Goto("prompt", "install_check")
  /\ runs < MaxRuns
  /\ runs' = runs + 1 /\ me' = runs' /\ resident' = runs'
  /\ unload' \in BOOLEAN
  /\ memory' = memory \cup {me'}
  /\ environment' = environment \cup {me'}
  /\ UNCHANGED <<vector, original, driver, buffers, k, failed>>

\* Mutant: main asks whether it is installed before it looks at -u.
Bug_InstalledFirst ==
  /\ pc = "install_check"
  /\ pc' = IF Answering # {} \/ unload THEN "exit" ELSE "init"
  /\ UNCHANGED <<vector, original, driver, blocks, buffers, k, me, resident, unload, runs, failed>>

install_check ==
  /\ pc = "install_check"
  /\ IF Answering = {}
     THEN pc' = (IF unload THEN "exit" ELSE "init") /\ UNCHANGED resident
     ELSE \E i \in Answering :
            IF unload /\ resident_uninstall_check(i)
            THEN pc' = "uninstall" /\ resident' = i
            ELSE pc' = "exit" /\ UNCHANGED resident
  /\ UNCHANGED <<vector, original, driver, blocks, buffers, k, me, unload, runs, failed>>

(* DOS ends the program and frees its memory and environment.              *)
Exit ==
  /\ Goto("exit", "prompt")
  /\ memory' = memory \ {me}
  /\ environment' = environment \ {me}
  /\ UNCHANGED <<vector, original, driver, buffers, k, failed>> /\ Same

-----------------------------------------------------------------------------
(* Going resident.                                                         *)

(* buffer_init, protocol_init and session_mgr_init. *)
initialise ==
  /\ Goto("init", "access_type")
  /\ buffers' = buffers \cup {me}
  /\ UNCHANGED <<vector, original, driver, blocks, k, failed>> /\ Same

(* A call fails, and main or resident_do_uninstall goes on at the label.   *)
Fail(call, to) ==
  /\ call \in MayFail
  /\ failed' = failed \cup {call}
  /\ pc' = to

(* pktdrv_init: a driver is found and takes our receiver, unless somebody  *)
(* receives frames of our ethertype already.                               *)
access_type ==
  /\ pc = "access_type"
  /\ \/ /\ receiver = None
        /\ receiver' = me
        /\ g_pktdrv_handle' = [g_pktdrv_handle EXCEPT ![me] = TRUE]
        /\ pc' = "driver_info" /\ UNCHANGED failed
     \/ receiver # None /\ pc' = "exit" /\ UNCHANGED <<driver, failed>>
     \/ (Fail("probe", "exit") \/ Fail("access_type", "exit")) /\ UNCHANGED driver
  /\ UNCHANGED <<vector, original, blocks, buffers, k>> /\ Same

(* When one of these two calls fails pktdrv_init and main return. *)
driver_info ==
  /\ \/ Goto("driver_info", "get_address") /\ UNCHANGED failed
     \/ Goto("get_address", "save") /\ UNCHANGED failed
     \/ pc \in {"driver_info", "get_address"} /\ Fail(pc, "exit")
  /\ k' = 1
  /\ UNCHANGED <<vector, original, driver, blocks, buffers>> /\ Same

\* Mutant: the vector is set first, and what it was is read from it.
Bug_SavedLate ==
  \/ /\ Goto("save", "set")
     /\ vector' = [vector EXCEPT ![Hooked[k]] = me]
     /\ UNCHANGED <<original, k, driver, blocks, buffers, failed>> /\ Same
  \/ /\ pc = "set"
     /\ original' = [original EXCEPT ![me][Hooked[k]] = vector[Hooked[k]]]
     /\ IF k < Len(Hooked) THEN pc' = "save" /\ k' = k + 1 ELSE pc' = "tsr" /\ k' = 1
     /\ UNCHANGED <<vector, driver, blocks, buffers, failed>> /\ Same

install_interrupt_handlers ==
  \/ /\ Goto("save", "set")
     /\ original' = [original EXCEPT ![me][Hooked[k]] = vector[Hooked[k]]]
     /\ UNCHANGED <<vector, k, driver, blocks, buffers, failed>> /\ Same
  \/ /\ pc = "set"
     /\ vector' = [vector EXCEPT ![Hooked[k]] = me]
     /\ IF k < Len(Hooked) THEN pc' = "save" /\ k' = k + 1 ELSE pc' = "tsr" /\ k' = 1
     /\ UNCHANGED <<original, driver, blocks, buffers, failed>> /\ Same

\* Mutant: the environment is not freed.
Bug_EnvironmentKept ==
  /\ \/ Goto("tsr", "prompt") /\ UNCHANGED failed
     \/ pc = "tsr" /\ Fail("tsr", "restore")
  /\ UNCHANGED <<vector, original, driver, blocks, buffers, k>> /\ Same

(* The environment is freed; then INT 21h AH=31h returns only if it fails. *)
go_resident ==
  /\ \/ Goto("tsr", "prompt") /\ UNCHANGED failed
     \/ pc = "tsr" /\ Fail("tsr", "restore")
  /\ environment' = environment \ {me}
  /\ UNCHANGED <<vector, original, driver, memory, buffers, k>> /\ Same

-----------------------------------------------------------------------------
(* MULTIPLEX_CMD_UNINSTALL: resident_do_uninstall.                         *)
resident_do_uninstall ==
  /\ pc = "uninstall"
  /\ pc' = IF resident_uninstall_check(resident) THEN "restore" ELSE "exit"
  /\ UNCHANGED <<vector, original, driver, blocks, buffers, k, failed>> /\ Same

(* Also when main could not go resident. *)
restore_interrupt_handlers ==
  /\ pc = "restore"
  /\ vector' = [vector EXCEPT ![Hooked[k]] = original[resident][Hooked[k]]]
  /\ IF k < Len(Hooked) THEN k' = k + 1 /\ UNCHANGED pc ELSE k' = 1 /\ pc' = "done"
  /\ UNCHANGED <<original, driver, blocks, buffers, failed>> /\ Same

AfterDone == IF resident = me THEN "exit" ELSE "free"

\* Mutant: the receiver is forgotten by the program, not by the driver.
Bug_NotReleased ==
  /\ Goto("done", AfterDone)
  /\ g_pktdrv_handle' = [g_pktdrv_handle EXCEPT ![resident] = FALSE]
  /\ UNCHANGED <<receiver, vector, original, blocks, buffers, k, failed>> /\ Same

\* Mutant: g_pktdrv_handle is not reset.
Bug_HandleKept ==
  /\ Goto("done", AfterDone)
  /\ receiver' = None
  /\ UNCHANGED <<g_pktdrv_handle, vector, original, blocks, buffers, k, failed>> /\ Same

(* pktdrv_done; nobody looks at its result.  Whoever comes here has a      *)
(* handle.                                                                 *)
pktdrv_done ==
  /\ \/ /\ Goto("done", AfterDone) /\ g_pktdrv_handle[resident]
        /\ receiver' = None
        /\ g_pktdrv_handle' = [g_pktdrv_handle EXCEPT ![resident] = FALSE]
        /\ UNCHANGED failed
     \/ pc = "done" /\ Fail("release_type", AfterDone) /\ UNCHANGED driver
  /\ UNCHANGED <<vector, original, blocks, buffers, k>> /\ Same

(* INT 21h AH=49h on the resident's own block.                             *)
free_memory ==
  /\ Goto("free", "exit")
  /\ memory' = memory \ {resident}
  /\ UNCHANGED <<vector, original, driver, environment, buffers, k, failed>> /\ Same

-----------------------------------------------------------------------------
Main == \/ install_check \/ initialise \/ access_type \/ driver_info
        \/ install_interrupt_handlers \/ go_resident
        \/ resident_do_uninstall \/ restore_interrupt_handlers \/ pktdrv_done
        \/ free_memory \/ Exit

Next == Run \/ Main \/ \E o \in Others : Load(o) \/ Unload(o)

Spec == Init /\ [][Next]_vars

(* A program that runs goes on: none of main's calls waits for anything.   *)
Fairness == WF_vars(Main)

FairSpec == Spec /\ Fairness

-----------------------------------------------------------------------------
(* Properties.                                                             *)

TypeOK ==
  /\ vector \in [Vectors -> Programs \cup {Bios, None}]
  /\ original \in [Programs -> [Vectors -> Programs \cup {Bios, None}]]
  /\ receiver \in Instances \cup {None}
  /\ g_pktdrv_handle \in [Instances -> BOOLEAN]
  /\ \A i \in Instances : g_pktdrv_handle[i] => receiver = i
  /\ memory \subseteq Programs
  /\ environment \subseteq Instances /\ buffers \subseteq Instances
  /\ k \in DOMAIN Hooked /\ runs \in 0..MaxRuns /\ me \in 0..runs /\ resident \in 0..me
  /\ unload \in BOOLEAN /\ failed \subseteq MayFail
  /\ pc # "prompt" => me \in memory

(* Whenever an interrupt comes it runs code that is still in memory, from  *)
(* the vector down every chain to the BIOS, which acknowledges the timer:  *)
(* between any two stores of install_interrupt_handlers and                *)
(* resident_do_uninstall too, and whatever calls fail.                     *)
ChainsAreWhole ==
  \A v \in Vectors :
    /\ \A n \in Depth : Chain(v)[n] \in memory \cup {Bios}
    /\ Reaches(v, Bios)

(* "... and tell the packet driver to not call into us either" (main.c):   *)
(* the driver never calls up into memory that has been freed, nor before   *)
(* buffer_init has built the pool ("our ISR could be invoked at any        *)
(* moment", pktdrv.c).                                                     *)
ReceiverIsThere == receiver # None => receiver \in memory \cap buffers

(* It holds until one of these three calls has failed: pktdrv_init returns *)
(* its error with the receiver in place, and resident_do_uninstall frees   *)
(* its memory although the driver has not let it go.                       *)
Leaks == {"driver_info", "get_address", "release_type"}

ReceiverIsThereUnlessLeaked == failed \cap Leaks = {} => ReceiverIsThere

(* At the DOS prompt an instance is installed or it is not: it hooks all   *)
(* three vectors and receives, with its environment freed, or it is in no  *)
(* chain, and holds no memory, whatever failed while it came or went.      *)
Installed(i) == /\ \A v \in Vectors : Reaches(v, i)
                /\ receiver = i /\ i \in memory \ environment
Gone(i)      == /\ \A v \in Vectors : ~Reaches(v, i)
                /\ i \notin memory \cup environment

AllOrNothing == pc = "prompt" => \A i \in Instances : Installed(i) \/ Gone(i)

(* Coming and going, the program leaves everybody else's hooks in place:   *)
(* what resident_uninstall_check is for.                                   *)
OthersStayHooked ==
  \A o \in Others : o \in memory => \A v \in Hooks[o] : Reaches(v, o)

(* An unload that finds nobody hooked after the resident instance removes  *)
(* it, vectors, memory and all.                                            *)
UnloadRemoves ==
  \A i \in Instances :
    pc = "install_check" /\ unload /\ Installed(i) /\ resident_uninstall_check(i)
      ~> pc = "prompt" /\ Gone(i)
=============================================================================
