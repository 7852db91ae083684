---------------------------- MODULE ResidentProofs ----------------------------
(***************************************************************************)
(* Proofs about Resident, for any number of runs, any other programs and   *)
(* whichever calls fail: after every single store each interrupt vector    *)
(* begins a chain of handlers that are all in memory and that ends at the  *)
(* BIOS, and at the prompt an instance is installed wholly or not at all.  *)
(***************************************************************************)
EXTENDS Resident, FiniteSetTheorems, WellFoundedInduction, TLAPS

-----------------------------------------------------------------------------
(* A chain of handlers is a stack: s spells it if its last program is the   *)
(* one that the vector names, and each has found the one below it.         *)
Spells(s, first, found, v) ==
  /\ s \in Seq(Programs)
  /\ \A i, j \in 1..Len(s) : s[i] = s[j] => i = j
  /\ first = IF s = <<>> THEN Bios ELSE s[Len(s)]
  /\ \A i \in 1..Len(s) : found[s[i]][v] = IF i = 1 THEN Bios ELSE s[i - 1]

Members(s) == {s[i] : i \in 1..Len(s)}

(* The chain that begins with first goes through just the programs of S.   *)
Hangs(first, found, v, S) == \E s : Spells(s, first, found, v) /\ Members(s) = S

LEMMA NotPrograms == Bios \notin Programs /\ None \notin Programs /\ Bios # None
BY ResidentAssumption DEF Programs

LEMMA ProgramsAreFinite == IsFiniteSet(Programs) /\ Cardinality(Programs) \in Nat
<1>1. IsFiniteSet(Instances)
  BY ResidentAssumption, FS_Interval DEF Instances
<1>2. IsFiniteSet(Programs)
  BY <1>1, ResidentAssumption, FS_Union DEF Programs
<1> QED
  BY <1>2, FS_CardinalityType

-----------------------------------------------------------------------------
(* What hooking and restoring a vector do to its chain.                    *)

LEMMA EmptyChain ==
  ASSUME NEW found, NEW v
  PROVE  Hangs(Bios, found, v, {})
<1>1. Spells(<<>>, Bios, found, v)
  BY DEF Spells
<1>2. Members(<<>>) = {}
  BY DEF Members
<1> QED
  BY <1>1, <1>2 DEF Hangs

(* Nothing is seen of what programs outside the chain have found.          *)
LEMMA SameChain ==
  ASSUME NEW first, NEW found, NEW v, NEW S, Hangs(first, found, v, S),
         NEW found2, \A p \in S : found2[p][v] = found[p][v]
  PROVE  Hangs(first, found2, v, S)
<1>1. PICK s : Spells(s, first, found, v) /\ Members(s) = S
  BY DEF Hangs
<1>2. \A i \in 1..Len(s) : s[i] \in S
  BY <1>1 DEF Members
<1>3. Spells(s, first, found2, v)
  BY <1>1, <1>2 DEF Spells
<1> QED
  BY <1>1, <1>3 DEF Hangs

(* A program that has found the first handler hooks the vector.            *)
LEMMA PushChain ==
  ASSUME NEW first, NEW found, NEW v, NEW S, Hangs(first, found, v, S),
         NEW p \in Programs, p \notin S,
         NEW found2, found2[p][v] = first, \A q \in S : found2[q][v] = found[q][v]
  PROVE  Hangs(p, found2, v, S \cup {p})
<1>1. PICK s : Spells(s, first, found, v) /\ Members(s) = S
  BY DEF Hangs
<1>2. s \in Seq(Programs) /\ Len(s) \in Nat
  BY <1>1 DEF Spells
<1>3. \A i \in 1..Len(s) : s[i] \in S
  BY <1>1 DEF Members
<1> DEFINE t == Append(s, p)
<1>4. /\ t \in Seq(Programs) /\ t # <<>> /\ Len(t) = Len(s) + 1 /\ t[Len(t)] = p
      /\ \A i \in 1..Len(s) : t[i] = s[i]
  BY <1>2
<1> HIDE DEF t
<1>5. Members(t) = S \cup {p}
  <2>1. \A i \in 1..Len(t) : i = Len(t) \/ i \in 1..Len(s)
    BY <1>2, <1>4
  <2>2. 1..Len(s) \subseteq 1..Len(t) /\ Len(t) \in 1..Len(t)
    BY <1>2, <1>4
  <2> QED
    BY <1>1, <1>4, <2>1, <2>2 DEF Members
<1>6. \A i, j \in 1..Len(t) : t[i] = t[j] => i = j
  <2> SUFFICES ASSUME NEW i \in 1..Len(t), NEW j \in 1..Len(t), t[i] = t[j]  PROVE i = j
    OBVIOUS
  <2>1. CASE i \in 1..Len(s) /\ j \in 1..Len(s)
    BY <1>1, <1>4, <2>1 DEF Spells
  <2>2. CASE i \in 1..Len(s) /\ j = Len(t)
    BY <1>3, <1>4, <2>2
  <2>3. CASE i = Len(t) /\ j \in 1..Len(s)
    BY <1>3, <1>4, <2>3
  <2> QED
    BY <1>2, <1>4, <2>1, <2>2, <2>3
<1>7. \A i \in 1..Len(t) : found2[t[i]][v] = IF i = 1 THEN Bios ELSE t[i - 1]
  <2> SUFFICES ASSUME NEW i \in 1..Len(t)
               PROVE  found2[t[i]][v] = IF i = 1 THEN Bios ELSE t[i - 1]
    OBVIOUS
  <2>1. CASE i \in 1..Len(s)
    <3>1. found2[s[i]][v] = found[s[i]][v]
      BY <1>3, <2>1
    <3>2. i # 1 => t[i - 1] = s[i - 1]
      BY <1>2, <1>4, <2>1
    <3> QED
      BY <1>1, <1>4, <2>1, <3>1, <3>2 DEF Spells
  <2>2. CASE i = Len(t)
    <3>1. found2[t[i]][v] = first
      BY <1>4, <2>2
    <3>2. s = <<>> <=> i = 1
      BY <1>2, <1>4, <2>2
    <3>3. i # 1 => t[i - 1] = s[Len(s)]
      BY <1>2, <1>4, <2>2
    <3> QED
      BY <1>1, <3>1, <3>2, <3>3 DEF Spells
  <2> QED
    BY <1>2, <1>4, <2>1, <2>2
<1>8. Spells(t, p, found2, v)
  BY <1>4, <1>6, <1>7 DEF Spells
<1> QED
  BY <1>5, <1>8 DEF Hangs

(* The first program of a chain gives the vector back.                     *)
LEMMA PopChain ==
  ASSUME NEW p \in Programs, NEW found, NEW v, NEW S, Hangs(p, found, v, S),
         NEW found2, \A q \in S \ {p} : found2[q][v] = found[q][v]
  PROVE  p \in S /\ Hangs(found[p][v], found2, v, S \ {p})
<1>1. PICK s : Spells(s, p, found, v) /\ Members(s) = S
  BY DEF Hangs
<1>2. s \in Seq(Programs) /\ Len(s) \in Nat
  BY <1>1 DEF Spells
<1>3. s # <<>> /\ p = s[Len(s)]
  BY <1>1, NotPrograms DEF Spells
<1>4. Len(s) \in 1..Len(s)
  BY <1>2, <1>3
<1> DEFINE t == SubSeq(s, 1, Len(s) - 1)
<1>5. /\ t \in Seq(Programs) /\ Len(t) = Len(s) - 1
      /\ \A i \in 1..Len(t) : t[i] = s[i]
  BY <1>2, <1>3
<1> HIDE DEF t
<1>6. Members(t) = S \ {p}
  <2>1. \A i \in 1..Len(s) : s[i] = p <=> i = Len(s)
    BY <1>1, <1>3, <1>4 DEF Spells
  <2>2. \A i \in 1..Len(s) : i = Len(s) \/ i \in 1..Len(t)
    BY <1>2, <1>5
  <2>3. \A i \in 1..Len(t) : i \in 1..Len(s) /\ i # Len(s)
    BY <1>2, <1>5
  <2> QED
    BY <1>1, <1>5, <2>1, <2>2, <2>3 DEF Members
<1>7. \A i \in 1..Len(t) : t[i] \in S \ {p}
  BY <1>6 DEF Members
<1>8. \A i, j \in 1..Len(t) : t[i] = t[j] => i = j
  BY <1>1, <1>2, <1>5 DEF Spells
<1>9. \A i \in 1..Len(t) : found2[t[i]][v] = IF i = 1 THEN Bios ELSE t[i - 1]
  <2> SUFFICES ASSUME NEW i \in 1..Len(t)
               PROVE  found2[t[i]][v] = IF i = 1 THEN Bios ELSE t[i - 1]
    OBVIOUS
  <2>1. found2[t[i]][v] = found[t[i]][v]
    BY <1>7
  <2>2. i \in 1..Len(s) /\ (i # 1 => t[i - 1] = s[i - 1])
    BY <1>2, <1>5
  <2> QED
    BY <1>1, <1>5, <2>1, <2>2 DEF Spells
<1>10. found[p][v] = IF t = <<>> THEN Bios ELSE t[Len(t)]
  <2>1. found[p][v] = IF Len(s) = 1 THEN Bios ELSE s[Len(s) - 1]
    BY <1>1, <1>3, <1>4 DEF Spells
  <2>2. t = <<>> <=> Len(s) = 1
    BY <1>2, <1>3, <1>5
  <2>3. Len(s) # 1 => t[Len(t)] = s[Len(s) - 1]
    BY <1>2, <1>3, <1>5
  <2> QED
    BY <2>1, <2>2, <2>3
<1>11. Spells(t, found[p][v], found2, v)
  BY <1>5, <1>8, <1>9, <1>10 DEF Spells
<1>12. p \in S
  BY <1>1, <1>3, <1>4 DEF Members
<1> QED
  BY <1>6, <1>11, <1>12 DEF Hangs

-----------------------------------------------------------------------------
(* Chain follows the handlers one by one, and Depth is deep enough for it. *)

LEMMA NatInduct ==
  ASSUME NEW S, 0 \in S, \A n \in Nat : n \in S => n + 1 \in S
  PROVE  Nat \subseteq S
<1> DEFINE T == Nat \ S
           R == {ss \in Nat \X Nat : ss[1] < ss[2]}
<1> SUFFICES ASSUME T # {}  PROVE FALSE
  OBVIOUS
<1>1. IsWellFoundedOn(R, Nat)
  BY NatLessThanWellFounded, Zenon DEF OpToRel
<1>2. PICK n \in T : \A m \in T : ~ (<<m, n>> \in R)
  <2> HIDE DEF R
  <2> QED
    BY <1>1, WFMin
<1>3. n # 0 /\ n - 1 \in Nat
  OBVIOUS
<1>4. n - 1 \in T
  BY <1>3, n = (n - 1) + 1
<1>5. <<n - 1, n>> \in R
  BY <1>3
<1> QED
  BY <1>2, <1>4, <1>5

LEMMA SpelledChain ==
  ASSUME NEW v, NEW s, Spells(s, vector[v], original, v)
  PROVE  /\ Len(s) \in Depth
         /\ \A n \in Depth : Chain(v)[n] = IF n < Len(s) THEN s[Len(s) - n] ELSE Bios
<1>1. s \in Seq(Programs) /\ Len(s) \in Nat
  BY DEF Spells
<1>2. Len(s) \in Depth
  <2>1. s \in Injection(1..Len(s), Programs)
    <3>1. s \in [1..Len(s) -> Programs]
      BY <1>1
    <3> QED
      BY <3>1 DEF Spells, Injection, IsInjective
  <2>2. Cardinality(1..Len(s)) <= Cardinality(Programs)
    BY <2>1, ProgramsAreFinite, FS_Injection
  <2>3. Cardinality(1..Len(s)) = Len(s)
    <3>1. 1 \in Int /\ Len(s) \in Int
      BY <1>1
    <3>2. Cardinality(1..Len(s)) = IF 1 > Len(s) THEN 0 ELSE Len(s) - 1 + 1
      BY <3>1, FS_Interval
    <3> QED
      BY <1>1, <3>2
  <2> QED
    BY <1>1, <2>2, <2>3, ProgramsAreFinite DEF Depth
<1> DEFINE Handler(n) == IF n < Len(s) THEN s[Len(s) - n] ELSE Bios
           Follow(at) == [n \in Depth |-> IF n = 0 THEN vector[v] ELSE Before(at[n - 1], v)]
           handlers == [n \in Depth |-> Handler(n)]
           chain == CHOOSE at : at = Follow(at)
<1>3. \A n \in Depth : /\ n \in Nat
                       /\ n # 0 => n - 1 \in Depth
  BY ProgramsAreFinite DEF Depth
<1>4. Handler(0) = vector[v]
  <2>1. CASE s = <<>>
    BY <1>1, <2>1 DEF Spells
  <2>2. CASE s # <<>>
    BY <1>1, <2>2 DEF Spells
  <2> QED
    BY <2>1, <2>2
<1>5. \A n \in Depth : n # 0 => Handler(n) = Before(Handler(n - 1), v)
  <2> SUFFICES ASSUME NEW n \in Depth, n # 0  PROVE Handler(n) = Before(Handler(n - 1), v)
    OBVIOUS
  <2>1. CASE n <= Len(s)
    <3>1. Len(s) - (n - 1) \in 1..Len(s) /\ n - 1 < Len(s)
      BY <1>1, <1>3, <2>1
    <3>2. Handler(n - 1) = s[Len(s) - (n - 1)] /\ Handler(n - 1) \in Programs
      BY <1>1, <3>1
    <3>3. original[s[Len(s) - (n - 1)]][v]
            = IF Len(s) - (n - 1) = 1 THEN Bios ELSE s[Len(s) - (n - 1) - 1]
      BY <3>1 DEF Spells
    <3>4. Len(s) - (n - 1) = 1 <=> ~ (n < Len(s))
      BY <1>1, <1>3, <2>1
    <3>5. Len(s) - (n - 1) - 1 = Len(s) - n
      BY <1>1, <1>3
    <3>6. Before(Handler(n - 1), v) = original[Handler(n - 1)][v]
      BY <3>2, NotPrograms DEF Before
    <3> QED
      BY <3>2, <3>3, <3>4, <3>5, <3>6
  <2>2. CASE ~ (n <= Len(s))
    <3>1. n \in Nat
      BY <1>3
    <3>2. ~ (n < Len(s)) /\ ~ (n - 1 < Len(s))
      BY <1>1, <2>2, <3>1
    <3> QED
      BY <3>2 DEF Before
  <2> QED
    BY <2>1, <2>2
<1> HIDE DEF Handler
<1>6. handlers = Follow(handlers)
  BY <1>3, <1>4, <1>5
<1>7. chain = Follow(chain)
  <2> HIDE DEF handlers, Follow
  <2> QED
    BY <1>6
<1>8. Chain(v) = chain
  BY DEF Chain
<1> HIDE DEF chain, handlers
<1>9. /\ 0 \in Depth => chain[0] = vector[v]
      /\ \A n \in Depth : n # 0 => chain[n] = Before(chain[n - 1], v)
  BY <1>7
<1>10. \A n \in Depth : chain[n] = Handler(n)
  <2> DEFINE Equal == {n \in Nat : n \in Depth => chain[n] = Handler(n)}
  <2>1. 0 \in Equal
    BY <1>4, <1>9
  <2>2. ASSUME NEW n \in Nat, n \in Equal  PROVE n + 1 \in Equal
    <3> SUFFICES ASSUME n + 1 \in Depth  PROVE chain[n + 1] = Handler(n + 1)
      OBVIOUS
    <3>1. n \in Depth /\ n + 1 # 0 /\ (n + 1) - 1 = n
      BY <1>3
    <3>2. chain[n] = Handler(n)
      BY <2>2, <3>1
    <3>3. chain[n + 1] = Before(chain[n], v)
      BY <1>9, <3>1
    <3>4. Handler(n + 1) = Before(Handler(n), v)
      BY <1>5, <3>1
    <3> QED
      BY <3>2, <3>3, <3>4
  <2> HIDE DEF Equal
  <2>3. Nat \subseteq Equal
    BY <2>1, <2>2, NatInduct
  <2> QED
    BY <1>3, <2>3 DEF Equal
<1> QED
  BY <1>2, <1>8, <1>10 DEF Handler

(* What the invariants say of a chain that goes through the programs of S. *)
LEMMA ChainOf ==
  ASSUME NEW v, NEW S, Hangs(vector[v], original, v, S)
  PROVE  /\ \A n \in Depth : Chain(v)[n] \in S \cup {Bios}
         /\ Reaches(v, Bios)
         /\ \A p \in Programs : Reaches(v, p) <=> p \in S
<1>1. PICK s : Spells(s, vector[v], original, v) /\ Members(s) = S
  BY DEF Hangs
<1>2. s \in Seq(Programs) /\ Len(s) \in Nat
  BY <1>1 DEF Spells
<1>3. /\ Len(s) \in Depth
      /\ \A n \in Depth : Chain(v)[n] = IF n < Len(s) THEN s[Len(s) - n] ELSE Bios
  BY <1>1, SpelledChain
<1>4. \A n \in Depth : n \in Nat
  BY ProgramsAreFinite DEF Depth
<1>5. \A n \in Depth : n < Len(s) => Len(s) - n \in 1..Len(s)
  BY <1>2, <1>4
<1>6. \A n \in Depth : Chain(v)[n] \in S \cup {Bios}
  BY <1>1, <1>3, <1>5 DEF Members
<1>7. Reaches(v, Bios)
  BY <1>2, <1>3 DEF Reaches
<1>8. ASSUME NEW p \in S  PROVE Reaches(v, p)
  <2>1. PICK i \in 1..Len(s) : s[i] = p
    BY <1>1, <1>8 DEF Members
  <2>2. /\ Len(s) - i \in Nat /\ Len(s) - i < Len(s)
        /\ Len(s) - (Len(s) - i) = i
    BY <1>2, <2>1
  <2>3. Len(s) - i \in Depth
    BY <1>2, <1>3, <2>1, <2>2, ProgramsAreFinite DEF Depth
  <2> QED
    BY <1>3, <2>1, <2>2, <2>3 DEF Reaches
<1>9. ASSUME NEW p \in Programs, Reaches(v, p)  PROVE p \in S
  BY <1>6, <1>9, NotPrograms DEF Reaches
<1> QED
  BY <1>6, <1>7, <1>8, <1>9

-----------------------------------------------------------------------------
(* The inductive invariant.                                                *)

Labels == {"prompt", "install_check", "init", "access_type", "driver_info", "get_address",
           "save", "set", "tsr", "uninstall", "restore", "done", "free", "exit"}

Passed == {Hooked[j] : j \in 1..(k - 1)}   \* the vectors dealt with in this loop

(* An instance in memory that main is neither installing nor removing is   *)
(* installed.                                                              *)
AtRest(i) == /\ i = me => pc = "prompt"
             /\ i = resident => pc \notin {"restore", "done", "free"}

Hooking(i, v) == \/ AtRest(i)
                 \/ i = me /\ pc \in {"save", "set"} /\ v \in Passed
                 \/ i = me /\ pc = "tsr"
                 \/ i = resident /\ pc = "restore" /\ v \notin Passed

Receiving(i) == \/ AtRest(i)
                \/ i = me /\ pc \in {"driver_info", "get_address", "save", "set", "tsr"}
                \/ i = resident /\ pc \in {"restore", "done"}

(* Which programs the chain of v goes through: those in memory that hook it. *)
Holders(v) == {o \in Others \cap memory : v \in Hooks[o]}
              \cup {i \in Instances \cap memory : Hooking(i, v)}

ChainsHang == \A v \in Vectors : Hangs(vector[v], original, v, Holders(v))

Where ==
  /\ pc \in Labels
  /\ me = runs /\ memory \cap Instances \subseteq 1..runs /\ receiver \in 1..runs \cup {None}
  /\ pc # "prompt" => {me, resident} \subseteq Instances
  /\ environment \subseteq {me} /\ (pc = "prompt" => environment = {})
  /\ pc \in {"install_check", "init", "access_type", "driver_info", "get_address", "save", "set",
              "tsr"} => resident = me
  /\ pc \in {"uninstall", "free"} => resident # me
  /\ pc \in {"uninstall", "restore", "done", "free"} => resident \in memory
  /\ pc \notin {"save", "set", "restore"} => k = 1
  /\ pc = "access_type" => me \in buffers

(* Vectors are restored in a loop that looks at none of them: what main has *)
(* hooked is still first in its chain.                                     *)
OnTop == \A v \in Vectors :
  /\ pc \in {"save", "set", "tsr"} /\ Hooking(me, v) => vector[v] = me
  /\ pc = "restore" /\ Hooking(resident, v) => vector[v] = resident
  /\ pc = "set" => original[me][Hooked[k]] = vector[Hooked[k]]

(* There is one receiver, so there is at most one instance installed.      *)
Receivers ==
  /\ \A i \in Instances \cap memory :
       Receiving(i) => receiver = i /\ g_pktdrv_handle[i] /\ i \in buffers
  /\ pc \in {"install_check", "init", "access_type"} => receiver # me
  /\ pc \in {"uninstall", "restore", "done", "free"} /\ resident # me => receiver # me

(* What main leaves behind when no call has failed that leaks the receiver. *)
Unleaked == failed \cap Leaks = {} =>
  /\ ReceiverIsThere
  /\ pc = "exit" => receiver # me
  /\ pc = "free" => receiver # resident

IInv == TypeOK /\ Where /\ ChainsHang /\ OnTop /\ Receivers /\ Unleaked

-----------------------------------------------------------------------------
(* The vectors, in the order in which they are dealt with.                 *)

LEMMA HookedVectors ==
  /\ DOMAIN Hooked = 1..3 /\ Len(Hooked) = 3
  /\ Vectors = {Hooked[1], Hooked[2], Hooked[3]}
  /\ \A i, j \in 1..3 : Hooked[i] = Hooked[j] => i = j
BY DEF Hooked, Vectors

LEMMA PassedVectors ==
  ASSUME k \in DOMAIN Hooked
  PROVE  /\ Hooked[k] \in Vectors \ Passed /\ Passed \subseteq Vectors
         /\ k = 1 => Passed = {}
         /\ ~ (k < Len(Hooked)) => Passed \cup {Hooked[k]} = Vectors
         /\ k' = k + 1 => Passed' = Passed \cup {Hooked[k]}
         /\ k' = k => Passed' = Passed
         /\ k' = 1 => Passed' = {}
<1> USE HookedVectors
<1>1. k \in 1..3
  OBVIOUS
<1>2. k = 1 => 1..(k - 1) = {}
  OBVIOUS
<1>3. k = 2 => 1..(k - 1) = {1}
  OBVIOUS
<1>4. k = 3 => 1..(k - 1) = {1, 2}
  OBVIOUS
<1>5. k' = 1 => 1..(k' - 1) = {}
  OBVIOUS
<1>6. k' = k + 1 => 1..(k' - 1) = 1..(k - 1) \cup {k}
  BY <1>1
<1> HIDE DEF Hooked
<1> QED
  BY <1>1, <1>2, <1>3, <1>4, <1>5, <1>6 DEF Passed

LEMMA NoOtherIsAnInstance == Others \cap Instances = {} /\ Programs = Instances \cup Others
BY ResidentAssumption DEF Programs

LEMMA HoldersArePrograms == \A v : Holders(v) \subseteq Programs \cap memory
BY NoOtherIsAnInstance DEF Holders

(* A step that stores no vector.                                           *)
LEMMA ChainsKeep ==
  ASSUME IInv, vector' = vector, \A v \in Vectors : Holders(v)' = Holders(v),
         \A v \in Vectors : \A p \in Holders(v) : original'[p][v] = original[p][v]
  PROVE  ChainsHang'
BY SameChain DEF IInv, ChainsHang

-----------------------------------------------------------------------------
(* Steps of main that store no vector.                                     *)

LEMMA InitialiseKeeps ==
  ASSUME IInv, initialise
  PROVE  IInv'
<1> USE DEF driver, blocks, Goto
<1>1. TypeOK'
  BY HookedVectors DEF IInv, TypeOK, Where, initialise, Same
<1>2. Where'
  BY NoOtherIsAnInstance DEF IInv, TypeOK, Where, Labels, Instances, initialise, Same
<1>3. Receivers'
  BY DEF IInv, TypeOK, Where, Receivers, Receiving, AtRest, initialise, Same
<1>4. Unleaked'
  BY DEF IInv, TypeOK, Where, Receivers, Receiving, AtRest, Unleaked, ReceiverIsThere, Leaks, initialise, Same
<1>5. OnTop'
  BY DEF IInv, TypeOK, Where, OnTop, Hooking, AtRest, Passed, initialise, Same
<1>6. ChainsHang'
  <2>1. \A v \in Vectors : Holders(v)' = Holders(v)
    BY NoOtherIsAnInstance DEF IInv, TypeOK, Where, Holders, Hooking, AtRest, Passed, initialise, Same
  <2> QED
    BY <2>1, ChainsKeep DEF initialise, Same
<1> QED
  BY <1>1, <1>2, <1>3, <1>4, <1>5, <1>6 DEF IInv

LEMMA AccessTypeKeeps ==
  ASSUME IInv, access_type
  PROVE  IInv'
<1> USE DEF driver, blocks, Goto
<1>a. None \notin Instances
  BY NotPrograms, NoOtherIsAnInstance
<1>1. TypeOK'
  <2>1. /\ receiver' \in Instances \cup {None}
        /\ g_pktdrv_handle' \in [Instances -> BOOLEAN]
        /\ \A i \in Instances : g_pktdrv_handle'[i] => receiver' = i
    BY <1>a DEF IInv, TypeOK, Where, access_type, Fail, Same
  <2>2. failed' \subseteq MayFail /\ (pc' # "prompt" => me' \in memory')
    BY DEF IInv, TypeOK, Where, access_type, Fail, Same
  <2> QED
    BY <2>1, <2>2 DEF IInv, TypeOK, access_type, Same
<1>2. Where'
  BY NoOtherIsAnInstance DEF IInv, TypeOK, Where, Labels, Instances, access_type, Fail, Same
<1>3. Receivers'
  BY <1>a DEF IInv, TypeOK, Where, Receivers, Receiving, AtRest, access_type, Fail, Same
<1>4. Unleaked'
  BY <1>a DEF IInv, TypeOK, Where, Receivers, Receiving, AtRest, Unleaked, ReceiverIsThere, Leaks, access_type, Fail, Same
<1>5. OnTop'
  BY DEF IInv, TypeOK, Where, OnTop, Hooking, AtRest, Passed, access_type, Fail, Same
<1>6. ChainsHang'
  <2>1. \A v \in Vectors : Holders(v)' = Holders(v)
    BY NoOtherIsAnInstance DEF IInv, TypeOK, Where, Holders, Hooking, AtRest, Passed, access_type, Fail, Same
  <2> QED
    BY <2>1, ChainsKeep DEF access_type, Fail, Same
<1> QED
  BY <1>1, <1>2, <1>3, <1>4, <1>5, <1>6 DEF IInv

LEMMA DriverInfoKeeps ==
  ASSUME IInv, driver_info
  PROVE  IInv'
<1> USE DEF driver, blocks, Goto
<1>1. TypeOK'
  BY HookedVectors DEF IInv, TypeOK, Where, driver_info, Fail, Same
<1>2. Where'
  BY NoOtherIsAnInstance DEF IInv, TypeOK, Where, Labels, Instances, driver_info, Fail, Same
<1>3. Receivers'
  BY DEF IInv, TypeOK, Where, Receivers, Receiving, AtRest, driver_info, Fail, Same
<1>4. Unleaked'
  BY DEF IInv, TypeOK, Where, Receivers, Receiving, AtRest, Unleaked, ReceiverIsThere, Leaks, driver_info, Fail, Same
<1>5. OnTop'
  BY DEF IInv, TypeOK, Where, OnTop, Hooking, AtRest, Passed, driver_info, Fail, Same
<1>6. ChainsHang'
  <2>1. \A v \in Vectors : Holders(v)' = Holders(v)
    BY NoOtherIsAnInstance DEF IInv, TypeOK, Where, Holders, Hooking, AtRest, Passed, driver_info, Fail, Same
  <2> QED
    BY <2>1, ChainsKeep DEF driver_info, Fail, Same
<1> QED
  BY <1>1, <1>2, <1>3, <1>4, <1>5, <1>6 DEF IInv

LEMMA GoResidentKeeps ==
  ASSUME IInv, go_resident
  PROVE  IInv'
<1> USE DEF driver, blocks, Goto
<1>1. TypeOK'
  BY HookedVectors DEF IInv, TypeOK, Where, go_resident, Fail, Same
<1>2. Where'
  BY NoOtherIsAnInstance DEF IInv, TypeOK, Where, Labels, Instances, go_resident, Fail, Same
<1>3. Receivers'
  BY DEF IInv, TypeOK, Where, Receivers, Receiving, AtRest, go_resident, Fail, Same
<1>4. Unleaked'
  BY DEF IInv, TypeOK, Where, Receivers, Receiving, AtRest, Unleaked, ReceiverIsThere, Leaks, go_resident, Fail, Same
<1>5. OnTop'
  BY DEF IInv, TypeOK, Where, OnTop, Hooking, AtRest, Passed, go_resident, Fail, Same
<1>6. ChainsHang'
  <2>1. \A v \in Vectors : Holders(v)' = Holders(v)
    BY NoOtherIsAnInstance DEF IInv, TypeOK, Where, Holders, Hooking, AtRest, Passed, go_resident, Fail, Same
  <2> QED
    BY <2>1, ChainsKeep DEF go_resident, Fail, Same
<1> QED
  BY <1>1, <1>2, <1>3, <1>4, <1>5, <1>6 DEF IInv

LEMMA UninstallKeeps ==
  ASSUME IInv, resident_do_uninstall
  PROVE  IInv'
<1> USE DEF driver, blocks, Goto
<1>1. TypeOK'
  BY HookedVectors DEF IInv, TypeOK, Where, resident_do_uninstall, resident_uninstall_check, Same
<1>2. Where'
  BY NoOtherIsAnInstance DEF IInv, TypeOK, Where, Labels, Instances, resident_do_uninstall, resident_uninstall_check, Same
<1>3. Receivers'
  BY DEF IInv, TypeOK, Where, Receivers, Receiving, AtRest, resident_do_uninstall, resident_uninstall_check, Same
<1>4. Unleaked'
  BY DEF IInv, TypeOK, Where, Receivers, Receiving, AtRest, Unleaked, ReceiverIsThere, Leaks, resident_do_uninstall, resident_uninstall_check, Same
<1>5. OnTop'
  BY DEF IInv, TypeOK, Where, OnTop, Hooking, AtRest, Passed, resident_do_uninstall, resident_uninstall_check, Same
<1>6. ChainsHang'
  <2>1. \A v \in Vectors : Holders(v)' = Holders(v)
    BY NoOtherIsAnInstance DEF IInv, TypeOK, Where, Holders, Hooking, AtRest, Passed, resident_do_uninstall, resident_uninstall_check, Same
  <2> QED
    BY <2>1, ChainsKeep DEF resident_do_uninstall, resident_uninstall_check, Same
<1> QED
  BY <1>1, <1>2, <1>3, <1>4, <1>5, <1>6 DEF IInv

LEMMA PktdrvDoneKeeps ==
  ASSUME IInv, pktdrv_done
  PROVE  IInv'
<1> USE DEF driver, blocks, Goto
<1>a. None \notin Instances
  BY NotPrograms, NoOtherIsAnInstance
<1>1. TypeOK'
  <2>1. /\ receiver' \in Instances \cup {None}
        /\ g_pktdrv_handle' \in [Instances -> BOOLEAN]
        /\ \A i \in Instances : g_pktdrv_handle'[i] => receiver' = i
    BY <1>a DEF IInv, TypeOK, Where, pktdrv_done, Fail, AfterDone, Same
  <2>2. failed' \subseteq MayFail /\ (pc' # "prompt" => me' \in memory')
    BY DEF IInv, TypeOK, Where, pktdrv_done, Fail, AfterDone, Same
  <2> QED
    BY <2>1, <2>2 DEF IInv, TypeOK, pktdrv_done, Same
<1>2. Where'
  BY NoOtherIsAnInstance DEF IInv, TypeOK, Where, Labels, Instances, pktdrv_done, Fail, AfterDone, Same
<1>3. Receivers'
  BY <1>a DEF IInv, TypeOK, Where, Receivers, Receiving, AtRest, pktdrv_done, Fail, AfterDone, Same
<1>4. Unleaked'
  BY <1>a DEF IInv, TypeOK, Where, Receivers, Receiving, AtRest, Unleaked, ReceiverIsThere, Leaks, pktdrv_done, Fail, AfterDone, Same
<1>5. OnTop'
  BY DEF IInv, TypeOK, Where, OnTop, Hooking, AtRest, Passed, pktdrv_done, Fail, AfterDone, Same
<1>6. ChainsHang'
  <2>1. \A v \in Vectors : Holders(v)' = Holders(v)
    BY NoOtherIsAnInstance DEF IInv, TypeOK, Where, Holders, Hooking, AtRest, Passed, pktdrv_done, Fail, AfterDone, Same
  <2> QED
    BY <2>1, ChainsKeep DEF pktdrv_done, Fail, AfterDone, Same
<1> QED
  BY <1>1, <1>2, <1>3, <1>4, <1>5, <1>6 DEF IInv

LEMMA FreeMemoryKeeps ==
  ASSUME IInv, free_memory
  PROVE  IInv'
<1> USE DEF driver, blocks, Goto
<1>1. TypeOK'
  BY HookedVectors DEF IInv, TypeOK, Where, free_memory, Same
<1>2. Where'
  BY NoOtherIsAnInstance DEF IInv, TypeOK, Where, Labels, Instances, free_memory, Same
<1>3. Receivers'
  BY DEF IInv, TypeOK, Where, Receivers, Receiving, AtRest, free_memory, Same
<1>4. Unleaked'
  BY DEF IInv, TypeOK, Where, Receivers, Receiving, AtRest, Unleaked, ReceiverIsThere, Leaks, free_memory, Same
<1>5. OnTop'
  BY DEF IInv, TypeOK, Where, OnTop, Hooking, AtRest, Passed, free_memory, Same
<1>6. ChainsHang'
  <2>1. \A v \in Vectors : Holders(v)' = Holders(v)
    BY NoOtherIsAnInstance DEF IInv, TypeOK, Where, Holders, Hooking, AtRest, Passed, free_memory, Same
  <2> QED
    BY <2>1, ChainsKeep DEF free_memory, Same
<1> QED
  BY <1>1, <1>2, <1>3, <1>4, <1>5, <1>6 DEF IInv

LEMMA ExitKeeps ==
  ASSUME IInv, Exit
  PROVE  IInv'
<1> USE DEF driver, blocks, Goto
<1>1. TypeOK'
  BY HookedVectors DEF IInv, TypeOK, Where, Exit, Same
<1>2. Where'
  BY NoOtherIsAnInstance DEF IInv, TypeOK, Where, Labels, Instances, Exit, Same
<1>3. Receivers'
  BY DEF IInv, TypeOK, Where, Receivers, Receiving, AtRest, Exit, Same
<1>4. Unleaked'
  BY DEF IInv, TypeOK, Where, Receivers, Receiving, AtRest, Unleaked, ReceiverIsThere, Leaks, Exit, Same
<1>5. OnTop'
  BY DEF IInv, TypeOK, Where, OnTop, Hooking, AtRest, Passed, Exit, Same
<1>6. ChainsHang'
  <2>1. \A v \in Vectors : Holders(v)' = Holders(v)
    BY NoOtherIsAnInstance DEF IInv, TypeOK, Where, Holders, Hooking, AtRest, Passed, Exit, Same
  <2> QED
    BY <2>1, ChainsKeep DEF Exit, Same
<1> QED
  BY <1>1, <1>2, <1>3, <1>4, <1>5, <1>6 DEF IInv

LEMMA RunKeeps ==
  ASSUME IInv, Run
  PROVE  IInv'
<1> USE DEF driver, blocks, Goto
<1>a. /\ me' \in Instances /\ me' = runs' /\ runs' = runs + 1 /\ resident' = me' /\ runs \in Nat
      /\ me' \notin memory /\ receiver # me' /\ runs' \in 0..MaxRuns
      /\ pc = "prompt" /\ pc' = "install_check"
      /\ \A i \in Instances \cap memory : i # me'
  BY ResidentAssumption DEF IInv, TypeOK, Where, Run, Instances
<1>1. TypeOK'
  BY <1>a, NoOtherIsAnInstance, HookedVectors DEF IInv, TypeOK, Where, Run
<1>2. Where'
  BY <1>a, NoOtherIsAnInstance DEF IInv, TypeOK, Where, Labels, Instances, Run
<1>3. Receivers'
  BY <1>a DEF IInv, TypeOK, Where, Receivers, Receiving, AtRest, Run
<1>4. Unleaked'
  BY <1>a DEF IInv, TypeOK, Where, Receivers, Receiving, AtRest, Unleaked, ReceiverIsThere, Leaks, Run
<1>5. OnTop'
  BY <1>a DEF IInv, TypeOK, Where, OnTop, Hooking, AtRest, Passed, Run
<1>6. ChainsHang'
  <2>1. \A v \in Vectors : Holders(v)' = Holders(v)
    BY <1>a, NoOtherIsAnInstance DEF IInv, TypeOK, Where, Holders, Hooking, AtRest, Passed, Run
  <2> QED
    BY <2>1, ChainsKeep DEF Run
<1> QED
  BY <1>1, <1>2, <1>3, <1>4, <1>5, <1>6 DEF IInv

(* Whoever answers the install check is an instance at rest, and not the   *)
(* one that asks.                                                          *)
LEMMA InstallCheckKeeps ==
  ASSUME IInv, install_check
  PROVE  IInv'
<1> USE DEF driver, blocks
<1>1. me \in Instances /\ me = resident /\ pc = "install_check"
  BY DEF IInv, Where, install_check
<1>2. ASSUME NEW i \in Answering
      PROVE  i \in Instances \cap memory /\ i # me /\ i \in 0..me
  <2>1. "int2f" \in Vectors
    BY HookedVectors DEF Hooked
  <2>2. Hangs(vector["int2f"], original, "int2f", Holders("int2f"))
    BY <2>1 DEF IInv, ChainsHang
  <2>3. i \in Instances /\ i \in Holders("int2f")
    BY <1>2, <2>2, ChainOf, NoOtherIsAnInstance DEF Answering
  <2>4. i \in memory /\ i # me
    BY <1>1, <2>3, NoOtherIsAnInstance DEF Holders, Hooking, AtRest
  <2> QED
    BY <2>3, <2>4 DEF IInv, Where, TypeOK
<1>3. /\ pc' \in {"exit", "init", "uninstall"}
      /\ IF pc' = "uninstall" THEN resident' \in Answering ELSE resident' = resident
      /\ UNCHANGED <<vector, original, receiver, g_pktdrv_handle, memory, environment, buffers,
                     k, me, unload, runs, failed>>
  <2>1. CASE Answering = {}
    BY <2>1 DEF install_check
  <2>2. CASE Answering # {}
    BY <2>2 DEF install_check
  <2> QED
    BY <2>1, <2>2
<1>4. pc' = "uninstall" => resident' \in Instances \cap memory /\ resident' # me /\ resident' \in 0..me
  BY <1>2, <1>3
<1> HIDE DEF driver, blocks
<1>5. TypeOK'
  BY <1>1, <1>3, <1>4, HookedVectors DEF IInv, TypeOK, Where
<1>6. Where'
  BY <1>1, <1>3, <1>4 DEF IInv, TypeOK, Where, Labels
<1>7. Receivers'
  BY <1>1, <1>3, <1>4 DEF IInv, Receivers, Receiving, AtRest
<1>8. Unleaked'
  BY <1>1, <1>3, <1>4 DEF IInv, Receivers, Unleaked, ReceiverIsThere
<1>9. OnTop'
  BY <1>3 DEF OnTop
<1>10. ChainsHang'
  <2>1. \A v \in Vectors : Holders(v)' = Holders(v)
    BY <1>1, <1>3, <1>4 DEF Holders, Hooking, AtRest
  <2> QED
    BY <1>3, <2>1, ChainsKeep
<1> QED
  BY <1>5, <1>6, <1>7, <1>8, <1>9, <1>10 DEF IInv

-----------------------------------------------------------------------------
(* Stores into the vector table.                                           *)

(* Each vector is hooked by the instance that has just read it.            *)
LEMMA InstallKeeps ==
  ASSUME IInv, install_interrupt_handlers
  PROVE  IInv'
<1> USE DEF driver, blocks, Goto, Same
<1>1. /\ me \in Instances /\ me \in memory /\ me = resident /\ me \in Programs /\ me \notin Others
      /\ k \in 1..3 /\ k \in DOMAIN Hooked
  BY HookedVectors, NoOtherIsAnInstance DEF IInv, TypeOK, Where, install_interrupt_handlers
<1>2. UNCHANGED <<driver, blocks, buffers, failed, me, resident, unload, runs>>
  BY DEF install_interrupt_handlers
<1>3. CASE /\ Goto("save", "set")
           /\ original' = [original EXCEPT ![me][Hooked[k]] = vector[Hooked[k]]]
           /\ UNCHANGED <<vector, k>>
  <2>1. Passed' = Passed /\ Hooked[k] \notin Passed /\ Hooked[k] \in Vectors
    BY <1>1, <1>3, PassedVectors
  <2>2. TypeOK'
    BY <1>1, <1>2, <1>3, <2>1 DEF IInv, TypeOK
  <2>3. Where'
    BY <1>1, <1>2, <1>3 DEF IInv, Where, Labels
  <2>4. Receivers' /\ Unleaked'
    BY <1>1, <1>2, <1>3 DEF IInv, Receivers, Receiving, AtRest, Unleaked, ReceiverIsThere
  <2>5. OnTop'
    BY <1>1, <1>2, <1>3, <2>1 DEF IInv, TypeOK, OnTop, Hooking, AtRest
  <2>6. ChainsHang'
    <3>1. \A v \in Vectors : Holders(v)' = Holders(v)
      BY <1>2, <1>3, <2>1 DEF Holders, Hooking, AtRest
    <3>2. me \notin Holders(Hooked[k])
      BY <1>1, <1>3, <2>1 DEF Holders, Hooking, AtRest
    <3>3. \A v \in Vectors : \A p \in Holders(v) : original'[p][v] = original[p][v]
      BY <1>1, <1>3, <3>2, HoldersArePrograms DEF IInv, TypeOK
    <3> QED
      BY <1>3, <3>1, <3>3, ChainsKeep
  <2> QED
    BY <2>2, <2>3, <2>4, <2>5, <2>6 DEF IInv
<1>4. CASE /\ pc = "set"
           /\ vector' = [vector EXCEPT ![Hooked[k]] = me]
           /\ IF k < Len(Hooked) THEN pc' = "save" /\ k' = k + 1 ELSE pc' = "tsr" /\ k' = 1
           /\ UNCHANGED original
  <2>1. /\ Hooked[k] \notin Passed /\ Hooked[k] \in Vectors
        /\ pc' = "save" => Passed' = Passed \cup {Hooked[k]}
        /\ pc' # "save" => Passed \cup {Hooked[k]} = Vectors
        /\ pc' \in {"save", "tsr"}
    BY <1>1, <1>4, PassedVectors
  <2>2. \A v \in Vectors : Hooking(me, v)' <=> v \in Passed \cup {Hooked[k]}
    BY <1>1, <1>2, <1>4, <2>1 DEF Hooking, AtRest
  <2>3. \A v \in Vectors : Hooking(me, v) <=> v \in Passed
    BY <1>1, <1>4 DEF Hooking, AtRest
  <2>4. \A i \in Instances \ {me} : \A v \in Vectors : Hooking(i, v)' <=> Hooking(i, v)
    BY <1>1, <1>2, <1>4, <2>1 DEF Hooking, AtRest
  <2>5. TypeOK'
    BY <1>1, <1>2, <1>4, <2>1, HookedVectors DEF IInv, TypeOK
  <2>6. Where'
    BY <1>1, <1>2, <1>4, <2>1 DEF IInv, Where, Labels
  <2>7. Receivers' /\ Unleaked'
    BY <1>1, <1>2, <1>4, <2>1 DEF IInv, Receivers, Receiving, AtRest, Unleaked, ReceiverIsThere
  <2>8. OnTop'
    BY <1>1, <1>2, <1>4, <2>1, <2>2, <2>3 DEF IInv, TypeOK, OnTop
  <2>9. ChainsHang'
    <3> SUFFICES ASSUME NEW v \in Vectors
                 PROVE  Hangs(vector'[v], original', v, Holders(v)')
      BY DEF ChainsHang
    <3>1. Hangs(vector[v], original, v, Holders(v))
      BY DEF IInv, ChainsHang
    <3>2. CASE v = Hooked[k]
      <4>1. me \notin Holders(v) /\ Holders(v)' = Holders(v) \cup {me}
        BY <1>1, <1>2, <2>1, <2>2, <2>3, <2>4, <3>2 DEF Holders
      <4>2. original'[me][v] = vector[v] /\ vector'[v] = me
        BY <1>4, <3>2, <2>1 DEF IInv, OnTop, TypeOK
      <4>3. Hangs(me, original', v, Holders(v) \cup {me})
        BY <1>1, <1>4, <3>1, <4>1, <4>2, PushChain
      <4> QED
        BY <4>1, <4>2, <4>3
    <3>3. CASE v # Hooked[k]
      <4>1. Holders(v)' = Holders(v)
        BY <1>1, <1>2, <2>1, <2>2, <2>3, <2>4, <3>3 DEF Holders
      <4>2. vector'[v] = vector[v]
        BY <1>4, <3>3 DEF IInv, TypeOK
      <4> QED
        BY <1>4, <3>1, <4>1, <4>2
    <3> QED
      BY <3>2, <3>3
  <2> QED
    BY <2>5, <2>6, <2>7, <2>8, <2>9 DEF IInv
<1> QED
  BY <1>3, <1>4 DEF install_interrupt_handlers

(* Each vector is given back what the instance found; it is first in the   *)
(* chain, though the loop does not look.                                   *)
LEMMA RestoreKeeps ==
  ASSUME IInv, restore_interrupt_handlers
  PROVE  IInv'
<1> USE DEF driver, blocks, Same
<1>1. /\ resident \in Instances /\ resident \in memory
      /\ resident \in Programs /\ resident \notin Others
      /\ k \in 1..3 /\ k \in DOMAIN Hooked /\ pc = "restore"
  BY HookedVectors, NoOtherIsAnInstance DEF IInv, TypeOK, Where, restore_interrupt_handlers
<1>2. /\ UNCHANGED <<original, driver, blocks, buffers, failed, me, resident, unload, runs>>
      /\ vector' = [vector EXCEPT ![Hooked[k]] = original[resident][Hooked[k]]]
      /\ IF k < Len(Hooked) THEN k' = k + 1 /\ pc' = "restore" ELSE k' = 1 /\ pc' = "done"
  BY <1>1 DEF restore_interrupt_handlers
<1>3. /\ Hooked[k] \notin Passed /\ Hooked[k] \in Vectors
      /\ pc' = "restore" => Passed' = Passed \cup {Hooked[k]}
      /\ pc' # "restore" => Passed \cup {Hooked[k]} = Vectors
      /\ pc' \in {"restore", "done"}
  BY <1>1, <1>2, PassedVectors
<1>4. \A v \in Vectors : Hooking(resident, v)' <=> v \notin Passed \cup {Hooked[k]}
  BY <1>1, <1>2, <1>3 DEF Hooking, AtRest
<1>5. \A v \in Vectors : Hooking(resident, v) <=> v \notin Passed
  BY <1>1 DEF Hooking, AtRest
<1>6. \A i \in Instances \ {resident} : \A v \in Vectors : Hooking(i, v)' <=> Hooking(i, v)
  BY <1>1, <1>2, <1>3 DEF Hooking, AtRest
<1>7. TypeOK'
  <2>1. original[resident][Hooked[k]] \in Programs \cup {Bios, None}
    BY <1>1, <1>3 DEF IInv, TypeOK
  <2> QED
    BY <1>1, <1>2, <1>3, <2>1, HookedVectors DEF IInv, TypeOK
<1>8. Where'
  BY <1>1, <1>2, <1>3 DEF IInv, Where, Labels
<1>9. Receivers' /\ Unleaked'
  BY <1>1, <1>2, <1>3 DEF IInv, Receivers, Receiving, AtRest, Unleaked, ReceiverIsThere
<1>10. OnTop'
  BY <1>1, <1>2, <1>3, <1>4, <1>5 DEF IInv, TypeOK, OnTop
<1>11. ChainsHang'
  <2> SUFFICES ASSUME NEW v \in Vectors
               PROVE  Hangs(vector'[v], original', v, Holders(v)')
    BY DEF ChainsHang
  <2>1. Hangs(vector[v], original, v, Holders(v))
    BY DEF IInv, ChainsHang
  <2>2. CASE v = Hooked[k]
    <3>1. vector[v] = resident
      BY <1>1, <1>3, <1>5, <2>2 DEF IInv, OnTop
    <3>2. Hangs(original[resident][v], original, v, Holders(v) \ {resident})
      BY <1>1, <2>1, <3>1, PopChain
    <3>3. Holders(v)' = Holders(v) \ {resident}
      BY <1>1, <1>2, <1>3, <1>4, <1>6, <2>2 DEF Holders
    <3>4. vector'[v] = original[resident][v]
      BY <1>2, <1>3, <2>2 DEF IInv, TypeOK
    <3> QED
      BY <1>2, <3>2, <3>3, <3>4
  <2>3. CASE v # Hooked[k]
    <3>1. Holders(v)' = Holders(v)
      BY <1>1, <1>2, <1>3, <1>4, <1>5, <1>6, <2>3 DEF Holders
    <3>2. vector'[v] = vector[v]
      BY <1>2, <2>3 DEF IInv, TypeOK
    <3> QED
      BY <1>2, <2>1, <3>1, <3>2
  <2> QED
    BY <2>2, <2>3
<1> QED
  BY <1>7, <1>8, <1>9, <1>10, <1>11 DEF IInv

(* Other programs push themselves onto the chains of their vectors, *)
LEMMA LoadKeeps ==
  ASSUME IInv, NEW o \in Others, Load(o)
  PROVE  IInv'
<1> USE DEF driver, blocks, main
<1>1. o \in Programs /\ o \notin Instances /\ o \notin memory /\ pc = "prompt"
  BY NoOtherIsAnInstance DEF Load
<1>2. /\ UNCHANGED <<driver, environment, buffers, main, failed>>
      /\ memory' = memory \cup {o}
      /\ vector' = [v \in Vectors |-> IF v \in Hooks[o] THEN o ELSE vector[v]]
      /\ original' = [original EXCEPT ![o] =
                        [v \in Vectors |-> IF v \in Hooks[o] THEN vector[v] ELSE @[v]]]
  BY DEF Load
<1>3. TypeOK'
  BY <1>1, <1>2 DEF IInv, TypeOK
<1>4. Where' /\ Receivers' /\ Unleaked'
  BY <1>1, <1>2 DEF IInv, Where, Receivers, Receiving, AtRest, Unleaked, ReceiverIsThere
<1>5. OnTop'
  BY <1>1, <1>2 DEF OnTop
<1>6. ChainsHang'
  <2> SUFFICES ASSUME NEW v \in Vectors
               PROVE  Hangs(vector'[v], original', v, Holders(v)')
    BY DEF ChainsHang
  <2>1. Hangs(vector[v], original, v, Holders(v)) /\ o \notin Holders(v)
    BY <1>1, HoldersArePrograms DEF IInv, ChainsHang
  <2>2. Holders(v)' = Holders(v) \cup (IF v \in Hooks[o] THEN {o} ELSE {})
    BY <1>1, <1>2 DEF Holders, Hooking, AtRest, Passed
  <2>3. \A q \in Holders(v) : original'[q][v] = original[q][v]
    BY <1>2, <2>1, HoldersArePrograms DEF IInv, TypeOK
  <2>4. CASE v \in Hooks[o]
    <3>1. vector'[v] = o /\ original'[o][v] = vector[v]
      BY <1>1, <1>2, <2>4 DEF IInv, TypeOK
    <3>2. Hangs(o, original', v, Holders(v) \cup {o})
      BY <1>1, <2>1, <2>3, <3>1, PushChain
    <3> QED
      BY <2>2, <2>4, <3>1, <3>2
  <2>5. CASE v \notin Hooks[o]
    <3>1. vector'[v] = vector[v] /\ Holders(v)' = Holders(v)
      BY <1>2, <2>2, <2>5
    <3> QED
      BY <2>1, <2>3, <3>1, SameChain
  <2> QED
    BY <2>4, <2>5
<1> QED
  BY <1>3, <1>4, <1>5, <1>6 DEF IInv

(* and, being polite, pop themselves off when they are first in them all.  *)
LEMMA UnloadKeeps ==
  ASSUME IInv, NEW o \in Others, Unload(o)
  PROVE  IInv'
<1> USE DEF driver, blocks, main
<1>1. o \in Programs /\ o \notin Instances /\ o \in memory /\ pc = "prompt"
      /\ \A v \in Hooks[o] : vector[v] = o
  BY NoOtherIsAnInstance DEF Unload
<1>2. /\ UNCHANGED <<driver, environment, buffers, main, failed>>
      /\ memory' = memory \ {o}
      /\ vector' = [v \in Vectors |-> IF v \in Hooks[o] THEN original[o][v] ELSE vector[v]]
      /\ original' = [original EXCEPT ![o] = [v \in Vectors |-> None]]
  BY DEF Unload
<1>3. TypeOK'
  BY <1>1, <1>2 DEF IInv, TypeOK
<1>4. Where' /\ Receivers' /\ Unleaked'
  BY <1>1, <1>2 DEF IInv, TypeOK, Where, Receivers, Receiving, AtRest, Unleaked, ReceiverIsThere
<1>5. OnTop'
  BY <1>1, <1>2 DEF OnTop
<1>6. ChainsHang'
  <2> SUFFICES ASSUME NEW v \in Vectors
               PROVE  Hangs(vector'[v], original', v, Holders(v)')
    BY DEF ChainsHang
  <2>1. Hangs(vector[v], original, v, Holders(v))
    BY DEF IInv, ChainsHang
  <2>2. Holders(v)' = Holders(v) \ {o}
    BY <1>1, <1>2 DEF Holders, Hooking, AtRest, Passed
  <2>3. \A q \in Holders(v) \ {o} : original'[q][v] = original[q][v]
    BY <1>2, HoldersArePrograms DEF IInv, TypeOK
  <2>4. CASE v \in Hooks[o]
    <3>1. vector[v] = o /\ vector'[v] = original[o][v]
      BY <1>1, <1>2, <2>4
    <3>2. Hangs(original[o][v], original', v, Holders(v) \ {o})
      BY <1>1, <2>1, <2>3, <3>1, PopChain
    <3> QED
      BY <2>2, <3>1, <3>2
  <2>5. CASE v \notin Hooks[o]
    <3>1. vector'[v] = vector[v] /\ o \notin Holders(v)
      BY <1>1, <1>2, <2>5 DEF Holders
    <3> QED
      BY <2>1, <2>2, <2>3, <3>1, SameChain
  <2> QED
    BY <2>4, <2>5
<1> QED
  BY <1>3, <1>4, <1>5, <1>6 DEF IInv

-----------------------------------------------------------------------------
LEMMA InitInvariant == Init => IInv
<1> SUFFICES ASSUME Init  PROVE IInv
  OBVIOUS
<1>1. \A v \in Vectors : vector[v] = Bios /\ Holders(v) = {}
  BY DEF Init, Holders
<1>2. ChainsHang
  BY <1>1, EmptyChain DEF ChainsHang
<1>3. TypeOK
  <2>1. vector \in [Vectors -> Programs \cup {Bios, None}]
    BY DEF Init
  <2>2. original \in [Programs -> [Vectors -> Programs \cup {Bios, None}]]
    BY DEF Init
  <2>3. g_pktdrv_handle \in [Instances -> BOOLEAN] /\ \A i \in Instances : ~g_pktdrv_handle[i]
    BY DEF Init
  <2>4. k \in DOMAIN Hooked /\ runs \in 0..MaxRuns /\ me \in 0..runs /\ resident \in 0..me
    BY ResidentAssumption, HookedVectors DEF Init
  <2> QED
    BY <2>1, <2>2, <2>3, <2>4 DEF Init, TypeOK
<1>4. Where /\ Receivers /\ Unleaked /\ OnTop
  BY DEF Init, Where, Labels, Receivers, Unleaked, ReceiverIsThere, OnTop
<1> QED
  BY <1>2, <1>3, <1>4 DEF IInv

LEMMA NextInvariant == IInv /\ [Next]_vars => IInv'
<1> SUFFICES ASSUME IInv, [Next]_vars  PROVE IInv'
  OBVIOUS
<1>1. CASE Run
  BY <1>1, RunKeeps
<1>2. CASE Main
  BY <1>2, InstallCheckKeeps, InitialiseKeeps, AccessTypeKeeps, DriverInfoKeeps, InstallKeeps,
     GoResidentKeeps, UninstallKeeps, RestoreKeeps, PktdrvDoneKeeps, FreeMemoryKeeps, ExitKeeps
  DEF Main
<1>3. CASE \E o \in Others : Load(o) \/ Unload(o)
  BY <1>3, LoadKeeps, UnloadKeeps
<1>4. CASE UNCHANGED vars
  <2> USE <1>4 DEF vars, driver, blocks, main
  <2>1. TypeOK' /\ Where' /\ Receivers' /\ Unleaked'
    BY DEF IInv, TypeOK, Where, Receivers, Receiving, AtRest, Unleaked, ReceiverIsThere
  <2>2. OnTop'
    BY DEF IInv, OnTop, Hooking, AtRest, Passed
  <2>3. \A v \in Vectors : Holders(v)' = Holders(v)
    BY DEF Holders, Hooking, AtRest, Passed
  <2>4. ChainsHang'
    BY <2>3, ChainsKeep
  <2> QED
    BY <2>1, <2>2, <2>4 DEF IInv
<1> QED
  BY <1>1, <1>2, <1>3, <1>4 DEF Next

-----------------------------------------------------------------------------
(* The state of main, of the vectors and of the blocks of memory is well   *)
(* formed whatever the user runs and whichever calls fail: in particular a *)
(* g_pktdrv_handle that is not 0 is the handle of the receiver that the    *)
(* packet driver knows, so that pktdrv_done releases its own.              *)
THEOREM TypeCorrect == Spec => []TypeOK
<1>1. IInv => TypeOK
  BY DEF IInv
<1> QED
  BY <1>1, InitInvariant, NextInvariant, PTL DEF Spec

(* Between any two stores of install_interrupt_handlers and                *)
(* restore_interrupt_handlers, every interrupt runs only code that is in   *)
(* memory and comes to the BIOS, however many other programs hook the      *)
(* vectors, before and after, and whatever fails.                          *)
THEOREM ChainsStayWhole == Spec => []ChainsAreWhole
<1>1. ASSUME IInv  PROVE ChainsAreWhole
  <2> SUFFICES ASSUME NEW v \in Vectors
               PROVE  /\ \A n \in Depth : Chain(v)[n] \in memory \cup {Bios}
                      /\ Reaches(v, Bios)
    BY DEF ChainsAreWhole
  <2>1. Hangs(vector[v], original, v, Holders(v))
    BY <1>1 DEF IInv, ChainsHang
  <2> QED
    BY <2>1, ChainOf, HoldersArePrograms
<1> QED
  BY <1>1, InitInvariant, NextInvariant, PTL DEF Spec

(* The packet driver calls up only a program that is in memory and has run *)
(* buffer_init, at any moment, unless one of driver_info, get_address and  *)
(* release_type has failed: pktdrv_init then returns with its receiver in  *)
(* place, and resident_do_uninstall goes on to free its memory.            *)
THEOREM ReceiverStaysUnlessLeaked == Spec => []ReceiverIsThereUnlessLeaked
<1>1. IInv => ReceiverIsThereUnlessLeaked
  BY DEF IInv, Unleaked, ReceiverIsThereUnlessLeaked
<1> QED
  BY <1>1, InitInvariant, NextInvariant, PTL DEF Spec

(* Who an interrupt comes to: the programs that the inductive invariant    *)
(* puts in the chain, and no other.                                        *)
LEMMA WhoIsReached ==
  ASSUME IInv, NEW v \in Vectors, NEW p \in Programs
  PROVE  Reaches(v, p) <=> p \in Holders(v)
<1>1. Hangs(vector[v], original, v, Holders(v))
  BY DEF IInv, ChainsHang
<1> QED
  BY <1>1, ChainOf

(* When main is over, whether it installed, refused, failed or removed an  *)
(* instance, every instance is installed in full - three vectors, the      *)
(* receiver, its memory, no environment - or has left nothing behind in    *)
(* the vectors and in memory.                                              *)
THEOREM InstalledOrGone == Spec => []AllOrNothing
<1>1. ASSUME IInv  PROVE AllOrNothing
  <2> SUFFICES ASSUME pc = "prompt", NEW i \in Instances  PROVE Installed(i) \/ Gone(i)
    BY DEF AllOrNothing
  <2>1. /\ environment = {}
        /\ i \in Programs
    BY <1>1, NoOtherIsAnInstance DEF IInv, Where
  <2>2. \A v \in Vectors : Reaches(v, i) <=> i \in Holders(v)
    BY <1>1, <2>1, WhoIsReached
  <2>3. CASE i \in memory
    <3>1. AtRest(i)
      BY DEF AtRest
    <3>2. receiver = i
      BY <1>1, <2>3, <3>1 DEF IInv, Receivers, Receiving
    <3>3. \A v \in Vectors : i \in Holders(v)
      BY <2>3, <3>1 DEF Holders, Hooking
    <3> QED
      BY <2>1, <2>2, <2>3, <3>2, <3>3 DEF Installed
  <2>4. CASE i \notin memory
    <3>1. \A v \in Vectors : i \notin Holders(v)
      BY <2>4, HoldersArePrograms
    <3> QED
      BY <2>1, <2>2, <2>4, <3>1 DEF Gone
  <2> QED
    BY <2>3, <2>4
<1> QED
  BY <1>1, InitInvariant, NextInvariant, PTL DEF Spec

(* Nobody else's hook is lost when the program comes or goes: a vector is  *)
(* restored only under a resident_uninstall_check, or before anybody else  *)
(* could hook it.                                                          *)
THEOREM NobodyIsUnhooked == Spec => []OthersStayHooked
<1>1. ASSUME IInv  PROVE OthersStayHooked
  <2> SUFFICES ASSUME NEW o \in Others, o \in memory, NEW v \in Hooks[o]  PROVE Reaches(v, o)
    BY DEF OthersStayHooked
  <2>1. v \in Vectors /\ o \in Programs
    BY ResidentAssumption, NoOtherIsAnInstance
  <2>2. o \in Holders(v)
    BY DEF Holders
  <2> QED
    BY <1>1, <2>1, <2>2, WhoIsReached
<1> QED
  BY <1>1, InitInvariant, NextInvariant, PTL DEF Spec
===============================================================================
