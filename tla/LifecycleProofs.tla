--------------------------- MODULE LifecycleProofs ---------------------------
(***************************************************************************)
(* Proofs about Lifecycle, for every set of names, paths, files, devices   *)
(* and connections, and every bound.                                       *)
(*                                                                         *)
(* ThreadInv says what main, reload and spawn know of each other at each   *)
(* place, AppliedInv how far the configuration being applied is served,    *)
(* LinkInv what a thread may still conclude from its last look at a        *)
(* symlink's path.                                                         *)
(***************************************************************************)
EXTENDS Lifecycle, FiniteSetTheorems, SequenceTheorems, TLAPS

USE DEF process_vars, control_vars, count_vars, outside_vars, history_vars, vars,
        spawn_unchanged, reload_unchanged

Devices == Ptys \cup Ttys

(* What main, reload and spawn know at each place of theirs. *)
ThreadInv ==
  /\ main = "dead" => step = "none" /\ inst = <<>> /\ ports = <<>> /\ failed = {}
  /\ main \notin {"bind", "serving"} => reload = "wait"
  /\ main # "dead" => new_cfg \in Files
  /\ Spawning => todo # <<>> /\ (main = "spawn" \/ reload = "apply")
  /\ step \notin {"none", "open"} => device \in Devices
  /\ Spawning /\ reload = "apply" => todo[1].name \notin DOMAIN ports
  /\ reload \in {"wait", "load"} => kept = <<>>

LifecycleTypeInv == TypeOK /\ ThreadInv

(* How many port configurations main or reload has done with. *)
Done == Len(new_cfg) - Len(todo)

(* new_cfg[k] is served: its port is in the map, with its rules. *)
Served(k) ==
  /\ new_cfg[k].name \in DOMAIN ports
  /\ inst[ports[new_cfg[k].name]].rules = new_cfg[k].rules

Booting == main = "spawn"

Applying == reload \in {"apply", "remove"}

TodoIsRest ==
  Booting \/ Applying =>
    /\ Len(todo) <= Len(new_cfg)
    /\ \A j \in DOMAIN todo : todo[j] = new_cfg[Done + j]

AppliedInv ==
  /\ TodoIsRest
  /\ failed \cap DOMAIN ports = {}
  /\ Booting => /\ failed = {}
                /\ \A n \in DOMAIN ports : \E k \in 1..Done : n = new_cfg[k].name
  /\ Booting \/ Applying => failed \subseteq {new_cfg[k].name : k \in 1..Done}
  /\ Booting \/ Applying => \A k \in 1..Done : new_cfg[k].name \notin failed => Served(k)
  /\ Applying => DOMAIN ports \subseteq existing \cup Names(new_cfg)
  /\ reload = "remove" => todo = <<>>
  /\ AppliedIsServed

ReloadInv ==
  main # "dead" /\ reload # "load" /\ ~pending /\ ~dirty /\ file # Invalid => new_cfg = file

KeptInv == KeptPortUntouched /\ \A n \in DOMAIN kept : n \in Names(new_cfg)

(* What a look at the path p still tells the thread that took it, unless   *)
(* somebody raced for p.                                                   *)
LookedAt(p) ==
  /\ \A i \in DOMAIN inst : inst[i].state = "unlinking" /\ inst[i].link = p
                              => links[p] = inst[i].device
  /\ Spawning /\ todo[1].symlink = p =>
       /\ step = "unlink" => IsSymlink(p)
       /\ step = "symlink" => links[p] = None

(* The device of the link that is made at p differs from those of every    *)
(* instance that had a link there.                                         *)
FreshlyMade(p) ==
  /\ step = "start" /\ todo[1].symlink = p /\ links[p] # UserFile
  /\ \A j \in DOMAIN inst : inst[j].link = p => inst[j].device # device
  => links[p] = device

(* LinkServed, also while another port is spawned. *)
Claimed(p) ==
  \A i \in Claimant(p) :
    /\ inst[i].state = "open"
    /\ links[p] # UserFile
    /\ ~(step \in {"symlink", "start"} /\ todo[1].symlink = p)
    /\ \A j \in DOMAIN inst : j # i /\ inst[j].link = p => inst[j].device # inst[i].device
    => links[p] = inst[i].device

LinkInv == \A p \in Path \ raced : LookedAt(p) /\ FreshlyMade(p) /\ Claimed(p)

-----------------------------------------------------------------------------
(* What the operators on sequences return. *)

(* A file names no port twice. *)
LEMMA NamesDistinct ==
  ASSUME NEW f \in Files, NEW i \in DOMAIN f, NEW j \in DOMAIN f, f[i].name = f[j].name
  PROVE  i = j
<1> DEFINE g == [k \in 1..Len(f) |-> f[k].name]
<1>1. f \in Seq(PortConfig) /\ Cardinality(Names(f)) = Len(f)
  BY LifecycleAssumption
<1>2. Len(f) \in Nat /\ DOMAIN f = 1..Len(f)
  BY <1>1
<1>3. g \in Surjection(1..Len(f), Names(f))
  BY <1>2 DEF Surjection, Names
<1>4. IsFiniteSet(1..Len(f)) /\ Cardinality(1..Len(f)) = Len(f)
  <2>1. 1 \in Int /\ Len(f) \in Int
    BY <1>2
  <2>2. /\ IsFiniteSet(1..Len(f))
        /\ Cardinality(1..Len(f)) = IF 1 > Len(f) THEN 0 ELSE Len(f) - 1 + 1
    BY <2>1, FS_Interval, Zenon
  <2> QED BY <1>2, <2>2
<1> HIDE DEF g
<1>5. g \in Injection(1..Len(f), Names(f))
  BY <1>1, <1>3, <1>4, FS_Surjection
<1>6. \A m, n \in 1..Len(f) : g[m] = g[n] => m = n
  BY <1>5 DEF Injection, IsInjective
<1> QED BY <1>2, <1>6 DEF g

(* The configurations in a file are configurations of ports. *)
LEMMA FileTyped ==
  ASSUME NEW f \in Files
  PROVE  /\ f \in Seq(PortConfig) /\ Len(f) \in Nat /\ DOMAIN f = 1..Len(f)
         /\ \A k \in DOMAIN f : f[k] \in PortConfig /\ f[k].name \in Names(f)
<1>1. f \in Seq(PortConfig)
  BY LifecycleAssumption
<1> QED BY <1>1, ElementOfSeq, LenProperties DEF Names

(* Head and tail of what is left to do. *)
LEMMA TodoTail ==
  ASSUME todo \in Seq(PortConfig), todo # <<>>
  PROVE  /\ todo[1] \in PortConfig
         /\ Len(todo) \in Nat /\ Len(todo) >= 1 /\ DOMAIN todo = 1..Len(todo)
         /\ Tail(todo) \in Seq(PortConfig)
         /\ Len(Tail(todo)) = Len(todo) - 1
         /\ DOMAIN Tail(todo) = 1..(Len(todo) - 1)
         /\ \A j \in 1..(Len(todo) - 1) : Tail(todo)[j] = todo[j + 1]
  BY HeadTailProperties, ElementOfSeq, LenProperties

(* One field of one instance changes. *)
LEMMA InstRules ==
  ASSUME inst \in Seq(Instance), NEW i \in DOMAIN inst, NEW v \in Rules,
         NEW r, r = [inst EXCEPT ![i].rules = v]
  PROVE  /\ r \in Seq(Instance) /\ DOMAIN r = DOMAIN inst
         /\ \A j \in DOMAIN inst :
              /\ inst[j] \in Instance
              /\ r[j].name = inst[j].name
              /\ r[j].device = inst[j].device
              /\ r[j].link = inst[j].link
              /\ r[j].rules = IF j = i THEN v ELSE inst[j].rules
              /\ r[j].reader = inst[j].reader
              /\ r[j].state = inst[j].state
<1>1. inst[i] \in Instance /\ DOMAIN inst = 1..Len(inst)
  BY ElementOfSeq, LenProperties
<1>2. [inst[i] EXCEPT !.rules = v] \in Instance
  BY <1>1 DEF Instance
<1>3. /\ r \in Seq(Instance) /\ Len(r) = Len(inst)
      /\ \A j \in 1..Len(inst) : r[j] = IF j = i THEN [inst[i] EXCEPT !.rules = v] ELSE inst[j]
  BY <1>1, <1>2, ExceptSeq
<1>4. \A j \in DOMAIN inst : inst[j] \in Instance
  BY <1>1, ElementOfSeq
<1>5. DOMAIN r = 1..Len(inst)
  BY <1>3, LenProperties
<1> QED BY <1>1, <1>3, <1>4, <1>5 DEF Instance

LEMMA InstReader ==
  ASSUME inst \in Seq(Instance), NEW i \in DOMAIN inst, NEW v \in {"reading", "exited"},
         NEW r, r = [inst EXCEPT ![i].reader = v]
  PROVE  /\ r \in Seq(Instance) /\ DOMAIN r = DOMAIN inst
         /\ \A j \in DOMAIN inst :
              /\ inst[j] \in Instance
              /\ r[j].name = inst[j].name
              /\ r[j].device = inst[j].device
              /\ r[j].link = inst[j].link
              /\ r[j].rules = inst[j].rules
              /\ r[j].reader = IF j = i THEN v ELSE inst[j].reader
              /\ r[j].state = inst[j].state
<1>1. inst[i] \in Instance /\ DOMAIN inst = 1..Len(inst)
  BY ElementOfSeq, LenProperties
<1>2. [inst[i] EXCEPT !.reader = v] \in Instance
  BY <1>1 DEF Instance
<1>3. /\ r \in Seq(Instance) /\ Len(r) = Len(inst)
      /\ \A j \in 1..Len(inst) : r[j] = IF j = i THEN [inst[i] EXCEPT !.reader = v] ELSE inst[j]
  BY <1>1, <1>2, ExceptSeq
<1>4. \A j \in DOMAIN inst : inst[j] \in Instance
  BY <1>1, ElementOfSeq
<1>5. DOMAIN r = 1..Len(inst)
  BY <1>3, LenProperties
<1> QED BY <1>1, <1>3, <1>4, <1>5 DEF Instance

LEMMA InstState ==
  ASSUME inst \in Seq(Instance), NEW i \in DOMAIN inst,
         NEW v \in {"open", "unlinking", "dropped"},
         NEW r, r = [inst EXCEPT ![i].state = v]
  PROVE  /\ r \in Seq(Instance) /\ DOMAIN r = DOMAIN inst
         /\ \A j \in DOMAIN inst :
              /\ inst[j] \in Instance
              /\ r[j].name = inst[j].name
              /\ r[j].device = inst[j].device
              /\ r[j].link = inst[j].link
              /\ r[j].rules = inst[j].rules
              /\ r[j].reader = inst[j].reader
              /\ r[j].state = IF j = i THEN v ELSE inst[j].state
<1>1. inst[i] \in Instance /\ DOMAIN inst = 1..Len(inst)
  BY ElementOfSeq, LenProperties
<1>2. [inst[i] EXCEPT !.state = v] \in Instance
  BY <1>1 DEF Instance
<1>3. /\ r \in Seq(Instance) /\ Len(r) = Len(inst)
      /\ \A j \in 1..Len(inst) : r[j] = IF j = i THEN [inst[i] EXCEPT !.state = v] ELSE inst[j]
  BY <1>1, <1>2, ExceptSeq
<1>4. \A j \in DOMAIN inst : inst[j] \in Instance
  BY <1>1, ElementOfSeq
<1>5. DOMAIN r = 1..Len(inst)
  BY <1>3, LenProperties
<1> QED BY <1>1, <1>3, <1>4, <1>5 DEF Instance

(* The name, the device and the link of an instance never change. *)
Lasting(j) ==
  inst'[j].name = inst[j].name /\ inst'[j].device = inst[j].device /\ inst'[j].link = inst[j].link

(* What the actions that change an instance do to the list of instances. *)
LEMMA SwapInst ==
  ASSUME TypeOK, Swap
  PROVE  /\ todo[1] \in PortConfig /\ ports[todo[1].name] \in DOMAIN inst
         /\ inst' \in Seq(Instance) /\ DOMAIN inst' = DOMAIN inst
         /\ \A j \in DOMAIN inst :
              /\ Lasting(j) /\ inst'[j].state = inst[j].state
              /\ inst'[j].rules = IF j = ports[todo[1].name] THEN todo[1].rules ELSE inst[j].rules
<1> DEFINE i == ports[todo[1].name]
           v == todo[1].rules
<1>1. inst \in Seq(Instance) /\ todo[1] \in PortConfig
  BY TodoTail DEF TypeOK, Swap
<1>2. i \in DOMAIN inst /\ v \in Rules
  BY <1>1 DEF TypeOK, Swap, PortConfig
<1>3. inst' = [inst EXCEPT ![i].rules = v]
  BY DEF Swap
<1> HIDE DEF i, v
<1>4. /\ inst' \in Seq(Instance) /\ DOMAIN inst' = DOMAIN inst
      /\ \A j \in DOMAIN inst :
           /\ Lasting(j) /\ inst'[j].state = inst[j].state
           /\ inst'[j].rules = IF j = i THEN v ELSE inst[j].rules
  BY <1>1, <1>2, <1>3, InstRules DEF Lasting
<1> QED BY <1>1, <1>2, <1>4 DEF i, v

LEMMA ReaderExitInst ==
  ASSUME TypeOK, NEW i \in DOMAIN inst, ReaderExit(i)
  PROVE  /\ inst' \in Seq(Instance) /\ DOMAIN inst' = DOMAIN inst
         /\ \A j \in DOMAIN inst :
              /\ Lasting(j) /\ inst'[j].state = inst[j].state /\ inst'[j].rules = inst[j].rules
<1>1. inst \in Seq(Instance) /\ "exited" \in {"reading", "exited"}
  BY DEF TypeOK
<1>2. inst' = [inst EXCEPT ![i].reader = "exited"]
  BY DEF ReaderExit
<1> QED BY <1>1, <1>2, InstReader DEF Lasting

LEMMA DropCheckInst ==
  ASSUME TypeOK, NEW i \in DOMAIN inst, DropCheck(i)
  PROVE  /\ inst' \in Seq(Instance) /\ DOMAIN inst' = DOMAIN inst
         /\ \A j \in DOMAIN inst :
              /\ Lasting(j) /\ inst'[j].rules = inst[j].rules
              /\ j # i => inst'[j].state = inst[j].state
         /\ inst'[i].state \in {"unlinking", "dropped"}
         /\ inst'[i].state = "unlinking" => links[inst[i].link] = inst[i].device
<1> DEFINE v == IF inst[i].link # None /\ links[inst[i].link] = inst[i].device
                THEN "unlinking" ELSE "dropped"
<1>1. inst \in Seq(Instance) /\ v \in {"open", "unlinking", "dropped"}
  BY DEF TypeOK
<1>2. inst' = [inst EXCEPT ![i].state = v]
  BY DEF DropCheck
<1>3. /\ v \in {"unlinking", "dropped"}
      /\ v = "unlinking" => links[inst[i].link] = inst[i].device
  OBVIOUS
<1> HIDE DEF v
<1> QED BY <1>1, <1>2, <1>3, InstState DEF Lasting

LEMMA DropUnlinkInst ==
  ASSUME TypeOK, NEW i \in DOMAIN inst, DropUnlink(i)
  PROVE  /\ inst' \in Seq(Instance) /\ DOMAIN inst' = DOMAIN inst
         /\ \A j \in DOMAIN inst :
              /\ Lasting(j) /\ inst'[j].rules = inst[j].rules
              /\ inst'[j].state = IF j = i THEN "dropped" ELSE inst[j].state
<1>1. inst \in Seq(Instance) /\ "dropped" \in {"open", "unlinking", "dropped"}
  BY DEF TypeOK
<1>2. inst' = [inst EXCEPT ![i].state = "dropped"]
  BY DEF DropUnlink
<1> QED BY <1>1, <1>2, InstState DEF Lasting

(* Start gives the map a new instance, the last one. *)
LEMMA InstAppended ==
  ASSUME TypeOK, Start, todo[1] \in PortConfig, device \in Devices
  PROVE  /\ Len(inst) \in Nat /\ DOMAIN inst = 1..Len(inst)
         /\ inst' \in Seq(Instance) /\ DOMAIN inst' = 1..(Len(inst) + 1)
         /\ \A j \in DOMAIN inst : inst[j] \in Instance /\ inst'[j] = inst[j]
         /\ inst'[Len(inst) + 1] =
              [name |-> todo[1].name, device |-> device,
               link |-> IF step = "start" THEN todo[1].symlink ELSE None,
               rules |-> todo[1].rules, reader |-> "reading", state |-> "open"]
<1> DEFINE r == [name |-> todo[1].name, device |-> device,
                 link |-> IF step = "start" THEN todo[1].symlink ELSE None,
                 rules |-> todo[1].rules, reader |-> "reading", state |-> "open"]
<1>1. inst \in Seq(Instance) /\ inst' = Append(inst, r)
  BY DEF TypeOK, Start
<1>2. r \in Instance
  BY DEF Instance, PortConfig, Devices
<1> HIDE DEF r
<1>3. /\ Append(inst, r) \in Seq(Instance) /\ Len(Append(inst, r)) = Len(inst) + 1
      /\ \A j \in 1..Len(inst) : Append(inst, r)[j] = inst[j]
      /\ Append(inst, r)[Len(inst) + 1] = r
  BY <1>1, <1>2, AppendProperties
<1>4. \A j \in 1..Len(inst) : inst[j] \in Instance
  BY <1>1, ElementOfSeq
<1> QED BY <1>1, <1>3, <1>4, LenProperties DEF r

-----------------------------------------------------------------------------
(* Types, and what the threads know of each other. *)

LEMMA TypeInit == Init => LifecycleTypeInv
<1>1. /\ <<>> \in Seq(PortConfig) /\ <<>> \in Seq(Instance)
      /\ DOMAIN <<>> = {}
  OBVIOUS
<1>2. Init => TypeOK
  BY <1>1, LifecycleAssumption DEF Init, TypeOK
<1>3. Init => ThreadInv
  BY DEF Init, ThreadInv, Spawning
<1> QED BY <1>2, <1>3 DEF LifecycleTypeInv

(* The end of the process leaves a well-formed world. *)
LEMMA TypeExit ==
  ASSUME TypeOK, NEW how, Exit(how)
  PROVE  LifecycleTypeInv'
<1>1. /\ <<>> \in Seq(PortConfig) /\ <<>> \in Seq(Instance)
      /\ DOMAIN <<>> = {}
  OBVIOUS
<1>2. TypeOK'
  BY <1>1 DEF Exit, TypeOK
<1>3. ThreadInv'
  BY DEF Exit, ThreadInv, Spawning
<1> QED BY <1>2, <1>3 DEF LifecycleTypeInv

(* The device that transport::open returns is a device. *)
LEMMA OpenableIsDevice ==
  ASSUME NEW transport \in {Pty} \cup Ttys
  PROVE  Openable(transport) \subseteq Devices
  BY DEF Openable, Devices, Ptys

LEMMA TypeStep == LifecycleTypeInv /\ [Next]_vars => LifecycleTypeInv'
<1> SUFFICES ASSUME LifecycleTypeInv, [Next]_vars
             PROVE  LifecycleTypeInv'
  OBVIOUS
<1> USE DEF LifecycleTypeInv
<1>t. TypeOK /\ ThreadInv
  OBVIOUS
<1>s. ASSUME Spawning
      PROVE  /\ todo # <<>> /\ todo[1] \in PortConfig
             /\ todo[1].name \in Name /\ todo[1].transport \in {Pty} \cup Ttys
             /\ todo[1].symlink \in Path \cup {None} /\ todo[1].rules \in Rules
             /\ Tail(todo) \in Seq(PortConfig)
             /\ main \in {"spawn", "bind", "serving"}
  <2>1. todo # <<>> /\ todo \in Seq(PortConfig)
    BY <1>s DEF TypeOK, ThreadInv
  <2>2. todo[1] \in PortConfig /\ Tail(todo) \in Seq(PortConfig)
    BY <2>1, TodoTail
  <2>. QED
    BY <1>s, <2>1, <2>2 DEF PortConfig, TypeOK, ThreadInv
<1>1. CASE Serve
  BY <1>1, FileTyped DEF Serve, TypeOK, ThreadInv, Spawning
<1>2. CASE MainStep
  BY <1>2 DEF MainStep, TypeOK, ThreadInv, Spawning
<1>3. CASE MainFails
  BY <1>3, TypeExit DEF MainFails
<1>4. CASE Open
  <2>1. Spawning
    BY <1>4 DEF Open, Spawning
  <2>2. device' \in Devices
    BY <1>4, <1>s, <2>1, OpenableIsDevice DEF Open
  <2>. QED
    BY <1>4, <2>1, <2>2 DEF Open, TypeOK, ThreadInv, Spawning, Devices
<1>5. CASE Lstat
  BY <1>5 DEF Lstat, TypeOK, ThreadInv, Spawning
<1>6. CASE Unlink
  BY <1>6 DEF Unlink, Race, TypeOK, ThreadInv, Spawning
<1>7. CASE Symlink
  BY <1>7 DEF Symlink, Race, TypeOK, ThreadInv, Spawning, Devices
<1>y. CASE LinkFails
  BY <1>y DEF LinkFails, Race, TypeOK, ThreadInv, Spawning
<1>8. CASE Start
  <2>1. Spawning /\ device \in Devices
    BY <1>8 DEF Start, Spawning, ThreadInv
  <2>2. inst' \in Seq(Instance)
    BY <1>8, <1>s, <2>1, InstAppended
  <2>3. /\ Len(inst) \in Nat /\ DOMAIN inst = 1..Len(inst)
        /\ DOMAIN inst' = 1..(Len(inst) + 1)
        /\ \A j \in DOMAIN inst : inst'[j] = inst[j]
        /\ inst'[Len(inst) + 1].name = todo[1].name
    BY <1>8, <1>s, <2>1, InstAppended
  <2>4. /\ DOMAIN ports' = DOMAIN ports \cup {todo[1].name}
        /\ \A n \in DOMAIN ports' : ports'[n] = IF n = todo[1].name THEN Len(inst) + 1 ELSE ports[n]
    BY <1>8 DEF Start
  <2>5. todo' = Tail(todo) /\ step' = "none" /\ device' = None
    BY <1>8 DEF Start
  <2>6. /\ conn' = conn /\ conn \in [Conn -> DOMAIN inst \cup {None}]
        /\ dropping' = dropping /\ dropping \in DOMAIN inst \cup {None}
    BY <1>8 DEF Start, TypeOK
  <2>a. DOMAIN inst \subseteq DOMAIN inst'
    BY <2>3
  <2>b. conn' \in [Conn -> DOMAIN inst' \cup {None}] /\ dropping' \in DOMAIN inst' \cup {None}
    BY <2>6, <2>a
  <2>7. \A n \in DOMAIN ports' : n \in Name /\ ports'[n] \in DOMAIN inst' /\ inst'[ports'[n]].name = n
    BY <1>s, <2>1, <2>3, <2>4 DEF TypeOK
  <2>8. TypeOK'
    BY <1>8, <1>s, <2>1, <2>2, <2>5, <2>b, <2>7 DEF Start, TypeOK
  <2>9. ThreadInv'
    BY <1>8, <1>s, <2>1, <2>5 DEF Start, ThreadInv, Spawning
  <2>. QED
    BY <2>8, <2>9
<1>9. CASE OpenFails
  <2>1. Spawning
    BY <1>9 DEF OpenFails, Spawning
  <2>2. CASE main = "spawn"
    BY <1>9, <2>2, TypeExit DEF OpenFails
  <2>3. CASE main # "spawn"
    BY <1>9, <1>s, <2>1, <2>3 DEF OpenFails, TypeOK, ThreadInv, Spawning
  <2>. QED
    BY <2>2, <2>3
<1>10. CASE TakeSignal
  BY <1>10 DEF TakeSignal, Installed, TypeOK, ThreadInv, Spawning
<1>11. CASE Load
  BY <1>11, FileTyped DEF Load, TypeOK, ThreadInv, Spawning
<1>12. CASE Swap
  <2>1. /\ inst' \in Seq(Instance) /\ DOMAIN inst' = DOMAIN inst
        /\ \A j \in DOMAIN inst : inst'[j].name = inst[j].name
    BY <1>t, <1>12, SwapInst DEF Lasting
  <2>2. Tail(todo) \in Seq(PortConfig)
    BY <1>t, <1>12, TodoTail DEF Swap, TypeOK
  <2>. QED
    BY <1>12, <2>1, <2>2 DEF Swap, TypeOK, ThreadInv, Spawning
<1>13. CASE SpawnNew
  BY <1>13 DEF SpawnNew, TypeOK, ThreadInv, Spawning
<1>14. CASE AllApplied
  BY <1>14 DEF AllApplied, TypeOK, ThreadInv, Spawning
<1>15. ASSUME NEW n \in Name, Remove(n)
       PROVE  LifecycleTypeInv'
  BY <1>15 DEF Remove, TypeOK, ThreadInv, Spawning
<1>16. CASE Applied
  BY <1>16 DEF Applied, TypeOK, ThreadInv, Spawning
<1>17. ASSUME NEW i \in DOMAIN inst, ReaderExit(i)
       PROVE  LifecycleTypeInv'
  <2>1. /\ inst' \in Seq(Instance) /\ DOMAIN inst' = DOMAIN inst
        /\ \A j \in DOMAIN inst : inst'[j].name = inst[j].name
    BY <1>t, <1>17, ReaderExitInst DEF Lasting
  <2>. QED
    BY <1>17, <2>1 DEF ReaderExit, TypeOK, ThreadInv, Spawning
<1>18. ASSUME NEW i \in DOMAIN inst, DropCheck(i)
       PROVE  LifecycleTypeInv'
  <2>1. /\ inst' \in Seq(Instance) /\ DOMAIN inst' = DOMAIN inst
        /\ \A j \in DOMAIN inst : inst'[j].name = inst[j].name
    BY <1>t, <1>18, DropCheckInst DEF Lasting
  <2>. QED
    BY <1>18, <2>1 DEF DropCheck, TypeOK, ThreadInv, Spawning
<1>19. ASSUME NEW i \in DOMAIN inst, DropUnlink(i)
       PROVE  LifecycleTypeInv'
  <2>1. /\ inst' \in Seq(Instance) /\ DOMAIN inst' = DOMAIN inst
        /\ \A j \in DOMAIN inst : inst'[j].name = inst[j].name
    BY <1>t, <1>19, DropUnlinkInst DEF Lasting
  <2>2. links' \in [Path -> Ptys \cup Ttys \cup {None, UserFile}]
    BY <1>t, <1>19 DEF DropUnlink, TypeOK
  <2>3. UNCHANGED <<control_vars, ports, conn, file, gone>> /\ failed' = failed /\ kept' = kept
    BY <1>19 DEF DropUnlink
  <2>4. TypeOK'
    BY <2>1, <2>2, <2>3 DEF TypeOK
  <2>5. ThreadInv'
    BY <1>19, <2>3, <2>1 DEF ThreadInv, Spawning
  <2>. QED
    BY <2>4, <2>5
<1>20. ASSUME NEW c \in Conn, NEW n \in Name, Request(c, n)
       PROVE  LifecycleTypeInv'
  BY <1>20 DEF Request, TypeOK, ThreadInv, Spawning
<1>21. ASSUME NEW c \in Conn, Answered(c)
       PROVE  LifecycleTypeInv'
  BY <1>21 DEF Answered, TypeOK, ThreadInv, Spawning
<1>22. CASE Hup
  <2>1. CASE Installed
    BY <1>22, <2>1 DEF Hup, Installed, TypeOK, ThreadInv, Spawning
  <2>2. CASE ~Installed
    BY <1>22, <2>2, TypeExit DEF Hup
  <2>. QED
    BY <2>1, <2>2
<1>23. ASSUME NEW s, Kill(s)
       PROVE  LifecycleTypeInv'
  BY <1>23, TypeExit DEF Kill
<1>24. ASSUME NEW new \in Files \cup {Invalid}, Edit(new)
       PROVE  LifecycleTypeInv'
  BY <1>24 DEF Edit, TypeOK, ThreadInv, Spawning
<1>25. ASSUME NEW t \in Ttys, Unplug(t)
       PROVE  LifecycleTypeInv'
  BY <1>25 DEF Unplug, TypeOK, ThreadInv, Spawning
<1>26. ASSUME NEW p \in Path, Meddle(p)
       PROVE  LifecycleTypeInv'
  BY <1>26 DEF Meddle, Race, TypeOK, ThreadInv, Spawning
<1>27. CASE UNCHANGED vars
  BY <1>27 DEF TypeOK, ThreadInv, Spawning
<1>. QED
  BY <1>1, <1>2, <1>3, <1>4, <1>5, <1>6, <1>7, <1>8, <1>9, <1>10, <1>11, <1>12, <1>13, <1>14,
     <1>15, <1>16, <1>17, <1>18, <1>19, <1>20, <1>21, <1>22, <1>23, <1>24, <1>25, <1>26, <1>27, <1>y
     DEF Next, SpawnStep, ReloadStep, PortStep, Outside

-----------------------------------------------------------------------------
(* A signal is never forgotten. *)

LEMMA ReloadStepInv == LifecycleTypeInv /\ ReloadInv /\ [Next]_vars => ReloadInv'
<1> SUFFICES ASSUME LifecycleTypeInv /\ ReloadInv, [Next]_vars
             PROVE  ReloadInv'
  OBVIOUS
<1>1. CASE Serve
  BY <1>1 DEF Serve, ReloadInv
<1>2. CASE MainStep
  BY <1>2 DEF MainStep, ReloadInv
<1>3. CASE MainFails
  BY <1>3 DEF MainFails, Exit, ReloadInv
<1>4. CASE Open
  BY <1>4 DEF Open, ReloadInv
<1>5. CASE Lstat
  BY <1>5 DEF Lstat, ReloadInv
<1>6. CASE Unlink
  BY <1>6 DEF Unlink, ReloadInv
<1>7. CASE Symlink
  BY <1>7 DEF Symlink, ReloadInv
<1>y. CASE LinkFails
  BY <1>y DEF LinkFails, ReloadInv
<1>8. CASE Start
  BY <1>8 DEF Start, ReloadInv
<1>9. CASE OpenFails
  BY <1>9 DEF OpenFails, Exit, ReloadInv
<1>10. CASE TakeSignal
  BY <1>10 DEF TakeSignal, ReloadInv
<1>11. CASE Load
  BY <1>11 DEF Load, ReloadInv
<1>12. CASE Swap
  BY <1>12 DEF Swap, ReloadInv
<1>13. CASE SpawnNew
  BY <1>13 DEF SpawnNew, ReloadInv
<1>14. CASE AllApplied
  BY <1>14 DEF AllApplied, ReloadInv
<1>15. ASSUME NEW n \in Name, Remove(n)
       PROVE  ReloadInv'
  BY <1>15 DEF Remove, ReloadInv
<1>16. CASE Applied
  BY <1>16 DEF Applied, ReloadInv
<1>17. ASSUME NEW i \in DOMAIN inst, ReaderExit(i)
       PROVE  ReloadInv'
  BY <1>17 DEF ReaderExit, ReloadInv
<1>18. ASSUME NEW i \in DOMAIN inst, DropCheck(i)
       PROVE  ReloadInv'
  BY <1>18 DEF DropCheck, ReloadInv
<1>19. ASSUME NEW i \in DOMAIN inst, DropUnlink(i)
       PROVE  ReloadInv'
  BY <1>19 DEF DropUnlink, ReloadInv
<1>20. ASSUME NEW c \in Conn, NEW n \in Name, Request(c, n)
       PROVE  ReloadInv'
  BY <1>20 DEF Request, ReloadInv
<1>21. ASSUME NEW c \in Conn, Answered(c)
       PROVE  ReloadInv'
  BY <1>21 DEF Answered, ReloadInv
<1>22. CASE Hup
  BY <1>22 DEF Hup, Exit, ReloadInv
<1>23. ASSUME NEW s, Kill(s)
       PROVE  ReloadInv'
  BY <1>23 DEF Kill, Exit, ReloadInv
<1>24. ASSUME NEW new \in Files \cup {Invalid}, Edit(new)
       PROVE  ReloadInv'
  BY <1>24 DEF Edit, ReloadInv
<1>25. ASSUME NEW t \in Ttys, Unplug(t)
       PROVE  ReloadInv'
  BY <1>25 DEF Unplug, ReloadInv
<1>26. ASSUME NEW p \in Path, Meddle(p)
       PROVE  ReloadInv'
  BY <1>26 DEF Meddle, ReloadInv
<1>27. CASE UNCHANGED vars
  BY <1>27 DEF ReloadInv
<1>. QED
  BY <1>1, <1>2, <1>3, <1>4, <1>5, <1>6, <1>7, <1>8, <1>9, <1>10, <1>11, <1>12, <1>13, <1>14,
     <1>15, <1>16, <1>17, <1>18, <1>19, <1>20, <1>21, <1>22, <1>23, <1>24, <1>25, <1>26, <1>27, <1>y
     DEF Next, SpawnStep, ReloadStep, PortStep, Outside

-----------------------------------------------------------------------------
(* A port that a reload keeps stays the same instance, in the map.  *)

LEMMA KeptExit ==
  ASSUME NEW how, Exit(how)
  PROVE  KeptInv'
<1>1. kept' = <<>> /\ ports' = <<>>
  BY DEF Exit
<1>2. DOMAIN <<>> = {}
  OBVIOUS
<1> QED BY <1>1, <1>2 DEF KeptInv, KeptPortUntouched

LEMMA KeptStepInv == LifecycleTypeInv /\ KeptInv /\ [Next]_vars => KeptInv'
<1> SUFFICES ASSUME LifecycleTypeInv /\ KeptInv, [Next]_vars
             PROVE  KeptInv'
  OBVIOUS
<1>1. CASE Serve
  <2>1. kept = <<>> /\ UNCHANGED <<kept, ports, inst>>
    BY <1>1 DEF Serve, LifecycleTypeInv, ThreadInv
  <2>. QED
    BY <2>1 DEF KeptInv, KeptPortUntouched
<1>2. CASE MainStep
  BY <1>2 DEF MainStep, KeptInv, KeptPortUntouched
<1>3. CASE MainFails
  BY <1>3, KeptExit DEF MainFails
<1>4. CASE Open
  BY <1>4 DEF Open, KeptInv, KeptPortUntouched
<1>5. CASE Lstat
  BY <1>5 DEF Lstat, KeptInv, KeptPortUntouched
<1>6. CASE Unlink
  BY <1>6 DEF Unlink, KeptInv, KeptPortUntouched
<1>7. CASE Symlink
  BY <1>7 DEF Symlink, KeptInv, KeptPortUntouched
<1>y. CASE LinkFails
  BY <1>y DEF LinkFails, KeptInv, KeptPortUntouched
<1>8. CASE Start
  <2> DEFINE cfg == todo[1]
  <2>1. Spawning /\ todo[1] \in PortConfig /\ device \in Devices
    BY <1>8, TodoTail DEF Start, Spawning, LifecycleTypeInv, TypeOK, ThreadInv
  <2>2. /\ Len(inst) \in Nat /\ DOMAIN inst = 1..Len(inst)
        /\ \A j \in DOMAIN inst : inst'[j] = inst[j]
        /\ inst'[Len(inst) + 1].state = "open"
    BY <1>8, <2>1, InstAppended DEF LifecycleTypeInv
  <2>3. /\ kept' = kept /\ new_cfg' = new_cfg
        /\ DOMAIN ports' = DOMAIN ports \cup {cfg.name}
        /\ \A n \in DOMAIN ports' : ports'[n] = IF n = cfg.name THEN Len(inst) + 1 ELSE ports[n]
    BY <1>8 DEF Start
  <2>4. cfg.name \notin DOMAIN kept
    <3>1. CASE reload = "apply"
      BY <2>1, <3>1 DEF LifecycleTypeInv, ThreadInv, KeptInv, KeptPortUntouched
    <3>2. CASE main = "spawn"
      BY <3>2 DEF LifecycleTypeInv, ThreadInv
    <3>. QED
      BY <2>1, <3>1, <3>2 DEF LifecycleTypeInv, ThreadInv
  <2>5. \A n \in DOMAIN ports : ports[n] \in DOMAIN inst
    BY DEF LifecycleTypeInv, TypeOK
  <2>. QED
    BY <2>2, <2>3, <2>4, <2>5 DEF KeptInv, KeptPortUntouched
<1>9. CASE OpenFails
  <2>1. CASE main = "spawn"
    BY <1>9, <2>1, KeptExit DEF OpenFails
  <2>2. CASE main # "spawn"
    BY <1>9, <2>2 DEF OpenFails, KeptInv, KeptPortUntouched
  <2>. QED
    BY <2>1, <2>2
<1>10. CASE TakeSignal
  BY <1>10 DEF TakeSignal, KeptInv, KeptPortUntouched
<1>11. CASE Load
  <2>1. CASE file = Invalid
    BY <1>11, <2>1 DEF Load, KeptInv, KeptPortUntouched
  <2>2. CASE file # Invalid
    <3>1. /\ new_cfg' = file /\ ports' = ports /\ inst' = inst
          /\ kept' = [n \in DOMAIN ports \cap Names(file) |-> ports[n]]
      BY <1>11, <2>2 DEF Load
    <3>. QED
      BY <3>1 DEF KeptInv, KeptPortUntouched
  <2>. QED
    BY <2>1, <2>2
<1>12. CASE Swap
  <2>1. \A j \in DOMAIN inst : inst[j].state = "open" => inst'[j].state = "open"
    BY <1>12, SwapInst DEF Swap, LifecycleTypeInv
  <2>2. UNCHANGED <<kept, ports, new_cfg>>
    BY <1>12 DEF Swap
  <2>3. \A n \in DOMAIN ports : ports[n] \in DOMAIN inst
    BY DEF LifecycleTypeInv, TypeOK
  <2>. QED
    BY <2>1, <2>2, <2>3 DEF KeptInv, KeptPortUntouched
<1>13. CASE SpawnNew
  BY <1>13 DEF SpawnNew, KeptInv, KeptPortUntouched
<1>14. CASE AllApplied
  BY <1>14 DEF AllApplied, KeptInv, KeptPortUntouched
<1>15. ASSUME NEW n \in Name, Remove(n)
       PROVE  KeptInv'
  BY <1>15 DEF Remove, KeptInv, KeptPortUntouched
<1>16. CASE Applied
  BY <1>16 DEF Applied, KeptInv, KeptPortUntouched
<1>17. ASSUME NEW i \in DOMAIN inst, ReaderExit(i)
       PROVE  KeptInv'
  <2>1. \A j \in DOMAIN inst : inst[j].state = "open" => inst'[j].state = "open"
    BY <1>17, ReaderExitInst DEF ReaderExit, LifecycleTypeInv
  <2>2. UNCHANGED <<kept, ports, new_cfg>>
    BY <1>17 DEF ReaderExit
  <2>3. \A n \in DOMAIN ports : ports[n] \in DOMAIN inst
    BY DEF LifecycleTypeInv, TypeOK
  <2>. QED
    BY <2>1, <2>2, <2>3 DEF KeptInv, KeptPortUntouched
<1>18. ASSUME NEW i \in DOMAIN inst, DropCheck(i)
       PROVE  KeptInv'
  <2>1. \A j \in DOMAIN inst : j # i => inst'[j].state = inst[j].state
    BY <1>18, DropCheckInst DEF LifecycleTypeInv
  <2>2. \A n \in DOMAIN ports : ports[n] \in DOMAIN inst /\ ports[n] # i
    BY <1>18 DEF DropCheck, Held, LifecycleTypeInv, TypeOK
  <2>3. UNCHANGED <<kept, ports, new_cfg>>
    BY <1>18 DEF DropCheck
  <2>. QED
    BY <2>1, <2>2, <2>3 DEF KeptInv, KeptPortUntouched
<1>19. ASSUME NEW i \in DOMAIN inst, DropUnlink(i)
       PROVE  KeptInv'
  <2>1. \A j \in DOMAIN inst : inst[j].state = "open" => inst'[j].state = "open"
    BY <1>19, DropUnlinkInst DEF DropUnlink, LifecycleTypeInv
  <2>2. UNCHANGED <<kept, ports, new_cfg>>
    BY <1>19 DEF DropUnlink
  <2>3. \A n \in DOMAIN ports : ports[n] \in DOMAIN inst
    BY DEF LifecycleTypeInv, TypeOK
  <2>. QED
    BY <2>1, <2>2, <2>3 DEF KeptInv, KeptPortUntouched
<1>20. ASSUME NEW c \in Conn, NEW n \in Name, Request(c, n)
       PROVE  KeptInv'
  BY <1>20 DEF Request, KeptInv, KeptPortUntouched
<1>21. ASSUME NEW c \in Conn, Answered(c)
       PROVE  KeptInv'
  BY <1>21 DEF Answered, KeptInv, KeptPortUntouched
<1>22. CASE Hup
  BY <1>22, KeptExit DEF Hup, KeptInv, KeptPortUntouched
<1>23. ASSUME NEW s, Kill(s)
       PROVE  KeptInv'
  BY <1>23, KeptExit DEF Kill
<1>24. ASSUME NEW new \in Files \cup {Invalid}, Edit(new)
       PROVE  KeptInv'
  BY <1>24 DEF Edit, KeptInv, KeptPortUntouched
<1>25. ASSUME NEW t \in Ttys, Unplug(t)
       PROVE  KeptInv'
  BY <1>25 DEF Unplug, KeptInv, KeptPortUntouched
<1>26. ASSUME NEW p \in Path, Meddle(p)
       PROVE  KeptInv'
  BY <1>26 DEF Meddle, KeptInv, KeptPortUntouched
<1>27. CASE UNCHANGED vars
  BY <1>27 DEF KeptInv, KeptPortUntouched
<1>. QED
  BY <1>1, <1>2, <1>3, <1>4, <1>5, <1>6, <1>7, <1>8, <1>9, <1>10, <1>11, <1>12, <1>13, <1>14,
     <1>15, <1>16, <1>17, <1>18, <1>19, <1>20, <1>21, <1>22, <1>23, <1>24, <1>25, <1>26, <1>27, <1>y
     DEF Next, SpawnStep, ReloadStep, PortStep, Outside

-----------------------------------------------------------------------------
(* The configuration last applied is served. *)

(* The configuration being spawned or applied is a file. *)
LEMMA DoneTyped ==
  ASSUME LifecycleTypeInv, Booting \/ Applying
  PROVE  /\ new_cfg \in Files /\ Len(new_cfg) \in Nat /\ DOMAIN new_cfg = 1..Len(new_cfg)
         /\ Len(todo) \in Nat /\ DOMAIN todo = 1..Len(todo) /\ Done \in Int
<1>1. main # "dead"
  BY DEF Booting, Applying, LifecycleTypeInv, ThreadInv
<1>2. new_cfg \in Files /\ todo \in Seq(PortConfig)
  BY <1>1 DEF LifecycleTypeInv, ThreadInv, TypeOK
<1> QED BY <1>2, FileTyped, LenProperties DEF Done

(* One more configuration is done with: it was the next, and no earlier    *)
(* one has its name.                                                       *)
LEMMA DoneAdvances ==
  ASSUME LifecycleTypeInv, TodoIsRest, Booting \/ Applying, todo # <<>>,
         todo' = Tail(todo), new_cfg' = new_cfg
  PROVE  /\ Done \in Nat /\ Done' = Done + 1 /\ Done + 1 \in DOMAIN new_cfg
         /\ todo[1] = new_cfg[Done + 1]
         /\ \A k \in 1..Done : k \in DOMAIN new_cfg /\ new_cfg[k].name # todo[1].name
         /\ todo[1].name \in Names(new_cfg)
         /\ TodoIsRest'
<1>1. /\ new_cfg \in Files /\ Len(new_cfg) \in Nat /\ DOMAIN new_cfg = 1..Len(new_cfg)
      /\ Len(todo) \in Nat /\ DOMAIN todo = 1..Len(todo)
  BY DoneTyped
<1>2. todo \in Seq(PortConfig)
  BY DEF LifecycleTypeInv, TypeOK
<1>3. /\ Len(todo) >= 1 /\ Len(todo') = Len(todo) - 1 /\ DOMAIN todo' = 1..(Len(todo) - 1)
      /\ \A j \in 1..(Len(todo) - 1) : todo'[j] = todo[j + 1]
  BY <1>2, TodoTail
<1>4. Len(todo) <= Len(new_cfg) /\ \A j \in DOMAIN todo : todo[j] = new_cfg[Done + j]
  BY DEF TodoIsRest
<1>5. Done \in Nat /\ Done' = Done + 1 /\ Done + 1 \in DOMAIN new_cfg
  BY <1>1, <1>3, <1>4 DEF Done
<1>6. todo[1] = new_cfg[Done + 1]
  BY <1>1, <1>3, <1>4
<1>7. ASSUME NEW k \in 1..Done
      PROVE  k \in DOMAIN new_cfg /\ new_cfg[k].name # todo[1].name
  <2>1. k \in DOMAIN new_cfg /\ k # Done + 1
    BY <1>1, <1>5
  <2>. QED
    BY <1>1, <1>5, <1>6, <2>1, NamesDistinct
<1>8. todo[1].name \in Names(new_cfg)
  BY <1>5, <1>6 DEF Names
<1>9. ASSUME NEW j \in DOMAIN todo'
      PROVE  todo'[j] = new_cfg'[Done' + j]
  <2>1. j + 1 \in DOMAIN todo /\ todo'[j] = todo[j + 1] /\ j \in Int
    BY <1>1, <1>3
  <2>2. Done + (j + 1) = Done' + j
    BY <1>5, <2>1
  <2>. QED
    BY <1>4, <2>1, <2>2
<1>10. Len(todo') <= Len(new_cfg')
  BY <1>1, <1>3, <1>4
<1> QED BY <1>5, <1>6, <1>7, <1>8, <1>9, <1>10 DEF TodoIsRest

(* What has to do with rules only. *)
rules_vars == <<main, reload, new_cfg, todo, existing, ports, failed>>

LEMMA AppliedFrame ==
  ASSUME LifecycleTypeInv, AppliedInv, UNCHANGED rules_vars,
         \A j \in DOMAIN inst : inst'[j].rules = inst[j].rules
  PROVE  AppliedInv'
<1>1. \A n \in DOMAIN ports : ports[n] \in DOMAIN inst
  BY DEF LifecycleTypeInv, TypeOK
<1>2. \A k : Served(k) => Served(k)'
  BY <1>1 DEF Served, rules_vars
<1>3. AppliedIsServed'
  BY <1>1 DEF AppliedInv, AppliedIsServed, rules_vars
<1>4. Done' = Done
  BY DEF Done, rules_vars
<1> QED BY <1>2, <1>3, <1>4 DEF AppliedInv, TodoIsRest, Booting, Applying, rules_vars

LEMMA AppliedExit ==
  ASSUME NEW how, Exit(how)
  PROVE  AppliedInv'
  BY DEF Exit, AppliedInv, AppliedIsServed, TodoIsRest, Booting, Applying

LEMMA AppliedStepInv == LifecycleTypeInv /\ AppliedInv /\ [Next]_vars => AppliedInv'
<1> SUFFICES ASSUME LifecycleTypeInv /\ AppliedInv, [Next]_vars
             PROVE  AppliedInv'
  OBVIOUS
<1>1. CASE Serve
  <2>1. CASE file = Invalid
    <3>1. main' = "dead" /\ reload' = "wait" /\ failed' = {}
      BY <1>1, <2>1 DEF Serve, LifecycleTypeInv, ThreadInv
    <3>. QED
      BY <3>1 DEF AppliedInv, AppliedIsServed, TodoIsRest, Booting, Applying
  <2>2. CASE file # Invalid
    <3>1. /\ main' = "spawn" /\ reload' = "wait" /\ failed' = {} /\ ports' = <<>>
          /\ todo' = file /\ new_cfg' = file
      BY <1>1, <2>2 DEF Serve, LifecycleTypeInv, ThreadInv
    <3>2. file \in Files
      BY <2>2 DEF LifecycleTypeInv, TypeOK
    <3>3. Len(file) \in Nat /\ DOMAIN file = 1..Len(file)
      BY <3>2, FileTyped
    <3>4. Done' = 0
      BY <3>1, <3>3 DEF Done
    <3>5. \A j \in DOMAIN todo' : todo'[j] = new_cfg'[Done' + j]
      BY <3>1, <3>3, <3>4
    <3>6. DOMAIN ports' = {} /\ 1..Done' = {}
      BY <3>1, <3>4
    <3>. QED
      BY <3>1, <3>3, <3>5, <3>6 DEF AppliedInv, AppliedIsServed, TodoIsRest, Booting, Applying
  <2>. QED
    BY <2>1, <2>2
<1>2. CASE MainStep
  <2>1. UNCHANGED <<reload, new_cfg, todo, existing, ports, inst, failed>>
    BY <1>2 DEF MainStep
  <2>2. Done' = Done /\ \A k : Served(k)' = Served(k)
    BY <2>1 DEF Done, Served
  <2>3. CASE main = "spawn" /\ main' = "install"
    <3>1. todo = <<>> /\ reload = "wait"
      BY <1>2, <2>3 DEF MainStep, LifecycleTypeInv, ThreadInv
    <3>2. Done = Len(new_cfg) /\ DOMAIN new_cfg = 1..Done
      BY <2>3, <3>1, DoneTyped DEF Done, Booting
    <3>3. /\ \A n \in DOMAIN ports : \E k \in 1..Done : n = new_cfg[k].name
          /\ failed = {} /\ \A k \in 1..Done : new_cfg[k].name \notin failed => Served(k)
      BY <2>3 DEF AppliedInv, Booting
    <3>a. DOMAIN ports \subseteq Names(new_cfg)
      BY <3>2, <3>3 DEF Names
    <3>b. Names(new_cfg) \subseteq DOMAIN ports
      BY <3>2, <3>3 DEF Names, Served
    <3>4. AppliedIsServed'
      BY <2>1, <2>3, <3>2, <3>3, <3>a, <3>b DEF AppliedIsServed, Served
    <3>. QED
      BY <2>1, <2>3, <3>1, <3>4 DEF AppliedInv, TodoIsRest, Booting, Applying
  <2>4. CASE main = "spawn" /\ main' = "spawn"
    BY <2>1, <2>2, <2>4 DEF AppliedInv, AppliedIsServed, TodoIsRest, Booting, Applying
  <2>5. CASE main \in {"install", "bind"} /\ main' \in {"bind", "serving"}
    BY <2>1, <2>2, <2>5 DEF AppliedInv, AppliedIsServed, TodoIsRest, Booting, Applying
  <2>. QED
    BY <1>2, <2>3, <2>4, <2>5 DEF MainStep
<1>3. CASE MainFails
  BY <1>3, AppliedExit DEF MainFails
<1>4. CASE Open
  BY <1>4, AppliedFrame DEF Open, rules_vars
<1>5. CASE Lstat
  BY <1>5, AppliedFrame DEF Lstat, rules_vars
<1>6. CASE Unlink
  BY <1>6, AppliedFrame DEF Unlink, rules_vars
<1>7. CASE Symlink
  BY <1>7, AppliedFrame DEF Symlink, rules_vars
<1>y. CASE LinkFails
  BY <1>y, AppliedFrame DEF LinkFails, rules_vars
<1>8. CASE Start
  <2> DEFINE cfg == todo[1]
  <2>1. Spawning /\ todo # <<>> /\ cfg \in PortConfig /\ device \in Devices
        /\ (Booting \/ reload = "apply")
    BY <1>8, TodoTail DEF Start, Spawning, Booting, LifecycleTypeInv, TypeOK, ThreadInv
  <2>2. /\ Len(inst) \in Nat /\ DOMAIN inst = 1..Len(inst)
        /\ \A j \in DOMAIN inst : inst'[j] = inst[j]
        /\ inst'[Len(inst) + 1].rules = cfg.rules
    BY <1>8, <2>1, InstAppended DEF LifecycleTypeInv
  <2>3. /\ UNCHANGED <<main, reload, new_cfg, existing, failed>> /\ todo' = Tail(todo)
        /\ DOMAIN ports' = DOMAIN ports \cup {cfg.name}
        /\ \A n \in DOMAIN ports' : ports'[n] = IF n = cfg.name THEN Len(inst) + 1 ELSE ports[n]
    BY <1>8 DEF Start
  <2>4. /\ Done \in Nat /\ Done' = Done + 1 /\ cfg = new_cfg[Done + 1] /\ TodoIsRest'
        /\ \A k \in 1..Done : new_cfg[k].name # cfg.name
        /\ cfg.name \in Names(new_cfg)
    BY <2>1, <2>3, DoneAdvances DEF Applying, AppliedInv
  <2>5. \A n \in DOMAIN ports : ports[n] \in DOMAIN inst
    BY DEF LifecycleTypeInv, TypeOK
  <2>6. ASSUME NEW k \in 1..Done', new_cfg'[k].name \notin failed'
        PROVE  Served(k)'
    <3>1. CASE k = Done + 1
      BY <2>2, <2>3, <2>4, <3>1 DEF Served
    <3>2. CASE k # Done + 1
      <4>1. k \in 1..Done
        BY <2>4, <3>2
      <4>2. Served(k) /\ new_cfg[k].name # cfg.name
        BY <2>1, <2>3, <2>4, <2>6, <4>1 DEF AppliedInv, Applying
      <4>. QED
        BY <2>2, <2>3, <2>5, <4>2 DEF Served
    <3>. QED
      BY <3>1, <3>2
  <2>7. failed \subseteq {new_cfg[k].name : k \in 1..Done} /\ failed \cap DOMAIN ports = {}
    BY <2>1 DEF AppliedInv, Applying
  <2>8. cfg.name \notin failed
    BY <2>4, <2>7
  <2>9. failed' \cap DOMAIN ports' = {}
    BY <2>3, <2>7, <2>8
  <2>10. failed' \subseteq {new_cfg'[k].name : k \in 1..Done'}
    BY <2>3, <2>4, <2>7
  <2>11. Booting' => failed' = {} /\ \A n \in DOMAIN ports' : \E k \in 1..Done' : n = new_cfg'[k].name
    <3>1. 1..Done' = 1..Done \cup {Done + 1}
      BY <2>4
    <3>. QED
      BY <2>3, <2>4, <3>1 DEF AppliedInv, Booting
  <2>12. Applying' => DOMAIN ports' \subseteq existing' \cup Names(new_cfg')
    BY <2>3, <2>4 DEF AppliedInv, Applying, Names
  <2>13. AppliedIsServed' /\ reload' # "remove"
    BY <2>1, <2>3 DEF AppliedIsServed, Booting, LifecycleTypeInv, ThreadInv
  <2>. QED
    BY <2>4, <2>6, <2>9, <2>10, <2>11, <2>12, <2>13 DEF AppliedInv
<1>9. CASE OpenFails
  <2>1. CASE main = "spawn"
    BY <1>9, <2>1, AppliedExit DEF OpenFails
  <2>2. CASE main # "spawn"
    <3> DEFINE cfg == todo[1]
    <3>1. todo # <<>> /\ reload = "apply" /\ cfg.name \notin DOMAIN ports
      BY <1>9, <2>2 DEF OpenFails, Spawning, LifecycleTypeInv, ThreadInv
    <3>2. /\ UNCHANGED <<main, reload, new_cfg, existing, ports, inst>> /\ todo' = Tail(todo)
          /\ failed' = failed \cup {cfg.name}
      BY <1>9, <2>2 DEF OpenFails
    <3>3. /\ Done \in Nat /\ Done' = Done + 1 /\ cfg = new_cfg[Done + 1] /\ TodoIsRest'
          /\ \A k \in 1..Done : new_cfg[k].name # cfg.name
      BY <3>1, <3>2, DoneAdvances DEF Applying, AppliedInv
    <3>4. 1..Done' = 1..Done \cup {Done + 1}
      BY <3>3
    <3>5. failed' \cap DOMAIN ports' = {}
      BY <3>1, <3>2 DEF AppliedInv
    <3>6. failed' \subseteq {new_cfg'[k].name : k \in 1..Done'}
      BY <3>1, <3>2, <3>3, <3>4 DEF AppliedInv, Applying
    <3>7. ASSUME NEW k \in 1..Done', new_cfg'[k].name \notin failed'
          PROVE  Served(k)'
      <4>1. k \in 1..Done /\ new_cfg[k].name \notin failed
        BY <3>2, <3>3, <3>4, <3>7
      <4>. QED
        BY <3>1, <3>2, <4>1 DEF AppliedInv, Applying, Served
    <3>8. DOMAIN ports' \subseteq existing' \cup Names(new_cfg')
      BY <3>1, <3>2 DEF AppliedInv, Applying
    <3>9. AppliedIsServed' /\ reload' # "remove" /\ ~Booting'
      BY <2>2, <3>1, <3>2 DEF AppliedIsServed, Booting
    <3>. QED
      BY <3>3, <3>5, <3>6, <3>7, <3>8, <3>9 DEF AppliedInv
  <2>. QED
    BY <2>1, <2>2
<1>10. CASE TakeSignal
  <2>1. UNCHANGED <<main, new_cfg, todo, existing, ports, inst, failed>>
        /\ reload = "wait" /\ reload' = "load"
    BY <1>10 DEF TakeSignal
  <2>2. Done' = Done /\ \A k : Served(k)' = Served(k)
    BY <2>1 DEF Done, Served
  <2>. QED
    BY <2>1, <2>2 DEF AppliedInv, AppliedIsServed, TodoIsRest, Booting, Applying
<1>11. CASE Load
  <2>1. reload = "load" /\ UNCHANGED <<main, ports, inst>> /\ main \in {"bind", "serving"}
    BY <1>11 DEF Load, LifecycleTypeInv, ThreadInv, TypeOK
  <2>2. CASE file = Invalid
    <3>1. UNCHANGED <<new_cfg, todo, existing, failed>> /\ reload' = "wait"
      BY <1>11, <2>2 DEF Load
    <3>. QED
      BY <2>1, <3>1 DEF AppliedInv, AppliedIsServed, TodoIsRest, Booting, Applying
  <2>3. CASE file # Invalid
    <3>1. /\ reload' = "apply" /\ todo' = file /\ new_cfg' = file /\ failed' = {}
          /\ existing' = DOMAIN ports
      BY <1>11, <2>3 DEF Load
    <3>2. file \in Files
      BY <2>3 DEF LifecycleTypeInv, TypeOK
    <3>3. Len(file) \in Nat /\ DOMAIN file = 1..Len(file)
      BY <3>2, FileTyped
    <3>4. Done' = 0 /\ 1..Done' = {}
      BY <3>1, <3>3 DEF Done
    <3>5. \A j \in DOMAIN todo' : todo'[j] = new_cfg'[Done' + j]
      BY <3>1, <3>3, <3>4
    <3>. QED
      BY <2>1, <3>1, <3>3, <3>4, <3>5 DEF AppliedInv, AppliedIsServed, TodoIsRest, Booting, Applying
  <2>. QED
    BY <2>2, <2>3
<1>12. CASE Swap
  <2> DEFINE cfg == todo[1]
  <2>1. reload = "apply" /\ todo # <<>> /\ cfg.name \in DOMAIN ports
    BY <1>12 DEF Swap
  <2>2. UNCHANGED <<main, reload, new_cfg, existing, ports, failed>> /\ todo' = Tail(todo)
    BY <1>12 DEF Swap
  <2>3. \A j \in DOMAIN inst : inst'[j].rules = IF j = ports[cfg.name] THEN cfg.rules ELSE inst[j].rules
    BY <1>12, SwapInst DEF LifecycleTypeInv
  <2>4. /\ Done \in Nat /\ Done' = Done + 1 /\ cfg = new_cfg[Done + 1] /\ TodoIsRest'
        /\ \A k \in 1..Done : new_cfg[k].name # cfg.name
    BY <2>1, <2>2, DoneAdvances DEF Applying, AppliedInv
  <2>5. \A n \in DOMAIN ports : ports[n] \in DOMAIN inst /\ inst[ports[n]].name = n
    BY DEF LifecycleTypeInv, TypeOK
  <2>6. 1..Done' = 1..Done \cup {Done + 1}
    BY <2>4
  <2>7. ASSUME NEW k \in 1..Done', new_cfg'[k].name \notin failed'
        PROVE  Served(k)'
    <3>1. CASE k = Done + 1
      BY <2>1, <2>2, <2>3, <2>4, <2>5, <3>1 DEF Served
    <3>2. CASE k # Done + 1
      <4>1. k \in 1..Done
        BY <2>6, <3>2
      <4>2. Served(k) /\ new_cfg[k].name # cfg.name
        BY <2>1, <2>2, <2>4, <2>7, <4>1 DEF AppliedInv, Applying
      <4>3. ports[new_cfg[k].name] # ports[cfg.name]
        BY <2>1, <2>5, <4>2 DEF Served
      <4>. QED
        BY <2>2, <2>3, <2>5, <4>2, <4>3 DEF Served
    <3>. QED
      BY <3>1, <3>2
  <2>8. failed' \subseteq {new_cfg'[k].name : k \in 1..Done'}
    BY <2>1, <2>2, <2>6 DEF AppliedInv, Applying
  <2>9. AppliedIsServed' /\ reload' # "remove" /\ ~Booting'
    BY <2>1, <2>2 DEF AppliedIsServed, Booting, LifecycleTypeInv, ThreadInv
  <2>. QED
    BY <2>1, <2>2, <2>4, <2>7, <2>8, <2>9 DEF AppliedInv, Applying
<1>13. CASE SpawnNew
  BY <1>13, AppliedFrame DEF SpawnNew, rules_vars
<1>14. CASE AllApplied
  <2>1. UNCHANGED <<main, new_cfg, todo, existing, ports, inst, failed>>
        /\ reload = "apply" /\ reload' = "remove" /\ todo = <<>>
    BY <1>14 DEF AllApplied
  <2>2. Done' = Done /\ \A k : Served(k)' = Served(k)
    BY <2>1 DEF Done, Served
  <2>. QED
    BY <2>1, <2>2 DEF AppliedInv, AppliedIsServed, TodoIsRest, Booting, Applying
<1>15. ASSUME NEW n \in Name, Remove(n)
       PROVE  AppliedInv'
  <2>1. /\ reload = "remove" /\ n \in existing /\ existing' = existing \ {n}
        /\ UNCHANGED <<main, reload, new_cfg, todo, inst, failed>>
    BY <1>15 DEF Remove
  <2>2. \/ ports' = ports /\ (n \in Names(new_cfg) \/ n \notin DOMAIN ports)
        \/ n \notin Names(new_cfg) /\ ports' = [m \in DOMAIN ports \ {n} |-> ports[m]]
    BY <1>15 DEF Remove
  <2>3. DOMAIN ports' \subseteq DOMAIN ports /\ \A m \in DOMAIN ports' : ports'[m] = ports[m]
    BY <2>2
  <2>4. Done' = Done /\ todo = <<>> /\ Done = Len(new_cfg) /\ DOMAIN new_cfg = 1..Done
    BY <2>1, DoneTyped DEF AppliedInv, Applying, Done
  <2>5. ASSUME NEW k \in 1..Done, Served(k)
        PROVE  Served(k)'
    <3>1. new_cfg[k].name \in Names(new_cfg)
      BY <2>4 DEF Names
    <3>. QED
      BY <2>1, <2>2, <2>5, <3>1 DEF Served
  <2>6. DOMAIN ports' \subseteq existing' \cup Names(new_cfg')
    BY <2>1, <2>2, <2>3 DEF AppliedInv, Applying
  <2>7. AppliedIsServed' /\ ~Booting'
    BY <2>1 DEF AppliedIsServed, Booting, LifecycleTypeInv, ThreadInv
  <2>. QED
    BY <2>1, <2>3, <2>4, <2>5, <2>6, <2>7 DEF AppliedInv, TodoIsRest, Applying
<1>16. CASE Applied
  <2>1. /\ reload = "remove" /\ reload' = "wait" /\ existing = {}
        /\ UNCHANGED <<main, new_cfg, todo, ports, inst, failed>>
    BY <1>16 DEF Applied
  <2>2. Done = Len(new_cfg) /\ DOMAIN new_cfg = 1..Done
    BY <2>1, DoneTyped DEF AppliedInv, Applying, Done
  <2>3. DOMAIN ports \subseteq Names(new_cfg) /\ failed \cap DOMAIN ports = {}
    BY <2>1 DEF AppliedInv, Applying
  <2>4. \A k \in DOMAIN new_cfg : new_cfg[k].name \notin failed => Served(k)
    BY <2>1, <2>2 DEF AppliedInv, Applying
  <2>5. DOMAIN ports = Names(new_cfg) \ failed
    BY <2>3, <2>4 DEF Names, Served
  <2>6. AppliedIsServed'
    BY <2>1, <2>4, <2>5 DEF AppliedIsServed, Served
  <2>7. ~Booting' /\ ~Applying'
    BY <2>1 DEF Booting, Applying, LifecycleTypeInv, ThreadInv
  <2>. QED
    BY <2>1, <2>3, <2>6, <2>7 DEF AppliedInv, TodoIsRest
<1>17. ASSUME NEW i \in DOMAIN inst, ReaderExit(i)
       PROVE  AppliedInv'
  <2>1. \A j \in DOMAIN inst : inst'[j].rules = inst[j].rules
    BY <1>17, ReaderExitInst DEF LifecycleTypeInv
  <2>. QED
    BY <1>17, <2>1, AppliedFrame DEF ReaderExit, rules_vars
<1>18. ASSUME NEW i \in DOMAIN inst, DropCheck(i)
       PROVE  AppliedInv'
  <2>1. \A j \in DOMAIN inst : inst'[j].rules = inst[j].rules
    BY <1>18, DropCheckInst DEF LifecycleTypeInv
  <2>. QED
    BY <1>18, <2>1, AppliedFrame DEF DropCheck, rules_vars
<1>19. ASSUME NEW i \in DOMAIN inst, DropUnlink(i)
       PROVE  AppliedInv'
  <2>1. \A j \in DOMAIN inst : inst'[j].rules = inst[j].rules
    BY <1>19, DropUnlinkInst DEF LifecycleTypeInv
  <2>. QED
    BY <1>19, <2>1, AppliedFrame DEF DropUnlink, rules_vars
<1>20. ASSUME NEW c \in Conn, NEW n \in Name, Request(c, n)
       PROVE  AppliedInv'
  BY <1>20, AppliedFrame DEF Request, rules_vars
<1>21. ASSUME NEW c \in Conn, Answered(c)
       PROVE  AppliedInv'
  BY <1>21, AppliedFrame DEF Answered, rules_vars
<1>22. CASE Hup
  BY <1>22, AppliedExit, AppliedFrame DEF Hup, rules_vars
<1>23. ASSUME NEW s, Kill(s)
       PROVE  AppliedInv'
  BY <1>23, AppliedExit DEF Kill
<1>24. ASSUME NEW new \in Files \cup {Invalid}, Edit(new)
       PROVE  AppliedInv'
  BY <1>24, AppliedFrame DEF Edit, rules_vars
<1>25. ASSUME NEW t \in Ttys, Unplug(t)
       PROVE  AppliedInv'
  BY <1>25, AppliedFrame DEF Unplug, rules_vars
<1>26. ASSUME NEW p \in Path, Meddle(p)
       PROVE  AppliedInv'
  BY <1>26, AppliedFrame DEF Meddle, rules_vars
<1>27. CASE UNCHANGED vars
  BY <1>27, AppliedFrame DEF rules_vars
<1>. QED
  BY <1>1, <1>2, <1>3, <1>4, <1>5, <1>6, <1>7, <1>8, <1>9, <1>10, <1>11, <1>12, <1>13, <1>14,
     <1>15, <1>16, <1>17, <1>18, <1>19, <1>20, <1>21, <1>22, <1>23, <1>24, <1>25, <1>26, <1>27, <1>y
     DEF Next, SpawnStep, ReloadStep, PortStep, Outside

-----------------------------------------------------------------------------
(* Links lead where they should. *)

(* What a device is not, and which devices are bound.  *)
LEMMA LinkTypes ==
  ASSUME LifecycleTypeInv
  PROVE  /\ None \notin Devices /\ UserFile \notin Devices /\ None # UserFile /\ None \notin Path
         /\ DOMAIN links = Path
         /\ DOMAIN inst = 1..Len(inst) /\ Len(inst) \in Nat
         /\ \A i \in DOMAIN inst : inst[i].device \in Devices
<1>1. inst \in Seq(Instance) /\ DOMAIN links = Path
  BY DEF LifecycleTypeInv, TypeOK
<1>2. DOMAIN inst = 1..Len(inst) /\ Len(inst) \in Nat /\ \A i \in DOMAIN inst : inst[i] \in Instance
  BY <1>1, LenProperties, ElementOfSeq
<1>3. \A i \in DOMAIN inst : inst[i].device \in Devices
  BY <1>2 DEF Instance, Devices
<1> QED BY <1>1, <1>2, <1>3, LifecycleAssumption DEF Devices

(* Where spawn begins and ends no path has been looked at. *)
SpawnApart ==
  \/ UNCHANGED <<step, todo, device>>
  \/ /\ step \in {"none", "open"}
     /\ \/ step' \in {"none", "open", "lstat"}
        \/ step' = "start" /\ todo'[1].symlink = None

(* A step that touches no link, and makes a Drop believe in a link only if *)
(* it leads to its device.                                                 *)
LEMMA LinkFrame ==
  ASSUME LifecycleTypeInv, LinkInv, UNCHANGED <<links, raced>>, SpawnApart,
         DOMAIN inst' = DOMAIN inst,
         \A j \in DOMAIN inst :
           /\ Lasting(j)
           /\ inst'[j].state = "open" => inst[j].state = "open"
           /\ inst'[j].state = "unlinking" =>
                inst[j].state = "unlinking" \/ links[inst[j].link] = inst[j].device
  PROVE  LinkInv'
<1> SUFFICES ASSUME NEW p \in Path \ raced
             PROVE  LookedAt(p)' /\ FreshlyMade(p)' /\ Claimed(p)'
  BY DEF LinkInv
<1>1. LookedAt(p) /\ FreshlyMade(p) /\ Claimed(p) /\ p # None
  BY LinkTypes DEF LinkInv
<1>2. Claimant(p)' = Claimant(p)
  BY DEF Claimant, Lasting
<1>3. Claimant(p) \subseteq DOMAIN inst
  BY DEF Claimant
<1>4. ASSUME NEW i \in DOMAIN inst, inst'[i].state = "unlinking", inst'[i].link = p
      PROVE  links'[p] = inst'[i].device
  BY <1>1, <1>4 DEF LookedAt, Lasting
<1>5. CASE UNCHANGED <<step, todo, device>>
  <2>1. LookedAt(p)'
    BY <1>1, <1>4, <1>5 DEF LookedAt, Spawning, IsSymlink
  <2>2. FreshlyMade(p)'
    BY <1>1, <1>5 DEF FreshlyMade, Lasting
  <2>3. Claimed(p)'
    BY <1>1, <1>2, <1>3, <1>5 DEF Claimed, Lasting
  <2>. QED
    BY <2>1, <2>2, <2>3
<1>6. CASE /\ step \in {"none", "open"}
           /\ \/ step' \in {"none", "open", "lstat"}
              \/ step' = "start" /\ todo'[1].symlink = None
  <2>1. LookedAt(p)'
    BY <1>1, <1>4, <1>6 DEF LookedAt
  <2>2. FreshlyMade(p)'
    BY <1>1, <1>6 DEF FreshlyMade
  <2>3. Claimed(p)'
    BY <1>1, <1>2, <1>3, <1>6 DEF Claimed, Lasting
  <2>. QED
    BY <2>1, <2>2, <2>3
<1> QED BY <1>5, <1>6 DEF SpawnApart

(* Nothing about a path depends on the steps of a spawn with another.  *)
LEMMA LinkElsewhere ==
  ASSUME NEW p, LookedAt(p), FreshlyMade(p), Claimed(p), todo[1].symlink # p,
         UNCHANGED <<todo, inst>>, links'[p] = links[p]
  PROVE  LookedAt(p)' /\ FreshlyMade(p)' /\ Claimed(p)'
  BY DEF LookedAt, FreshlyMade, Claimed, Claimant

LEMMA LinkExit ==
  ASSUME inst' = <<>>, step' = "none"
  PROVE  LinkInv'
<1>1. DOMAIN inst' = {}
  OBVIOUS
<1> QED BY <1>1 DEF LinkInv, LookedAt, FreshlyMade, Claimed, Claimant, Spawning

LEMMA LinkStepInv == LifecycleTypeInv /\ LinkInv /\ [Next]_vars => LinkInv'
<1> SUFFICES ASSUME LifecycleTypeInv /\ LinkInv, [Next]_vars
             PROVE  LinkInv'
  OBVIOUS
<1>1. CASE Serve
  BY <1>1, LinkExit DEF Serve, LifecycleTypeInv, ThreadInv
<1>2. CASE MainStep
  BY <1>2, LinkFrame DEF MainStep, SpawnApart, Lasting, Spawning
<1>3. CASE MainFails
  BY <1>3, LinkExit DEF MainFails, Exit
<1>4. CASE Open
  BY <1>4, LinkFrame DEF Open, SpawnApart, Lasting
<1>5. CASE Lstat
  <2> SUFFICES ASSUME NEW p \in Path \ raced
               PROVE  LookedAt(p)' /\ FreshlyMade(p)' /\ Claimed(p)'
    BY <1>5 DEF Lstat, LinkInv
  <2>1. LookedAt(p) /\ FreshlyMade(p) /\ Claimed(p)
    BY DEF LinkInv
  <2>2. UNCHANGED <<todo, inst, links>> /\ step = "lstat"
    BY <1>5 DEF Lstat
  <2>3. CASE todo[1].symlink # p
    BY <2>1, <2>2, <2>3, LinkElsewhere
  <2>4. CASE todo[1].symlink = p
    <3>1. \/ step' = "unlink" /\ IsSymlink(p)
          \/ step' = "unlinked" /\ links[p] = UserFile
          \/ step' = "symlink" /\ links[p] = None
      BY <1>5, <2>4 DEF Lstat, IsSymlink
    <3>2. LookedAt(p)'
      BY <2>1, <2>2, <3>1 DEF LookedAt, IsSymlink
    <3>3. FreshlyMade(p)' /\ Claimed(p)'
      BY <2>1, <2>2, <3>1 DEF FreshlyMade, Claimed, Claimant
    <3>. QED
      BY <3>2, <3>3
  <2>. QED
    BY <2>3, <2>4
<1>6. CASE Unlink
  <2> SUFFICES ASSUME NEW p \in Path \ raced'
               PROVE  LookedAt(p)' /\ FreshlyMade(p)' /\ Claimed(p)'
    BY DEF LinkInv
  <2>1. p \notin raced
    BY <1>6 DEF Unlink, Race
  <2>2. LookedAt(p) /\ FreshlyMade(p) /\ Claimed(p)
    BY <2>1 DEF LinkInv
  <2>3. UNCHANGED <<todo, inst>> /\ \A q \in Path : q # todo[1].symlink => links'[q] = links[q]
    BY <1>6, LinkTypes DEF Unlink
  <2>4. CASE todo[1].symlink # p
    BY <2>2, <2>3, <2>4, LinkElsewhere
  <2>5. CASE todo[1].symlink = p
    <3>1. \A i \in DOMAIN inst : ~(inst[i].state = "unlinking" /\ inst[i].link = p)
      BY <1>6, <2>5, LinkTypes DEF Unlink, Race, Overtakes
    <3>2. step' = "symlink" /\ links'[p] = None
      BY <1>6, <2>2, <2>5, LinkTypes DEF Unlink, LookedAt, Spawning, IsSymlink
    <3>3. LookedAt(p)' /\ FreshlyMade(p)' /\ Claimed(p)'
      BY <2>3, <2>5, <3>1, <3>2 DEF LookedAt, FreshlyMade, Claimed, Claimant
    <3>. QED
      BY <3>3
  <2>. QED
    BY <2>4, <2>5
<1>7. CASE Symlink
  <2> SUFFICES ASSUME NEW p \in Path \ raced'
               PROVE  LookedAt(p)' /\ FreshlyMade(p)' /\ Claimed(p)'
    BY DEF LinkInv
  <2>1. p \notin raced
    BY <1>7 DEF Symlink, Race
  <2>2. LookedAt(p) /\ FreshlyMade(p) /\ Claimed(p)
    BY <2>1 DEF LinkInv
  <2>3. UNCHANGED <<todo, inst>> /\ \A q \in Path : q # todo[1].symlink => links'[q] = links[q]
    BY <1>7, LinkTypes DEF Symlink
  <2>4. CASE todo[1].symlink # p
    BY <2>2, <2>3, <2>4, LinkElsewhere
  <2>5. CASE todo[1].symlink = p
    <3>1. \A i \in DOMAIN inst : ~(inst[i].state = "unlinking" /\ inst[i].link = p)
      BY <1>7, <2>5, LinkTypes DEF Symlink, Race, Overtakes
    <3>2. step' = "start" /\ links'[p] = device'
      BY <1>7, <2>2, <2>5, LinkTypes DEF Symlink, LookedAt, Spawning
    <3>3. LookedAt(p)' /\ FreshlyMade(p)' /\ Claimed(p)'
      BY <2>3, <2>5, <3>1, <3>2 DEF LookedAt, FreshlyMade, Claimed, Claimant
    <3>. QED
      BY <3>3
  <2>. QED
    BY <2>4, <2>5
<1>y. CASE LinkFails
  <2> SUFFICES ASSUME NEW p \in Path \ raced'
               PROVE  LookedAt(p)' /\ FreshlyMade(p)' /\ Claimed(p)'
    BY DEF LinkInv
  <2>1. p \notin raced
    BY <1>y DEF LinkFails, Race
  <2>2. LookedAt(p) /\ FreshlyMade(p) /\ Claimed(p)
    BY <2>1 DEF LinkInv
  <2>3. /\ UNCHANGED <<todo, inst, links>>
        /\ step \in {"lstat", "unlink", "symlink"} /\ step' = "unlinked"
    BY <1>y DEF LinkFails
  <2>4. CASE todo[1].symlink # p
    BY <2>2, <2>3, <2>4, LinkElsewhere
  <2>5. CASE todo[1].symlink = p
    <3>1. step = "symlink" => ~Linked(p)
      BY <1>y, <2>5 DEF LinkFails, Race
    <3>2. LookedAt(p)' /\ FreshlyMade(p)'
      BY <2>2, <2>3 DEF LookedAt, FreshlyMade
    <3>3. Claimed(p)'
      BY <2>2, <2>3, <3>1 DEF Claimed, Claimant, Linked
    <3>. QED
      BY <3>2, <3>3
  <2>. QED
    BY <2>4, <2>5
<1>8. CASE Start
  <2> DEFINE cfg == todo[1]
             new == Len(inst) + 1
  <2>1. cfg \in PortConfig /\ device \in Devices /\ Spawning
    BY <1>8, TodoTail DEF Start, Spawning, LifecycleTypeInv, TypeOK, ThreadInv
  <2>2. /\ DOMAIN inst' = DOMAIN inst \cup {new} /\ new \notin DOMAIN inst
        /\ \A j \in DOMAIN inst : inst'[j] = inst[j] /\ j < new
        /\ inst'[new].link = (IF step = "start" THEN cfg.symlink ELSE None)
        /\ inst'[new].device = device /\ inst'[new].state = "open"
    <3>1. /\ Len(inst) \in Nat /\ DOMAIN inst = 1..Len(inst)
          /\ DOMAIN inst' = 1..(Len(inst) + 1)
          /\ \A j \in DOMAIN inst : inst'[j] = inst[j]
          /\ inst'[Len(inst) + 1] =
               [name |-> cfg.name, device |-> device,
                link |-> IF step = "start" THEN cfg.symlink ELSE None,
                rules |-> cfg.rules, reader |-> "reading", state |-> "open"]
      BY <1>8, <2>1, InstAppended DEF LifecycleTypeInv
    <3>. QED
      BY <3>1
  <2>3. step \in {"start", "unlinked"} /\ step' = "none" /\ UNCHANGED <<links, raced>>
    BY <1>8 DEF Start
  <2> SUFFICES ASSUME NEW p \in Path \ raced
               PROVE  LookedAt(p)' /\ FreshlyMade(p)' /\ Claimed(p)'
    BY <2>3 DEF LinkInv
  <2>4. LookedAt(p) /\ FreshlyMade(p) /\ Claimed(p) /\ p # None
    BY LinkTypes DEF LinkInv
  <2> HIDE DEF new
  <2>5. LookedAt(p)' /\ FreshlyMade(p)'
    BY <2>2, <2>3, <2>4 DEF LookedAt, FreshlyMade, Spawning
  <2>6. ASSUME NEW i \in Claimant(p)', inst'[i].state = "open", links'[p] # UserFile,
               \A j \in DOMAIN inst' : j # i /\ inst'[j].link = p => inst'[j].device # inst'[i].device
        PROVE  links'[p] = inst'[i].device
    <3>1. i \in DOMAIN inst' /\ inst'[i].link = p /\ \A j \in DOMAIN inst' : inst'[j].link = p => j <= i
      BY DEF Claimant
    <3>2. CASE i = new
      <4>1. step = "start" /\ cfg.symlink = p
        BY <2>2, <2>4, <3>1, <3>2
      <4>2. \A j \in DOMAIN inst : inst[j].link = p => inst[j].device # device
        BY <2>2, <2>6, <3>2
      <4>. QED
        BY <2>2, <2>3, <2>4, <2>6, <3>2, <4>1, <4>2 DEF FreshlyMade
    <3>3. CASE i # new
      <4>1. i \in DOMAIN inst /\ inst'[i] = inst[i] /\ i \in Claimant(p)
        BY <2>2, <3>1, <3>3 DEF Claimant
      <4>2. ~(step = "start" /\ cfg.symlink = p)
        BY <2>2, <3>1, <4>1, LinkTypes DEF new
      <4>3. ~(step \in {"symlink", "start"} /\ cfg.symlink = p)
        BY <2>3, <4>2
      <4>4. \A j \in DOMAIN inst : j # i /\ inst[j].link = p => inst[j].device # inst[i].device
        BY <2>2, <2>6, <4>1
      <4>. QED
        BY <2>3, <2>4, <2>6, <4>1, <4>3, <4>4 DEF Claimed
    <3>. QED
      BY <3>2, <3>3
  <2>7. Claimed(p)'
    BY <2>6 DEF Claimed
  <2>. QED
    BY <2>5, <2>7
<1>9. CASE OpenFails
  <2>1. CASE main = "spawn"
    BY <1>9, <2>1, LinkExit DEF OpenFails, Exit
  <2>2. CASE main # "spawn"
    BY <1>9, <2>2, LinkFrame DEF OpenFails, SpawnApart, Lasting
  <2>. QED
    BY <2>1, <2>2
<1>10. CASE TakeSignal
  BY <1>10, LinkFrame DEF TakeSignal, SpawnApart, Lasting
<1>11. CASE Load
  <2>1. step = "none"
    BY <1>11 DEF Load, Spawning, LifecycleTypeInv, ThreadInv
  <2>. QED
    BY <1>11, <2>1, LinkFrame DEF Load, SpawnApart, Lasting
<1>12. CASE Swap
  <2>1. step = "none" /\ step' = "none" /\ UNCHANGED <<links, raced>>
    BY <1>12 DEF Swap, Spawning
  <2>. QED
    BY <1>12, <2>1, SwapInst, LinkFrame DEF LifecycleTypeInv, SpawnApart
<1>13. CASE SpawnNew
  BY <1>13, LinkFrame DEF SpawnNew, SpawnApart, Lasting, Spawning
<1>14. CASE AllApplied
  BY <1>14, LinkFrame DEF AllApplied, SpawnApart, Lasting
<1>15. ASSUME NEW n \in Name, Remove(n)
       PROVE  LinkInv'
  BY <1>15, LinkFrame DEF Remove, SpawnApart, Lasting
<1>16. CASE Applied
  BY <1>16, LinkFrame DEF Applied, SpawnApart, Lasting
<1>17. ASSUME NEW i \in DOMAIN inst, ReaderExit(i)
       PROVE  LinkInv'
  <2>1. UNCHANGED <<step, todo, device, links, raced>>
    BY <1>17 DEF ReaderExit
  <2>2. /\ DOMAIN inst' = DOMAIN inst
        /\ \A j \in DOMAIN inst :
             /\ Lasting(j)
             /\ inst'[j].state = "open" => inst[j].state = "open"
             /\ inst'[j].state = "unlinking" =>
                  inst[j].state = "unlinking" \/ links[inst[j].link] = inst[j].device
    BY <1>17, ReaderExitInst DEF LifecycleTypeInv
  <2>. QED
    BY <2>1, <2>2, LinkFrame DEF SpawnApart
<1>18. ASSUME NEW i \in DOMAIN inst, DropCheck(i)
       PROVE  LinkInv'
  <2>1. UNCHANGED <<step, todo, device, links, raced>>
    BY <1>18 DEF DropCheck
  <2>2. /\ DOMAIN inst' = DOMAIN inst
        /\ \A j \in DOMAIN inst :
             /\ Lasting(j)
             /\ inst'[j].state = "open" => inst[j].state = "open"
             /\ inst'[j].state = "unlinking" =>
                  inst[j].state = "unlinking" \/ links[inst[j].link] = inst[j].device
    BY <1>18, DropCheckInst DEF LifecycleTypeInv
  <2>. QED
    BY <2>1, <2>2, LinkFrame DEF SpawnApart
<1>19. ASSUME NEW i \in DOMAIN inst, DropUnlink(i)
       PROVE  LinkInv'
  <2> DEFINE q == inst[i].link
  <2>1. /\ DOMAIN inst' = DOMAIN inst
        /\ \A j \in DOMAIN inst : Lasting(j)
        /\ \A j \in DOMAIN inst : inst'[j].state = IF j = i THEN "dropped" ELSE inst[j].state
    BY <1>19, DropUnlinkInst DEF LifecycleTypeInv
  <2>u. CASE UNCHANGED <<links, raced>>
    <3>1. SpawnApart
      BY <1>19 DEF DropUnlink, SpawnApart
    <3> QED BY <2>1, <2>u, <3>1, LinkFrame
  <2> SUFFICES ASSUME ~UNCHANGED <<links, raced>>, NEW p \in Path \ raced'
               PROVE  LookedAt(p)' /\ FreshlyMade(p)' /\ Claimed(p)'
    BY <2>u DEF LinkInv
  <2>2. /\ UNCHANGED <<step, todo, device>> /\ links' = [links EXCEPT ![q] = None]
        /\ Race(q, Overtakes(q, i) \/ OvertakesSpawn(q))
    BY <1>19 DEF DropUnlink
  <2>3. p \notin raced
    BY <2>2 DEF Race
  <2>4. LookedAt(p) /\ FreshlyMade(p) /\ Claimed(p)
    BY <2>3 DEF LinkInv
  <2>5. Claimant(p)' = Claimant(p) /\ Claimant(p) \subseteq DOMAIN inst
    BY <2>1 DEF Claimant, Lasting
  <2>6. CASE q # p
    <3>1. links'[p] = links[p]
      BY <2>2, <2>6, LinkTypes
    <3>2. LookedAt(p)'
      BY <2>1, <2>2, <2>4, <3>1 DEF LookedAt, Lasting, Spawning, IsSymlink
    <3>3. FreshlyMade(p)'
      BY <2>1, <2>2, <2>4, <3>1 DEF FreshlyMade, Lasting
    <3>4. Claimed(p)'
      BY <2>1, <2>2, <2>4, <2>5, <3>1 DEF Claimed, Lasting
    <3>. QED
      BY <3>2, <3>3, <3>4
  <2>7. CASE q = p
    <3>1. links[p] = inst[i].device /\ links[p] # UserFile
      BY <1>19, <2>4, <2>7, LinkTypes DEF DropUnlink, LookedAt
    <3>2. /\ \A j \in DOMAIN inst : j # i => ~(inst[j].link = p /\ inst[j].state = "unlinking")
          /\ ~(step \in {"unlink", "symlink"} /\ todo[1].symlink = p)
      BY <2>2, <2>7 DEF Race, Overtakes, OvertakesSpawn
    <3>3. LookedAt(p)'
      BY <2>1, <2>2, <2>4, <3>1, <3>2 DEF LookedAt, Lasting, Spawning
    <3>4. FreshlyMade(p)'
      BY <2>1, <2>2, <2>4, <2>7, <3>1 DEF FreshlyMade, Lasting
    <3>5. Claimed(p)'
      <4>1. SUFFICES ASSUME NEW k \in Claimant(p), inst'[k].state = "open",
                            ~(step \in {"symlink", "start"} /\ todo[1].symlink = p),
                            \A j \in DOMAIN inst : j # k /\ inst[j].link = p
                                                     => inst[j].device # inst[k].device
                     PROVE  FALSE
        BY <2>1, <2>2, <2>5 DEF Claimed, Lasting
      <4>2. k \in DOMAIN inst /\ k # i /\ inst[k].state = "open"
        BY <2>1, <2>5, <4>1
      <4>3. links[p] = inst[k].device
        BY <2>4, <3>1, <4>1, <4>2 DEF Claimed
      <4>. QED
        BY <2>7, <3>1, <4>1, <4>2, <4>3
    <3>. QED
      BY <3>3, <3>4, <3>5
  <2>. QED
    BY <2>6, <2>7
<1>20. ASSUME NEW c \in Conn, NEW n \in Name, Request(c, n)
       PROVE  LinkInv'
  BY <1>20, LinkFrame DEF Request, SpawnApart, Lasting
<1>21. ASSUME NEW c \in Conn, Answered(c)
       PROVE  LinkInv'
  BY <1>21, LinkFrame DEF Answered, SpawnApart, Lasting
<1>22. CASE Hup
  BY <1>22, LinkExit, LinkFrame DEF Hup, Exit, SpawnApart, Lasting
<1>23. ASSUME NEW s, Kill(s)
       PROVE  LinkInv'
  BY <1>23, LinkExit DEF Kill, Exit
<1>24. ASSUME NEW new \in Files \cup {Invalid}, Edit(new)
       PROVE  LinkInv'
  BY <1>24, LinkFrame DEF Edit, SpawnApart, Lasting
<1>25. ASSUME NEW t \in Ttys, Unplug(t)
       PROVE  LinkInv'
  BY <1>25, LinkFrame DEF Unplug, SpawnApart, Lasting
<1>26. ASSUME NEW p \in Path, Meddle(p)
       PROVE  LinkInv'
  <2> SUFFICES ASSUME NEW r \in Path \ raced'
               PROVE  LookedAt(r)' /\ FreshlyMade(r)' /\ Claimed(r)'
    BY DEF LinkInv
  <2>1. r \notin raced
    BY <1>26 DEF Meddle, Race
  <2>2. LookedAt(r) /\ FreshlyMade(r) /\ Claimed(r)
    BY <2>1 DEF LinkInv
  <2>3. UNCHANGED <<step, todo, device, inst>> /\ links' = [links EXCEPT ![p] = UserFile]
    BY <1>26 DEF Meddle
  <2>4. CASE r # p
    <3>1. links'[r] = links[r]
      BY <2>3, <2>4, LinkTypes
    <3>. QED
      BY <2>2, <2>3, <3>1 DEF LookedAt, FreshlyMade, Claimed, Claimant, Spawning, IsSymlink
  <2>5. CASE r = p
    <3>1. links'[r] = UserFile
      BY <2>3, <2>5, LinkTypes
    <3>2. /\ \A j \in DOMAIN inst : ~(inst[j].link = r /\ inst[j].state = "unlinking")
          /\ ~(step \in {"unlink", "symlink"} /\ todo[1].symlink = r)
      BY <1>26, <2>5, LinkTypes DEF Meddle, Race, Overtakes, OvertakesSpawn
    <3>3. LookedAt(r)'
      BY <2>3, <3>1, <3>2 DEF LookedAt, Spawning
    <3>4. FreshlyMade(r)' /\ Claimed(r)'
      BY <3>1 DEF FreshlyMade, Claimed
    <3>. QED
      BY <3>3, <3>4
  <2>. QED
    BY <2>4, <2>5
<1>27. CASE UNCHANGED vars
  BY <1>27, LinkFrame DEF SpawnApart, Lasting
<1>. QED
  BY <1>1, <1>2, <1>3, <1>4, <1>5, <1>6, <1>7, <1>8, <1>9, <1>10, <1>11, <1>12, <1>13, <1>14,
     <1>15, <1>16, <1>17, <1>18, <1>19, <1>20, <1>21, <1>22, <1>23, <1>24, <1>25, <1>26, <1>27, <1>y
     DEF Next, SpawnStep, ReloadStep, PortStep, Outside

-----------------------------------------------------------------------------
(* The theorems. *)

LifecycleInv == LifecycleTypeInv /\ ReloadInv /\ KeptInv /\ AppliedInv /\ LinkInv

(* All of it holds of a service that was never started. *)
LEMMA InvInit == Init => LifecycleInv
<1> SUFFICES ASSUME Init PROVE LifecycleInv
  OBVIOUS
<1> USE DEF Init
<1>1. DOMAIN <<>> = {}
  OBVIOUS
<1>2. LifecycleTypeInv
  BY TypeInit
<1>3. ReloadInv /\ KeptInv
  BY <1>1 DEF ReloadInv, KeptInv, KeptPortUntouched
<1>4. AppliedInv
  BY <1>1 DEF AppliedInv, AppliedIsServed, TodoIsRest, Booting, Applying
<1>5. LinkInv
  BY <1>1 DEF LinkInv, LookedAt, FreshlyMade, Claimed, Claimant, Spawning
<1> QED BY <1>2, <1>3, <1>4, <1>5 DEF LifecycleInv

LEMMA InvAlways == Spec => []LifecycleInv
<1>1. LifecycleInv /\ [Next]_vars => LifecycleInv'
  BY TypeStep, ReloadStepInv, KeptStepInv, AppliedStepInv, LinkStepInv DEF LifecycleInv
<1> QED BY <1>1, InvInit, PTL DEF Spec

(* The state is well-formed: whatever main, a reload and a spawn hold is   *)
(* there to be held, at every step of theirs.                              *)
THEOREM LifecycleTyped == Spec => []TypeOK
<1>1. LifecycleInv => TypeOK
  BY DEF LifecycleInv, LifecycleTypeInv
<1> QED BY <1>1, InvAlways, PTL

(* A service with no reload under way has exactly the ports of the         *)
(* configuration last applied, with its rules, except those it could not   *)
(* open.                                                                   *)
THEOREM ReloadServesFile == Spec => []AppliedIsServed
<1>1. LifecycleInv => AppliedIsServed
  BY DEF LifecycleInv, AppliedInv
<1> QED BY <1>1, InvAlways, PTL

(* A SIGHUP that arrives while a reload runs is followed by another        *)
(* reload: an idle service runs the file of the last SIGHUP.               *)
THEOREM SignalsAreAnswered == Spec => []NoLostReload
<1>1. LifecycleInv => NoLostReload
  BY DEF LifecycleInv, ReloadInv, NoLostReload
<1> QED BY <1>1, InvAlways, PTL

(* A reload never respawns, removes or drops a port that it keeps.  *)
THEOREM ReloadKeepsPorts == Spec => []KeptPortUntouched
<1>1. LifecycleInv => KeptPortUntouched
  BY DEF LifecycleInv, KeptInv
<1> QED BY <1>1, InvAlways, PTL

(* An open port's link leads to its device, unless another port, a user or *)
(* a race took the path.                                                   *)
THEOREM LinksLeadToDevices == Spec => []LinkServed
<1>1. LifecycleInv => LinkServed
  BY DEF LifecycleInv, LinkInv, Claimed, LinkServed, Spawning
<1> QED BY <1>1, InvAlways, PTL

(* No step of create_symlink or of a Drop replaces or deletes a user's     *)
(* file, except in the window between its look at the path and its change. *)
THEOREM UserFilesSurvive == Spec => UserFilesKept
<1>1. LifecycleInv /\ [Next]_vars =>
        [\A p \in Path : links[p] = UserFile /\ p \notin raced => links'[p] = UserFile]_vars
  <2> SUFFICES ASSUME LifecycleInv, Next,
                      NEW p \in Path, links[p] = UserFile, p \notin raced
               PROVE  links'[p] = UserFile
    OBVIOUS
  <2>1. LookedAt(p) /\ LifecycleTypeInv
    BY DEF LifecycleInv, LinkInv
  <2>2. CASE links' = links
    BY <2>2
  <2>3. CASE Unlink
    BY <2>1, <2>3, LinkTypes DEF Unlink, LookedAt, IsSymlink, Spawning
  <2>4. CASE Symlink
    BY <2>1, <2>4, LinkTypes DEF Symlink
  <2>5. ASSUME NEW i \in DOMAIN inst, DropUnlink(i)
        PROVE  links'[p] = UserFile
    <3>1. inst[i].link # p
      BY <2>1, <2>5, LinkTypes DEF DropUnlink, LookedAt
    <3>. QED
      BY <2>1, <2>5, <3>1, LinkTypes DEF DropUnlink
  <2>6. ASSUME NEW q \in Path, Meddle(q)
        PROVE  links'[p] = UserFile
    BY <2>1, <2>6, LinkTypes DEF Meddle
  <2>7. Next => \/ links' = links \/ Unlink \/ Symlink
                \/ \E i \in DOMAIN inst : DropUnlink(i)
                \/ \E q \in Path : Meddle(q)
    BY DEF Next, Serve, MainStep, MainFails, SpawnStep, Open, Lstat, LinkFails, Start, OpenFails, ReloadStep,
           TakeSignal, Load, Swap, SpawnNew, AllApplied, Remove, Applied, PortStep, ReaderExit,
           DropCheck, Request, Answered, Outside, Hup, Kill, Edit, Unplug, Exit
  <2>. QED
    BY <2>2, <2>3, <2>4, <2>5, <2>6, <2>7
<1> QED BY <1>1, InvAlways, PTL DEF Spec, UserFilesKept
=============================================================================
