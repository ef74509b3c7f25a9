------------------------------ MODULE Lifecycle ------------------------------
(***************************************************************************)
(* The service as a process (src/src/main.rs), its map of ports            *)
(* (src/src/server.rs), SIGHUP reload (src/src/reload.rs), and how a port  *)
(* comes and goes (PortState::spawn, create_symlink and Drop in            *)
(* src/src/port.rs, src/src/transport.rs).                                 *)
(*                                                                         *)
(* A PortState lives as long as something holds its Arc: the map, its      *)
(* reader thread, a request in progress.  Whoever lets go last runs Drop.  *)
(* The file system outlives the process: links are left to the next one.   *)
(* What a swap does inside a port is module Port; here it is one step that *)
(* gives the port the rules of the new configuration.                      *)
(***************************************************************************)
EXTENDS Integers, Sequences, FiniteSets

CONSTANTS
  Name, Path,            \* port names; symlink paths
  Rules,                 \* versions of what a reload swaps in place
  Tty,                   \* tty devices that may be bound
  MaxPtys,               \* PTYs the kernel can allocate
  Files,                 \* the valid configurations that may be on disk
  InitialFile,           \* the one the service is first started with
  Invalid,               \* a file that config::load refuses
  Conn,                  \* HTTP connection threads
  MaxSpawns,             \* bound: instances per process
  MaxEdits,              \* bound: edits of the file
  MaxHups,               \* bound: SIGHUPs
  MaxStarts,             \* bound: processes, one after another
  MaxMeddles,            \* bound: files a user puts at a symlink's path
  None, UserFile         \* no link, no instance; a file that is no symlink

Ptys == {<<"pty", n>> : n \in 1..MaxPtys}

Ttys == {<<"tty", t>> : t \in Tty}

(* transport: pty, which allocates one *)
Pty == <<"pty", 0>>

PortConfig == [name : Name, transport : {Pty} \cup Ttys, symlink : Path \cup {None},
               rules : Rules]

Names(file) == {file[i].name : i \in DOMAIN file}

ASSUME LifecycleAssumption ==
  /\ InitialFile \in Files /\ Invalid \notin Files
  /\ None # UserFile /\ None \notin Path
  /\ {None, UserFile} \cap (Ptys \cup Ttys) = {}
  /\ \A file \in Files : /\ file \in Seq(PortConfig)
                         /\ Cardinality(Names(file)) = Len(file)  \* config::validate
  /\ {MaxPtys, MaxSpawns, MaxEdits, MaxHups, MaxStarts, MaxMeddles} \subseteq Nat

VARIABLES
  main,       \* the main thread: "spawn", "install", "bind", "serving", "dead"
  reload,     \* the sighup-reload thread: "wait", "load", "apply", "remove"
  new_cfg,    \* the configuration last loaded
  todo,       \* port configurations yet to spawn (main) or apply (reload)
  existing,   \* names that were in the map when apply began, yet to check
  step, device,  \* PortState::spawn in progress, and the device it opened
  ports,      \* PortMap: name -> instance
  inst,       \* the instances of this process, in the order of their spawn
  conn,       \* the instance each connection holds
  dropping,   \* the instance whose Drop the reload thread runs
  pending,    \* a SIGHUP is pending
  file, links, gone,  \* the outside: config file, symlinks, ttys gone away
  exit,       \* how the last process ended
  hups, edits, starts, meddles,          \* counts
  failed, dirty, kept, raced    \* histories, see below

process_vars == <<main, reload, new_cfg, todo, existing, step, device, ports, inst, conn,
                  dropping, pending>>
control_vars == <<main, reload, new_cfg, todo, existing, step, device, dropping, pending>>
count_vars   == <<hups, edits, starts, meddles>>
outside_vars == <<file, links, gone, exit, count_vars>>
history_vars == <<failed, dirty, kept, raced>>

vars == <<process_vars, outside_vars, history_vars>>

(* failed: the names of new_cfg whose device could not be opened.          *)
(* dirty: the file was edited after the last SIGHUP or start.              *)
(* kept: names, with their instances, that the map had when apply began    *)
(*   and the new configuration has.                                        *)
(* raced: paths that one party changed while another was between its look  *)
(*   at the path and its change of it, or where a spawn took down the link *)
(*   of a port that is still open and could not make its own.              *)

(* Somebody holds the Arc of instance i: its reader, the map, a request. *)
Held(i, map) ==
  \/ inst[i].reader = "reading"
  \/ \E n \in DOMAIN map : map[n] = i
  \/ \E c \in Conn : conn[c] = i

(* A link points to a device; anything else at the path is a UserFile. *)
IsSymlink(p) == links[p] \notin {None, UserFile}

(* The reload thread is not busy with the Drop of a port it removed. *)
ReloadFree == dropping # None => inst[dropping].state = "dropped"

(* Another party's look at p is outdated by a change of it now. *)
Overtakes(p, i) == \E j \in DOMAIN inst : j # i /\ inst[j].link = p /\ inst[j].state = "unlinking"

OvertakesSpawn(p) == step \in {"unlink", "symlink"} /\ todo[1].symlink = p

(* A port that is still open made its link at p. *)
Linked(p) == \E i \in DOMAIN inst : inst[i].link = p /\ inst[i].state = "open"

Race(p, overtakes) == raced' = IF overtakes THEN raced \cup {p} ELSE raced

(* The process is gone: the kernel closes its fds and ends its threads. *)
Exit(how) ==
  /\ main' = "dead" /\ exit' = how
  /\ reload' = "wait" /\ todo' = <<>> /\ existing' = {}
  /\ step' = "none" /\ device' = None
  /\ ports' = <<>> /\ inst' = <<>> /\ conn' = [c \in Conn |-> None]
  /\ dropping' = None /\ pending' = FALSE
  /\ kept' = <<>> /\ failed' = {} /\ new_cfg' = None
  /\ UNCHANGED <<file, links, gone, count_vars, dirty, raced>>

Init ==
  /\ main = "dead" /\ reload = "wait" /\ exit = "none"
  /\ todo = <<>> /\ existing = {}
  /\ step = "none" /\ device = None
  /\ ports = <<>> /\ inst = <<>> /\ conn = [c \in Conn |-> None]
  /\ dropping = None /\ pending = FALSE
  /\ file = InitialFile /\ links = [p \in Path |-> None] /\ gone = {}
  /\ hups = 0 /\ edits = 0 /\ starts = 0 /\ meddles = 0
  /\ new_cfg = None /\ failed = {} /\ dirty = FALSE /\ kept = <<>> /\ raced = {}

-----------------------------------------------------------------------------
(* PortState::spawn, in the main thread at start and in the reload thread  *)
(* later.  todo[1] is the port's configuration.                            *)

Spawning == step # "none"

spawn_unchanged == <<main, reload, existing, conn, dropping, pending, file, gone,
                     exit, count_vars, new_cfg, dirty, kept>>

(* A mutated Openable that opens what the configuration names. *)
OpenableNamed(transport) == {transport} \ gone

(* The devices that transport::open may return. *)
Openable(transport) ==
  IF transport = Pty
  THEN LET free == {n \in 1..MaxPtys : \A i \in DOMAIN inst : inst[i].device # <<"pty", n>>}
       IN  {<<"pty", n>> : n \in {m \in free : \A k \in free : m <= k}}
  ELSE {transport} \ gone

(* transport::open; then create_symlink, if one is configured. *)
Open ==
  /\ step = "open" /\ Len(inst) < MaxSpawns
  /\ \E d \in Openable(todo[1].transport) : device' = d
  /\ step' = IF todo[1].symlink = None THEN "start" ELSE "lstat"
  /\ UNCHANGED <<spawn_unchanged, todo, ports, inst, links, failed, raced>>

(* A mutated Lstat that overwrites whatever is at the path. *)
LstatOverwrites ==
  /\ step = "lstat"
  /\ step' = IF links[todo[1].symlink] # None THEN "unlink" ELSE "symlink"
  /\ UNCHANGED <<spawn_unchanged, todo, device, ports, inst, links, failed, raced>>

(* create_symlink: symlink_metadata.  A file that is no symlink is left    *)
(* alone, and the port starts without a link.                              *)
Lstat ==
  /\ step = "lstat"
  /\ step' = CASE IsSymlink(todo[1].symlink) -> "unlink"
               [] links[todo[1].symlink] = UserFile -> "unlinked"
               [] OTHER -> "symlink"
  /\ UNCHANGED <<spawn_unchanged, todo, device, ports, inst, links, failed, raced>>

(* create_symlink: remove_file, which fails if there is nothing any more.  *)
Unlink ==
  LET p == todo[1].symlink
  IN  /\ step = "unlink"
      /\ links' = [links EXCEPT ![p] = None]
      /\ step' = IF links[p] = None THEN "unlinked" ELSE "symlink"
      /\ Race(p, Overtakes(p, 0))
      /\ UNCHANGED <<spawn_unchanged, todo, device, ports, inst, failed>>

(* create_symlink: symlink, which fails if there is something now.  *)
Symlink ==
  LET p == todo[1].symlink
  IN  /\ step = "symlink"
      /\ IF links[p] = None
         THEN /\ links' = [links EXCEPT ![p] = device]
              /\ step' = "start"
         ELSE /\ step' = "unlinked"
              /\ UNCHANGED links
      /\ Race(p, Overtakes(p, 0))
      /\ UNCHANGED <<spawn_unchanged, todo, device, ports, inst, failed>>

(* create_symlink fails at any of its calls, for want of a permission or   *)
(* of space: create_dir_all before its look, remove_file, symlink.         *)
LinkFails ==
  /\ step \in {"lstat", "unlink", "symlink"}
  /\ step' = "unlinked"
  /\ Race(todo[1].symlink, step = "symlink" /\ Linked(todo[1].symlink))
  /\ UNCHANGED <<spawn_unchanged, todo, device, ports, inst, links, failed>>

(* The PortState exists, its reader runs, and it is in the map: before     *)
(* that, only the spawning thread knows of it.  `symlink` is None when the *)
(* link could not be made.                                                 *)
Start ==
  LET cfg == todo[1]
  IN  /\ step \in {"start", "unlinked"}
      /\ inst' = Append(inst, [name   |-> cfg.name, device |-> device,
                               link   |-> IF step = "start" THEN cfg.symlink ELSE None,
                               rules  |-> cfg.rules, reader |-> "reading",
                               state  |-> "open"])
      /\ ports' = [n \in DOMAIN ports \cup {cfg.name} |->
                     IF n = cfg.name THEN Len(inst) + 1 ELSE ports[n]]
      /\ todo' = Tail(todo)
      /\ step' = "none" /\ device' = None
      /\ UNCHANGED <<spawn_unchanged, links, failed, raced>>

(* transport::open fails: at start the service exits, a reload logs it and *)
(* goes on.                                                                *)
OpenFails ==
  /\ step = "open"
  /\ IF main = "spawn"
     THEN Exit("spawn failed")
     ELSE /\ failed' = failed \cup {todo[1].name}
          /\ todo' = Tail(todo)
          /\ step' = "none"
          /\ UNCHANGED <<spawn_unchanged, device, ports, inst, links, raced>>

SpawnStep == Open \/ Lstat \/ Unlink \/ Symlink \/ LinkFails \/ Start

-----------------------------------------------------------------------------
(* main.rs: serve *)

(* The service is started: config::load. *)
Serve ==
  /\ main = "dead" /\ starts < MaxStarts
  /\ starts' = starts + 1
  /\ dirty' = FALSE /\ raced' = {}
  /\ IF file = Invalid
     THEN /\ exit' = "config error"
          /\ UNCHANGED <<main, todo, new_cfg>>
     ELSE /\ main' = "spawn" /\ exit' = "none"
          /\ todo' = file /\ new_cfg' = file
  /\ UNCHANGED <<reload, existing, step, device, ports, inst, conn, dropping, pending, file,
                 links, gone, hups, edits, meddles, failed, kept>>

(* The loop over cfg.ports, then reload::install, then http::serve. *)
MainStep ==
  /\ \/ /\ main = "spawn" /\ ~Spawning
        /\ IF todo # <<>>
           THEN step' = "open" /\ UNCHANGED main
           ELSE main' = "install" /\ UNCHANGED step
     \/ /\ main = "install"
        /\ main' = "bind"
        /\ UNCHANGED step
     \/ /\ main = "bind"
        /\ main' = "serving"
        /\ UNCHANGED step
  /\ UNCHANGED <<reload, new_cfg, todo, existing, device, ports, inst, conn, dropping, pending,
                 outside_vars, history_vars>>

(* The SIGHUP handler cannot be installed, or the address not be bound. *)
MainFails == main \in {"install", "bind"} /\ Exit("install or bind failed")

-----------------------------------------------------------------------------
(* reload.rs *)

reload_unchanged == <<main, step, device, conn, outside_vars, dirty, raced>>

Installed == main \in {"bind", "serving"}

(* `for _ in signals.forever()`: the flag is cleared, then the body runs. *)
TakeSignal ==
  /\ Installed /\ reload = "wait" /\ pending
  /\ pending' = FALSE
  /\ reload' = "load"
  /\ UNCHANGED <<reload_unchanged, todo, existing, ports, inst, dropping, new_cfg, failed,
                 kept>>

(* config::load, and the beginning of apply: `server.ports.names()`. *)
Load ==
  /\ reload = "load"
  /\ IF file = Invalid
     THEN /\ reload' = "wait"
          /\ UNCHANGED <<todo, existing, new_cfg, failed, kept>>
     ELSE /\ reload' = "apply"
          /\ todo' = file /\ existing' = DOMAIN ports
          /\ new_cfg' = file /\ failed' = {}
          /\ kept' = [n \in DOMAIN ports \cap Names(file) |-> ports[n]]
  /\ UNCHANGED <<reload_unchanged, pending, ports, inst, dropping>>

(* A mutated Swap that leaves a port with its old rules. *)
SwapSkipped ==
  /\ reload = "apply" /\ ~Spawning /\ todo # <<>>
  /\ todo[1].name \in DOMAIN ports
  /\ todo' = Tail(todo)
  /\ UNCHANGED <<reload_unchanged, reload, pending, existing, ports, inst, dropping, new_cfg,
                 failed, kept>>

(* apply: swap_config on a port that the map has, spawn one it lacks. *)
Swap ==
  LET cfg == todo[1]
  IN  /\ reload = "apply" /\ ~Spawning /\ todo # <<>>
      /\ cfg.name \in DOMAIN ports
      /\ inst' = [inst EXCEPT ![ports[cfg.name]].rules = cfg.rules]
      /\ todo' = Tail(todo)
      /\ UNCHANGED <<reload_unchanged, reload, pending, existing, ports, dropping, new_cfg,
                     failed, kept>>

SpawnNew ==
  /\ reload = "apply" /\ ~Spawning /\ todo # <<>>
  /\ todo[1].name \notin DOMAIN ports
  /\ step' = "open"
  /\ UNCHANGED <<main, device, conn, outside_vars, dirty, raced, reload, pending, todo,
                 existing, ports, inst, dropping, new_cfg, failed, kept>>

AllApplied ==
  /\ reload = "apply" /\ ~Spawning /\ todo = <<>>
  /\ reload' = "remove"
  /\ UNCHANGED <<reload_unchanged, pending, todo, existing, ports, inst, dropping, new_cfg,
                 failed, kept>>

(* A mutated Remove that drops every port that was there before. *)
RemoveExisting(n) ==
  /\ reload = "remove" /\ ReloadFree
  /\ n \in existing
  /\ existing' = existing \ {n}
  /\ IF n \in DOMAIN ports
     THEN /\ ports' = [m \in DOMAIN ports \ {n} |-> ports[m]]
          /\ dropping' = IF Held(ports[n], ports') THEN None ELSE ports[n]
     ELSE UNCHANGED <<ports, dropping>>
  /\ UNCHANGED <<reload_unchanged, reload, pending, todo, inst, new_cfg, failed, kept>>

(* apply: drop the ports no longer present.  If nothing else holds the     *)
(* port, its Drop runs here.                                               *)
Remove(n) ==
  /\ reload = "remove" /\ ReloadFree
  /\ n \in existing
  /\ existing' = existing \ {n}
  /\ IF n \notin Names(new_cfg) /\ n \in DOMAIN ports
     THEN /\ ports' = [m \in DOMAIN ports \ {n} |-> ports[m]]
          /\ dropping' = IF Held(ports[n], ports') THEN None ELSE ports[n]
     ELSE UNCHANGED <<ports, dropping>>
  /\ UNCHANGED <<reload_unchanged, reload, pending, todo, inst, new_cfg, failed, kept>>

(* A mutated Applied that clears the signals which came in meanwhile. *)
AppliedClears ==
  /\ reload = "remove" /\ ReloadFree /\ existing = {}
  /\ reload' = "wait" /\ dropping' = None /\ kept' = <<>>
  /\ pending' = FALSE
  /\ UNCHANGED <<reload_unchanged, todo, existing, ports, inst, new_cfg, failed>>

Applied ==
  /\ reload = "remove" /\ ReloadFree /\ existing = {}
  /\ reload' = "wait" /\ dropping' = None /\ kept' = <<>>
  /\ UNCHANGED <<reload_unchanged, pending, todo, existing, ports, inst, new_cfg, failed>>

ReloadStep ==
  TakeSignal \/ Load \/ Swap \/ SpawnNew \/ AllApplied \/ (\E n \in Name : Remove(n)) \/ Applied

-----------------------------------------------------------------------------
(* The reader thread as a holder, requests, and Drop. *)

(* A mutated ReaderExit that tries again. *)
ReaderExitRetries(i) ==
  /\ inst[i].reader = "reading"
  /\ inst[i].device \in gone
  /\ UNCHANGED vars

(* read() returns an error or 0 once the tty is gone.  On a PTY it never   *)
(* does: the PortState that the reader itself holds keeps the slave open.  *)
ReaderExit(i) ==
  /\ inst[i].reader = "reading"
  /\ inst[i].device \in gone
  /\ inst' = [inst EXCEPT ![i].reader = "exited"]
  /\ UNCHANGED <<control_vars, ports, conn, outside_vars, history_vars>>

(* A mutated DropCheck that does not look where the link leads. *)
DropCheckAnyLink(i) ==
  /\ inst[i].state = "open" /\ ~Held(i, ports)
  /\ inst' = [inst EXCEPT ![i].state =
                IF inst[i].link # None /\ IsSymlink(inst[i].link) THEN "unlinking" ELSE "dropped"]
  /\ UNCHANGED <<control_vars, ports, conn, outside_vars, history_vars>>

(* Drop: read_link.  If it names another device, or nothing, that is all. *)
DropCheck(i) ==
  /\ inst[i].state = "open" /\ ~Held(i, ports)
  /\ inst' = [inst EXCEPT ![i].state =
                IF inst[i].link # None /\ links[inst[i].link] = inst[i].device
                THEN "unlinking" ELSE "dropped"]
  /\ UNCHANGED <<control_vars, ports, conn, outside_vars, history_vars>>

(* Drop: remove_file, of whatever is there by now, or of nothing if it is  *)
(* not permitted: the error is ignored.                                    *)
DropUnlink(i) ==
  LET p == inst[i].link
  IN  /\ inst[i].state = "unlinking"
      /\ inst' = [inst EXCEPT ![i].state = "dropped"]
      /\ \/ /\ links' = [links EXCEPT ![p] = None]
            /\ Race(p, Overtakes(p, i) \/ OvertakesSpawn(p))
         \/ UNCHANGED <<links, raced>>
      /\ UNCHANGED <<control_vars, ports, conn, file, gone, exit, count_vars, new_cfg, failed,
                     dirty, kept>>

PortStep(i) == ReaderExit(i) \/ DropCheck(i) \/ DropUnlink(i)

(* A handler holds the port it looked up until it has answered. *)
Request(c, n) ==
  /\ main = "serving" /\ conn[c] = None
  /\ n \in DOMAIN ports
  /\ conn' = [conn EXCEPT ![c] = ports[n]]
  /\ UNCHANGED <<control_vars, ports, inst, outside_vars, history_vars>>

Answered(c) ==
  /\ conn[c] # None
  /\ conn' = [conn EXCEPT ![c] = None]
  /\ UNCHANGED <<control_vars, ports, inst, outside_vars, history_vars>>

-----------------------------------------------------------------------------
(* The outside. *)

(* A SIGHUP before reload::install has the default effect. *)
Hup ==
  /\ main # "dead" /\ hups < MaxHups
  /\ IF Installed
     THEN /\ pending' = TRUE /\ hups' = hups + 1 /\ dirty' = FALSE
          /\ UNCHANGED <<main, reload, todo, existing, step, device, ports, inst, conn,
                         dropping, file, links, gone, exit, edits, starts, meddles, new_cfg,
                         failed, kept, raced>>
     ELSE Exit("SIGHUP")

(* No other signal is handled: SIGTERM and SIGINT kill as SIGKILL does. *)
Kill(signal) == main # "dead" /\ Exit(signal)

Edit(new) ==
  /\ edits < MaxEdits /\ new # file
  /\ file' = new
  /\ edits' = edits + 1 /\ dirty' = TRUE
  /\ UNCHANGED <<process_vars, links, gone, exit, hups, starts, meddles, new_cfg, failed,
                 kept, raced>>

(* A tty goes away for good. *)
Unplug(t) ==
  /\ t \notin gone
  /\ gone' = gone \cup {t}
  /\ UNCHANGED <<process_vars, file, links, exit, count_vars, history_vars>>

(* A user puts a file of theirs in the place of a link. *)
Meddle(p) ==
  /\ meddles < MaxMeddles /\ links[p] # UserFile
  /\ meddles' = meddles + 1
  /\ links' = [links EXCEPT ![p] = UserFile]
  /\ Race(p, Overtakes(p, 0) \/ OvertakesSpawn(p))
  /\ UNCHANGED <<process_vars, file, gone, exit, hups, edits, starts, new_cfg, failed, dirty,
                 kept>>

Outside ==
  \/ Hup \/ (\E s \in {"SIGTERM", "SIGKILL"} : Kill(s))
  \/ (\E new \in Files \cup {Invalid} : Edit(new))
  \/ (\E t \in Ttys : Unplug(t))
  \/ (\E p \in Path : Meddle(p))

Next ==
  \/ Serve \/ MainStep \/ MainFails
  \/ SpawnStep \/ OpenFails
  \/ ReloadStep
  \/ \E i \in DOMAIN inst : PortStep(i)
  \/ \E c \in Conn : Answered(c) \/ \E n \in Name : Request(c, n)
  \/ Outside

Spec == Init /\ [][Next]_vars

(* The threads of the service run; opening a device, a request and a       *)
(* configuration file take some time but not for ever.                     *)
FairSpec ==
  /\ Spec
  /\ WF_vars(MainStep) /\ WF_vars(ReloadStep) /\ WF_vars(SpawnStep \/ OpenFails)
  /\ \A i \in 1..MaxSpawns : WF_vars(i \in DOMAIN inst /\ PortStep(i))
  /\ \A c \in Conn : WF_vars(Answered(c))

-----------------------------------------------------------------------------

Instance == [name : Name, device : Ptys \cup Ttys, link : Path \cup {None}, rules : Rules,
             reader : {"reading", "exited"}, state : {"open", "unlinking", "dropped"}]

TypeOK ==
  /\ main \in {"spawn", "install", "bind", "serving", "dead"}
  /\ reload \in {"wait", "load", "apply", "remove"}
  /\ todo \in Seq(PortConfig)
  /\ existing \subseteq Name
  /\ step \in {"none", "open", "lstat", "unlink", "unlinked", "symlink", "start"}
  /\ device \in Ptys \cup Ttys \cup {None}
  /\ inst \in Seq(Instance)
  /\ DOMAIN ports \subseteq Name
  /\ \A n \in DOMAIN ports : ports[n] \in DOMAIN inst /\ inst[ports[n]].name = n
  /\ conn \in [Conn -> DOMAIN inst \cup {None}]
  /\ dropping \in DOMAIN inst \cup {None}
  /\ pending \in BOOLEAN
  /\ file \in Files \cup {Invalid}
  /\ links \in [Path -> Ptys \cup Ttys \cup {None, UserFile}]
  /\ gone \subseteq Ttys

(* When no reload is under way, a running service has exactly the ports of *)
(* the configuration last applied, with its rules, except those it could   *)
(* not open; at start it has all of them.  (reload.rs:1-8)                 *)
AppliedIsServed ==
  main \in {"install", "bind", "serving"} /\ reload \in {"wait", "load"} =>
    /\ DOMAIN ports = Names(new_cfg) \ failed
    /\ \A k \in DOMAIN new_cfg :
         new_cfg[k].name \in DOMAIN ports => inst[ports[new_cfg[k].name]].rules = new_cfg[k].rules

(* No SIGHUP is lost, although several that are pending become one: an     *)
(* idle service whose file was not edited after the last SIGHUP runs it.   *)
NoLostReload ==
  main = "serving" /\ reload = "wait" /\ ~pending /\ ~dirty /\ file # Invalid
    => new_cfg = file

(* A port that a reload keeps is the same instance, in the map all the     *)
(* time: "PTY stays open, capture buffers preserved" (reload.rs:4-5).      *)
KeptPortUntouched ==
  /\ \A n \in DOMAIN kept : n \in DOMAIN ports /\ ports[n] = kept[n]
  /\ \A n \in DOMAIN ports : inst[ports[n]].state = "open"

(* The last instance that made a link at p. *)
Claimant(p) ==
  {i \in DOMAIN inst : inst[i].link = p /\ \A j \in DOMAIN inst : inst[j].link = p => j <= i}

(* The link of a port leads to its device, as long as nobody made another  *)
(* at the same path, no user replaced it, no other instance bound the same *)
(* device under the same path, and nobody raced for the path.              *)
LinkServed ==
  \A p \in Path \ raced : \A i \in Claimant(p) :
    /\ inst[i].state = "open"
    /\ links[p] # UserFile
    /\ ~Spawning
    /\ \A j \in DOMAIN inst : j # i /\ inst[j].link = p => inst[j].device # inst[i].device
    => links[p] = inst[i].device

(* A user's file in the place of a link is neither replaced nor deleted    *)
(* (create_symlink, and the comment in Drop), unless it appeared between   *)
(* the service's look at the path and its change of it.                    *)
UserFilesKept ==
  [][\A p \in Path : links[p] = UserFile /\ p \notin raced => links'[p] = UserFile]_vars

(* The ports that are out of the map and have lost their tty, but are not  *)
(* dropped.                                                                *)
Leftover ==
  {i \in DOMAIN inst : /\ inst[i].device \in gone /\ inst[i].state # "dropped"
                       /\ \A n \in DOMAIN ports : ports[n] # i}

(* A port on a tty that was removed and whose device goes away is dropped, *)
(* its link with it, once no request holds it: always there is a time      *)
(* ahead at which none is left over.                                       *)
RemovedTtyDropped == []<>(Leftover = {})

(* reload.rs:7-8: "removed ports are dropped (their reader thread exits    *)
(* when the master fd is closed)".                                         *)
RemovedPortStops ==
  \A i \in 1..MaxSpawns :
    (i \in DOMAIN inst /\ i \notin {ports[n] : n \in DOMAIN ports})
      ~> (main = "dead" \/ (i \in DOMAIN inst /\ inst[i].reader = "exited"))

(* config.rs:79-80: the service creates the symlink "on spawn and removes  *)
(* it on shutdown"; README: "It is removed on graceful shutdown".          *)
ShutdownUnlinks ==
  main = "dead" /\ exit = "SIGTERM" => \A p \in Path : links[p] \in {None, UserFile}
=============================================================================
