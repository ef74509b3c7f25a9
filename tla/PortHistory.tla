----------------------------- MODULE PortHistory -----------------------------
(***************************************************************************)
(* Port with histories that its steps write and never read, and the safety *)
(* properties stated over them: how late a changed framing or scenario is  *)
(* taken up, and how scenario switches, describes and reloads met.         *)
(***************************************************************************)
EXTENDS Port

VARIABLES
  stale,       \* chunks framed by an old framing since the last change of it
  outdated,    \* frames matched in another scenario since `active` last changed
  switched,    \* the scenario last switched to, while the config has it
  torn,        \* describes that met a reload between its first two writes
  overlapped   \* a switch and a reload met

history == <<stale, outdated, switched, torn, overlapped>>

hvars == <<vars, history>>

HInit ==
  /\ Init
  /\ stale = 0 /\ outdated = 0 /\ switched = None /\ torn = {} /\ overlapped = FALSE

-----------------------------------------------------------------------------
(* Reading the steps of Port off the variables they change. *)

ObserveFraming ==
  stale' = IF Moved(Reloader, "framing", "idle") THEN 0
           ELSE IF Left("append") /\ spec # framing THEN stale + 1
           ELSE stale

ObserveMatching ==
  outdated' = IF active' # active THEN 0
              ELSE IF Left("push") /\ snap[Reader] # active THEN outdated + 1
              ELSE outdated

(* While a reload has written `compiled` and not `active`. *)
ObserveDescribe ==
  torn' = torn \cup {c \in Conn : \/ pc[Reloader] = "active" /\ pc'[c] = "describe"
                                  \/ pc'[Reloader] = "active" /\ pc[c] = "describe"}

Storing == \E c \in Conn : pc[c] = "store"

ObserveScenario ==
  /\ switched' =
       IF \E c \in Conn : Moved(c, "store", "done") THEN active'.name
       ELSE IF /\ Moved(Reloader, "idle", "compiled")
               /\ switched \notin DOMAIN new_config'.scenarios
       THEN None ELSE switched
  /\ overlapped' =
       \/ overlapped
       \/ Storing /\ Moved(Reloader, "compiled", "active")
       \/ /\ \E c \in Conn : Moved(c, "store", "done")
          /\ pc[Reloader] \in {"compiled", "active"}

HNext ==
  Next /\ ObserveFraming /\ ObserveMatching /\ ObserveDescribe /\ ObserveScenario

HSpec == HInit /\ [][HNext]_hvars

-----------------------------------------------------------------------------

(* After a reload stored another framing, at most one more chunk is cut by *)
(* the old one: the reader snapshots the framing in every turn.            *)
StaleFramingAtMostOnce == stale <= 1

(* After `active` changed, by a switch or a reload, at most one more frame  *)
(* is matched in the scenario before: the reader reads `active` for every  *)
(* frame, before it waits for the writer.                                  *)
StaleScenarioAtMostOnce == outdated <= 1

(* GET /ports/<p> reads `active` and `compiled` one after the other.  The  *)
(* scenario it calls active is one of those it lists, unless a reload was  *)
(* between its writes of the two at that moment, or a switch and a reload  *)
(* overlapped before.                                                      *)
DescribeConsistent ==
  \A c \in Conn :
    (pc[c] = "done" /\ req[c].op = "describe" /\ c \notin torn /\ ~overlapped)
      => resp[c].body.active_scenario \in resp[c].body.scenarios

(* The active scenario is one of the compiled configuration, except while  *)
(* a reload is between its two writes.  config.rs:3-5: a reload atomically *)
(* replaces the live configuration.                                        *)
ActiveIsCompiled ==
  pc[Reloader] # "active" => active \in {compiled[n] : n \in DOMAIN compiled}

(* A scenario that was switched to stays active over every reload whose    *)
(* configuration still has it (the doc of swap_config, port.rs:150-152).   *)
SwitchSurvivesReload ==
  pc[Reloader] \in {"idle", "framing"} /\ switched # None => active.name = switched

(* Both hold as long as no switch was between its lookup and its store     *)
(* when a reload replaced `compiled`, and no switch stored its scenario    *)
(* between a reload's choice of the active scenario and its write of it.   *)
CoherentUnlessOverlapped ==
  ~overlapped => ActiveIsCompiled /\ SwitchSurvivesReload
=============================================================================
