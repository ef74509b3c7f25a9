-------------------------------- MODULE MCCli --------------------------------
(***************************************************************************)
(* One client with one command out of: drain and wipe the events (with a   *)
(* standard output that may break) or the raw capture, fire a trigger,     *)
(* switch a scenario, with names that exist and names that do not, show a  *)
(* port, complete port names; and another that meanwhile wipes the         *)
(* capture.                                                                *)
(***************************************************************************)
EXTENDS Cli

CONSTANTS c1, c2

Req(op, names, size, since) ==
  [op |-> op, names |-> names, size |-> size, since |-> since, log |-> "events"]

Ok(op) == Req(op, "ok", "fits", 0)

Raw(op) == [Ok(op) EXCEPT !.log = "raw"]

Cmd(requests) == [requests |-> requests, silent |-> FALSE, heard |-> TRUE]

(* Its standard output may break. *)
Unheard(requests) == [Cmd(requests) EXCEPT !.heard = FALSE]

MCClient == {c1, c2}

MCCommands ==
  { Unheard(<<Req("read", "ok", "fits", 1), Ok("clear")>>),
    Cmd(<<Raw("read"), Raw("clear")>>),
    Cmd(<<Ok("trigger")>>), Cmd(<<Req("show", "no port", "fits", 0)>>),
    Cmd(<<Ok("switch")>>), Cmd(<<Req("switch", "no name", "fits", 0)>>),
    Cmd(<<Req("switch", "ok", "body", 0)>>),
    [Cmd(<<Ok("show")>>) EXCEPT !.silent = TRUE] }

OtherCommands == {Cmd(<<Ok("clear")>>)}

MCCommandsOf(c) == IF c = c1 THEN MCCommands ELSE OtherCommands

MCRequest == UNION {{cmnd.requests[i] : i \in DOMAIN cmnd.requests} : cmnd \in MCCommands \cup OtherCommands}
=============================================================================
