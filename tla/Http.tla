--------------------------------- MODULE Http --------------------------------
(***************************************************************************)
(* The HTTP server (src/src/http.rs): a thread for each connection that    *)
(* reads one request, routes it, answers and closes.  There is no timeout  *)
(* on this side; a trigger waits for the writer Mutex and for the line.    *)
(*                                                                         *)
(* A request arrives in parts: its line, its headers, its body (only a     *)
(* switch has one).  It is a record with                                   *)
(*   op:    "read" or "clear" a capture, "trigger", "switch", "show" ports *)
(*   names: "ok", or what in it is not known: "no port", "no name"         *)
(*   size:  "fits", or what is above its limit: "head", "body"             *)
(*   since: of a read of events, the ids to leave out                      *)
(*   log:   of a read or a clear, which capture                            *)
(* The capture is the log that module Capture is shown to implement: the   *)
(* items (events, or raw bytes) above `floor` up to `last`.  One log       *)
(* stands for both: that clients of the one meet those of the other only   *)
(* adds behaviours.                                                        *)
(***************************************************************************)
EXTENDS Integers, Sequences, FiniteSets

CONSTANTS
  Client,       \* client processes, with one connection at a time
  Request,      \* the requests they make
  Capacity,     \* maximum of the capture
  MaxItems,     \* bound: items captured by the first daemon; the next ones capture one
  MaxCrashes,   \* bound: times the daemon dies
  NoAnswer

ASSUME HttpAssumption ==
  /\ Request \subseteq [op    : {"read", "clear", "trigger", "switch", "show"},
                        names : {"ok", "no port", "no name"},
                        size  : {"fits", "head", "body"},
                        since : Nat,
                        log   : {"events", "raw"}]
  /\ \A r \in Request : r.log = "raw" => r.since = 0
  /\ {Capacity, MaxItems, MaxCrashes} \subseteq Nat

VARIABLES
  daemon,    \* "up" or "down"
  epoch,     \* daemons before this one
  last,      \* items captured by this daemon
  floor,     \* those that were evicted or cleared
  request,   \* of each client's connection: the request,
  sent,      \*   its parts that have arrived, 0..3,
  open,      \*   whether the client has its end open,
  srv,       \*   where the connection thread is,
  answer,    \*   the answer it makes,
  down,      \*   the parts of the answer that have arrived, 0..2
  effects    \* history: requests carried out for each client

service_vars == <<daemon, epoch, last, floor>>
conn_vars    == <<request, sent, open, srv, answer, down>>

Parts(r) == IF r.op = "switch" THEN 3 ELSE 2

Go(c, place) == srv' = [srv EXCEPT ![c] = place]

Close(c) == Go(c, "closed")

HttpInit ==
  /\ daemon = "up" /\ epoch = 0 /\ last = 0 /\ floor = 0
  /\ request = [c \in Client |-> NoAnswer]
  /\ sent = [c \in Client |-> 0] /\ open = [c \in Client |-> FALSE]
  /\ srv = [c \in Client |-> "none"]
  /\ answer = [c \in Client |-> NoAnswer] /\ down = [c \in Client |-> 0]
  /\ effects = [c \in Client |-> 0]

-----------------------------------------------------------------------------
(* parse_request *)

(* The request line, or the end of a connection that never sent one. *)
ReadLine(c) ==
  /\ srv[c] = "line"
  /\ \/ sent[c] >= 1 /\ Go(c, "headers")
     \/ sent[c] = 0 /\ ~open[c] /\ Close(c)
  /\ UNCHANGED <<service_vars, request, sent, open, answer, down, effects>>

(* The headers up to the blank line; what is above a limit is closed       *)
(* without an answer.                                                      *)
ReadHeaders(c) ==
  /\ srv[c] = "headers" /\ sent[c] >= 2
  /\ Go(c, IF request[c].size # "fits" THEN "closed"
           ELSE IF Parts(request[c]) = 3 THEN "body" ELSE "route")
  /\ UNCHANGED <<service_vars, request, sent, open, answer, down, effects>>

(* Headers that end with the connection count as complete.  Whether the    *)
(* Content-Length was among them decides if a body is expected, and where  *)
(* they were cut whether they had passed the limit.                        *)
HeadersCut(c) ==
  /\ srv[c] = "headers" /\ sent[c] = 1 /\ ~open[c]
  /\ \/ Go(c, "route")
     \/ (Parts(request[c]) = 3 \/ request[c].size = "head") /\ Close(c)
  /\ UNCHANGED <<service_vars, request, sent, open, answer, down, effects>>

(* read_exact: the whole body, or an error that ends the thread. *)
ReadBody(c) ==
  /\ srv[c] = "body"
  /\ \/ sent[c] = 3 /\ Go(c, "route")
     \/ sent[c] < 3 /\ ~open[c] /\ Close(c)
  /\ UNCHANGED <<service_vars, request, sent, open, answer, down, effects>>

-----------------------------------------------------------------------------
(* route and the handlers *)

Routed(c, op) == srv[c] = "route" /\ request[c].op = op

Respond(c, response) ==
  /\ answer' = [answer EXCEPT ![c] = response]
  /\ Go(c, "respond")

Status(n) == [status |-> n, epoch |-> epoch, from |-> 0, to |-> 0]

(* The request has been carried out. *)
Done(c) == effects' = [effects EXCEPT ![c] = @ + 1]

(* A port or a scenario that is not known, or a switch without its body. *)
Refused(c) ==
  /\ srv[c] = "route"
  /\ \/ /\ \/ request[c].names = "no port"
           \/ request[c].op = "switch" /\ request[c].names = "no name" /\ sent[c] = 3
        /\ Respond(c, Status(404))
     \/ /\ request[c].names # "no port"
        /\ request[c].op = "switch" /\ sent[c] < 3
        /\ Respond(c, Status(400))
  /\ UNCHANGED <<service_vars, request, sent, open, down, effects>>

(* capture_raw and capture_events: the items above `since`. *)
ReadCapture(c) ==
  /\ Routed(c, "read") /\ request[c].names # "no port"
  /\ Respond(c, [status |-> 200, epoch |-> epoch, to |-> last,
                 from |-> IF request[c].since > floor THEN request[c].since ELSE floor])
  /\ Done(c)
  /\ UNCHANGED <<service_vars, request, sent, open, down>>

(* A mutated ClearCapture that takes the next id for the last. *)
ClearCaptureNextId(c) ==
  /\ Routed(c, "clear") /\ request[c].names # "no port"
  /\ floor' = last + 1
  /\ Respond(c, Status(200))
  /\ Done(c)
  /\ UNCHANGED <<daemon, epoch, last, request, sent, open, down>>

(* clear_raw and clear_events *)
ClearCapture(c) ==
  /\ Routed(c, "clear") /\ request[c].names # "no port"
  /\ floor' = last
  /\ Respond(c, Status(200))
  /\ Done(c)
  /\ UNCHANGED <<daemon, epoch, last, request, sent, open, down>>

(* list_ports and describe_port *)
Show(c) ==
  /\ Routed(c, "show") /\ request[c].names # "no port"
  /\ Respond(c, Status(200))
  /\ Done(c)
  /\ UNCHANGED <<service_vars, request, sent, open, down>>

(* switch_scenario with its whole body *)
Switch(c) ==
  /\ Routed(c, "switch") /\ request[c].names = "ok" /\ sent[c] = 3
  /\ Respond(c, Status(200))
  /\ Done(c)
  /\ UNCHANGED <<service_vars, request, sent, open, down>>

(* fire_trigger waits for the writer, also to look up the name. *)
AwaitWriter(c) ==
  /\ Routed(c, "trigger") /\ request[c].names # "no port"
  /\ Go(c, "writer")
  /\ UNCHANGED <<service_vars, request, sent, open, answer, down, effects>>

(* A mutated FireTrigger that answers before it writes. *)
FireTriggerEarly(c) ==
  /\ srv[c] = "writer"
  /\ Respond(c, Status(200))
  /\ Done(c) \/ UNCHANGED effects
  /\ UNCHANGED <<service_vars, request, sent, open, down>>

(* At the end of the wait, if it ends: the client of the line may never    *)
(* read.  The response is written whole, or the name is not one of the     *)
(* active scenario, or the device is gone.                                 *)
FireTrigger(c) ==
  /\ srv[c] = "writer"
  /\ \/ request[c].names = "ok" /\ Respond(c, Status(200)) /\ Done(c)
     \/ Respond(c, Status(404)) /\ UNCHANGED effects
  /\ UNCHANGED <<service_vars, request, sent, open, down>>

(* The head of the answer, then its body and the end of the connection.    *)
(* A client that is gone makes the write fail or not: nobody will know.    *)
WriteHead(c) ==
  /\ srv[c] = "respond" /\ down[c] = 0
  /\ down' = [down EXCEPT ![c] = 1]
  /\ UNCHANGED <<service_vars, request, sent, open, srv, answer, effects>>

WriteBody(c) ==
  /\ srv[c] = "respond" /\ down[c] = 1
  /\ down' = [down EXCEPT ![c] = 2]
  /\ Close(c)
  /\ UNCHANGED <<service_vars, request, sent, open, answer, effects>>

ServerStep(c) ==
  \/ ReadLine(c) \/ ReadHeaders(c) \/ HeadersCut(c) \/ ReadBody(c)
  \/ Refused(c) \/ ReadCapture(c) \/ ClearCapture(c) \/ Show(c) \/ Switch(c)
  \/ AwaitWriter(c) \/ FireTrigger(c)
  \/ WriteHead(c) \/ WriteBody(c)

-----------------------------------------------------------------------------
(* What happens to the daemon. *)

(* The reader thread captures an item; the oldest makes room if the        *)
(* capture is full, which one with a maximum of 0 never is.                *)
Capture ==
  /\ daemon = "up" /\ last < (IF epoch = 0 THEN MaxItems ELSE 1)
  /\ last' = last + 1
  /\ floor' = IF last - floor = Capacity /\ last > floor THEN floor + 1 ELSE floor
  /\ UNCHANGED <<daemon, epoch, conn_vars, effects>>

(* The daemon dies: the kernel closes its connections. *)
Crash ==
  /\ daemon = "up" /\ epoch < MaxCrashes
  /\ daemon' = "down"
  /\ srv' = [c \in Client |-> IF srv[c] = "none" THEN "none" ELSE "closed"]
  /\ UNCHANGED <<epoch, last, floor, request, sent, open, answer, down, effects>>

(* A new one starts with an empty capture and ids from 1. *)
Restart ==
  /\ daemon = "down"
  /\ daemon' = "up" /\ epoch' = epoch + 1
  /\ last' = 0 /\ floor' = 0
  /\ UNCHANGED <<conn_vars, effects>>

DaemonStep == Capture \/ Crash \/ Restart
=============================================================================
