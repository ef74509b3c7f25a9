--------------------------------- MODULE Cli ---------------------------------
(***************************************************************************)
(* The command line client (src/src/cli.rs) against the server of module   *)
(* Http.  A command is one request, or a read and then a clear (--clear);  *)
(* each request has a connection of its own.  A client waits at most five  *)
(* seconds for the next bytes of an answer: here it may give up at any     *)
(* moment at which the answer is not complete.  Users may kill it.         *)
(***************************************************************************)
EXTENDS Http

CONSTANT CommandsOf(_)   \* what each client may run: [requests, silent: for completion,
                         \*   heard: its standard output is read to the end]

Drains == {<<r, s>> : r \in {r \in Request : r.op = "read"}, s \in {s \in Request : s.op = "clear"}}

Command == [requests : {<<r>> : r \in Request} \cup Drains,
            silent : BOOLEAN,
            heard : BOOLEAN]

ASSUME CliAssumption == \A c \in Client : CommandsOf(c) \subseteq Command

VARIABLES
  pc,      \* "ready", "connect", "send", "read", "ended"
  cmd,     \* the command,
  step,    \*   which of its requests is being made,
  why,     \*   and how it ended: "ok", "status", "refused", "io", "killed"
  printed, \* what the read of the command wrote to its standard output: [epoch, from, to],
  seen,    \*   and the last of it that has left the process
  wiped,   \* history: what was cleared on its behalf: [epoch, from, to]
  as_of    \* history: the last item, and its daemon, when its read was answered

client_vars == <<pc, cmd, step, why, printed, seen>>
wipe_vars   == <<wiped, as_of>>

vars == <<service_vars, conn_vars, effects, client_vars, wipe_vars>>

Nothing == [epoch |-> -1, from |-> 0, to |-> 0]

Init ==
  /\ HttpInit
  /\ pc = [c \in Client |-> "ready"]
  /\ cmd = [c \in Client |-> NoAnswer] /\ step = [c \in Client |-> 0]
  /\ why = [c \in Client |-> "running"]
  /\ printed = [c \in Client |-> Nothing] /\ seen = [c \in Client |-> 0]
  /\ wiped = [c \in Client |-> Nothing]
  /\ as_of = [c \in Client |-> Nothing]

Goto(c, place) == pc' = [pc EXCEPT ![c] = place]

End(c, reason) ==
  /\ Goto(c, "ended")
  /\ why' = [why EXCEPT ![c] = reason]
  /\ open' = [open EXCEPT ![c] = FALSE]

(* Completion prints nothing if anything fails, and fails itself never. *)
BestEffort(c) == cmd[c].silent

(* run *)
ExitCode(c) == IF why[c] = "ok" \/ BestEffort(c) THEN 0 ELSE 1

Steps(c) == Len(cmd[c].requests)

(* The runtime flushes standard output at exit; if that fails, what was    *)
(* still buffered is dropped and the exit code does not tell.              *)
Flush(c) ==
  \/ seen' = [seen EXCEPT ![c] = printed[c].to]
  \/ ~cmd[c].heard /\ UNCHANGED seen

-----------------------------------------------------------------------------

Start(c, new) ==
  /\ pc[c] = "ready"
  /\ cmd' = [cmd EXCEPT ![c] = new]
  /\ step' = [step EXCEPT ![c] = 1]
  /\ Goto(c, "connect")
  /\ UNCHANGED <<service_vars, conn_vars, effects, why, printed, seen, wipe_vars>>

(* http: connect; the server's accept loop starts a thread. *)
Connect(c) ==
  /\ pc[c] = "connect" /\ daemon = "up"
  /\ request' = [request EXCEPT ![c] = cmd[c].requests[step[c]]]
  /\ sent' = [sent EXCEPT ![c] = 0]
  /\ open' = [open EXCEPT ![c] = TRUE]
  /\ srv' = [srv EXCEPT ![c] = "line"]
  /\ answer' = [answer EXCEPT ![c] = NoAnswer]
  /\ down' = [down EXCEPT ![c] = 0]
  /\ Goto(c, "send")
  /\ UNCHANGED <<service_vars, effects, cmd, step, why, printed, seen, wipe_vars>>

ConnectRefused(c) ==
  /\ pc[c] = "connect" /\ daemon = "down"
  /\ End(c, "refused") /\ Flush(c)
  /\ UNCHANGED <<service_vars, request, sent, srv, answer, down, effects,
                 cmd, step, printed, wipe_vars>>

(* http: the parts of the request. *)
Send(c) ==
  /\ pc[c] = "send" /\ srv[c] # "closed"
  /\ sent' = [sent EXCEPT ![c] = @ + 1]
  /\ Goto(c, IF sent'[c] = Parts(request[c]) THEN "read" ELSE "send")
  /\ UNCHANGED <<service_vars, request, open, srv, answer, down, effects,
                 cmd, step, why, printed, seen, wipe_vars>>

(* Writing to, or reading from, a connection that the other side has       *)
(* closed before it answered: an error, or an end of file without a head.  *)
(* A reset may also take the head of an answer with it.                    *)
Disconnected(c) ==
  /\ pc[c] \in {"send", "read"} /\ srv[c] = "closed" /\ down[c] < 2
  /\ End(c, "io") /\ Flush(c)
  /\ UNCHANGED <<service_vars, request, sent, srv, answer, down, effects,
                 cmd, step, printed, wipe_vars>>

(* The items of the answer.  http does not compare Content-Length with     *)
(* what came: without its body an answer has none and is no error.         *)
Items(c) ==
  [epoch |-> answer[c].epoch, from |-> answer[c].from,
   to    |-> IF down[c] = 2 THEN answer[c].to ELSE answer[c].from]

(* The end of the answer: the status decides, then comes the next request. *)
Finish(c) ==
  IF step[c] = Steps(c) THEN End(c, "ok") /\ UNCHANGED step
  ELSE /\ step' = [step EXCEPT ![c] = @ + 1]
       /\ Goto(c, "connect")
       /\ open' = [open EXCEPT ![c] = FALSE]
       /\ UNCHANGED why

(* Mutated TimedOut: a client without a read timeout, and one that takes a *)
(* timeout for the end of the answer.                                      *)
TimedOutNever(c) == pc[c] = "read" /\ FALSE /\ UNCHANGED vars

TimedOutGoesOn(c) ==
  /\ pc[c] = "read" /\ srv[c] # "closed"
  /\ Finish(c)
  /\ UNCHANGED <<service_vars, request, sent, srv, answer, down, effects, cmd, printed, seen,
                 wipe_vars>>

(* The read timeout, whatever the server is doing. *)
TimedOut(c) ==
  /\ pc[c] = "read" /\ srv[c] # "closed"
  /\ End(c, "io") /\ Flush(c)
  /\ UNCHANGED <<service_vars, request, sent, srv, answer, down, effects,
                 cmd, step, printed, wipe_vars>>

(* Where the output of a read may end when Receive is over.  Events are    *)
(* printed with a newline, at which a line-buffered standard output is     *)
(* flushed; raw bytes after their last newline stay in its buffer, until   *)
(* the process exits.                                                      *)
Leaves(c) ==
  IF request[c].log = "events" \/ (pc'[c] = "ended" /\ cmd[c].heard)
  THEN {Items(c).to} ELSE Items(c).from..Items(c).to

(* A standard output found broken ends the command before its next         *)
(* request; one that breaks while the output is in the buffer is not found *)
(* broken.                                                                 *)
Receive(c) ==
  /\ pc[c] = "read" /\ srv[c] = "closed" /\ down[c] >= 1
  /\ \/ answer[c].status >= 400 /\ End(c, "status") /\ Flush(c) /\ UNCHANGED <<step, printed>>
     \/ /\ answer[c].status < 400 /\ request[c].op # "clear" /\ ~BestEffort(c) /\ ~cmd[c].heard
        /\ End(c, "io") /\ Flush(c) /\ UNCHANGED <<step, printed>>
     \/ /\ answer[c].status < 400 /\ request[c].op = "read"
        /\ Finish(c)
        /\ printed' = [printed EXCEPT ![c] = Items(c)]
        /\ \E i \in Leaves(c) : seen' = [seen EXCEPT ![c] = i]
     \/ /\ answer[c].status < 400 /\ request[c].op # "read"   \* the last request
        /\ Finish(c) /\ Flush(c) /\ UNCHANGED printed
  /\ UNCHANGED <<service_vars, request, sent, srv, answer, down, effects, cmd, wipe_vars>>

ClientStep(c) ==
  \/ Connect(c) \/ ConnectRefused(c) \/ Send(c) \/ Disconnected(c) \/ TimedOut(c) \/ Receive(c)

(* The user interrupts the client. *)
Kill(c) ==
  /\ pc[c] \notin {"ready", "ended"}
  /\ End(c, "killed") /\ UNCHANGED seen
  /\ UNCHANGED <<service_vars, request, sent, srv, answer, down, effects,
                 cmd, step, printed, wipe_vars>>

-----------------------------------------------------------------------------
(* The histories follow the server's steps. *)

Serves(c) ==
  /\ ServerStep(c)
  /\ wiped' = IF Routed(c, "clear") /\ effects'[c] = 2
              THEN [wiped EXCEPT ![c] = [epoch |-> epoch, from |-> floor, to |-> last]]
              ELSE wiped
  /\ as_of' = IF Routed(c, "read") /\ effects'[c] > effects[c]
              THEN [as_of EXCEPT ![c] = [epoch |-> epoch, from |-> floor, to |-> last]]
              ELSE as_of
  /\ UNCHANGED client_vars

Next ==
  \/ \E c \in Client : ClientStep(c) \/ Kill(c) \/ Serves(c)
  \/ \E c \in Client : \E new \in CommandsOf(c) : Start(c, new)
  \/ DaemonStep /\ UNCHANGED <<client_vars, wipe_vars>>

Spec == Init /\ [][Next]_vars

(* Processes and threads that can run are run, and time passes, so that a  *)
(* timeout fires.  Nothing makes a write to the line end or a daemon start. *)
Fairness ==
  \A c \in Client : WF_vars(ClientStep(c)) /\ WF_vars(srv[c] # "writer" /\ Serves(c))

FairSpec == Spec /\ Fairness

-----------------------------------------------------------------------------

TypeOK ==
  /\ daemon \in {"up", "down"} /\ epoch \in Nat /\ last \in Nat /\ floor \in 0..last
  /\ request \in [Client -> Request \cup {NoAnswer}]
  /\ sent \in [Client -> 0..3] /\ open \in [Client -> BOOLEAN]
  /\ srv \in [Client -> {"none", "line", "headers", "body", "route", "writer", "respond", "closed"}]
  /\ down \in [Client -> 0..2]
  /\ effects \in [Client -> Nat]
  /\ pc \in [Client -> {"ready", "connect", "send", "read", "ended"}]
  /\ cmd \in [Client -> Command \cup {NoAnswer}]
  /\ step \in [Client -> 0..2]
  /\ why \in [Client -> {"running", "ok", "status", "refused", "io", "killed"}]

(* How a command ends says what was done (README:234): after exit 0 all of *)
(* its requests were carried out, once each; after an error status or a    *)
(* refused connection all before the failing one were, and that one never  *)
(* will be; after any other end it may have been, or may still be, but     *)
(* once at most and nothing after it.  Completion always exits with 0.     *)
ExitTellsTheTruth ==
  \A c \in Client :
    /\ pc[c] = "ended" /\ ExitCode(c) = 0 /\ ~BestEffort(c) => effects[c] = Steps(c)
    /\ why[c] \in {"status", "refused"} => effects[c] = step[c] - 1
    /\ pc[c] # "ready" => effects[c] \in {step[c] - 1, step[c]}

(* "read then wipe" (README:229) is two requests.  Of what a --clear wiped *)
(* the user has seen everything that was captured when the read was        *)
(* answered and not left out by `since`; nothing is wiped if nothing was   *)
(* read.  Items captured between the two requests are wiped unseen.  The   *)
(* last line of a raw read is wiped before it is seen, and for good if the *)
(* command is then killed or nobody reads its standard output.             *)
WipedUnseenIsRecent ==
  \A c \in Client :
    (wiped[c].epoch >= 0 /\ cmd[c].requests[1].op = "read") =>
      /\ printed[c].epoch >= 0
      /\ wiped[c].epoch = as_of[c].epoch =>
           \A i \in wiped[c].from + 1..wiped[c].to :
             \/ i <= cmd[c].requests[1].since
             \/ i > as_of[c].to
             \/ i \in printed[c].from + 1..seen[c]
             \/ /\ cmd[c].requests[1].log = "raw" /\ i \in seen[c] + 1..printed[c].to
                /\ pc[c] # "ended" \/ why[c] = "killed" \/ ~cmd[c].heard

(* A command ends, whatever the daemon, the line and other clients do, and *)
(* its connection thread ends with it unless it waits for the line.        *)
CommandEnds ==
  \A c \in Client :
    /\ pc[c] = "connect" ~> pc[c] = "ended"
    /\ srv[c] = "line" ~> srv[c] \in {"closed", "writer"}
=============================================================================
