------------------------------ MODULE CliProofs ------------------------------
(***************************************************************************)
(* Proofs about Cli, for any number of clients and commands and every      *)
(* bound: types, what the end of a command says about its requests, and    *)
(* what `--clear` may wipe unseen.                                         *)
(*                                                                         *)
(* ExitTellsTheTruth is not inductive: whether a request was carried out   *)
(* depends on where its connection thread is, also when the client has     *)
(* long gone.  Place relates the two.                                      *)
(***************************************************************************)
EXTENDS Cli, TLAPS

USE DEF service_vars, conn_vars, client_vars, wipe_vars

(* Before the request is carried out, if it ever is. *)
Pending == {"line", "headers", "body", "route", "writer"}

(* The answer says whether the request of this step was carried out. *)
Answered(c) ==
  /\ answer[c].status \in {200, 400, 404}
  /\ effects[c] = IF answer[c].status = 200 THEN step[c] ELSE step[c] - 1

(* What a client has done and what its connection thread has. *)
Place(c) ==
  /\ pc[c] = "ready" => srv[c] = "none" /\ effects[c] = 0
  /\ pc[c] # "ready" => /\ cmd[c] \in Command
                        /\ step[c] \in 1..Steps(c)
                        /\ effects[c] \in {step[c] - 1, step[c]}
  /\ pc[c] = "connect" => srv[c] \in {"none", "closed"} /\ effects[c] = step[c] - 1
  /\ pc[c] \in {"send", "read"} => srv[c] # "none"
  /\ pc[c] = "send" => sent[c] < Parts(request[c])
  /\ srv[c] \in Pending => effects[c] = step[c] - 1 /\ down[c] = 0 /\ request[c] \in Request
  /\ srv[c] = "respond" => Answered(c)
  /\ srv[c] = "closed" /\ pc[c] \in {"send", "read"} /\ down[c] > 0 => Answered(c)
  /\ why[c] = "running" <=> pc[c] # "ended"
  /\ why[c] = "ok" => srv[c] = "closed" /\ effects[c] = Steps(c)
  /\ why[c] \in {"status", "refused"} => srv[c] \in {"none", "closed"} /\ effects[c] = step[c] - 1

Response == [status : {200, 400, 404}, epoch : Nat, from : Nat, to : Nat]

Answers == answer \in [Client -> {NoAnswer} \cup Response]

Inv == TypeOK /\ Answers /\ \A c \in Client : Place(c)

(* What Place(c) is about. *)
Seen(c) ==
  <<srv[c], pc[c], effects[c], step[c], down[c], sent[c], why[c], cmd[c], request[c], answer[c]>>

-----------------------------------------------------------------------------

LEMMA FirstOfSome == \A n \in {1, 2} : 1 \in 1..n
  OBVIOUS

(* A command makes one request or two. *)
LEMMA CommandShape ==
  ASSUME NEW command \in Command
  PROVE  /\ Len(command.requests) \in {1, 2}
         /\ \A i \in 1..Len(command.requests) : command.requests[i] \in Request
<1>1. CASE command.requests \in {<<r>> : r \in Request}
  BY <1>1
<1>2. CASE command.requests \in Drains
  BY <1>2 DEF Drains
<1> QED
  BY <1>1, <1>2 DEF Command

LEMMA PartsRange == \A r : Parts(r) \in {2, 3}
  BY DEF Parts

(* A step that leaves a client and its connection alone. *)
LEMMA PlaceFrame ==
  ASSUME NEW c, Place(c), UNCHANGED Seen(c)
  PROVE  Place(c)'
  BY DEF Place, Seen, Answered, Steps, Parts, Pending, Command, Drains

LEMMA InvInit == Init => Inv
  BY DEF Init, HttpInit, Inv, Answers, TypeOK, Place, Nothing, Pending

-----------------------------------------------------------------------------
(* The connection threads. *)

(* A handler that answered 200 carried its request out, another did not. *)
LEMMA HandlerInv ==
  ASSUME Inv, NEW c \in Client, srv[c] \in Pending, NEW response \in Response,
         Respond(c, response),
         effects' = IF response.status = 200 THEN [effects EXCEPT ![c] = @ + 1] ELSE effects,
         floor' \in {floor, last},
         UNCHANGED <<daemon, epoch, last, request, sent, open, down, pc, cmd, step, why>>
  PROVE  Inv'
<1>1. TypeOK /\ Answers /\ Place(c)
  BY DEF Inv
<1>2. TypeOK' /\ Answers'
  BY <1>1 DEF TypeOK, Answers, Respond, Go
<1>3. Place(c)'
  <2>1. /\ srv'[c] = "respond" /\ answer'[c] = response
        /\ effects'[c] = IF response.status = 200 THEN effects[c] + 1 ELSE effects[c]
    BY <1>1 DEF TypeOK, Answers, Respond, Go
  <2>2. response.status \in {200, 400, 404}
    BY DEF Response
  <2> QED
    BY <1>1, <2>1, <2>2 DEF TypeOK, Place, Pending, Answered, Steps, Parts
<1>4. \A d \in Client \ {c} : Place(d)'
  BY <1>1, PlaceFrame DEF Inv, TypeOK, Answers, Respond, Go, Seen
<1> QED
  BY <1>2, <1>3, <1>4 DEF Inv

LEMMA StatusResponse ==
  ASSUME TypeOK, NEW n \in {200, 400, 404}
  PROVE  Status(n) \in Response /\ Status(n).status = n
  BY DEF TypeOK, Status, Response

LEMMA ServesInv ==
  ASSUME Inv, NEW c \in Client, Serves(c)
  PROVE  Inv'
<1> USE DEF Go, Close
<1>1. TypeOK /\ Answers /\ Place(c)
  BY DEF Inv
<1>4. UNCHANGED <<pc, cmd, step, why, printed>>
  BY DEF Serves
<1>2. ASSUME NEW d \in Client \ {c}, UNCHANGED <<srv[d], effects[d], down[d], sent[d], request[d], answer[d]>>
      PROVE  Place(d)'
  BY <1>2, <1>4, PlaceFrame DEF Inv, Seen
<1>5. CASE ReadLine(c) \/ ReadHeaders(c) \/ HeadersCut(c) \/ ReadBody(c) \/ AwaitWriter(c)
  <2>1. PICK place \in {"headers", "body", "route", "writer", "closed"} : Go(c, place)
    BY <1>1, <1>5 DEF ReadLine, ReadHeaders, HeadersCut, ReadBody, AwaitWriter
  <2>2. srv[c] \in Pending /\ UNCHANGED <<service_vars, request, sent, open, answer, down, effects>>
    BY <1>1, <1>5 DEF Pending, ReadLine, ReadHeaders, HeadersCut, ReadBody, AwaitWriter, Routed
  <2>3. TypeOK' /\ Answers'
    BY <1>1, <1>4, <2>1, <2>2 DEF TypeOK, Answers
  <2>4. Place(c)'
    BY <1>1, <1>4, <2>1, <2>2 DEF TypeOK, Place, Pending, Answered, Steps, Parts
  <2>5. \A d \in Client \ {c} : Place(d)'
    BY <1>1, <1>2, <2>1, <2>2 DEF TypeOK
  <2> QED BY <2>3, <2>4, <2>5 DEF Inv
<1>6. CASE Refused(c) \/ ReadCapture(c) \/ ClearCapture(c) \/ Show(c) \/ Switch(c) \/ FireTrigger(c)
  <2>1. /\ srv[c] \in Pending /\ UNCHANGED <<daemon, epoch, last, request, sent, open, down>>
        /\ floor' \in {floor, last}
    BY <1>1, <1>6 DEF TypeOK, Pending, Refused, ReadCapture, ClearCapture, Show, Switch, FireTrigger,
       Routed
  <2>2. ASSUME NEW n \in {400, 404}, Respond(c, Status(n)), UNCHANGED effects
        PROVE  Inv'
    BY <1>1, <1>4, <2>1, <2>2, StatusResponse, HandlerInv
  <2>3. ASSUME Respond(c, Status(200)), Done(c)
        PROVE  Inv'
    BY <1>1, <1>4, <2>1, <2>3, StatusResponse, HandlerInv DEF Done
  <2>4. CASE Refused(c) \/ FireTrigger(c)
    BY <2>2, <2>3, <2>4 DEF Refused, FireTrigger
  <2>5. CASE ClearCapture(c) \/ Show(c) \/ Switch(c)
    BY <2>3, <2>5 DEF ClearCapture, Show, Switch
  <2>6. CASE ReadCapture(c)
    <3> DEFINE from == IF request[c].since > floor THEN request[c].since ELSE floor
               response == [status |-> 200, epoch |-> epoch, to |-> last, from |-> from]
    <3>1. request[c].since \in Nat
      <4>1. request[c] \in Request
        BY <1>1, <2>1 DEF Place
      <4> QED BY <4>1, HttpAssumption
    <3>a. floor \in Nat /\ last \in Nat /\ epoch \in Nat
      BY <1>1 DEF TypeOK
    <3>2. response \in Response /\ response.status = 200
      BY <3>1, <3>a DEF Response
    <3>3. Respond(c, response) /\ Done(c)
      BY <2>6 DEF ReadCapture
    <3> HIDE DEF response
    <3> QED
      BY <1>4, <2>1, <3>2, <3>3, HandlerInv DEF Done
  <2> QED BY <1>6, <2>4, <2>5, <2>6
<1>7. CASE WriteHead(c) \/ WriteBody(c)
  <2>1. TypeOK' /\ Answers'
    BY <1>1, <1>4, <1>7 DEF TypeOK, Answers, WriteHead, WriteBody
  <2>2. Place(c)'
    BY <1>1, <1>4, <1>7 DEF TypeOK, Place, Pending, Answered, Steps, Parts, WriteHead, WriteBody
  <2>3. \A d \in Client \ {c} : Place(d)'
    BY <1>1, <1>2, <1>7 DEF TypeOK, WriteHead, WriteBody
  <2> QED BY <2>1, <2>2, <2>3 DEF Inv
<1> QED
  BY <1>5, <1>6, <1>7 DEF Serves, ServerStep

-----------------------------------------------------------------------------
(* The clients. *)

(* A command that ends without its last answer, at the step it is at. *)
LEMMA EndInv ==
  ASSUME Inv, NEW c \in Client, NEW reason \in {"ok", "status", "refused", "io", "killed"},
         pc[c] \notin {"ready", "ended"},
         reason = "ok" => srv[c] = "closed" /\ effects[c] = Steps(c),
         reason \in {"status", "refused"} => srv[c] \in {"none", "closed"} /\ effects[c] = step[c] - 1,
         End(c, reason),
         UNCHANGED <<service_vars, request, sent, srv, answer, down, effects, cmd, step>>
  PROVE  Inv'
<1>1. TypeOK /\ Answers /\ Place(c)
  BY DEF Inv
<1>2. TypeOK' /\ Answers'
  BY <1>1 DEF TypeOK, Answers, End, Goto
<1>3. Place(c)'
  BY <1>1 DEF TypeOK, Place, End, Goto, Pending, Answered, Steps, Parts
<1>4. \A d \in Client \ {c} : Place(d)'
  BY <1>1, PlaceFrame DEF Inv, TypeOK, Answers, End, Goto, Seen
<1> QED
  BY <1>2, <1>3, <1>4 DEF Inv

LEMMA StartInv ==
  ASSUME Inv, NEW c \in Client, NEW new \in CommandsOf(c), Start(c, new)
  PROVE  Inv'
<1>1. TypeOK /\ Answers /\ Place(c)
  BY DEF Inv
<1>2. new \in Command /\ Len(new.requests) \in {1, 2}
  BY CliAssumption, CommandShape
<1>3. TypeOK' /\ Answers'
  BY <1>1, <1>2 DEF TypeOK, Answers, Start, Goto
<1>4. Place(c)'
  <2>1. pc'[c] = "connect" /\ cmd'[c] = new /\ step'[c] = 1 /\ srv'[c] = "none" /\ effects'[c] = 0
        /\ why'[c] = "running"
    BY <1>1 DEF TypeOK, Place, Start, Goto
  <2>a. 1 \in 1..Len(new.requests)
    BY <1>2, FirstOfSome, Zenon
  <2>2. cmd'[c] \in Command /\ step'[c] \in 1..Len(cmd'[c].requests)
    BY <1>2, <2>1, <2>a, Zenon
  <2> QED
    BY <2>1, <2>2 DEF Place, Steps, Pending
<1>5. \A d \in Client \ {c} : Place(d)'
  BY <1>1, PlaceFrame DEF Inv, TypeOK, Start, Goto, Seen
<1> QED
  BY <1>3, <1>4, <1>5 DEF Inv

LEMMA ConnectInv ==
  ASSUME Inv, NEW c \in Client, Connect(c)
  PROVE  Inv'
<1>1. TypeOK /\ Answers /\ Place(c)
  BY DEF Inv
<1> DEFINE new == cmd[c].requests[step[c]]
<1>2. new \in Request
  BY <1>1, CommandShape DEF Place, Connect, Steps
<1>3. TypeOK' /\ Answers'
  <2> HIDE DEF new
  <2>1. request' = [request EXCEPT ![c] = new]
    BY DEF Connect, new
  <2> QED BY <1>1, <1>2, <2>1 DEF TypeOK, Answers, Connect, Goto
<1>4. Place(c)'
  <2>1. /\ pc[c] = "connect" /\ pc'[c] = "send" /\ srv'[c] = "line" /\ sent'[c] = 0 /\ down'[c] = 0
        /\ request'[c] \in Request
        /\ UNCHANGED <<cmd, step, effects, why>>
    BY <1>1, <1>2 DEF TypeOK, Connect, Goto
  <2>2. sent'[c] < Parts(request'[c])
    BY <2>1, PartsRange
  <2> QED
    BY <1>1, <2>1, <2>2 DEF Place, Steps, Pending, Parts
<1>5. \A d \in Client \ {c} : Place(d)'
  BY <1>1, PlaceFrame DEF Inv, TypeOK, Answers, Connect, Goto, Seen
<1> QED
  BY <1>3, <1>4, <1>5 DEF Inv

LEMMA SendInv ==
  ASSUME Inv, NEW c \in Client, Send(c)
  PROVE  Inv'
<1>1. TypeOK /\ Answers /\ Place(c)
  BY DEF Inv
<1>2. /\ pc[c] = "send" /\ sent'[c] = sent[c] + 1 /\ pc'[c] \in {"send", "read"}
      /\ pc'[c] = "send" => sent'[c] # Parts(request[c])
      /\ UNCHANGED <<request, srv, effects, step, cmd, why, answer, down>>
  BY <1>1 DEF TypeOK, Send, Goto
<1>3. sent'[c] \in 0..3 /\ (pc'[c] = "send" => sent'[c] < Parts(request[c]))
  BY <1>1, <1>2, PartsRange DEF TypeOK, Place
<1>4. TypeOK' /\ Answers'
  BY <1>1, <1>3 DEF TypeOK, Answers, Send, Goto
<1>5. Place(c)'
  BY <1>1, <1>2, <1>3 DEF Place, Steps, Pending, Parts, Answered
<1>6. \A d \in Client \ {c} : Place(d)'
  BY <1>1, PlaceFrame DEF Inv, TypeOK, Send, Goto, Seen
<1> QED
  BY <1>4, <1>5, <1>6 DEF Inv

LEMMA ReceiveInv ==
  ASSUME Inv, NEW c \in Client, Receive(c)
  PROVE  Inv'
<1>1. TypeOK /\ Answers /\ Place(c) /\ pc[c] = "read" /\ srv[c] = "closed" /\ Answered(c)
  BY DEF Inv, Receive, TypeOK, Place
<1>2. UNCHANGED <<service_vars, request, sent, srv, answer, down, effects, cmd>>
  BY DEF Receive
<1>3. answer[c].status < 400 => effects[c] = step[c]
  BY <1>1 DEF Answered
<1>4. answer[c].status >= 400 => effects[c] = step[c] - 1
  BY <1>1 DEF Answered
<1>5. CASE End(c, "status") /\ answer[c].status >= 400 /\ UNCHANGED step
  BY <1>1, <1>2, <1>4, <1>5, EndInv
<1>6. CASE End(c, "io") /\ UNCHANGED step
  BY <1>1, <1>2, <1>6, EndInv
<1>7. CASE answer[c].status < 400 /\ Finish(c) /\ step[c] = Steps(c)
  BY <1>1, <1>2, <1>3, <1>7, EndInv DEF Finish
<1>8. CASE answer[c].status < 400 /\ Finish(c) /\ step[c] # Steps(c)
  <2>1. /\ step' = [step EXCEPT ![c] = @ + 1] /\ pc' = [pc EXCEPT ![c] = "connect"]
        /\ open' = [open EXCEPT ![c] = FALSE] /\ UNCHANGED why
    BY <1>8 DEF Finish, Goto
  <2>2. step[c] + 1 \in 1..Steps(c) /\ Steps(c) \in {1, 2}
    BY <1>1, <1>8, CommandShape DEF Place, Steps
  <2>3. TypeOK' /\ Answers'
    BY <1>1, <1>2, <2>1, <2>2 DEF TypeOK, Answers
  <2>4. Place(c)'
    BY <1>1, <1>2, <1>3, <1>8, <2>1, <2>2 DEF TypeOK, Place, Steps, Pending, Answered
  <2>5. \A d \in Client \ {c} : Place(d)'
    BY <1>1, <1>2, <2>1, PlaceFrame DEF Inv, TypeOK, Seen
  <2> QED
    BY <2>3, <2>4, <2>5 DEF Inv
<1> QED
  BY <1>5, <1>6, <1>7, <1>8 DEF Receive

LEMMA ClientInv ==
  ASSUME Inv, NEW c \in Client, ClientStep(c) \/ Kill(c)
  PROVE  Inv'
<1>1. Place(c)
  BY DEF Inv
<1>2. CASE ConnectRefused(c)
  BY <1>1, <1>2, EndInv DEF ConnectRefused, Place
<1>3. CASE Disconnected(c) \/ TimedOut(c) \/ Kill(c)
  BY <1>3, EndInv DEF Disconnected, TimedOut, Kill
<1> QED
  BY <1>2, <1>3, ConnectInv, SendInv, ReceiveInv DEF ClientStep

-----------------------------------------------------------------------------

LEMMA DaemonInv ==
  ASSUME Inv, DaemonStep, UNCHANGED client_vars
  PROVE  Inv'
<1>1. TypeOK /\ Answers
  BY DEF Inv
<1>2. CASE Capture \/ Restart
  <2>a. /\ daemon' \in {"up", "down"} /\ epoch' \in Nat /\ last' \in Nat /\ floor' \in 0..last'
        /\ UNCHANGED <<conn_vars, effects, client_vars>>
    <3>1. CASE Capture
      <4>1. last \in Nat /\ floor \in 0..last
        BY <1>1 DEF TypeOK
      <4>2. last' = last + 1 /\ floor' = IF last - floor = Capacity /\ last > floor THEN floor + 1 ELSE floor
        BY <3>1 DEF Capture
      <4>3. last' \in Nat /\ floor' \in 0..last'
        BY <4>1, <4>2
      <4> QED BY <1>1, <3>1, <4>3 DEF TypeOK, Capture
    <3>2. CASE Restart
      BY <1>1, <3>2 DEF TypeOK, Restart
    <3> QED BY <1>2, <3>1, <3>2
  <2>1. TypeOK' /\ Answers'
    BY <1>1, <2>a DEF TypeOK, Answers
  <2>2. ASSUME NEW c \in Client PROVE Place(c)'
    BY <1>2, PlaceFrame DEF Inv, Seen, Capture, Restart
  <2> QED BY <2>1, <2>2 DEF Inv
<1>3. CASE Crash
  <2>1. TypeOK' /\ Answers'
    BY <1>1, <1>3 DEF TypeOK, Answers, Crash
  <2>2. ASSUME NEW c \in Client PROVE Place(c)'
    <3>1. Place(c) /\ srv'[c] = (IF srv[c] = "none" THEN "none" ELSE "closed")
      BY <1>1, <1>3 DEF Inv, TypeOK, Crash
    <3>2. UNCHANGED <<pc[c], effects[c], step[c], down[c], sent[c], why[c], cmd[c], request[c], answer[c]>>
      BY <1>3 DEF Crash
    <3>3. srv[c] \in {"none", "closed", "respond"} \cup Pending
      BY <1>1 DEF TypeOK, Pending
    <3> QED
      BY <3>1, <3>2, <3>3 DEF Place, Steps, Pending, Answered, Parts
  <2> QED BY <2>1, <2>2 DEF Inv
<1> QED
  BY <1>2, <1>3 DEF DaemonStep

LEMMA InvNext == Inv /\ [Next]_vars => Inv'
<1> SUFFICES ASSUME Inv, [Next]_vars PROVE Inv'
  OBVIOUS
<1>1. CASE UNCHANGED vars
  <2>1. ASSUME NEW c \in Client PROVE Place(c)'
    BY <1>1, PlaceFrame DEF vars, Inv, Seen
  <2> QED
    BY <1>1, <2>1 DEF vars, Inv, TypeOK, Answers
<1> QED
  BY <1>1, ClientInv, ServesInv, StartInv, DaemonInv DEF Next

(* The types of clients, connections and the daemon, for every instance. *)
THEOREM CliTypeCorrect == Spec => []TypeOK
<1>1. Inv => TypeOK
  BY DEF Inv
<1> QED
  BY <1>1, InvInit, InvNext, PTL DEF Spec

(* However daemons die and clients give up, the exit of a command tells    *)
(* which of its requests were carried out.                                 *)
THEOREM ExitAlwaysTellsTheTruth == Spec => []ExitTellsTheTruth
<1>1. Inv => ExitTellsTheTruth
  BY DEF Inv, TypeOK, Place, ExitTellsTheTruth, ExitCode, BestEffort
<1> QED
  BY <1>1, InvInit, InvNext, PTL DEF Spec

-----------------------------------------------------------------------------
(* `--clear` wipes unseen only what was captured after the answer to its   *)
(* read.  The clear is carried out two requests, and perhaps a restart of  *)
(* the daemon, after the read: Drain relates what was printed to the       *)
(* capture as it was when the read was answered, at every place between.   *)

Span == [epoch : Int, from : Nat, to : Nat]

SpansTyped ==
  /\ printed \in [Client -> Span]
  /\ wiped \in [Client -> Span]
  /\ as_of \in [Client -> Span]

ReadsFirst(c) == pc[c] # "ready" /\ cmd[c].requests[1].op = "read"

(* Above which id the read of c asked, or could be answered. *)
Left(c) ==
  IF cmd[c].requests[1].since > as_of[c].from THEN cmd[c].requests[1].since ELSE as_of[c].from

(* The connection thread of c has a request in hand. *)
Busy(c) == srv[c] \notin {"none", "closed"}

(* The answer of c's first request can still be received. *)
Receivable(c) ==
  /\ step[c] = 1
  /\ srv[c] = "respond" \/ (pc[c] \in {"send", "read"} /\ srv[c] = "closed" /\ down[c] > 0)
  /\ answer[c].status = 200

(* As long as it is the same daemon, the floor has not gone down.  *)
SinceRead(c) ==
  /\ as_of[c].epoch \in 0..epoch
  /\ epoch = as_of[c].epoch => as_of[c].from <= floor

(* The answer is the capture of that moment; it is cut only by a crash.  *)
AnswerIsRead(c) ==
  /\ SinceRead(c)
  /\ answer[c].epoch = as_of[c].epoch /\ answer[c].to = as_of[c].to /\ answer[c].from = Left(c)
  /\ epoch = as_of[c].epoch /\ srv[c] = "closed" /\ down[c] = 1 => daemon = "down"

(* That answer was printed. *)
PrintedIsRead(c) ==
  /\ SinceRead(c)
  /\ printed[c].epoch = as_of[c].epoch /\ printed[c].from = Left(c)
  /\ epoch = as_of[c].epoch /\ daemon = "up" => printed[c].to = as_of[c].to

(* WipedUnseenIsRecent of one client.  *)
UnseenIsRecent(c) ==
  /\ printed[c].epoch >= 0
  /\ wiped[c].epoch = as_of[c].epoch =>
       \A i \in wiped[c].from + 1..wiped[c].to :
         \/ i <= cmd[c].requests[1].since
         \/ i > as_of[c].to
         \/ i \in printed[c].from + 1..printed[c].to

Drain(c) ==
  /\ pc[c] = "ready" => wiped[c] = Nothing
  /\ Busy(c) => daemon = "up"
  /\ Busy(c) \/ pc[c] \in {"send", "read"} => request[c] = cmd[c].requests[step[c]]
  /\ srv[c] = "writer" => request[c].op = "trigger"
  /\ ReadsFirst(c) /\ Receivable(c) => AnswerIsRead(c)
  /\ ReadsFirst(c) /\ step[c] = 2 => PrintedIsRead(c)
  /\ ReadsFirst(c) /\ wiped[c].epoch >= 0 => step[c] = 2 /\ UnseenIsRecent(c)

DrainInv == Inv /\ SpansTyped /\ \A c \in Client : Drain(c)

(* What Drain(c) is about, the daemon aside. *)
DrainSeen(c) ==
  <<srv[c], pc[c], step[c], down[c], cmd[c], request[c], answer[c], printed[c], wiped[c], as_of[c]>>

-----------------------------------------------------------------------------

(* A command of two requests is a read and a clear.  *)
LEMMA DrainShape ==
  ASSUME NEW command \in Command, Len(command.requests) = 2
  PROVE  command.requests[1].op = "read" /\ command.requests[2].op = "clear"
<1>1. CASE command.requests \in {<<r>> : r \in Request}
  BY <1>1
<1>2. CASE command.requests \in Drains
  BY <1>2 DEF Drains
<1> QED
  BY <1>1, <1>2 DEF Command

(* What the earlier invariants say of a client, and the types of its spans.  *)
LEMMA DrainTypes ==
  ASSUME DrainInv, NEW c \in Client
  PROVE  /\ TypeOK /\ Answers /\ Place(c) /\ Drain(c)
         /\ as_of[c] \in Span /\ printed[c] \in Span /\ wiped[c] \in Span
         /\ epoch \in Nat /\ last \in Nat /\ floor \in Nat /\ floor <= last
         /\ step[c] \in 0..2
         /\ pc[c] # "ready" => cmd[c] \in Command /\ step[c] \in {1, 2} /\ step[c] <= Len(cmd[c].requests)
<1>1. /\ TypeOK /\ Answers /\ Place(c) /\ Drain(c) /\ SpansTyped
  BY DEF DrainInv, Inv
<1>2. /\ epoch \in Nat /\ last \in Nat /\ floor \in Nat /\ floor <= last /\ step[c] \in 0..2
  BY <1>1 DEF TypeOK
<1>3. as_of[c] \in Span /\ printed[c] \in Span /\ wiped[c] \in Span
  BY <1>1 DEF SpansTyped
<1>4. ASSUME pc[c] # "ready"
      PROVE  cmd[c] \in Command /\ step[c] \in {1, 2} /\ step[c] <= Len(cmd[c].requests)
  <2>1. cmd[c] \in Command /\ step[c] \in 1..Len(cmd[c].requests)
    BY <1>1, <1>4 DEF Place, Steps
  <2>2. PICK n \in {1, 2} : n = Len(cmd[c].requests)
    BY <2>1, CommandShape
  <2>3. step[c] \in 1..n
    BY <2>1, <2>2
  <2>4. step[c] \in {1, 2} /\ step[c] <= n
    BY <2>3
  <2>. QED
    BY <2>1, <2>2, <2>4
<1> QED BY <1>1, <1>2, <1>3, <1>4

(* A step that leaves a client alone and does not lower the floor.  *)
LEMMA DrainFrame ==
  ASSUME DrainInv, NEW c \in Client, UNCHANGED <<DrainSeen(c), daemon, epoch>>,
         floor' \in Nat, floor' >= floor
  PROVE  Drain(c)'
<1>1. Drain(c) /\ as_of[c].from \in Nat /\ floor \in Nat
  BY DrainTypes DEF Span
<1>2. SinceRead(c) => SinceRead(c)'
  BY <1>1 DEF SinceRead, DrainSeen
<1>3. AnswerIsRead(c) => AnswerIsRead(c)'
  BY <1>2 DEF AnswerIsRead, DrainSeen, Left
<1>4. PrintedIsRead(c) => PrintedIsRead(c)'
  BY <1>2 DEF PrintedIsRead, DrainSeen, Left
<1>5. /\ ReadsFirst(c)' = ReadsFirst(c) /\ Receivable(c)' = Receivable(c)
      /\ UnseenIsRecent(c)' = UnseenIsRecent(c) /\ Busy(c)' = Busy(c)
  BY DEF DrainSeen, ReadsFirst, Receivable, UnseenIsRecent, Busy
<1> QED BY <1>1, <1>3, <1>4, <1>5 DEF Drain, DrainSeen

LEMMA DrainInit == Init => DrainInv
<1> SUFFICES ASSUME Init PROVE DrainInv
  OBVIOUS
<1>1. Nothing \in Span
  BY DEF Nothing, Span
<1>2. SpansTyped
  BY <1>1 DEF Init, SpansTyped
<1>3. ASSUME NEW c \in Client PROVE Drain(c)
  BY DEF Init, HttpInit, Drain, Busy, ReadsFirst
<1> QED BY <1>2, <1>3, InvInit DEF DrainInv

-----------------------------------------------------------------------------
(* The connection threads.  *)

(* A step that neither carries a read or a clear out nor is seen by the    *)
(* other connections leaves the histories.                                 *)
LEMMA HistoriesKept ==
  ASSUME DrainInv, NEW c \in Client, Serves(c),
         srv[c] # "route" \/ request[c].op \notin {"read", "clear"} \/ effects' = effects
  PROVE  wiped' = wiped /\ as_of' = as_of
<1>1. effects[c] \in Nat /\ Place(c)
  BY DrainTypes DEF TypeOK
<1>2. CASE srv[c] # "route" \/ request[c].op \notin {"read", "clear"}
  BY <1>2 DEF Serves, Routed
<1>3. CASE srv[c] = "route" /\ effects' = effects
  <2>1. effects[c] = step[c] - 1 /\ step[c] \in 0..2
    BY <1>1, <1>3, DrainTypes DEF Place, Pending
  <2>2. ~(effects'[c] = 2) /\ ~(effects'[c] > effects[c])
    BY <1>1, <1>3, <2>1
  <2>. QED
    BY <2>2 DEF Serves
<1> QED BY <1>2, <1>3

(* A thread that goes on to another place with its request, or drops it.  *)
LEMMA DrainGo ==
  ASSUME DrainInv, NEW c \in Client, Serves(c),
         ReadLine(c) \/ ReadHeaders(c) \/ HeadersCut(c) \/ ReadBody(c) \/ AwaitWriter(c)
  PROVE  DrainInv'
<1>1. TypeOK /\ Place(c) /\ Drain(c)
  BY DrainTypes
<1>2. PICK place \in {"headers", "body", "route", "writer", "closed"} :
        Go(c, place) /\ (place = "writer" => request[c].op = "trigger")
  BY DEF ReadLine, ReadHeaders, HeadersCut, ReadBody, AwaitWriter, Close, Routed, Go
<1>3. /\ srv[c] \in Pending /\ UNCHANGED <<service_vars, request, sent, open, answer, down, effects>>
      /\ UNCHANGED <<pc, cmd, step, why, printed>>
  BY DEF Pending, ReadLine, ReadHeaders, HeadersCut, ReadBody, AwaitWriter, Routed, Serves
<1>4. wiped' = wiped /\ as_of' = as_of
  BY <1>3, HistoriesKept
<1>5. SpansTyped'
  BY <1>3, <1>4 DEF DrainInv, SpansTyped
<1>6. \A d \in Client \ {c} : Drain(d)'
  <2> SUFFICES ASSUME NEW d \in Client \ {c} PROVE Drain(d)'
    OBVIOUS
  <2>1. UNCHANGED DrainSeen(d)
    BY <1>1, <1>2, <1>3, <1>4 DEF DrainSeen, Go, TypeOK
  <2>2. floor' \in Nat /\ floor' >= floor
    BY <1>3, DrainTypes
  <2>. QED
    BY <1>3, <2>1, <2>2, DrainFrame
<1>7. Drain(c)'
  <2>1. srv'[c] = place /\ down[c] = 0 /\ Busy(c)
    BY <1>1, <1>2, <1>3 DEF Go, TypeOK, Place, Pending, Busy
  <2>2. ~Receivable(c)'
    BY <1>2, <1>3, <2>1 DEF Receivable
  <2>3. ReadsFirst(c)' = ReadsFirst(c) /\ PrintedIsRead(c)' = PrintedIsRead(c)
        /\ UnseenIsRecent(c)' = UnseenIsRecent(c)
    BY <1>3, <1>4 DEF ReadsFirst, PrintedIsRead, SinceRead, Left, UnseenIsRecent
  <2>. QED
    BY <1>1, <1>2, <1>3, <1>4, <2>1, <2>2, <2>3 DEF Drain, Busy
<1>8. Inv'
  BY ServesInv DEF DrainInv
<1> QED BY <1>5, <1>6, <1>7, <1>8 DEF DrainInv

(* While the connection is in use, the request is the one of this step: a  *)
(* command that reads first has no other request that reads.               *)
LEMMA RequestOfStep ==
  ASSUME DrainInv, NEW c \in Client, Busy(c) \/ pc[c] \in {"send", "read"}, ReadsFirst(c)
  PROVE  /\ step[c] = 1 => request[c].op = "read" /\ request[c].since = cmd[c].requests[1].since
         /\ step[c] # 1 => step[c] = 2 /\ request[c].op = "clear"
<1>1. Drain(c) /\ cmd[c] \in Command /\ step[c] \in {1, 2} /\ step[c] <= Len(cmd[c].requests)
  BY DrainTypes DEF ReadsFirst
<1>2. request[c] = cmd[c].requests[step[c]] /\ cmd[c].requests[1].op = "read"
  BY <1>1 DEF Drain, ReadsFirst
<1>3. CASE step[c] = 1
  BY <1>2, <1>3
<1>4. CASE step[c] = 2
  <2>1. Len(cmd[c].requests) = 2
    BY <1>1, <1>4, CommandShape
  <2>. QED
    BY <1>1, <1>2, <1>4, <2>1, DrainShape
<1> QED BY <1>1, <1>3, <1>4

LEMMA SinceTyped ==
  ASSUME DrainInv, NEW c \in Client, ReadsFirst(c)
  PROVE  cmd[c].requests[1].since \in Nat
<1>1. cmd[c] \in Command
  BY DrainTypes DEF ReadsFirst
<1>2. 1 \in 1..Len(cmd[c].requests)
  BY <1>1, CommandShape, FirstOfSome, Zenon
<1>3. cmd[c].requests[1] \in Request
  BY <1>1, <1>2, CommandShape
<1>4. \A r \in Request : r.since \in Nat
  BY HttpAssumption
<1> QED BY <1>3, <1>4, Zenon

(* An answer that is not that of a read: a command that reads first has it *)
(* only for its second request, or as an error.                            *)
LEMMA DrainRespond ==
  ASSUME DrainInv, NEW c \in Client, Serves(c),
         Refused(c) \/ Show(c) \/ Switch(c) \/ FireTrigger(c)
  PROVE  DrainInv'
<1>1. TypeOK /\ Answers /\ Place(c) /\ Drain(c)
  BY DrainTypes
<1>2. /\ srv[c] \in {"route", "writer"}
      /\ UNCHANGED <<service_vars, request, sent, open, down>>
      /\ UNCHANGED <<pc, cmd, step, why, printed>>
  BY DEF Refused, Show, Switch, FireTrigger, Routed, Serves
<1>3. PICK response : Respond(c, response)
                      /\ (response.status = 200 => request[c].op # "read")
  <2>1. Status(400).status # 200 /\ Status(404).status # 200
    BY DEF Status
  <2>2. CASE Refused(c)
    <3>1. Respond(c, Status(400)) \/ Respond(c, Status(404))
      BY <2>2 DEF Refused
    <3>2. ASSUME NEW r, Respond(c, r), r.status # 200
          PROVE  \E response : Respond(c, response)
                               /\ (response.status = 200 => request[c].op # "read")
      BY <3>2
    <3>. QED
      BY <2>1, <3>1, <3>2
  <2>3. CASE Show(c) \/ Switch(c)
    <3>1. Respond(c, Status(200)) /\ request[c].op # "read"
      BY <2>3 DEF Show, Switch, Routed
    <3>. QED
      BY <3>1, Zenon
  <2>4. CASE FireTrigger(c)
    <3>1. (Respond(c, Status(200)) \/ Respond(c, Status(404))) /\ request[c].op # "read"
      BY <1>1, <2>4 DEF FireTrigger, Drain
    <3>. QED
      BY <3>1, Zenon
  <2>. QED
    BY <2>2, <2>3, <2>4
<1>4. wiped' = wiped /\ as_of' = as_of
  BY HistoriesKept DEF Refused, Show, Switch, FireTrigger, Routed
<1>5. SpansTyped'
  BY <1>2, <1>4 DEF DrainInv, SpansTyped
<1>6. \A d \in Client \ {c} : Drain(d)'
  <2> SUFFICES ASSUME NEW d \in Client \ {c} PROVE Drain(d)'
    OBVIOUS
  <2>1. UNCHANGED DrainSeen(d)
    BY <1>1, <1>2, <1>3, <1>4 DEF DrainSeen, Respond, Go, TypeOK, Answers
  <2>2. floor' \in Nat /\ floor' >= floor
    BY <1>2, DrainTypes
  <2>. QED
    BY <1>2, <2>1, <2>2, DrainFrame
<1>7. Drain(c)'
  <2>1. srv'[c] = "respond" /\ answer'[c] = response /\ Busy(c)
    BY <1>1, <1>2, <1>3 DEF Respond, Go, TypeOK, Answers, Busy
  <2>2. ReadsFirst(c)' => ~Receivable(c)'
    <3> SUFFICES ASSUME ReadsFirst(c), step[c] = 1, response.status = 200 PROVE FALSE
      BY <1>2, <2>1 DEF Receivable, ReadsFirst
    <3>. QED
      BY <1>3, <2>1, RequestOfStep
  <2>3. ReadsFirst(c)' = ReadsFirst(c) /\ PrintedIsRead(c)' = PrintedIsRead(c)
        /\ UnseenIsRecent(c)' = UnseenIsRecent(c)
    BY <1>2, <1>4 DEF ReadsFirst, PrintedIsRead, SinceRead, Left, UnseenIsRecent
  <2>. QED
    BY <1>1, <1>2, <1>4, <2>1, <2>2, <2>3 DEF Drain, Busy
<1>8. Inv'
  BY ServesInv DEF DrainInv
<1> QED BY <1>5, <1>6, <1>7, <1>8 DEF DrainInv

(* The answer to a read is the capture of the moment.  *)
LEMMA DrainRead ==
  ASSUME DrainInv, NEW c \in Client, Serves(c), ReadCapture(c)
  PROVE  DrainInv'
<1>1. /\ TypeOK /\ Answers /\ Place(c) /\ Drain(c) /\ step[c] \in 0..2
      /\ epoch \in Nat /\ last \in Nat /\ floor \in Nat
  BY DrainTypes
<1> DEFINE left == IF request[c].since > floor THEN request[c].since ELSE floor
           response == [status |-> 200, epoch |-> epoch, to |-> last, from |-> left]
           span == [epoch |-> epoch, from |-> floor, to |-> last]
<1>2. /\ srv[c] = "route" /\ request[c].op = "read" /\ Respond(c, response) /\ Done(c)
      /\ UNCHANGED <<service_vars, request, sent, open, down>>
      /\ UNCHANGED <<pc, cmd, step, why, printed>>
  BY DEF ReadCapture, Routed, Serves
<1>3. effects[c] \in Nat /\ effects'[c] = effects[c] + 1
  BY <1>1, <1>2 DEF Done, TypeOK
<1>4. wiped' = wiped /\ as_of' = [as_of EXCEPT ![c] = span]
  BY <1>2, <1>3 DEF Serves, Routed
<1>5. SpansTyped'
  <2>1. span \in Span
    BY <1>1 DEF Span
  <2>. QED
    BY <1>2, <1>4, <2>1 DEF DrainInv, SpansTyped
<1>6. \A d \in Client \ {c} : Drain(d)'
  <2> SUFFICES ASSUME NEW d \in Client \ {c} PROVE Drain(d)'
    OBVIOUS
  <2>1. UNCHANGED DrainSeen(d)
    BY <1>1, <1>2, <1>4 DEF DrainSeen, Respond, Go, TypeOK, Answers, DrainInv, SpansTyped
  <2>2. floor' \in Nat /\ floor' >= floor
    BY <1>1, <1>2
  <2>. QED
    BY <1>2, <2>1, <2>2, DrainFrame
<1>7. Drain(c)'
  <2>1. /\ srv'[c] = "respond" /\ answer'[c] = response /\ as_of'[c] = span /\ Busy(c)
    BY <1>1, <1>2, <1>4 DEF Respond, Go, TypeOK, Answers, Busy, DrainInv, SpansTyped
  <2>2. ReadsFirst(c)' => AnswerIsRead(c)' /\ step[c] = 1
    <3> SUFFICES ASSUME ReadsFirst(c) PROVE AnswerIsRead(c)' /\ step[c] = 1
      BY <1>2 DEF ReadsFirst
    <3>1. step[c] = 1 /\ request[c].since = cmd[c].requests[1].since
      BY <1>2, <2>1, RequestOfStep
    <3>2. SinceRead(c)'
      BY <1>1, <1>2, <2>1 DEF SinceRead
    <3>3. Left(c)' = left
      BY <1>2, <2>1, <3>1 DEF Left
    <3>. QED
      BY <1>2, <2>1, <3>1, <3>2, <3>3 DEF AnswerIsRead
  <2>3. /\ ReadsFirst(c)' = ReadsFirst(c) /\ wiped'[c] = wiped[c] /\ step'[c] = step[c]
        /\ pc'[c] = pc[c] /\ request'[c] = request[c] /\ cmd'[c] = cmd[c] /\ daemon' = daemon
    BY <1>2, <1>4 DEF ReadsFirst
  <2>. QED
    BY <1>1, <2>1, <2>2, <2>3 DEF Drain, Busy
<1>8. Inv'
  BY ServesInv DEF DrainInv
<1> QED BY <1>5, <1>6, <1>7, <1>8 DEF DrainInv

(* What a clear after the read wipes is above the floor of the read: it    *)
(* was printed, the user asked to leave it out, or it came later.          *)
LEMMA DrainClear ==
  ASSUME DrainInv, NEW c \in Client, Serves(c), ClearCapture(c)
  PROVE  DrainInv'
<1>1. /\ TypeOK /\ Answers /\ Place(c) /\ Drain(c) /\ step[c] \in 0..2
      /\ epoch \in Nat /\ last \in Nat /\ floor \in Nat /\ floor <= last
      /\ as_of[c] \in Span /\ printed[c] \in Span
  BY DrainTypes
<1> DEFINE response == Status(200)
           span == [epoch |-> epoch, from |-> floor, to |-> last]
<1>2. /\ srv[c] = "route" /\ request[c].op = "clear" /\ Respond(c, response) /\ Done(c)
      /\ UNCHANGED <<daemon, epoch, last, request, sent, open, down>> /\ floor' = last
      /\ UNCHANGED <<pc, cmd, step, why, printed>>
  BY DEF ClearCapture, Routed, Serves
<1>3. effects[c] = step[c] - 1 /\ effects'[c] = step[c]
  BY <1>1, <1>2 DEF Done, TypeOK, Place, Pending
<1>4. as_of' = as_of /\ wiped' = IF step[c] = 2 THEN [wiped EXCEPT ![c] = span] ELSE wiped
  BY <1>2, <1>3 DEF Serves, Routed
<1>5. SpansTyped'
  <2>1. span \in Span
    BY <1>1 DEF Span
  <2>. QED
    BY <1>2, <1>4, <2>1 DEF DrainInv, SpansTyped
<1>6. \A d \in Client \ {c} : Drain(d)'
  <2> SUFFICES ASSUME NEW d \in Client \ {c} PROVE Drain(d)'
    OBVIOUS
  <2>1. UNCHANGED DrainSeen(d)
    BY <1>1, <1>2, <1>4 DEF DrainSeen, Respond, Go, TypeOK, Answers, DrainInv, SpansTyped
  <2>2. floor' \in Nat /\ floor' >= floor
    BY <1>1, <1>2
  <2>. QED
    BY <1>2, <2>1, <2>2, DrainFrame
<1>7. Drain(c)'
  <2>1. /\ srv'[c] = "respond" /\ Busy(c)
        /\ wiped'[c] = IF step[c] = 2 THEN span ELSE wiped[c]
    BY <1>1, <1>2, <1>4 DEF Respond, Go, TypeOK, Busy, DrainInv, SpansTyped
  <2>2. ASSUME ReadsFirst(c)
        PROVE  step[c] = 2 /\ PrintedIsRead(c)' /\ UnseenIsRecent(c)'
    <3>1. step[c] = 2 /\ PrintedIsRead(c)
      BY <1>1, <1>2, <2>1, <2>2, RequestOfStep DEF Drain
    <3>2. SinceRead(c)' /\ Left(c)' = Left(c)
      BY <1>1, <1>2, <1>4, <3>1 DEF PrintedIsRead, SinceRead, Left, Span
    <3>3. PrintedIsRead(c)'
      BY <1>2, <1>4, <3>1, <3>2 DEF PrintedIsRead
    <3>4. printed[c].epoch >= 0 /\ as_of[c].from \in Nat /\ cmd[c].requests[1].since \in Nat
      <4>1. printed[c].epoch \in 0..epoch /\ as_of[c].from \in Nat
        BY <1>1, <3>1 DEF PrintedIsRead, SinceRead, Span
      <4>2. cmd[c].requests[1].since \in Nat
        BY <2>2, SinceTyped
      <4>. QED
        BY <1>1, <4>1, <4>2
    <3>5. ASSUME epoch = as_of[c].epoch, NEW i \in floor + 1..last
          PROVE  \/ i <= cmd[c].requests[1].since
                 \/ i > as_of[c].to
                 \/ i \in printed[c].from + 1..printed[c].to
      <4>1. daemon = "up" /\ as_of[c].from <= floor
        BY <1>1, <2>1, <3>1, <3>5 DEF Drain, PrintedIsRead, SinceRead
      <4>2. printed[c].to = as_of[c].to /\ printed[c].from = Left(c) /\ as_of[c].to \in Nat
        BY <1>1, <3>1, <3>5, <4>1 DEF PrintedIsRead, Span
      <4>3. CASE cmd[c].requests[1].since > as_of[c].from
        BY <1>1, <3>4, <4>2, <4>3 DEF Left
      <4>4. CASE ~(cmd[c].requests[1].since > as_of[c].from)
        BY <1>1, <3>4, <4>1, <4>2, <4>4 DEF Left
      <4>. QED
        BY <4>3, <4>4
    <3>6. UnseenIsRecent(c)'
      BY <1>2, <1>4, <2>1, <3>1, <3>4, <3>5 DEF UnseenIsRecent
    <3>. QED
      BY <3>1, <3>3, <3>6
  <2>3. /\ ReadsFirst(c)' = ReadsFirst(c) /\ step'[c] = step[c]
        /\ pc'[c] = pc[c] /\ request'[c] = request[c] /\ cmd'[c] = cmd[c] /\ daemon' = daemon
    BY <1>2 DEF ReadsFirst
  <2>4. pc[c] # "ready"
    BY <1>1, <1>2 DEF Place
  <2>. QED
    BY <1>1, <2>1, <2>2, <2>3, <2>4 DEF Drain, Busy, Receivable
<1>8. Inv'
  BY ServesInv DEF DrainInv
<1> QED BY <1>5, <1>6, <1>7, <1>8 DEF DrainInv

(* The parts of an answer.  *)
LEMMA DrainWrite ==
  ASSUME DrainInv, NEW c \in Client, Serves(c), WriteHead(c) \/ WriteBody(c)
  PROVE  DrainInv'
<1>1. TypeOK /\ Place(c) /\ Drain(c)
  BY DrainTypes
<1>2. /\ srv[c] = "respond" /\ UNCHANGED <<service_vars, request, sent, open, answer, effects>>
      /\ UNCHANGED <<pc, cmd, step, why, printed>>
  BY DEF WriteHead, WriteBody, Serves
<1>3. wiped' = wiped /\ as_of' = as_of
  BY <1>2, HistoriesKept
<1>4. SpansTyped'
  BY <1>2, <1>3 DEF DrainInv, SpansTyped
<1>5. \A d \in Client \ {c} : Drain(d)'
  <2> SUFFICES ASSUME NEW d \in Client \ {c} PROVE Drain(d)'
    OBVIOUS
  <2>1. UNCHANGED DrainSeen(d)
    BY <1>1, <1>2, <1>3 DEF DrainSeen, WriteHead, WriteBody, Close, Go, TypeOK
  <2>2. floor' \in Nat /\ floor' >= floor
    BY <1>2, DrainTypes
  <2>. QED
    BY <1>2, <2>1, <2>2, DrainFrame
<1>6. Drain(c)'
  <2>1. (srv'[c] = "respond" \/ (srv'[c] = "closed" /\ down'[c] = 2)) /\ Busy(c)
    BY <1>1, <1>2 DEF WriteHead, WriteBody, Close, Go, TypeOK, Busy
  <2>2. Receivable(c)' => Receivable(c)
    BY <1>2, <2>1 DEF Receivable
  <2>3. AnswerIsRead(c) => AnswerIsRead(c)'
    BY <1>2, <1>3, <2>1 DEF AnswerIsRead, SinceRead, Left
  <2>4. ReadsFirst(c)' = ReadsFirst(c) /\ PrintedIsRead(c)' = PrintedIsRead(c)
        /\ UnseenIsRecent(c)' = UnseenIsRecent(c)
    BY <1>2, <1>3 DEF ReadsFirst, PrintedIsRead, SinceRead, Left, UnseenIsRecent
  <2>. QED
    BY <1>1, <1>2, <1>3, <2>1, <2>2, <2>3, <2>4 DEF Drain, Busy
<1>7. Inv'
  BY ServesInv DEF DrainInv
<1> QED BY <1>4, <1>5, <1>6, <1>7 DEF DrainInv

LEMMA DrainServes ==
  ASSUME DrainInv, NEW c \in Client, Serves(c)
  PROVE  DrainInv'
BY DrainGo, DrainRespond, DrainRead, DrainClear, DrainWrite DEF Serves, ServerStep

-----------------------------------------------------------------------------
(* The clients and the daemon.  *)

LEMMA DrainStart ==
  ASSUME DrainInv, NEW c \in Client, NEW new \in CommandsOf(c), Start(c, new)
  PROVE  DrainInv'
<1>1. TypeOK /\ Place(c) /\ Drain(c)
  BY DrainTypes
<1>2. /\ pc[c] = "ready" /\ srv[c] = "none" /\ wiped[c] = Nothing
      /\ UNCHANGED <<service_vars, conn_vars, effects, why, printed, wipe_vars>>
  BY <1>1 DEF Start, Place, Drain
<1>3. SpansTyped'
  BY <1>2 DEF DrainInv, SpansTyped
<1>4. \A d \in Client \ {c} : Drain(d)'
  <2> SUFFICES ASSUME NEW d \in Client \ {c} PROVE Drain(d)'
    OBVIOUS
  <2>1. UNCHANGED DrainSeen(d)
    BY <1>1, <1>2 DEF DrainSeen, Start, Goto, TypeOK
  <2>2. floor' \in Nat /\ floor' >= floor
    BY <1>2, DrainTypes
  <2>. QED
    BY <1>2, <2>1, <2>2, DrainFrame
<1>5. Drain(c)'
  <2>1. /\ pc'[c] = "connect" /\ srv'[c] = "none" /\ step'[c] = 1 /\ wiped'[c].epoch = -1
    BY <1>1, <1>2 DEF Start, Goto, TypeOK, Nothing
  <2>. QED
    BY <2>1 DEF Drain, Busy, Receivable
<1>6. Inv'
  BY StartInv DEF DrainInv
<1> QED BY <1>3, <1>4, <1>5, <1>6 DEF DrainInv

(* A new connection asks what the step asks.  *)
LEMMA DrainConnect ==
  ASSUME DrainInv, NEW c \in Client, Connect(c)
  PROVE  DrainInv'
<1>1. TypeOK /\ Answers /\ Place(c) /\ Drain(c)
  BY DrainTypes
<1>2. /\ pc[c] = "connect" /\ daemon = "up"
      /\ UNCHANGED <<service_vars, effects, cmd, step, why, printed, wipe_vars>>
  BY DEF Connect
<1>3. SpansTyped'
  BY <1>2 DEF DrainInv, SpansTyped
<1>4. \A d \in Client \ {c} : Drain(d)'
  <2> SUFFICES ASSUME NEW d \in Client \ {c} PROVE Drain(d)'
    OBVIOUS
  <2>1. UNCHANGED DrainSeen(d)
    BY <1>1, <1>2 DEF DrainSeen, Connect, Goto, TypeOK, Answers
  <2>2. floor' \in Nat /\ floor' >= floor
    BY <1>2, DrainTypes
  <2>. QED
    BY <1>2, <2>1, <2>2, DrainFrame
<1>5. Drain(c)'
  <2>1. /\ pc'[c] = "send" /\ srv'[c] = "line" /\ down'[c] = 0
        /\ request'[c] = cmd[c].requests[step[c]]
    <3> DEFINE new == cmd[c].requests[step[c]]
    <3> HIDE DEF new
    <3>1. request' = [request EXCEPT ![c] = new]
      BY DEF Connect, new
    <3>2. request'[c] = new
      BY <1>1, <3>1 DEF TypeOK
    <3>. QED
      BY <1>1, <3>2 DEF Connect, Goto, TypeOK, new
  <2>2. ReadsFirst(c)' = ReadsFirst(c) /\ PrintedIsRead(c)' = PrintedIsRead(c)
        /\ UnseenIsRecent(c)' = UnseenIsRecent(c)
    BY <1>2, <2>1 DEF ReadsFirst, PrintedIsRead, SinceRead, Left, UnseenIsRecent
  <2>. QED
    BY <1>1, <1>2, <2>1, <2>2 DEF Drain, Busy, Receivable
<1>6. Inv'
  BY ConnectInv DEF DrainInv
<1> QED BY <1>3, <1>4, <1>5, <1>6 DEF DrainInv

(* Parts sent, and the ends of a command but the last: nothing is printed. *)
LEMMA DrainMoves ==
  ASSUME DrainInv, NEW c \in Client, pc[c] \notin {"ready", "ended"},
         NEW place \in {"send", "read", "ended"}, Goto(c, place),
         place # "ended" => pc[c] = "send",
         UNCHANGED <<service_vars, request, srv, answer, down, cmd, step, printed, wipe_vars>>,
         Inv'
  PROVE  DrainInv'
<1>1. TypeOK /\ Place(c) /\ Drain(c)
  BY DrainTypes
<1>2. SpansTyped'
  BY DEF DrainInv, SpansTyped
<1>3. pc'[c] = place
  BY <1>1 DEF Goto, TypeOK
<1>4. \A d \in Client \ {c} : Drain(d)'
  <2> SUFFICES ASSUME NEW d \in Client \ {c} PROVE Drain(d)'
    OBVIOUS
  <2>1. UNCHANGED DrainSeen(d)
    BY <1>1 DEF DrainSeen, Goto, TypeOK
  <2>2. floor' \in Nat /\ floor' >= floor
    BY DrainTypes
  <2>. QED
    BY <2>1, <2>2, DrainFrame
<1>5. Drain(c)'
  <2>1. Receivable(c)' => Receivable(c)
    BY <1>3 DEF Receivable
  <2>2. /\ ReadsFirst(c)' = ReadsFirst(c) /\ PrintedIsRead(c)' = PrintedIsRead(c)
        /\ UnseenIsRecent(c)' = UnseenIsRecent(c) /\ AnswerIsRead(c)' = AnswerIsRead(c)
    BY <1>3 DEF ReadsFirst, PrintedIsRead, SinceRead, Left, UnseenIsRecent, AnswerIsRead
  <2>. QED
    BY <1>1, <1>3, <2>1, <2>2 DEF Drain, Busy
<1> QED BY <1>2, <1>4, <1>5 DEF DrainInv

(* The end of an answer: a read prints it, as far as it came, before the   *)
(* next request is made.                                                   *)
LEMMA DrainReceive ==
  ASSUME DrainInv, NEW c \in Client, Receive(c)
  PROVE  DrainInv'
<1>1. /\ TypeOK /\ Answers /\ Place(c) /\ Drain(c) /\ step[c] \in 0..2
      /\ pc[c] = "read" /\ srv[c] = "closed" /\ down[c] >= 1 /\ ~Busy(c)
      /\ down[c] \in 0..2
  BY DrainTypes DEF Receive, Busy, TypeOK
<1>2. UNCHANGED <<service_vars, request, sent, srv, answer, down, effects, cmd, wipe_vars>>
  BY DEF Receive
<1>3. Inv'
  BY ReceiveInv DEF DrainInv
<1>4. CASE (\E reason \in {"ok", "status", "io"} : End(c, reason)) /\ UNCHANGED <<step, printed>>
  <2>1. Goto(c, "ended")
    BY <1>4 DEF End
  <2>. QED
    BY <1>1, <1>2, <1>3, <1>4, <2>1, DrainMoves
<1>5. CASE /\ answer[c].status < 400 /\ Finish(c)
           /\ printed' = IF request[c].op = "read" THEN [printed EXCEPT ![c] = Items(c)] ELSE printed
  <2>1. answer[c].status = 200
    BY <1>1, <1>5 DEF Place, Answered
  <2>2. pc[c] # "ready" /\ request[c] = cmd[c].requests[step[c]] /\ step[c] \in {1, 2}
        /\ cmd[c] \in Command /\ step[c] <= Len(cmd[c].requests)
    BY <1>1, DrainTypes DEF Drain
  <2>3. request[c].op = "read" => step[c] = 1 /\ ReadsFirst(c)
    <3>1. CASE step[c] = 1
      BY <2>2, <3>1 DEF ReadsFirst
    <3>2. CASE step[c] = 2
      <4>1. Len(cmd[c].requests) = 2
        BY <2>2, <3>2, CommandShape
      <4>. QED
        BY <2>2, <3>2, <4>1, DrainShape
    <3>. QED
      BY <2>2, <3>1, <3>2
  <2>4. step[c] = 1 /\ ReadsFirst(c) => request[c].op = "read" /\ AnswerIsRead(c)
    BY <1>1, <2>1, <2>2 DEF ReadsFirst, Receivable, Drain
  <2>5. ASSUME request[c].op = "read"
        PROVE  /\ Items(c) \in Span
               /\ Items(c).epoch = as_of[c].epoch /\ Items(c).from = Left(c)
               /\ SinceRead(c)
               /\ epoch = as_of[c].epoch /\ daemon = "up" => Items(c).to = as_of[c].to
    <3>1. AnswerIsRead(c) /\ as_of[c] \in Span /\ cmd[c].requests[1].since \in Nat
      BY <2>3, <2>4, <2>5, DrainTypes, SinceTyped
    <3>2. Left(c) \in Nat
      BY <3>1 DEF Left, Span
    <3>3. /\ Items(c).epoch = as_of[c].epoch /\ Items(c).from = Left(c)
          /\ Items(c).to = IF down[c] = 2 THEN as_of[c].to ELSE Left(c)
          /\ Items(c) = [epoch |-> as_of[c].epoch, from |-> Left(c),
                           to |-> IF down[c] = 2 THEN as_of[c].to ELSE Left(c)]
      BY <3>1 DEF Items, AnswerIsRead
    <3>4. epoch = as_of[c].epoch /\ daemon = "up" => down[c] = 2
      BY <1>1, <3>1 DEF AnswerIsRead
    <3>5. Items(c) \in Span
      BY <3>1, <3>2, <3>3 DEF Span
    <3>. QED
      BY <3>1, <3>3, <3>4, <3>5 DEF AnswerIsRead
  <2>6. SpansTyped'
    BY <1>2, <1>5, <2>5 DEF DrainInv, SpansTyped
  <2>7. /\ pc' = [pc EXCEPT ![c] = IF step[c] = Steps(c) THEN "ended" ELSE "connect"]
        /\ step' = [step EXCEPT ![c] = IF step[c] = Steps(c) THEN step[c] ELSE step[c] + 1]
    BY <1>1, <1>5 DEF Finish, End, Goto, TypeOK
  <2>8. \A d \in Client \ {c} : Drain(d)'
    <3> SUFFICES ASSUME NEW d \in Client \ {c} PROVE Drain(d)'
      OBVIOUS
    <3>1. printed'[d] = printed[d]
      BY <1>5 DEF DrainInv, SpansTyped
    <3>2. UNCHANGED DrainSeen(d)
      BY <1>1, <1>2, <2>7, <3>1 DEF DrainSeen, TypeOK
    <3>3. floor' \in Nat /\ floor' >= floor
      BY <1>2, DrainTypes
    <3>. QED
      BY <1>2, <3>2, <3>3, DrainFrame
  <2>9. Drain(c)'
    <3>1. /\ pc'[c] \in {"ended", "connect"} /\ srv'[c] = "closed"
          /\ step'[c] = IF step[c] = Steps(c) THEN step[c] ELSE step[c] + 1
          /\ printed'[c] = IF request[c].op = "read" THEN Items(c) ELSE printed[c]
          /\ UNCHANGED <<cmd, as_of, wiped, daemon, epoch, floor>>
      BY <1>1, <1>2, <1>5, <2>7 DEF TypeOK, DrainInv, SpansTyped
    <3>2. ~Busy(c)' /\ ~Receivable(c)' /\ ReadsFirst(c)' = ReadsFirst(c)
      BY <2>2, <3>1 DEF Busy, Receivable, ReadsFirst
    <3>3. SinceRead(c)' = SinceRead(c) /\ Left(c)' = Left(c)
      BY <3>1 DEF SinceRead, Left
    <3>4. CASE step[c] = 1
      <4>1. ReadsFirst(c) => PrintedIsRead(c)'
        BY <2>4, <2>5, <3>1, <3>3, <3>4 DEF PrintedIsRead
      <4>2. ReadsFirst(c) => ~(wiped'[c].epoch >= 0)
        BY <1>1, <3>1, <3>4 DEF Drain
      <4>. QED
        BY <3>1, <3>2, <4>1, <4>2 DEF Drain
    <3>5. CASE step[c] = 2
      <4>1. Steps(c) = 2 /\ printed'[c] = printed[c]
        BY <2>2, <2>3, <3>1, <3>5, CommandShape DEF Steps
      <4>2. step'[c] = 2 /\ UnseenIsRecent(c)' = UnseenIsRecent(c) /\ PrintedIsRead(c)' = PrintedIsRead(c)
        BY <3>1, <3>3, <3>5, <4>1 DEF UnseenIsRecent, PrintedIsRead
      <4>. QED
        BY <1>1, <3>1, <3>2, <3>5, <4>2 DEF Drain
    <3>. QED
      BY <2>2, <3>4, <3>5
  <2>. QED
    BY <1>3, <2>6, <2>8, <2>9 DEF DrainInv
<1> QED BY <1>4, <1>5 DEF Receive

LEMMA DrainClient ==
  ASSUME DrainInv, NEW c \in Client, ClientStep(c) \/ Kill(c)
  PROVE  DrainInv'
<1>1. Inv'
  BY ClientInv DEF DrainInv
<1>2. CASE Send(c)
  <2>1. PICK place \in {"send", "read"} : Goto(c, place)
    BY <1>2 DEF Send
  <2>. QED
    BY <1>1, <1>2, <2>1, DrainMoves DEF Send
<1>3. CASE ConnectRefused(c) \/ Disconnected(c) \/ TimedOut(c) \/ Kill(c)
  <2>1. Goto(c, "ended") /\ pc[c] \notin {"ready", "ended"}
        /\ UNCHANGED <<service_vars, request, srv, answer, down, cmd, step, printed, wipe_vars>>
    BY <1>3 DEF ConnectRefused, Disconnected, TimedOut, Kill, End
  <2>. QED
    BY <1>1, <2>1, DrainMoves
<1> QED BY <1>2, <1>3, DrainConnect, DrainReceive DEF ClientStep

(* What the daemon captures and evicts keeps the floor from going down; a  *)
(* crash cuts answers short and closes the door until another daemon is up *)
(* whose capture is not the one that was read.                             *)
LEMMA DrainDaemon ==
  ASSUME DrainInv, DaemonStep, UNCHANGED <<client_vars, wipe_vars>>
  PROVE  DrainInv'
<1>1. TypeOK /\ epoch \in Nat /\ last \in Nat /\ floor \in Nat
  BY DEF DrainInv, Inv, TypeOK
<1>2. Inv'
  BY DaemonInv DEF DrainInv
<1>3. SpansTyped'
  BY DEF DrainInv, SpansTyped
<1>4. ASSUME Capture, NEW c \in Client
      PROVE  Drain(c)'
  <2>1. UNCHANGED <<DrainSeen(c), daemon, epoch>>
    BY <1>4 DEF Capture, DrainSeen
  <2>2. floor' \in Nat /\ floor' >= floor
    BY <1>1, <1>4 DEF Capture
  <2>. QED
    BY <2>1, <2>2, DrainFrame
<1>5. ASSUME Restart, NEW c \in Client
      PROVE  Drain(c)'
  <2>1. Drain(c) /\ UNCHANGED DrainSeen(c) /\ daemon = "down" /\ epoch' = epoch + 1
    BY <1>5, DrainTypes DEF Restart, DrainSeen
  <2>2. SinceRead(c) => SinceRead(c)' /\ epoch' # as_of'[c].epoch
    BY <1>1, <2>1 DEF SinceRead, DrainSeen
  <2>3. AnswerIsRead(c) => AnswerIsRead(c)'
    BY <2>1, <2>2 DEF AnswerIsRead, DrainSeen, Left
  <2>4. PrintedIsRead(c) => PrintedIsRead(c)'
    BY <2>1, <2>2 DEF PrintedIsRead, DrainSeen, Left
  <2>5. /\ ReadsFirst(c)' = ReadsFirst(c) /\ Receivable(c)' = Receivable(c)
        /\ UnseenIsRecent(c)' = UnseenIsRecent(c) /\ Busy(c)' = Busy(c) /\ ~Busy(c)
    BY <2>1 DEF DrainSeen, ReadsFirst, Receivable, UnseenIsRecent, Busy, Drain
  <2>. QED
    BY <2>1, <2>3, <2>4, <2>5 DEF Drain, DrainSeen
<1>6. ASSUME Crash, NEW c \in Client
      PROVE  Drain(c)'
  <2>1. /\ Drain(c) /\ Place(c)
        /\ srv'[c] = (IF srv[c] = "none" THEN "none" ELSE "closed")
        /\ UNCHANGED <<pc, step, down, cmd, request, answer, printed, wiped, as_of, epoch, floor>>
        /\ daemon' = "down"
    BY <1>6, DrainTypes DEF Crash
  <2>2. ~Busy(c)' /\ srv'[c] \in {"none", "closed"}
    BY <2>1 DEF Busy
  <2>3. Receivable(c)' => Receivable(c)
    <3>1. srv[c] \in {"none", "closed", "respond"} \cup Pending
      BY <1>1 DEF TypeOK, Pending
    <3>2. CASE srv[c] \in Pending
      BY <2>1, <2>2, <3>2 DEF Receivable, Place
    <3>3. CASE srv[c] \in {"none", "closed", "respond"}
      BY <2>1, <3>3 DEF Receivable
    <3>. QED
      BY <3>1, <3>2, <3>3
  <2>4. AnswerIsRead(c) => AnswerIsRead(c)'
    BY <2>1 DEF AnswerIsRead, SinceRead, Left
  <2>5. PrintedIsRead(c) => PrintedIsRead(c)'
    BY <2>1 DEF PrintedIsRead, SinceRead, Left
  <2>6. ReadsFirst(c)' = ReadsFirst(c) /\ UnseenIsRecent(c)' = UnseenIsRecent(c)
    BY <2>1 DEF ReadsFirst, UnseenIsRecent
  <2>. QED
    BY <2>1, <2>2, <2>3, <2>4, <2>5, <2>6 DEF Drain
<1> QED BY <1>2, <1>3, <1>4, <1>5, <1>6 DEF DaemonStep, DrainInv

LEMMA DrainNext == DrainInv /\ [Next]_vars => DrainInv'
<1> SUFFICES ASSUME DrainInv, [Next]_vars PROVE DrainInv'
  OBVIOUS
<1>1. CASE UNCHANGED vars
  <2>1. Inv'
    BY InvNext DEF DrainInv
  <2>2. SpansTyped'
    BY <1>1 DEF vars, DrainInv, SpansTyped
  <2>3. ASSUME NEW c \in Client PROVE Drain(c)'
    <3>1. UNCHANGED <<DrainSeen(c), daemon, epoch, floor>>
      BY <1>1 DEF vars, DrainSeen
    <3>2. floor' \in Nat /\ floor' >= floor
      BY <3>1, DrainTypes
    <3>. QED
      BY <3>1, <3>2, DrainFrame
  <2> QED
    BY <2>1, <2>2, <2>3 DEF DrainInv
<1> QED
  BY <1>1, DrainClient, DrainServes, DrainStart, DrainDaemon DEF Next

-----------------------------------------------------------------------------
(* What was printed has left the process, but for the last line of a raw   *)
(* read: until the command has ended, or for good if it was killed or its  *)
(* standard output was not read to the end.                                *)

Buffers(c) ==
  /\ cmd[c].requests[1].log = "raw"
  /\ pc[c] # "ended" \/ why[c] = "killed" \/ ~cmd[c].heard

RawTail(c) == pc[c] = "ready" \/ ~Buffers(c) => seen[c] = printed[c].to

TailInv ==
  /\ DrainInv
  /\ seen \in [Client -> Nat]
  /\ \A c \in Client : RawTail(c)

LEMMA TailInit == Init => TailInv
<1> SUFFICES ASSUME Init PROVE TailInv
  OBVIOUS
<1>1. seen \in [Client -> Nat] /\ \A c \in Client : RawTail(c)
  BY DEF Init, RawTail, Nothing
<1> QED
  BY <1>1, DrainInit DEF TailInv

(* A step that leaves what a client printed and its ends alone.            *)
LEMMA TailFrame ==
  ASSUME NEW c, RawTail(c), UNCHANGED <<pc[c], cmd[c], why[c], printed[c], seen[c]>>
  PROVE  RawTail(c)'
  BY DEF RawTail, Buffers

(* An end that flushes what is left, or finds nobody to read it.           *)
LEMMA TailEnd ==
  ASSUME TailInv, NEW c \in Client, pc[c] # "ready",
         seen'[c] = printed'[c].to \/ (seen'[c] = seen[c] /\ (why'[c] = "killed" \/ ~cmd[c].heard)),
         UNCHANGED <<cmd[c], printed[c]>>, pc'[c] = "ended"
  PROVE  RawTail(c)'
<1>1. CASE seen'[c] = printed'[c].to
  BY <1>1 DEF RawTail
<1>2. CASE seen'[c] = seen[c] /\ (why'[c] = "killed" \/ ~cmd[c].heard)
  <2>1. RawTail(c)
    BY DEF TailInv
  <2> QED
    BY <1>2, <2>1 DEF RawTail, Buffers
<1> QED
  BY <1>1, <1>2

(* Only the first request of a command reads.                              *)
LEMMA ReadIsFirst ==
  ASSUME DrainInv, NEW c \in Client, pc[c] = "read", request[c].op = "read"
  PROVE  request[c] = cmd[c].requests[1] /\ request[c].log \in {"events", "raw"}
<1>1. /\ request[c] = cmd[c].requests[step[c]] /\ cmd[c] \in Command
      /\ step[c] \in {1, 2} /\ step[c] <= Len(cmd[c].requests)
  BY DrainTypes DEF Drain
<1>2. step[c] # 2
  <2> SUFFICES ASSUME step[c] = 2 PROVE FALSE
    OBVIOUS
  <2>1. Len(cmd[c].requests) = 2
    BY <1>1, CommandShape
  <2> QED
    BY <1>1, <2>1, DrainShape
<1>3. request[c] = cmd[c].requests[1]
  BY <1>1, <1>2
<1>4. 1 \in 1..Len(cmd[c].requests)
  BY <1>1, CommandShape, FirstOfSome, Zenon
<1>5. cmd[c].requests[1] \in Request
  BY <1>1, <1>4, CommandShape
<1>6. \A r \in Request : r.log \in {"events", "raw"}
  BY HttpAssumption
<1> QED
  BY <1>3, <1>5, <1>6, Zenon

LEMMA TailReceive ==
  ASSUME TailInv, DrainInv', NEW c \in Client, Receive(c)
  PROVE  seen' \in [Client -> Nat] /\ \A d \in Client : RawTail(d)'
<1>1. /\ seen \in [Client -> Nat] /\ RawTail(c) /\ DrainInv
      /\ pc[c] = "read" /\ UNCHANGED cmd
  BY DEF TailInv, Receive
<1>2. printed \in [Client -> Span] /\ printed' \in [Client -> Span] /\ DOMAIN pc = Client
      /\ DOMAIN why = Client
  BY <1>1 DEF DrainInv, SpansTyped, Inv, TypeOK
<1>3. pc'[c] \in {"ended", "connect"} /\ \A d \in Client \ {c} : UNCHANGED <<pc[d], why[d]>>
  BY <1>1, <1>2 DEF Receive, Finish, End, Goto
<1>4. CASE Flush(c) /\ UNCHANGED printed
  <2>1. seen' \in [Client -> Nat]
    BY <1>1, <1>2, <1>4 DEF Flush, Span
  <2>2. \A d \in Client \ {c} : RawTail(d)'
    BY <1>1, <1>2, <1>3, <1>4, TailFrame DEF Flush, TailInv
  <2>3. seen'[c] = printed'[c].to \/ (~cmd[c].heard /\ seen'[c] = seen[c])
    BY <1>1, <1>2, <1>4 DEF Flush
  <2>4. RawTail(c)'
    BY <1>1, <1>3, <1>4, <2>3 DEF RawTail, Buffers
  <2> QED
    BY <2>1, <2>2, <2>4
<1>5. CASE /\ request[c].op = "read"
           /\ printed' = [printed EXCEPT ![c] = Items(c)]
           /\ \E i \in Leaves(c) : seen' = [seen EXCEPT ![c] = i]
  <2>1. PICK i \in Leaves(c) : seen' = [seen EXCEPT ![c] = i]
    BY <1>5
  <2>2. Items(c) \in Span /\ printed'[c] = Items(c)
    BY <1>2, <1>5
  <2>3. i \in Nat
    BY <2>1, <2>2 DEF Leaves, Span
  <2>4. request[c] = cmd[c].requests[1] /\ request[c].log \in {"events", "raw"}
    BY <1>1, <1>5, ReadIsFirst
  <2>5. seen' \in [Client -> Nat] /\ seen'[c] = i
    BY <1>1, <2>1, <2>3
  <2>6. RawTail(c)'
    <3> SUFFICES ASSUME ~Buffers(c)' PROVE i = Items(c).to
      BY <1>3, <2>2, <2>5 DEF RawTail
    <3>1. request[c].log = "events" \/ (pc'[c] = "ended" /\ cmd[c].heard)
      BY <1>1, <2>4 DEF Buffers
    <3> QED
      BY <2>1, <3>1 DEF Leaves
  <2>7. \A d \in Client \ {c} : RawTail(d)'
    BY <1>1, <1>2, <1>3, <1>5, <2>1, TailFrame DEF TailInv
  <2> QED
    BY <2>5, <2>6, <2>7
<1> QED
  BY <1>4, <1>5 DEF Receive

LEMMA TailClient ==
  ASSUME TailInv, DrainInv', NEW c \in Client, ClientStep(c) \/ Kill(c)
  PROVE  seen' \in [Client -> Nat] /\ \A d \in Client : RawTail(d)'
<1>1. /\ seen \in [Client -> Nat] /\ RawTail(c) /\ printed \in [Client -> Span]
      /\ DOMAIN pc = Client /\ DOMAIN why = Client
  BY DEF TailInv, DrainInv, SpansTyped, Inv, TypeOK
<1>2. CASE Connect(c) \/ Send(c)
  <2>1. /\ pc[c] \in {"connect", "send"} /\ pc'[c] \in {"send", "read"}
        /\ UNCHANGED <<cmd, why, printed, seen>>
        /\ \A d \in Client \ {c} : UNCHANGED pc[d]
    BY <1>1, <1>2 DEF Connect, Send, Goto
  <2>2. RawTail(c)'
    BY <1>1, <2>1 DEF RawTail, Buffers, TailInv, DrainInv, Inv, Place
  <2> QED
    BY <1>1, <2>1, <2>2, TailFrame DEF TailInv
<1>3. CASE ConnectRefused(c) \/ Disconnected(c) \/ TimedOut(c) \/ Kill(c)
  <2>1. /\ Goto(c, "ended") /\ pc[c] # "ready" /\ UNCHANGED <<cmd, printed>>
        /\ \E reason \in {"refused", "io", "killed"} : why' = [why EXCEPT ![c] = reason]
        /\ Flush(c) \/ (UNCHANGED seen /\ why' = [why EXCEPT ![c] = "killed"])
    BY <1>3 DEF ConnectRefused, Disconnected, TimedOut, Kill, End
  <2>2. seen' \in [Client -> Nat]
    BY <1>1, <2>1 DEF Flush, Span
  <2>3. \A d \in Client \ {c} : RawTail(d)'
    BY <1>1, <2>1, TailFrame DEF Goto, Flush, TailInv
  <2>4. seen'[c] = printed'[c].to \/ (seen'[c] = seen[c] /\ (why'[c] = "killed" \/ ~cmd[c].heard))
    BY <1>1, <2>1 DEF Flush
  <2>5. RawTail(c)'
    BY <1>1, <2>1, <2>4, TailEnd DEF Goto
  <2> QED
    BY <2>2, <2>3, <2>5
<1> QED
  BY <1>2, <1>3, TailReceive DEF ClientStep

LEMMA TailNext == TailInv /\ [Next]_vars => TailInv'
<1> SUFFICES ASSUME TailInv, [Next]_vars PROVE TailInv'
  OBVIOUS
<1>1. DrainInv'
  BY DrainNext DEF TailInv
<1>2. CASE UNCHANGED client_vars
  BY <1>1, <1>2, TailFrame DEF TailInv
<1>3. ASSUME NEW c \in Client, NEW new \in CommandsOf(c), Start(c, new)
      PROVE  TailInv'
  <2>1. /\ DOMAIN pc = Client /\ DOMAIN cmd = Client
        /\ \A d \in Client : RawTail(d)
    BY DEF TailInv, DrainInv, Inv, TypeOK
  <2>2. /\ pc[c] = "ready" /\ UNCHANGED <<why, printed, seen>>
        /\ \A d \in Client \ {c} : UNCHANGED <<pc[d], cmd[d]>>
    BY <1>3, <2>1 DEF Start, Goto
  <2>3. RawTail(c)'
    BY <2>1, <2>2 DEF RawTail
  <2>4. \A d \in Client \ {c} : RawTail(d)'
    BY <2>1, <2>2, TailFrame
  <2> QED
    BY <1>1, <2>2, <2>3, <2>4 DEF TailInv
<1>4. ASSUME NEW c \in Client, ClientStep(c) \/ Kill(c)
      PROVE  TailInv'
  BY <1>1, <1>4, TailClient DEF TailInv
<1> QED
  BY <1>2, <1>3, <1>4 DEF Next, vars, Serves

(* A --clear wipes nothing of a capture that the user has not seen, unless *)
(* he left it out, it was captured after the read was answered, or it is   *)
(* the last line of a raw read by a command that has not ended, was killed *)
(* or was not listened to; whatever other clients wipe and however daemons *)
(* die in between.                                                         *)
THEOREM WipedUnseenIsAlwaysRecent == Spec => []WipedUnseenIsRecent
<1>1. TailInv => WipedUnseenIsRecent
  <2> SUFFICES ASSUME TailInv, NEW c \in Client,
                      wiped[c].epoch >= 0, cmd[c].requests[1].op = "read"
               PROVE  /\ printed[c].epoch >= 0
                      /\ wiped[c].epoch = as_of[c].epoch =>
                           \A i \in wiped[c].from + 1..wiped[c].to :
                             \/ i <= cmd[c].requests[1].since
                             \/ i > as_of[c].to
                             \/ i \in printed[c].from + 1..seen[c]
                             \/ Buffers(c) /\ i \in seen[c] + 1..printed[c].to
    BY DEF WipedUnseenIsRecent, Buffers
  <2>1. Drain(c) /\ RawTail(c) /\ printed[c] \in Span /\ wiped[c] \in Span /\ seen[c] \in Nat
    BY DrainTypes DEF TailInv
  <2>2. pc[c] # "ready"
    BY <2>1 DEF Drain, Nothing
  <2>3. UnseenIsRecent(c)
    BY <2>1, <2>2 DEF Drain, ReadsFirst
  <2>4. ASSUME NEW i \in wiped[c].from + 1..wiped[c].to, i \in printed[c].from + 1..printed[c].to
        PROVE  \/ i \in printed[c].from + 1..seen[c]
               \/ Buffers(c) /\ i \in seen[c] + 1..printed[c].to
    <3>1. CASE Buffers(c)
      BY <2>1, <2>4, <3>1 DEF Span
    <3>2. CASE ~Buffers(c)
      BY <2>1, <2>4, <3>2 DEF RawTail
    <3> QED
      BY <3>1, <3>2
  <2> QED
    BY <2>3, <2>4 DEF UnseenIsRecent
<1> QED
  BY <1>1, TailInit, TailNext, PTL DEF Spec
=============================================================================
