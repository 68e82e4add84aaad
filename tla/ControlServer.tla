----------------------------- MODULE ControlServer -----------------------------
(***************************************************************************)
(* The websocket server (src/atmoanalyzer/control_server.cpp) and the      *)
(* outer shell of its RequestHandler (request_handler.cpp).  One worker    *)
(* thread runs the io_context: it accepts clients, and for each Connection *)
(* alternates between reading a request into m_buffer and writing the      *)
(* response from the same buffer.  A handler runs to its end before the    *)
(* next one starts, so a handler is one step.                              *)
(*                                                                         *)
(* What a request does to the devices and the mode is HandleRequest of the *)
(* module RequestHandler; in Analyzer mode the analyzer paints the devices *)
(* between two handlers.  An exception that leaves a handler leaves        *)
(* io_context::run() and ends the worker: nothing is read, written,        *)
(* accepted or closed after that.                                          *)
(*                                                                         *)
(* Boost.Beast and the network are external: an operation that is pending  *)
(* completes in the end, successfully or with an error (the peer is gone,  *)
(* or the suggested timeouts of the websocket stream expire).              *)
(***************************************************************************)
EXTENDS RequestHandler

CONSTANTS
  Client,
  Texts,        (* what each client may send                               *)
  MaxRequests   (* bound on the messages of each client                    *)

Kind == {"request", "anonymous", "garbage", "unquotable", "binary"}

ASSUME ControlServerAssumption ==
  /\ MaxRequests \in [Client -> Nat]
  /\ \A c \in Client : Texts[c] \subseteq [kind : Kind, request : Request]

VARIABLES
  worker,     (* running, dead (by an exception) or stopped                *)
  blame,      (* what killed it: nothing, accept, request                  *)
  accepting,  (* an async_accept is pending                                *)
  conn,       (* each client's Connection: none, backlog, queued,          *)
              (* handshake, reading, writing, closed                       *)
  inbox,      (* its messages that have not been read                      *)
  buffer,     (* m_buffer: the messages and responses in it                *)
  sent,       (* all messages the client has sent                          *)
  replies,    (* the responses it has received                             *)
  mode,       (* what the application's getMode() returns                  *)
  colors      (* the colours of the devices, as the manager keeps them     *)

network == <<conn, inbox, buffer, sent, replies>>
application == <<mode, colors>>
vars == <<worker, blame, accepting, network, application>>

(* A client numbers its messages, and the msg_id of its n-th request is n.  *)
Message == [id : Nat, kind : Kind, request : Request]

Init ==
  /\ worker = "running"
  /\ blame = "nothing"
  /\ accepting = TRUE
  /\ conn = [c \in Client |-> "none"]
  /\ inbox = [c \in Client |-> <<>>]
  /\ buffer = [c \in Client |-> <<>>]
  /\ sent = [c \in Client |-> <<>>]
  /\ replies = [c \in Client |-> <<>>]
  /\ mode = "control"
  /\ colors = [d \in Device |-> Dark(NumChannels[d])]

-------------------------------------------------------------------------------
(* The clients: they connect, and send without waiting for the responses.   *)
Connect(c) ==
  /\ conn[c] = "none"
  /\ conn' = [conn EXCEPT ![c] = "backlog"]
  /\ UNCHANGED <<worker, blame, accepting, inbox, buffer, sent, replies, application>>

Send(c, text) ==
  /\ conn[c] \in {"reading", "writing"}
  /\ Len(sent[c]) < MaxRequests[c]
  /\ LET m == [id |-> Len(sent[c]) + 1, kind |-> text.kind, request |-> text.request]
     IN  /\ sent' = [sent EXCEPT ![c] = Append(@, m)]
         /\ inbox' = [inbox EXCEPT ![c] = Append(@, m)]
  /\ UNCHANGED <<worker, blame, accepting, conn, buffer, replies, application>>

-------------------------------------------------------------------------------
Serving == worker = "running"

Dies(why) == worker' = "dead" /\ blame' = why

Survives == UNCHANGED <<worker, blame>>

(* Mutant of Accept: the handler does not begin the next accept.            *)
AcceptOnce(c) ==
  /\ Serving
  /\ accepting
  /\ conn[c] = "backlog"
  /\ \/ conn' = [conn EXCEPT ![c] = "queued"] /\ Survives
     \/ conn' = [conn EXCEPT ![c] = "closed"] /\ Dies("accept")
  /\ accepting' = FALSE
  /\ UNCHANGED <<inbox, buffer, sent, replies, application>>

(* The accept handler.  Connection::accept() asks for the peer's address    *)
(* before it looks at the error, which throws when the accept failed or the *)
(* peer is gone; otherwise start() is dispatched and the next accept begun. *)
Accept(c) ==
  /\ Serving
  /\ accepting
  /\ conn[c] = "backlog"
  /\ \/ conn' = [conn EXCEPT ![c] = "queued"] /\ accepting' = TRUE /\ Survives
     \/ conn' = [conn EXCEPT ![c] = "closed"] /\ accepting' = FALSE /\ Dies("accept")
  /\ UNCHANGED <<inbox, buffer, sent, replies, application>>

Start(c) ==
  /\ Serving
  /\ conn[c] = "queued"
  /\ conn' = [conn EXCEPT ![c] = "handshake"]
  /\ UNCHANGED <<worker, blame, accepting, inbox, buffer, sent, replies, application>>

Run(c) ==
  /\ Serving
  /\ conn[c] = "handshake"
  /\ conn' = [conn EXCEPT ![c] = "reading"]
  /\ UNCHANGED <<worker, blame, accepting, inbox, buffer, sent, replies, application>>

(***************************************************************************)
(* The text in the buffer: a message, or what no parser takes, because the *)
(* buffer has not been emptied.                                            *)
(***************************************************************************)
Text(contents) ==
  IF Len(contents) = 1 THEN contents[1]
  ELSE [contents[Len(contents)] EXCEPT !.kind = "garbage"]

State == [mode |-> mode, colors |-> colors]

ResponseTo(a) == [id |-> a.id, success |-> a.outcome.success, body |-> a.outcome.body]

(* Mutant of Respond: the request is not consumed from the buffer.          *)
RespondBehindRequest(c, contents, a) ==
  buffer' = [buffer EXCEPT ![c] = Append(contents, ResponseTo(a))]

(* The request is consumed from the buffer, the response copied into it.    *)
Respond(c, contents, a) ==
  buffer' = [buffer EXCEPT ![c] = <<ResponseTo(a)>>]

Drop(c, contents) ==
  /\ conn' = [conn EXCEPT ![c] = "closed"]
  /\ buffer' = [buffer EXCEPT ![c] = contents]
  /\ UNCHANGED application

Execute(c, contents) ==
  \E a \in HandleRequest(Text(contents), State) :
    /\ Respond(c, contents, a)
    /\ mode' = a.outcome.state.mode
    /\ colors' = a.outcome.state.colors
    /\ conn' = [conn EXCEPT ![c] = "writing"]

(* readRequest(): binary data ends the connection, an exception the worker. *)
ReadRequest(c) ==
  /\ Serving
  /\ conn[c] = "reading"
  /\ inbox[c] # <<>>
  /\ inbox' = [inbox EXCEPT ![c] = Tail(@)]
  /\ LET contents == Append(buffer[c], Head(inbox[c]))
         text == Text(contents)
     IN  \/ text.kind = "binary" /\ Drop(c, contents) /\ Survives
         \/ Escapes(text) /\ Drop(c, contents) /\ Dies("request")
         \/ text.kind # "binary" /\ ~ Escapes(text) /\ Execute(c, contents) /\ Survives
  /\ UNCHANGED <<accepting, sent, replies>>

(* Mutants of ResponseWritten: the response stays in the buffer; no new     *)
(* read is started.                                                         *)
ResponseWrittenKept(c) ==
  /\ Serving
  /\ conn[c] = "writing"
  /\ replies' = [replies EXCEPT ![c] = @ \o buffer[c]]
  /\ conn' = [conn EXCEPT ![c] = "reading"]
  /\ UNCHANGED <<worker, blame, accepting, inbox, buffer, sent, application>>

ResponseWrittenLast(c) ==
  /\ Serving
  /\ conn[c] = "writing"
  /\ replies' = [replies EXCEPT ![c] = @ \o buffer[c]]
  /\ buffer' = [buffer EXCEPT ![c] = <<>>]
  /\ conn' = [conn EXCEPT ![c] = "written"]
  /\ UNCHANGED <<worker, blame, accepting, inbox, sent, application>>

(* The whole buffer has been written; it is emptied for the next request.   *)
ResponseWritten(c) ==
  /\ Serving
  /\ conn[c] = "writing"
  /\ replies' = [replies EXCEPT ![c] = @ \o buffer[c]]
  /\ buffer' = [buffer EXCEPT ![c] = <<>>]
  /\ conn' = [conn EXCEPT ![c] = "reading"]
  /\ UNCHANGED <<worker, blame, accepting, inbox, sent, application>>

(* A pending operation completes with an error: no new one is started, the  *)
(* last reference to the Connection goes away and with it the socket.       *)
Fail(c) ==
  /\ Serving
  /\ conn[c] \in {"handshake", "reading", "writing"}
  /\ conn' = [conn EXCEPT ![c] = "closed"]
  /\ UNCHANGED <<worker, blame, accepting, inbox, buffer, sent, replies, application>>

(* ~ControlServer(): the io_context runs no handler any more.               *)
Stop ==
  /\ Serving
  /\ worker' = "stopped"
  /\ UNCHANGED <<blame, accepting, conn, inbox, buffer, sent, replies, application>>

(* In Analyzer mode the analyzer sets the channels of any device.           *)
Paint(d) ==
  /\ Serving
  /\ mode = "analyzer"
  /\ colors' = [colors EXCEPT ![d] = [i \in DOMAIN @ |-> PaintedColor]]
  /\ UNCHANGED <<worker, blame, accepting, network, mode>>

(* The server waits for clients who do nothing, or has ended.               *)
Idle ==
  /\ \/ ~ Serving
     \/ \A c \in Client : conn[c] = "closed"
  /\ UNCHANGED vars

Next ==
  \/ \E c \in Client :
       \/ Connect(c) \/ \E text \in Texts[c] : Send(c, text)
       \/ Accept(c) \/ Start(c) \/ Run(c)
       \/ ReadRequest(c) \/ ResponseWritten(c) \/ Fail(c)
  \/ \E d \in Device : Paint(d)
  \/ Stop
  \/ Idle

(* The io_context runs every handler that is ready.                         *)
Fairness ==
  \A c \in Client :
    WF_vars(Accept(c) \/ Start(c) \/ Run(c) \/ ReadRequest(c) \/ ResponseWritten(c))

Spec == Init /\ [][Next]_vars /\ Fairness

-------------------------------------------------------------------------------
IsResponse(r) ==
  DOMAIN r = {"id", "success", "body"} /\ r.id \in Int /\ r.success \in BOOLEAN

(* Every variable has its type; a Connection that writes has nothing but    *)
(* its response in the buffer that is sent.                                 *)
TypeOK ==
  /\ worker \in {"running", "dead", "stopped"}
  /\ blame \in {"nothing", "accept", "request"}
  /\ accepting \in BOOLEAN
  /\ mode \in {"control", "analyzer"}
  /\ \A d \in Device : colors[d] \in Vector(NumChannels[d])
  /\ conn \in [Client -> {"none", "backlog", "queued", "handshake", "reading",
                         "writing", "closed"}]
  /\ \A c \in Client :
       /\ inbox[c] \in Seq(Message)
       /\ sent[c] \in Seq(Message)
       /\ conn[c] = "writing" => Len(buffer[c]) = 1 /\ IsResponse(buffer[c][1])
       /\ \A i \in DOMAIN replies[c] : IsResponse(replies[c][i])
       /\ conn[c] \in {"none", "backlog", "queued", "handshake", "reading"} =>
            buffer[c] = <<>>

(* A client that sends without waiting can tell its responses apart: they   *)
(* come in the order of its requests, one for each, and carry the msg_id of *)
(* the command they answer.                                                 *)
AnswersInOrder ==
  \A c \in Client :
    /\ Len(replies[c]) <= Len(sent[c])
    /\ \A i \in DOMAIN replies[c] :
         IF sent[c][i].kind = "request"
         THEN replies[c][i].id = sent[c][i].id
         ELSE replies[c][i].id = NoId /\ ~ replies[c][i].success

(***************************************************************************)
(* A client that no other client and no analyzer interferes with sees a    *)
(* sequential store, although it sends ahead: a getter answers what the    *)
(* last successful set before it asked for, black after set_mode control.  *)
(***************************************************************************)
SetsMode(m) == m.kind = "request" /\ m.request.cmd = "set_mode"

SetsDevice(m, d) ==
  /\ m.kind = "request" /\ Readable(m.request)
  /\ m.request.cmd \in {"set_channel", "set_channels"}
  /\ CallOf(m.request).device = d

Gets(m, d) ==
  /\ m.kind = "request" /\ Readable(m.request)
  /\ m.request.cmd \in {"get_channel", "get_channels"}
  /\ CallOf(m.request).device = d

Disturbs(m, d) == SetsMode(m) \/ SetsDevice(m, d)

Undisturbed(c, j, i, d) ==
  /\ \A e \in Client \ {c} : \A n \in DOMAIN sent[e] : ~ Disturbs(sent[e][n], d)
  /\ \A n \in j + 1 .. i - 1 : ~ Disturbs(sent[c][n], d)
  /\ \A n \in 1 .. j : SetsMode(sent[c][n]) => n = j

Shows(body, k) == \A i \in DOMAIN body : Assigns(k, i) => body[i] = Assigned(k, i)

ReadsOwnWrites ==
  \A c \in Client : \A i \in DOMAIN replies[c] : \A j \in 1 .. i - 1 : \A d \in Device :
    /\ Gets(sent[c][i], d) /\ Disturbs(sent[c][j], d)
    /\ replies[c][i].success /\ replies[c][j].success
    /\ Undisturbed(c, j, i, d)
    => IF SetsDevice(sent[c][j], d)
       THEN Shows(replies[c][i].body, CallOf(sent[c][j].request))
       ELSE sent[c][j].request.mode = <<"control">> =>
              Shows(replies[c][i].body, [NoCall EXCEPT !.op = "clear"])

(* A request to set channels takes effect as a whole or not at all, however *)
(* it fails: unreadable, out of range, or thrown out by the device.  No     *)
(* other request but set_mode changes a colour.                             *)
Handles(c) == conn[c] = "reading" /\ conn'[c] = "writing"

Wholly(m) ==
  \E d \in Device :
    /\ SetsDevice(m, d)
    /\ colors' = [colors EXCEPT ![d] = Modified(CallOf(m.request), @)]

AllOrNothing ==
  [][\A c \in Client :
       Handles(c) => \/ UNCHANGED colors
                     \/ SetsMode(Head(inbox[c]))
                     \/ Wholly(Head(inbox[c]))]_vars

(* A request is answered as long as the worker lives and its connection is  *)
(* not closed: readRequest and responseWritten always start each other.     *)
EveryRequestIsAnswered ==
  \A c \in Client : \A n \in 1 .. MaxRequests[c] :
    Len(sent[c]) >= n ~>
      Len(replies[c]) >= n \/ conn[c] = "closed" \/ ~ Serving

(* Every client gets in, whoever is being served: each accept begins the    *)
(* next one.                                                                *)
EveryClientIsAccepted ==
  \A c \in Client :
    conn[c] = "backlog" ~> conn[c] \in {"reading", "closed"} \/ ~ Serving

(* request_handler.hpp:17: "A request consists of a JSON body that has at   *)
(* least the "cmd" field".  No request, well-formed or not, ends the worker *)
(* thread for all clients.                                                  *)
ServerSurvivesRequests == blame # "request"

===============================================================================
