-------------------------- MODULE ControlServerProofs --------------------------
(***************************************************************************)
(* Proofs about the websocket server, for any clients, any requests and    *)
(* any number of them.                                                     *)
(***************************************************************************)
EXTENDS ControlServer, SequenceTheorems, TLAPS

-------------------------------------------------------------------------------
(***************************************************************************)
(* What comes of a request.                                                *)
(***************************************************************************)
IsState(s) ==
  /\ s \in [mode : {"control", "analyzer"},
            colors : [Device -> UNION {Vector(NumChannels[d]) : d \in Device}]]
  /\ \A d \in Device : s.colors[d] \in Vector(NumChannels[d])

IsOutcome(o) == o.success \in BOOLEAN /\ IsState(o.state)

LEMMA ColorsAreNumbers ==
  /\ Color = 0 .. 255 /\ Black \in Color /\ Black = 0
  /\ \A n \in Int : ToUint8(n) \in Color
  BY RequestHandlerAssumption DEF RequestHandlerAssumption, ToUint8

LEMMA Fields ==
  ASSUME NEW b, NEW s
  PROVE  /\ Answered(b, s).success \in BOOLEAN /\ Answered(b, s).state = s
         /\ Refused(s).success \in BOOLEAN /\ ~ Refused(s).success /\ Refused(s).state = s
<1>1. Answered(b, s).success = TRUE /\ Answered(b, s).state = s
  BY Zenon DEF Answered
<1>2. Refused(s).success = FALSE /\ Refused(s).state = s
  BY Zenon DEF Refused
<1> QED
  BY <1>1, <1>2, Zenon

(* A readable request for a device is turned into colours.                  *)
LEMMA ArgumentsAreColors ==
  ASSUME NEW r \in Request, Readable(r), r.cmd \in DOMAIN Method
  PROVE  /\ r.cmd = "set_channel" => Arguments(r) \in Seq(Color) /\ Len(Arguments(r)) = 1
         /\ r.cmd = "set_channels" => Arguments(r) \in Seq(Color)
<1>1. CASE r.cmd = "set_channel"
  <2>1. r.color \in Optional(Int) /\ r.color # <<>>
    BY <1>1 DEF Request, Readable, Required
  <2>2. r.color[1] \in Int
    BY <2>1 DEF Optional
  <2> QED
    BY <1>1, <2>2, ColorsAreNumbers DEF Arguments
<1>2. CASE r.cmd = "set_channels"
  <2>1. r.channels \in Optional(Seq(Optional(Int))) /\ r.channels # <<>>
    BY <1>2 DEF Request, Readable, Required
  <2>2. r.channels[1] \in Seq(Optional(Int))
    BY <2>1 DEF Optional
  <2> DEFINE xs == r.channels[1]
  <2>3. Len(xs) \in Nat /\ DOMAIN xs = 1 .. Len(xs) /\ \A i \in 1 .. Len(xs) : xs[i] \in Optional(Int)
    BY <2>2, LenProperties
  <2>4. \A i \in 1 .. Len(xs) : xs[i] # <<>>
    BY <1>2, <2>3 DEF Readable
  <2>5. \A i \in 1 .. Len(xs) : xs[i][1] \in Int
    BY <2>3, <2>4 DEF Optional
  <2>6. [i \in 1 .. Len(xs) |-> ToUint8(xs[i][1])] \in [1 .. Len(xs) -> Color]
    BY <2>5, ColorsAreNumbers
  <2>7. Arguments(r) = [i \in 1 .. Len(xs) |-> ToUint8(xs[i][1])]
    BY <1>2, <2>3 DEF Arguments
  <2> HIDE DEF xs
  <2>8. Arguments(r) \in Seq(Color)
    BY <2>3, <2>6, <2>7, SeqDef
  <2> QED
    BY <1>2, <2>8
<1> QED
  BY <1>1, <1>2

(* The colours a writing call leaves are colours.                           *)
LEMMA ModifiedIsVector ==
  ASSUME NEW r \in Request, Readable(r), r.cmd \in {"set_channel", "set_channels"},
         NEW d \in Device, NEW m \in Vector(NumChannels[d])
  PROVE  Modified(CallOf(r), m) \in Vector(NumChannels[d])
<1> DEFINE k == CallOf(r)
<1>1. k.op \in {"setChannel", "setChannels"} /\ k.colors = Arguments(r)
      /\ (k.op = "setChannel" <=> r.cmd = "set_channel")
  BY DEF CallOf, Method
<1>2. k.colors \in Seq(Color) /\ (k.op = "setChannel" => Len(k.colors) = 1)
  BY <1>1, ArgumentsAreColors DEF Method
<1> HIDE DEF k
<1>3. NumChannels[d] \in Nat
  BY RequestHandlerAssumption DEF RequestHandlerAssumption
<1>4. ASSUME NEW i \in Channel(NumChannels[d]), Assigns(k, i) PROVE Assigned(k, i) \in Color
  BY <1>1, <1>2, <1>3, <1>4 DEF Assigns, Assigned, Channel
<1>5. Modified(k, m) \in Vector(NumChannels[d])
  BY <1>4 DEF Modified, Vector
<1> QED
  BY <1>5 DEF k

LEMMA OnDeviceOutcome ==
  ASSUME NEW r \in Request, Readable(r), r.cmd \in DOMAIN Method, NEW s, IsState(s),
         NEW o \in OnDevice(CallOf(r), s)
  PROVE  /\ IsOutcome(o)
         /\ \/ o.state = s
            \/ /\ r.cmd \in {"set_channel", "set_channels"}
               /\ CallOf(r).device \in Device
               /\ o.state.colors = [s.colors EXCEPT ![CallOf(r).device] = Modified(CallOf(r), @)]
<1> DEFINE k == CallOf(r)
<1>1. k.op = Method[r.cmd]
  BY DEF CallOf
<1>2. CASE o \notin Written(k, s) \/ k.op \notin Writing \/ k.device \notin Device
           \/ Rejects(k, NumChannels[k.device])
  <2> HIDE DEF k
  <2>0. o \in {Refused(s), Answered(Answer(k, s.colors[k.device]), s)}
    BY <1>2 DEF OnDevice, k
  <2>1. o.success \in BOOLEAN /\ o.state = s
    BY <2>0, Fields
  <2> QED
    BY <2>1 DEF IsOutcome
<1>3. CASE k.op \in Writing /\ k.device \in Device /\ o \in Written(k, s)
  <2>1. r.cmd \in {"set_channel", "set_channels"}
    BY <1>1, <1>3 DEF Method, Writing
  <2>2. Modified(k, s.colors[k.device]) \in Vector(NumChannels[k.device])
    BY <1>3, <2>1, ModifiedIsVector DEF IsState
  <2> HIDE DEF k
  <2> DEFINE n == [s EXCEPT !.colors[k.device] = Modified(k, @)]
  <2>3. n.colors = [s.colors EXCEPT ![k.device] = Modified(k, @)] /\ n.mode = s.mode
    BY DEF IsState
  <2>4. IsState(n)
    BY <1>3, <2>2, <2>3 DEF IsState
  <2>5. o.success \in BOOLEAN /\ o.state \in {n, s}
    BY <1>3, Fields DEF Written
  <2> HIDE DEF n
  <2> QED
    BY <1>3, <2>1, <2>3, <2>4, <2>5 DEF IsOutcome, k
<1> QED
  BY <1>2, <1>3

(* set_mode is the only request that changes the mode, and the only one but *)
(* the two that set channels that changes a colour.                         *)
LEMMA RequestOutcome ==
  ASSUME NEW r \in Request, NEW s, IsState(s), NEW o \in OnRequest(r, s)
  PROVE  /\ IsOutcome(o)
         /\ \/ o.state = s
            \/ r.cmd = "set_mode"
            \/ /\ Readable(r) /\ r.cmd \in {"set_channel", "set_channels"}
               /\ CallOf(r).device \in Device
               /\ o.state.colors = [s.colors EXCEPT ![CallOf(r).device] = Modified(CallOf(r), @)]
<1>1. CASE ~ Readable(r)
  BY <1>1, Fields DEF OnRequest, IsOutcome
<1>2. CASE Readable(r) /\ r.cmd \in DOMAIN Method
  <2>1. o \in OnDevice(CallOf(r), s)
    BY <1>2 DEF OnRequest
  <2> QED
    BY <1>2, <2>1, OnDeviceOutcome
<1>3. CASE Readable(r) /\ r.cmd \in {"get_devices", "get_modes", "get_mode"}
  <2>1. o \in {Answered(NumChannels, s), Answered(GetModes, s), Answered(<<s.mode>>, s)}
    BY <1>3 DEF OnRequest, Method
  <2> QED
    BY <2>1, Fields DEF IsOutcome
<1>4. CASE Readable(r) /\ r.cmd = "set_mode"
  <2>1. o \in OnControlMode(s) \/ o \in OnAnalyzerMode(s)
    BY <1>4 DEF OnRequest, Method
  <2>2. CASE o \in OnControlMode(s)
    <3> DEFINE c == [s EXCEPT !.mode = "control"]
    <3>1. c.mode = "control" /\ c.colors = s.colors /\ c = [mode |-> c.mode, colors |-> c.colors]
      BY DEF IsState
    <3> HIDE DEF c
    <3>2. PICK n \in Nat : o \in {Answered(NoAnswer, Cleared(c, n)), Refused(Cleared(c, n))}
      BY <2>2, RequestHandlerAssumption DEF OnControlMode, RequestHandlerAssumption, c
    <3>3. o.success \in BOOLEAN /\ o.state = Cleared(c, n)
      BY <3>2, Fields
    <3>4. Cleared(c, n) = [mode |-> "control",
             colors |-> [d \in Device |-> IF d < n THEN Dark(NumChannels[d]) ELSE s.colors[d]]]
      BY <3>1 DEF Cleared
    <3>5. IsState(Cleared(c, n))
      BY <3>4, ColorsAreNumbers DEF IsState, Dark, Vector
    <3> QED
      BY <1>4, <3>3, <3>5 DEF IsOutcome
  <2>3. CASE o \in OnAnalyzerMode(s)
    <3> DEFINE n == [s EXCEPT !.mode = "analyzer"]
    <3>1. IsState(n)
      BY DEF IsState
    <3>2. o \in {Refused(s), Answered(NoAnswer, n)}
      BY <2>3 DEF OnAnalyzerMode
    <3> HIDE DEF n
    <3> QED
      BY <1>4, <3>1, <3>2, Fields DEF IsOutcome
  <2> QED
    BY <2>1, <2>2, <2>3
<1> QED
  BY <1>1, <1>2, <1>3, <1>4 DEF Readable, Required, Method

(* Every answer carries the msg_id of its request, or tells of a failure.   *)
Answers(m, r) ==
  IF m.kind = "request" THEN r.id = m.id ELSE r.id = NoId /\ ~ r.success

LEMMA HandleOutcome ==
  ASSUME NEW m \in Message, NEW s, IsState(s), NEW a \in HandleRequest(m, s)
  PROVE  /\ IsOutcome(a.outcome)
         /\ Answers(m, ResponseTo(a)) /\ IsResponse(ResponseTo(a))
         /\ m.kind # "request" => a.outcome.state = s
         /\ m.kind = "request" => a.outcome \in OnRequest(m.request, s)
<1>1. CASE m.kind = "request"
  <2>1. PICK o \in OnRequest(m.request, s) : a = [id |-> m.id, outcome |-> o]
    BY <1>1 DEF HandleRequest
  <2>2. IsOutcome(o)
    BY <2>1, RequestOutcome DEF Message
  <2> QED
    BY <1>1, <2>1, <2>2 DEF Answers, ResponseTo, IsResponse, IsOutcome, Message
<1>2. CASE m.kind # "request"
  <2>1. a = [id |-> NoId, outcome |-> Refused(s)]
    BY <1>2 DEF HandleRequest
  <2>2. a.id = NoId /\ a.outcome = Refused(s)
    BY <2>1, Zenon
  <2>3. IsOutcome(a.outcome) /\ a.outcome.state = s /\ a.outcome.success = FALSE
    BY <2>2, Fields DEF IsOutcome
  <2>4. /\ ResponseTo(a).id = NoId /\ ResponseTo(a).success = FALSE
        /\ DOMAIN ResponseTo(a) = {"id", "success", "body"}
    BY <2>2, <2>3 DEF ResponseTo
  <2>5. Answers(m, ResponseTo(a))
    BY <1>2, <2>4, Zenon DEF Answers
  <2>6. NoId \in Int /\ FALSE \in BOOLEAN
    BY DEF NoId
  <2>7. IsResponse(ResponseTo(a))
    BY <2>4, <2>6, Zenon DEF IsResponse
  <2> QED
    BY <1>2, <2>3, <2>5, <2>7
<1> QED
  BY <1>1, <1>2

-------------------------------------------------------------------------------
(***************************************************************************)
(* Sequences whose elements have no type of their own.                     *)
(***************************************************************************)
IsSeq(s) == Len(s) \in Nat /\ s \in Seq({s[i] : i \in 1 .. Len(s)})

LEMMA AppendOne ==
  ASSUME NEW s, IsSeq(s), NEW r
  PROVE  /\ IsSeq(s \o <<r>>)
         /\ Len(s \o <<r>>) = Len(s) + 1
         /\ \A i \in 1 .. Len(s) + 1 : (s \o <<r>>)[i] = IF i <= Len(s) THEN s[i] ELSE r
<1> DEFINE S == {s[i] : i \in 1 .. Len(s)} \cup {r}
           t == s \o <<r>>
<1>1. s \in Seq(S) /\ <<r>> \in Seq(S) /\ Len(<<r>>) = 1 /\ <<r>>[1] = r
  BY SeqMonotonic DEF IsSeq
<1>2. /\ t \in Seq(S) /\ Len(t) = Len(s) + 1
      /\ \A i \in 1 .. Len(s) + 1 : t[i] = IF i <= Len(s) THEN s[i] ELSE <<r>>[i - Len(s)]
  BY <1>1, ConcatProperties
<1>3. \A i \in 1 .. Len(s) + 1 : t[i] = IF i <= Len(s) THEN s[i] ELSE r
  BY <1>1, <1>2 DEF IsSeq
<1>4. t \in Seq({t[i] : i \in 1 .. Len(t)})
  <2>1. t \in [1 .. Len(t) -> S] /\ Len(t) \in Nat
    BY <1>2, LenProperties
  <2>2. t \in [1 .. Len(t) -> {t[i] : i \in 1 .. Len(t)}]
    BY <2>1
  <2> HIDE DEF t
  <2> QED
    BY <2>1, <2>2, SeqDef
<1>5. IsSeq(t)
  <2>1. Len(t) \in Nat
    BY <1>2, LenProperties
  <2> HIDE DEF t
  <2> QED
    BY <2>1, <1>4 DEF IsSeq
<1> QED
  BY <1>2, <1>3, <1>5

-------------------------------------------------------------------------------
(***************************************************************************)
(* The inductive invariant.  What a client has sent is what has been       *)
(* answered, the one message whose response is being written, and what has *)
(* not been read, in this order; the buffer is empty between two messages. *)
(***************************************************************************)
TypeInv ==
  /\ worker \in {"running", "dead", "stopped"}
  /\ blame \in {"nothing", "accept", "request"}
  /\ accepting \in BOOLEAN
  /\ IsState(State)
  /\ conn \in [Client -> {"none", "backlog", "queued", "handshake", "reading",
                         "writing", "closed"}]
  /\ inbox \in [Client -> Seq(Message)]
  /\ sent \in [Client -> Seq(Message)]
  /\ DOMAIN buffer = Client
  /\ DOMAIN replies = Client

Taken(c) == IF conn[c] = "writing" THEN Len(replies[c]) + 1 ELSE Len(replies[c])

Replied(c) ==
  /\ IsSeq(replies[c])
  /\ Len(replies[c]) <= Len(sent[c])
  /\ \A i \in 1 .. Len(replies[c]) :
       Answers(sent[c][i], replies[c][i]) /\ IsResponse(replies[c][i])

Buffered(c) ==
  /\ conn[c] = "writing" =>
       \E r : /\ buffer[c] = <<r>> /\ IsResponse(r)
             /\ Len(replies[c]) < Len(sent[c])
             /\ Answers(sent[c][Len(replies[c]) + 1], r)
  /\ conn[c] \in {"none", "backlog", "queued", "handshake", "reading"} => buffer[c] = <<>>

Pending(c) ==
  conn[c] # "closed" =>
    /\ Len(sent[c]) = Taken(c) + Len(inbox[c])
    /\ \A i \in 1 .. Len(inbox[c]) : inbox[c][i] = sent[c][Taken(c) + i]

InStep(c) == Replied(c) /\ Buffered(c) /\ Pending(c)

Inv == TypeInv /\ \A c \in Client : InStep(c)

LEMMA InvInit == Init => Inv
<1> SUFFICES ASSUME Init PROVE Inv
  OBVIOUS
<1>1. <<>> \in Seq(Message) /\ Len(<<>>) = 0
  OBVIOUS
<1>2. IsState(State)
  BY ColorsAreNumbers DEF Init, IsState, State, Dark, Vector
<1>3. TypeInv
  BY <1>1, <1>2 DEF Init, TypeInv
<1>4. ASSUME NEW c \in Client PROVE InStep(c)
  <2>1. /\ conn[c] = "none" /\ inbox[c] = <<>> /\ buffer[c] = <<>> /\ sent[c] = <<>>
        /\ replies[c] = <<>>
    BY DEF Init
  <2>2. IsSeq(<<>>)
    BY <1>1 DEF IsSeq
  <2> QED
    BY <1>1, <2>1, <2>2 DEF InStep, Replied, Buffered, Pending, Taken
<1> QED
  BY <1>3, <1>4 DEF Inv

(* A step of one client leaves the others as they are.                      *)
LEMMA InStepStays ==
  ASSUME NEW c, InStep(c), conn'[c] = conn[c], inbox'[c] = inbox[c], buffer'[c] = buffer[c],
         sent'[c] = sent[c], replies'[c] = replies[c]
  PROVE  InStep(c)'
  BY DEF InStep, Replied, Buffered, Pending, Taken

(* Connecting, accepting and the handshakes move no message, and a failure  *)
(* ends the client's messages.                                              *)
LEMMA QuietStep ==
  ASSUME Inv, NEW c \in Client, NEW p, conn' = [conn EXCEPT ![c] = p],
         UNCHANGED <<inbox, buffer, sent, replies, application>>,
         worker' \in {"running", "dead", "stopped"},
         blame' \in {"nothing", "accept", "request"}, accepting' \in BOOLEAN,
         \/ p = "closed"
         \/ conn[c] \in {"none", "backlog", "queued", "handshake"}
            /\ p \in {"backlog", "queued", "handshake", "reading"}
  PROVE  Inv'
<1>1. TypeInv'
  BY DEF Inv, TypeInv, application, State
<1>2. conn'[c] = p /\ \A d \in Client \ {c} : conn'[d] = conn[d]
  BY DEF Inv, TypeInv
<1>3. InStep(c)'
  <2>1. InStep(c)
    BY DEF Inv
  <2>2. Replied(c)' /\ Buffered(c)'
    BY <1>2, <2>1 DEF InStep, Replied, Buffered
  <2>3. Pending(c)'
    BY <1>2, <2>1 DEF InStep, Pending, Taken
  <2> QED
    BY <2>2, <2>3 DEF InStep
<1>4. ASSUME NEW d \in Client \ {c} PROVE InStep(d)'
  BY <1>2, InStepStays DEF Inv
<1> QED
  BY <1>1, <1>3, <1>4 DEF Inv

LEMMA SendStep ==
  ASSUME Inv, NEW c \in Client, NEW text \in Texts[c], Send(c, text)
  PROVE  Inv'
<1> DEFINE m == [id |-> Len(sent[c]) + 1, kind |-> text.kind, request |-> text.request]
<1>1. /\ sent[c] \in Seq(Message) /\ inbox[c] \in Seq(Message) /\ InStep(c)
      /\ conn[c] \in {"reading", "writing"}
  BY DEF Send, Inv, TypeInv
<1>2. m \in Message
  <2>1. Len(sent[c]) + 1 \in Nat
    BY <1>1, LenProperties
  <2>2. text \in [kind : Kind, request : Request]
    BY ControlServerAssumption DEF ControlServerAssumption
  <2> QED
    BY <2>1, <2>2 DEF Message
<1>3. /\ sent' = [sent EXCEPT ![c] = Append(@, m)]
      /\ inbox' = [inbox EXCEPT ![c] = Append(@, m)]
      /\ UNCHANGED <<worker, blame, accepting, conn, buffer, replies, application>>
  BY DEF Send
<1> HIDE DEF m
<1>4. TypeInv'
  BY <1>1, <1>2, <1>3 DEF Inv, TypeInv, application, State
<1>5. sent'[c] = Append(sent[c], m) /\ inbox'[c] = Append(inbox[c], m)
  BY <1>3 DEF Inv, TypeInv
<1>6. /\ Len(sent[c]) \in Nat /\ Len(inbox[c]) \in Nat
      /\ Len(sent'[c]) = Len(sent[c]) + 1 /\ Len(inbox'[c]) = Len(inbox[c]) + 1
      /\ \A i \in 1 .. Len(sent[c]) : sent'[c][i] = sent[c][i]
      /\ \A i \in 1 .. Len(inbox[c]) : inbox'[c][i] = inbox[c][i]
      /\ sent'[c][Len(sent[c]) + 1] = m /\ inbox'[c][Len(inbox[c]) + 1] = m
  BY <1>1, <1>2, <1>5, LenProperties
<1>7. InStep(c)'
  <2>1. Replied(c)' /\ Buffered(c)'
    BY <1>1, <1>3, <1>6 DEF InStep, Replied, Buffered, IsSeq
  <2>2. Taken(c) \in Nat /\ Taken(c)' = Taken(c)
    BY <1>1, <1>3 DEF InStep, Replied, Taken, IsSeq
  <2>3. Pending(c) /\ conn'[c] = conn[c]
    BY <1>1, <1>3 DEF InStep
  <2>4. ASSUME conn[c] # "closed"
        PROVE  /\ Len(sent'[c]) = Taken(c) + Len(inbox'[c])
               /\ \A i \in 1 .. Len(inbox'[c]) : inbox'[c][i] = sent'[c][Taken(c) + i]
    <3>1. /\ Len(sent[c]) = Taken(c) + Len(inbox[c])
          /\ \A i \in 1 .. Len(inbox[c]) : inbox[c][i] = sent[c][Taken(c) + i]
      BY <2>3, <2>4 DEF Pending
    <3>2. ASSUME NEW i \in 1 .. Len(inbox[c])
          PROVE  inbox'[c][i] = sent'[c][Taken(c) + i]
      <4>1. Taken(c) + i \in 1 .. Len(sent[c])
        BY <1>6, <2>2, <3>1
      <4> QED
        BY <1>6, <3>1, <4>1
    <3>3. inbox'[c][Len(inbox[c]) + 1] = sent'[c][Taken(c) + (Len(inbox[c]) + 1)]
      BY <1>6, <2>2, <3>1
    <3>4. ASSUME NEW i \in 1 .. Len(inbox'[c])
          PROVE  i \in 1 .. Len(inbox[c]) \/ i = Len(inbox[c]) + 1
      BY <1>6
    <3>5. Len(sent'[c]) = Taken(c) + Len(inbox'[c])
      BY <1>6, <2>2, <3>1
    <3> QED
      BY <3>2, <3>3, <3>4, <3>5
  <2>5. Pending(c)'
    BY <2>2, <2>3, <2>4 DEF Pending
  <2> QED
    BY <2>1, <2>5 DEF InStep
<1>8. ASSUME NEW d \in Client \ {c} PROVE InStep(d)'
  BY <1>3, InStepStays DEF Inv, TypeInv
<1> QED
  BY <1>4, <1>7, <1>8 DEF Inv

(* A read request is the head of the inbox: nothing else is in the buffer.  *)
LEMMA RequestIsHead ==
  ASSUME Inv, NEW c \in Client, conn[c] = "reading", inbox[c] # <<>>
  PROVE  /\ Text(Append(buffer[c], Head(inbox[c]))) = Head(inbox[c])
         /\ Head(inbox[c]) \in Message
<1>1. buffer[c] = <<>> /\ inbox[c] \in Seq(Message)
  BY DEF Inv, TypeInv, InStep, Buffered
<1>2. Head(inbox[c]) \in Message
  BY <1>1
<1>3. Append(buffer[c], Head(inbox[c])) = <<Head(inbox[c])>>
  BY <1>1, <1>2
<1>4. Text(<<Head(inbox[c])>>) = Head(inbox[c])
  BY <1>2 DEF Text
<1> QED
  BY <1>2, <1>3, <1>4

(* Either the client is dropped, or its next message is executed and its    *)
(* answer is all there is in the buffer.                                    *)
LEMMA ReadCases ==
  ASSUME Inv, NEW c \in Client, ReadRequest(c)
  PROVE  /\ conn[c] = "reading" /\ inbox[c] # <<>>
         /\ inbox' = [inbox EXCEPT ![c] = Tail(@)]
         /\ UNCHANGED <<accepting, sent, replies>>
         /\ worker' \in {"running", "dead"} /\ blame' \in {blame, "request"}
         /\ \/ /\ conn' = [conn EXCEPT ![c] = "closed"] /\ UNCHANGED application
               /\ \E x : buffer' = [buffer EXCEPT ![c] = x]
            \/ \E a \in HandleRequest(Head(inbox[c]), State) :
                 /\ conn' = [conn EXCEPT ![c] = "writing"]
                 /\ buffer' = [buffer EXCEPT ![c] = <<ResponseTo(a)>>]
                 /\ State' = a.outcome.state
<1>1. conn[c] = "reading" /\ inbox[c] # <<>> /\ worker = "running"
  BY DEF ReadRequest, Serving
<1>2. Text(Append(buffer[c], Head(inbox[c]))) = Head(inbox[c]) /\ Head(inbox[c]) \in Message
  BY <1>1, RequestIsHead
<1>3. /\ inbox' = [inbox EXCEPT ![c] = Tail(@)]
      /\ UNCHANGED <<accepting, sent, replies>>
      /\ worker' \in {"running", "dead"} /\ blame' \in {blame, "request"}
      /\ \/ \E x : Drop(c, x)
         \/ \E x : Execute(c, x) /\ Text(x) = Head(inbox[c])
  BY <1>1, <1>2 DEF ReadRequest, Survives, Dies
<1>4. CASE \E x : Drop(c, x)
  BY <1>1, <1>3, <1>4 DEF Drop
<1>5. ASSUME NEW x, Execute(c, x), Text(x) = Head(inbox[c])
      PROVE  \E a \in HandleRequest(Head(inbox[c]), State) :
               /\ conn' = [conn EXCEPT ![c] = "writing"]
               /\ buffer' = [buffer EXCEPT ![c] = <<ResponseTo(a)>>]
               /\ State' = a.outcome.state
  <2>1. PICK a \in HandleRequest(Head(inbox[c]), State) :
          /\ Respond(c, x, a) /\ conn' = [conn EXCEPT ![c] = "writing"]
          /\ mode' = a.outcome.state.mode /\ colors' = a.outcome.state.colors
    BY <1>5 DEF Execute
  <2>2. IsState(a.outcome.state)
    BY <1>2, HandleOutcome DEF Inv, TypeInv, IsOutcome
  <2>3. State' = a.outcome.state
    BY <2>1, <2>2 DEF IsState, State
  <2> QED
    BY <2>1, <2>3 DEF Respond
<1> QED
  BY <1>1, <1>3, <1>4, <1>5

LEMMA OneFewer ==
  ASSUME NEW r \in Nat, NEW n \in Nat \ {0}, NEW k, k = n - 1, NEW l, l = r + n
  PROVE  r < l
  OBVIOUS

LEMMA OneMoved ==
  ASSUME NEW r \in Nat, NEW n \in Nat, NEW k, k = n - 1, NEW l, l = r + n
  PROVE  l = (r + 1) + k
  OBVIOUS

LEMMA ReadStep ==
  ASSUME Inv, NEW c \in Client, ReadRequest(c)
  PROVE  Inv'
<1>1. /\ conn[c] = "reading" /\ inbox[c] # <<>>
      /\ inbox' = [inbox EXCEPT ![c] = Tail(@)]
      /\ UNCHANGED <<accepting, sent, replies>>
      /\ worker' \in {"running", "dead"} /\ blame' \in {blame, "request"}
  BY ReadCases
<1>2. /\ inbox[c] \in Seq(Message) /\ sent[c] \in Seq(Message) /\ InStep(c)
      /\ Head(inbox[c]) \in Message
  BY <1>1 DEF Inv, TypeInv
<1>3. /\ inbox'[c] = Tail(inbox[c]) /\ Tail(inbox[c]) \in Seq(Message)
      /\ Len(inbox[c]) \in Nat \ {0} /\ Len(inbox'[c]) = Len(inbox[c]) - 1
      /\ \A i \in 1 .. Len(inbox'[c]) : inbox'[c][i] = inbox[c][i + 1]
      /\ Head(inbox[c]) = inbox[c][1]
  BY <1>1, <1>2, HeadTailProperties, EmptySeq DEF Inv, TypeInv
<1>4. inbox' \in [Client -> Seq(Message)]
  BY <1>1, <1>3 DEF Inv, TypeInv
<1>5. Replied(c)'
  BY <1>1, <1>2 DEF InStep, Replied
<1>6. CASE /\ conn' = [conn EXCEPT ![c] = "closed"] /\ UNCHANGED application
           /\ \E x : buffer' = [buffer EXCEPT ![c] = x]
  <2>1. TypeInv'
    BY <1>1, <1>4, <1>6 DEF Inv, TypeInv, application, State
  <2>2. conn'[c] = "closed"
    BY <1>6 DEF Inv, TypeInv
  <2>3. InStep(c)'
    BY <1>5, <2>2 DEF InStep, Buffered, Pending
  <2>4. ASSUME NEW d \in Client \ {c} PROVE InStep(d)'
    BY <1>1, <1>6, InStepStays DEF Inv, TypeInv
  <2> QED
    BY <2>1, <2>3, <2>4 DEF Inv
<1>7. ASSUME NEW a \in HandleRequest(Head(inbox[c]), State),
             conn' = [conn EXCEPT ![c] = "writing"],
             buffer' = [buffer EXCEPT ![c] = <<ResponseTo(a)>>],
             State' = a.outcome.state
      PROVE  Inv'
  <2>1. /\ IsState(a.outcome.state)
        /\ Answers(Head(inbox[c]), ResponseTo(a)) /\ IsResponse(ResponseTo(a))
    BY <1>2, HandleOutcome DEF Inv, TypeInv, IsOutcome
  <2>2. IsState(State)'
    BY <1>7, <2>1
  <2>3. TypeInv'
    BY <1>1, <1>4, <1>7, <2>2 DEF Inv, TypeInv
  <2>4. conn'[c] = "writing" /\ buffer'[c] = <<ResponseTo(a)>>
    BY <1>7 DEF Inv, TypeInv
  <2>5. /\ Len(replies[c]) \in Nat /\ Taken(c) = Len(replies[c])
        /\ Taken(c)' = Len(replies[c]) + 1
    BY <1>1, <1>2, <2>4 DEF InStep, Replied, IsSeq, Taken
  <2>6. /\ Len(sent[c]) = Len(replies[c]) + Len(inbox[c])
        /\ \A i \in 1 .. Len(inbox[c]) : inbox[c][i] = sent[c][Len(replies[c]) + i]
    BY <1>1, <1>2, <2>5 DEF InStep, Pending
  <2>7. /\ Len(inbox[c]) \in Nat \ {0} /\ Len(inbox'[c]) = Len(inbox[c]) - 1
        /\ Len(replies[c]) \in Nat /\ Len(sent[c]) = Len(replies[c]) + Len(inbox[c])
    BY <1>3, <2>5, <2>6
  <2>8. Head(inbox[c]) = sent[c][Len(replies[c]) + 1] /\ Len(replies[c]) < Len(sent[c])
    <3>1. 1 \in 1 .. Len(inbox[c])
      BY <1>3
    <3>2. inbox[c][1] = sent[c][Len(replies[c]) + 1]
      BY <2>6, <3>1
    <3>3. Len(replies[c]) < Len(sent[c])
      BY <2>7, OneFewer
    <3> QED
      BY <1>3, <3>2, <3>3
  <2>9. Buffered(c)'
    <3>1. Answers(sent[c][Len(replies[c]) + 1], ResponseTo(a))
      BY <2>1, <2>8
    <3> QED
      BY <1>1, <2>1, <2>4, <2>8, <3>1 DEF Buffered
  <2>10. Pending(c)'
    <3> DEFINE k == Len(inbox'[c])
               n == Len(inbox[c])
               r == Len(replies[c])
               l == Len(sent[c])
    <3>1. \A i \in 1 .. Len(inbox'[c]) : inbox'[c][i] = sent[c][(Len(replies[c]) + 1) + i]
      BY <1>3, <2>5, <2>6
    <3>2. Len(sent[c]) = (Len(replies[c]) + 1) + Len(inbox'[c])
      <4>1. r \in Nat /\ n \in Nat /\ k = n - 1 /\ l = r + n
        BY <2>7
      <4> HIDE DEF k, n, r, l
      <4>2. l = (r + 1) + k
        BY <4>1, OneMoved
      <4> QED
        BY <4>2, Zenon DEF k, n, r, l
    <3>3. sent'[c] = sent[c]
      BY <1>1
    <3> QED
      BY <2>5, <3>1, <3>2, <3>3 DEF Pending
  <2>11. ASSUME NEW d \in Client \ {c} PROVE InStep(d)'
    BY <1>1, <1>7, InStepStays DEF Inv, TypeInv
  <2> QED
    BY <1>5, <2>3, <2>9, <2>10, <2>11 DEF Inv, InStep
<1> QED
  BY <1>6, <1>7, ReadCases

LEMMA WrittenStep ==
  ASSUME Inv, NEW c \in Client, ResponseWritten(c)
  PROVE  Inv'
<1>1. /\ conn[c] = "writing"
      /\ replies' = [replies EXCEPT ![c] = @ \o buffer[c]]
      /\ buffer' = [buffer EXCEPT ![c] = <<>>]
      /\ conn' = [conn EXCEPT ![c] = "reading"]
      /\ UNCHANGED <<worker, blame, accepting, inbox, sent, application>>
  BY DEF ResponseWritten
<1>2. PICK r : /\ buffer[c] = <<r>> /\ IsResponse(r)
               /\ Len(replies[c]) < Len(sent[c])
               /\ Answers(sent[c][Len(replies[c]) + 1], r)
  BY <1>1 DEF Inv, InStep, Buffered
<1>3. InStep(c) /\ IsSeq(replies[c])
  BY DEF Inv, InStep, Replied
<1>4. /\ conn'[c] = "reading" /\ buffer'[c] = <<>> /\ inbox'[c] = inbox[c] /\ sent'[c] = sent[c]
      /\ replies'[c] = replies[c] \o <<r>>
  BY <1>1, <1>2 DEF Inv, TypeInv
<1>5. /\ Len(replies[c]) \in Nat
      /\ IsSeq(replies'[c]) /\ Len(replies'[c]) = Len(replies[c]) + 1
      /\ \A i \in 1 .. Len(replies[c]) + 1 :
           replies'[c][i] = IF i <= Len(replies[c]) THEN replies[c][i] ELSE r
  <2>1. Len(replies[c]) \in Nat
    BY <1>3 DEF IsSeq
  <2> QED
    BY <1>3, <1>4, <2>1, AppendOne
<1>6. TypeInv'
  BY <1>1 DEF Inv, TypeInv, application, State
<1>7. sent[c] \in Seq(Message) /\ Len(sent[c]) \in Nat
  BY LenProperties DEF Inv, TypeInv
<1>8. Replied(c)'
  <2>1. ASSUME NEW i \in 1 .. Len(replies[c]) + 1
        PROVE  Answers(sent[c][i], replies'[c][i]) /\ IsResponse(replies'[c][i])
    <3>1. CASE i <= Len(replies[c])
      <4>1. replies'[c][i] = replies[c][i] /\ i \in 1 .. Len(replies[c])
        BY <1>5, <3>1
      <4> QED
        BY <1>3, <4>1 DEF InStep, Replied
    <3>2. CASE i = Len(replies[c]) + 1
      <4>1. replies'[c][i] = r
        BY <1>5, <3>2
      <4> QED
        BY <1>2, <3>2, <4>1
    <3> QED
      BY <1>5, <3>1, <3>2
  <2> QED
    BY <1>2, <1>4, <1>5, <1>7, <2>1 DEF Replied
<1>9. Buffered(c)' /\ Pending(c)'
  BY <1>1, <1>3, <1>4, <1>5 DEF InStep, Buffered, Pending, Taken
<1>10. ASSUME NEW d \in Client \ {c} PROVE InStep(d)'
  BY <1>1, InStepStays DEF Inv, TypeInv
<1> QED
  BY <1>6, <1>8, <1>9, <1>10 DEF Inv, InStep

(* The analyzer's painting, the end of the server, and nothing at all.      *)
LEMMA NetworkStays ==
  ASSUME Inv, UNCHANGED network, TypeInv'
  PROVE  Inv'
  BY InStepStays DEF Inv, network

LEMMA PaintStep ==
  ASSUME Inv, NEW d \in Device, Paint(d)
  PROVE  Inv'
<1>1. /\ colors' = [colors EXCEPT ![d] = [i \in DOMAIN @ |-> PaintedColor]]
      /\ UNCHANGED <<worker, blame, accepting, network, mode>>
  BY DEF Paint
<1>2. colors[d] \in Vector(NumChannels[d]) /\ PaintedColor \in Color
  BY RequestHandlerAssumption DEF Inv, TypeInv, IsState, State, RequestHandlerAssumption
<1>3. [i \in DOMAIN colors[d] |-> PaintedColor] \in Vector(NumChannels[d])
  BY <1>2 DEF Vector
<1>4. IsState(State)'
  BY <1>1, <1>3 DEF Inv, TypeInv, IsState, State
<1>5. TypeInv'
  BY <1>1, <1>4 DEF Inv, TypeInv, network
<1> QED
  BY <1>1, <1>5, NetworkStays

LEMMA InvStep == Inv /\ [Next]_vars => Inv'
<1> SUFFICES ASSUME Inv, [Next]_vars PROVE Inv'
  OBVIOUS
<1>1. ASSUME NEW c \in Client, Connect(c) \/ Accept(c) \/ Start(c) \/ Run(c) \/ Fail(c)
      PROVE  Inv'
  <2>1. TypeInv
    BY DEF Inv
  <2>2. PICK p : /\ conn' = [conn EXCEPT ![c] = p]
                 /\ \/ p = "closed"
                    \/ /\ conn[c] \in {"none", "backlog", "queued", "handshake"}
                       /\ p \in {"backlog", "queued", "handshake", "reading"}
    BY <1>1 DEF Connect, Accept, Start, Run, Fail
  <2>3. /\ UNCHANGED <<inbox, buffer, sent, replies, application>>
        /\ worker' \in {"running", "dead", "stopped"}
        /\ blame' \in {"nothing", "accept", "request"} /\ accepting' \in BOOLEAN
    BY <1>1, <2>1 DEF Connect, Accept, Start, Run, Fail, Survives, Dies, TypeInv
  <2> QED
    BY <2>2, <2>3, QuietStep
<1>2. CASE Stop \/ Idle \/ UNCHANGED vars
  <2>1. TypeInv' /\ UNCHANGED network
    BY <1>2 DEF Stop, Idle, vars, network, application, Inv, TypeInv, State
  <2> QED
    BY <2>1, NetworkStays
<1> QED
  BY <1>1, <1>2, SendStep, ReadStep, WrittenStep, PaintStep DEF Next

-------------------------------------------------------------------------------
(***************************************************************************)
(* The theorems.                                                           *)
(***************************************************************************)
LEMMA Invariance == Spec => []Inv
  BY InvInit, InvStep, PTL DEF Spec

(* Every variable keeps its type: whatever numbers the requests have, the   *)
(* devices keep colours, and what is written is one response.               *)
THEOREM TypeCorrect == Spec => []TypeOK
<1>1. Inv => TypeOK
  <2> SUFFICES ASSUME Inv PROVE TypeOK
    OBVIOUS
  <2>1. mode \in {"control", "analyzer"} /\ \A d \in Device : colors[d] \in Vector(NumChannels[d])
    BY DEF Inv, TypeInv, IsState, State
  <2>2. ASSUME NEW c \in Client
        PROVE  /\ inbox[c] \in Seq(Message) /\ sent[c] \in Seq(Message)
               /\ conn[c] = "writing" => Len(buffer[c]) = 1 /\ IsResponse(buffer[c][1])
               /\ \A i \in DOMAIN replies[c] : IsResponse(replies[c][i])
               /\ conn[c] \in {"none", "backlog", "queued", "handshake", "reading"} =>
                    buffer[c] = <<>>
    <3>1. InStep(c) /\ inbox[c] \in Seq(Message) /\ sent[c] \in Seq(Message)
      BY DEF Inv, TypeInv
    <3>2. DOMAIN replies[c] = 1 .. Len(replies[c])
      BY <3>1, LenProperties DEF InStep, Replied, IsSeq
    <3>3. conn[c] = "writing" => Len(buffer[c]) = 1 /\ IsResponse(buffer[c][1])
      <4>1. ASSUME NEW r, buffer[c] = <<r>>, IsResponse(r)
            PROVE  Len(buffer[c]) = 1 /\ IsResponse(buffer[c][1])
        BY <4>1
      <4> QED
        BY <3>1, <4>1 DEF InStep, Buffered
    <3> QED
      BY <3>1, <3>2, <3>3 DEF InStep, Replied, Buffered
  <2> QED
    BY <2>1, <2>2 DEF Inv, TypeInv, TypeOK
<1> QED
  BY <1>1, Invariance, PTL

(* However far ahead a client sends, and however its requests fail: the     *)
(* responses come in the order of the requests, one for each.               *)
THEOREM OrderOfAnswers == Spec => []AnswersInOrder
<1>1. Inv => AnswersInOrder
  <2> SUFFICES ASSUME Inv, NEW c \in Client
               PROVE  /\ Len(replies[c]) <= Len(sent[c])
                      /\ \A i \in DOMAIN replies[c] :
                           IF sent[c][i].kind = "request"
                           THEN replies[c][i].id = sent[c][i].id
                           ELSE replies[c][i].id = NoId /\ ~ replies[c][i].success
    BY DEF AnswersInOrder
  <2>1. Replied(c)
    BY DEF Inv, InStep
  <2>2. DOMAIN replies[c] = 1 .. Len(replies[c])
    BY <2>1, LenProperties DEF Replied, IsSeq
  <2>3. ASSUME NEW i \in DOMAIN replies[c] PROVE Answers(sent[c][i], replies[c][i])
    BY <2>1, <2>2 DEF Replied
  <2> QED
    BY <2>1, <2>3, Zenon DEF Answers, Replied
<1> QED
  BY <1>1, Invariance, PTL

(* A step that executes a request changes the colours of one device, by the *)
(* whole of a legal set_channel or set_channels, or it is a set_mode.       *)
THEOREM RequestsAreAtomic == Spec => AllOrNothing
<1>1. ASSUME Inv, [Next]_vars, NEW c \in Client, Handles(c)
      PROVE  UNCHANGED colors \/ SetsMode(Head(inbox[c])) \/ Wholly(Head(inbox[c]))
  <2>1. ReadRequest(c)
    <3>1. conn[c] = "reading" /\ conn'[c] = "writing"
      BY <1>1 DEF Handles
    <3>2. ASSUME NEW d \in Client \ {c},
                 Connect(d) \/ Accept(d) \/ Start(d) \/ Run(d) \/ Fail(d) \/ ReadRequest(d)
                   \/ ResponseWritten(d)
          PROVE  conn'[c] = conn[c]
      BY <3>2, <1>1 DEF Connect, Accept, Start, Run, Fail, ReadRequest, Drop, Execute,
                        ResponseWritten, Inv, TypeInv
    <3>3. ASSUME Connect(c) \/ Accept(c) \/ Start(c) \/ Run(c) \/ Fail(c) \/ ResponseWritten(c)
          PROVE  conn'[c] # "writing"
      BY <3>3, <1>1 DEF Connect, Accept, Start, Run, Fail, ResponseWritten, Inv, TypeInv
    <3>4. ASSUME \/ \E d \in Client : \E text \in Texts[d] : Send(d, text)
                 \/ \E d \in Device : Paint(d)
                 \/ Stop \/ Idle \/ UNCHANGED vars
          PROVE  conn' = conn
      BY <3>4 DEF Send, Paint, Stop, Idle, vars, network
    <3> QED
      BY <3>1, <3>2, <3>3, <3>4, <1>1 DEF Next
  <2> DEFINE m == Head(inbox[c])
  <2>2. PICK a \in HandleRequest(m, State) : State' = a.outcome.state
    <3>1. conn'[c] # "closed"
      BY <1>1 DEF Handles
    <3> QED
      BY <1>1, <2>1, <3>1, ReadCases DEF Inv, TypeInv
  <2>3. m \in Message /\ IsState(State)
    BY <1>1, <2>1, ReadCases, RequestIsHead DEF Inv, TypeInv
  <2> HIDE DEF m
  <2>4. colors' = a.outcome.state.colors
    BY <2>2 DEF State
  <2>5. CASE m.kind # "request"
    BY <2>2, <2>3, <2>4, <2>5, HandleOutcome DEF State
  <2>6. CASE m.kind = "request"
    <3> DEFINE r == m.request
    <3>1. r \in Request /\ a.outcome \in OnRequest(r, State)
      BY <2>2, <2>3, <2>6, HandleOutcome DEF Message
    <3>2. \/ a.outcome.state = State
          \/ r.cmd = "set_mode"
          \/ /\ Readable(r) /\ r.cmd \in {"set_channel", "set_channels"}
             /\ CallOf(r).device \in Device
             /\ a.outcome.state.colors =
                  [colors EXCEPT ![CallOf(r).device] = Modified(CallOf(r), @)]
      BY <2>3, <3>1, RequestOutcome DEF State
    <3>3. CASE a.outcome.state = State
      BY <2>4, <3>3 DEF State
    <3>4. CASE r.cmd = "set_mode"
      BY <2>6, <3>4 DEF SetsMode, m
    <3>5. CASE /\ Readable(r) /\ r.cmd \in {"set_channel", "set_channels"}
               /\ CallOf(r).device \in Device
               /\ a.outcome.state.colors =
                    [colors EXCEPT ![CallOf(r).device] = Modified(CallOf(r), @)]
      <4>1. Wholly(m)
        BY <2>4, <2>6, <3>5 DEF Wholly, SetsDevice
      <4> QED
        BY <4>1 DEF m
    <3> QED
      BY <3>2, <3>3, <3>4, <3>5
  <2> QED
    BY <2>5, <2>6 DEF m
<1>2. Inv /\ [Next]_vars =>
        [\A c \in Client :
           Handles(c) => \/ UNCHANGED colors
                         \/ SetsMode(Head(inbox[c]))
                         \/ Wholly(Head(inbox[c]))]_vars
  BY <1>1
<1> QED
  BY <1>2, Invariance, PTL DEF Spec, AllOrNothing

-------------------------------------------------------------------------------
(***************************************************************************)
(* A client which nobody interferes with reads what it has written: the    *)
(* invariant follows each successful set from the moment it is executed to *)
(* the answers of the getters behind it.                                   *)
(***************************************************************************)

(***************************************************************************)
(* What the requests do to one device.                                     *)
(***************************************************************************)
LEMMA Bodies ==
  ASSUME NEW b, NEW s
  PROVE  Answered(b, s).body = b
  BY DEF Answered

(* set_channel and set_channels.                                            *)
LEMMA SetOutcome ==
  ASSUME NEW r \in Request, Readable(r), r.cmd \in {"set_channel", "set_channels"},
         NEW s, IsState(s), NEW o \in OnRequest(r, s)
  PROVE  /\ o.state.mode = s.mode
         /\ \A d \in Device : d # CallOf(r).device => o.state.colors[d] = s.colors[d]
         /\ o.success /\ CallOf(r).device \in Device =>
              o.state.colors[CallOf(r).device] = Modified(CallOf(r), s.colors[CallOf(r).device])
<1> DEFINE k == CallOf(r)
<1>1. o \in OnDevice(k, s) /\ k.op \in Writing
  BY DEF OnRequest, CallOf, Method, Writing
<1> HIDE DEF k
<1>2. CASE k.device \in Device /\ o \in Written(k, s)
  <2> DEFINE n == [s EXCEPT !.colors[k.device] = Modified(k, @)]
  <2>1. /\ n.mode = s.mode
        /\ n.colors[k.device] = Modified(k, s.colors[k.device])
        /\ \A d \in Device : d # k.device => n.colors[d] = s.colors[d]
    BY <1>2 DEF IsState
  <2>2. o = Answered(NoAnswer, n) \/ o = Refused(n) \/ o = Refused(s)
    BY <1>2 DEF Written
  <2> HIDE DEF n
  <2>3. o.state = n \/ (o.state = s /\ ~ o.success)
    BY <2>2, Fields
  <2> QED
    BY <2>1, <2>3 DEF k
<1>3. CASE o = Refused(s)
  <2>1. o.state = s /\ ~ o.success
    BY <1>3, Fields
  <2> QED
    BY <2>1
<1> QED
  BY <1>1, <1>2, <1>3 DEF OnDevice

(* get_channel and get_channels.                                            *)
LEMMA GetOutcome ==
  ASSUME NEW r \in Request, Readable(r), r.cmd \in {"get_channel", "get_channels"},
         NEW s, IsState(s), NEW o \in OnRequest(r, s)
  PROVE  /\ o.state = s
         /\ o.success => /\ o.body = Answer(CallOf(r), s.colors[CallOf(r).device])
                         /\ ~ Rejects(CallOf(r), NumChannels[CallOf(r).device])
<1> DEFINE k == CallOf(r)
<1>1. o \in OnDevice(k, s) /\ k.op \notin Writing
  BY DEF OnRequest, CallOf, Method, Writing
<1> HIDE DEF k
<1>2. CASE o = Refused(s)
  <2>1. o.state = s /\ ~ o.success
    BY <1>2, Fields
  <2> QED
    BY <2>1
<1>3. CASE o = Answered(Answer(k, s.colors[k.device]), s) /\ ~ Rejects(k, NumChannels[k.device])
  <2>1. o.state = s /\ o.body = Answer(k, s.colors[k.device])
    BY <1>3, Fields, Bodies
  <2> QED
    BY <1>3, <2>1 DEF k
<1> QED
  BY <1>1, <1>2, <1>3 DEF OnDevice

(* set_mode control: after a success all devices are black.                 *)
LEMMA ControlOutcome ==
  ASSUME NEW r \in Request, r.cmd = "set_mode", r.mode = <<"control">>,
         NEW s, IsState(s), NEW o \in OnRequest(r, s), o.success
  PROVE  /\ o.state.mode = "control"
         /\ \A d \in Device : o.state.colors[d] = Dark(NumChannels[d])
<1>1. r.mode # <<>> /\ r.mode[1] = "control"
  OBVIOUS
<1>2. Readable(r)
  <2>1. Required["set_mode"] = {"mode"} /\ "set_mode" \in DOMAIN Required
    BY DEF Required
  <2>2. \A p \in {"mode"} : r[p] # <<>>
    BY <1>1
  <2> QED
    BY <1>1, <2>1, <2>2 DEF Readable
<1>3. o \in OnControlMode(s)
  BY <1>1, <1>2 DEF OnRequest, Method
<1> DEFINE c == [s EXCEPT !.mode = "control"]
<1>4. c.mode = "control" /\ c.colors = s.colors /\ c = [mode |-> c.mode, colors |-> c.colors]
  BY DEF IsState
<1>5. \/ o = Answered(NoAnswer, Cleared(c, NumDevices))
      \/ \E n \in 0 .. NumDevices : o = Refused(Cleared(c, n))
  BY <1>3 DEF OnControlMode
<1> HIDE DEF c
<1>6. o.state = Cleared(c, NumDevices)
  BY <1>5, Fields
<1>7. Cleared(c, NumDevices) = [mode |-> "control",
         colors |-> [d \in Device |-> IF d < NumDevices THEN Dark(NumChannels[d]) ELSE s.colors[d]]]
  BY <1>4 DEF Cleared
<1>8. \A d \in Device : d < NumDevices
  BY RequestHandlerAssumption DEF RequestHandlerAssumption, Device
<1> QED
  BY <1>6, <1>7, <1>8

(* A message that disturbs a device or the mode says so.                    *)
LEMMA Undisturbing ==
  ASSUME NEW m \in Message, NEW s, IsState(s), NEW a \in HandleRequest(m, s)
  PROVE  /\ ~ SetsMode(m) => a.outcome.state.mode = s.mode
         /\ \A d \in Device : ~ Disturbs(m, d) => a.outcome.state.colors[d] = s.colors[d]
<1>1. CASE m.kind # "request"
  BY <1>1, HandleOutcome
<1>2. CASE m.kind = "request"
  <2> DEFINE r == m.request
             o == a.outcome
  <2>1. r \in Request /\ o \in OnRequest(r, s)
    BY <1>2, HandleOutcome DEF Message
  <2> HIDE DEF o
  <2>2. CASE Readable(r) /\ r.cmd \in {"set_channel", "set_channels"}
    <3>1. /\ o.state.mode = s.mode
          /\ \A d \in Device : d # CallOf(r).device => o.state.colors[d] = s.colors[d]
      BY <2>1, <2>2, SetOutcome
    <3>2. \A d \in Device : ~ Disturbs(m, d) => d # CallOf(r).device
      BY <1>2, <2>2 DEF Disturbs, SetsDevice
    <3> QED
      BY <3>1, <3>2 DEF o
  <2>3. CASE r.cmd = "set_mode"
    BY <1>2, <2>3 DEF SetsMode, Disturbs
  <2>4. CASE o.state = s
    BY <2>4 DEF o
  <2> QED
    BY <2>1, <2>2, <2>3, <2>4, RequestOutcome
<1> QED
  BY <1>1, <1>2

(***************************************************************************)
(* What a message that has succeeded shows at a device it disturbs, and    *)
(* whether it leaves it to the client alone.                               *)
(***************************************************************************)
Effect(m, d, v) ==
  IF SetsDevice(m, d) THEN Shows(v, CallOf(m.request))
  ELSE m.request.mode = <<"control">> => Shows(v, [NoCall EXCEPT !.op = "clear"])

Determines(m, d) == SetsDevice(m, d) \/ m.request.mode = <<"control">>

LEMMA NoEffect ==
  ASSUME NEW m, NEW d, NEW v, ~ Determines(m, d)
  PROVE  Effect(m, d, v)
  BY DEF Effect, Determines

LEMMA ModifiedShows ==
  ASSUME NEW k, NEW v
  PROVE  Shows(Modified(k, v), k)
  BY DEF Shows, Modified

LEMMA DarkShows ==
  ASSUME NEW n
  PROVE  Shows(Dark(n), [NoCall EXCEPT !.op = "clear"])
  BY DEF Shows, Dark, Assigns, Assigned, NoCall

LEMMA Executed ==
  ASSUME NEW m \in Message, NEW s, IsState(s), NEW a \in HandleRequest(m, s), a.outcome.success,
         NEW d \in Device, Disturbs(m, d)
  PROVE  /\ Effect(m, d, a.outcome.state.colors[d])
         /\ SetsDevice(m, d) => a.outcome.state.mode = s.mode
         /\ ~ SetsDevice(m, d) /\ Determines(m, d) => a.outcome.state.mode = "control"
<1> DEFINE r == m.request
           o == a.outcome
<1>1. m.kind = "request" /\ r \in Request
  BY DEF Disturbs, SetsMode, SetsDevice, Message
<1>2. o \in OnRequest(r, s)
  BY <1>1, HandleOutcome
<1>3. CASE SetsDevice(m, d)
  <2>1. Readable(r) /\ r.cmd \in {"set_channel", "set_channels"} /\ CallOf(r).device = d
    BY <1>3 DEF SetsDevice
  <2> HIDE DEF o
  <2>2. o.state.mode = s.mode /\ o.state.colors[d] = Modified(CallOf(r), s.colors[d])
    BY <1>1, <1>2, <2>1, SetOutcome DEF o
  <2>3. Shows(o.state.colors[d], CallOf(r))
    BY <2>2, ModifiedShows
  <2> QED
    BY <1>3, <2>2, <2>3 DEF Effect, o
<1>4. CASE ~ SetsDevice(m, d) /\ Determines(m, d)
  <2>1. r.cmd = "set_mode" /\ r.mode = <<"control">>
    BY <1>4 DEF Disturbs, SetsMode, Determines
  <2>2. o.state.mode = "control" /\ o.state.colors[d] = Dark(NumChannels[d])
    BY <1>1, <1>2, <2>1, ControlOutcome
  <2> QED
    BY <1>4, <2>2, DarkShows DEF Effect
<1>5. CASE ~ SetsDevice(m, d) /\ ~ Determines(m, d)
  BY <1>5, NoEffect
<1> QED
  BY <1>3, <1>4, <1>5

(* A getter that succeeds shows what the device shows.                      *)
LEMMA Shown ==
  ASSUME NEW m \in Message, NEW s, IsState(s), NEW a \in HandleRequest(m, s), a.outcome.success,
         NEW d \in Device, Gets(m, d), NEW w, Effect(w, d, s.colors[d])
  PROVE  Effect(w, d, a.outcome.body)
<1> DEFINE r == m.request
           o == a.outcome
           k == CallOf(r)
<1>1. /\ m.kind = "request" /\ r \in Request /\ Readable(r)
      /\ r.cmd \in {"get_channel", "get_channels"} /\ k.device = d
  BY DEF Gets, Message
<1>2. o \in OnRequest(r, s)
  BY <1>1, HandleOutcome
<1>3. o.body = Answer(k, s.colors[d]) /\ ~ Rejects(k, NumChannels[d])
  BY <1>1, <1>2, GetOutcome
<1>4. k.op \in {"getChannel", "getChannels"} /\ (k.op = "getChannel" => k.channel \in Nat)
  <2>1. k.op \in {"getChannel", "getChannels"} /\ (k.op = "getChannel" => r.cmd = "get_channel")
    BY <1>1 DEF CallOf, Method
  <2>2. ASSUME r.cmd = "get_channel" PROVE k.channel \in Nat
    <3>1. Required["get_channel"] = {"device", "channel"}
      BY DEF Required
    <3>2. r.channel \in Optional(Int) /\ r.channel # <<>>
      BY <1>1, <2>2, <3>1 DEF Readable, Request
    <3>3. r.channel[1] \in Int
      BY <3>2 DEF Optional
    <3>4. k.channel = ToSize(r.channel[1])
      BY <2>2, <3>1 DEF CallOf
    <3>5. SizeModulus \in Nat /\ SizeModulus > 0
      BY RequestHandlerAssumption DEF RequestHandlerAssumption, Device
    <3> QED
      BY <3>3, <3>4, <3>5 DEF ToSize
  <2> QED
    BY <2>1, <2>2
<1> HIDE DEF k, o
<1>5. /\ DOMAIN o.body \subseteq DOMAIN s.colors[d]
      /\ \A i \in DOMAIN o.body : o.body[i] = s.colors[d][i]
  <2>1. DOMAIN s.colors[d] = 0 .. NumChannels[d] - 1 /\ NumChannels[d] \in Nat
    BY RequestHandlerAssumption DEF IsState, Vector, Channel, RequestHandlerAssumption
  <2>2. k.op = "getChannel" => k.channel \in DOMAIN s.colors[d]
    BY <1>3, <1>4, <2>1 DEF Rejects
  <2> QED
    BY <1>3, <2>2 DEF Answer
<1>6. \A x : Shows(s.colors[d], x) => Shows(o.body, x)
  BY <1>5 DEF Shows
<1> QED
  BY <1>6 DEF Effect, o

-------------------------------------------------------------------------------
(***************************************************************************)
(* The inductive invariant.  A message is taken when it has been executed; *)
(* its response is in the buffer or with the client.  The devices show     *)
(* what the last successful set asked for as long as nobody disturbs them, *)
(* and so does the answer of every getter behind it.  The analyzer paints  *)
(* only if somebody has asked for it.                                      *)
(***************************************************************************)
Reply(c, i) == IF i <= Len(replies[c]) THEN replies[c][i] ELSE buffer[c][1]

ModeIsAsked ==
  mode = "analyzer" =>
    \E e \in Client : \E n \in DOMAIN sent[e] :
      SetsMode(sent[e][n]) /\ (conn[e] # "closed" => n <= Taken(e))

OwnWrites(c) ==
  conn[c] # "closed" =>
    \A j \in 1 .. Taken(c) : \A d \in Device :
      /\ Disturbs(sent[c][j], d) /\ Reply(c, j).success
      /\ Undisturbed(c, j, Taken(c) + 1, d)
      => /\ Effect(sent[c][j], d, colors[d])
         /\ Determines(sent[c][j], d) => mode = "control"

Reads(c) ==
  \A i \in 1 .. Taken(c) : \A j \in 1 .. i - 1 : \A d \in Device :
    /\ Gets(sent[c][i], d) /\ Disturbs(sent[c][j], d)
    /\ Reply(c, i).success /\ Reply(c, j).success
    /\ Undisturbed(c, j, i, d)
    => Effect(sent[c][j], d, Reply(c, i).body)

OwnInv == Inv /\ ModeIsAsked /\ \A c \in Client : OwnWrites(c) /\ Reads(c)

(* The clients only ever send more, ...                                     *)
Extends ==
  \A e \in Client :
    /\ DOMAIN sent[e] = 1 .. Len(sent[e]) /\ Len(sent[e]) \in Nat
    /\ \A n \in DOMAIN sent[e] : n \in DOMAIN sent'[e] /\ sent'[e][n] = sent[e][n]

(* ... and the responses of a client that nothing is executed for stay.     *)
Keeps(c) ==
  /\ Taken(c)' <= Taken(c)
  /\ conn'[c] # "closed" => conn[c] # "closed" /\ Taken(c)' = Taken(c)
  /\ \A i \in 1 .. Taken(c)' : Reply(c, i)' = Reply(c, i)

LEMMA Bounds ==
  ASSUME Inv, NEW c \in Client
  PROVE  /\ Taken(c) \in Nat /\ Len(replies[c]) \in Nat
         /\ Len(sent[c]) \in Nat /\ DOMAIN sent[c] = 1 .. Len(sent[c])
         /\ Taken(c) <= Len(sent[c])
<1>1. sent[c] \in Seq(Message) /\ InStep(c)
  BY DEF Inv, TypeInv
<1>2. Len(sent[c]) \in Nat /\ DOMAIN sent[c] = 1 .. Len(sent[c])
  BY <1>1, LenProperties
<1> QED
  BY <1>1, <1>2 DEF InStep, Replied, Buffered, IsSeq, Taken

LEMMA Monotone ==
  ASSUME Extends, NEW c \in Client, NEW j \in Nat, NEW i \in Nat, NEW d,
         j <= Len(sent[c]), i <= Len(sent[c]) + 1, Undisturbed(c, j, i, d)'
  PROVE  Undisturbed(c, j, i, d)
<1>1. ASSUME NEW e \in Client \ {c}, NEW n \in DOMAIN sent[e] PROVE ~ Disturbs(sent[e][n], d)
  <2>1. n \in DOMAIN sent'[e] /\ sent'[e][n] = sent[e][n]
    BY <1>1 DEF Extends
  <2> QED
    BY <1>1, <2>1, Zenon DEF Undisturbed
<1>2. \A n \in 1 .. Len(sent[c]) : sent'[c][n] = sent[c][n]
  BY DEF Extends
<1>3. Len(sent[c]) \in Nat
  BY DEF Extends
<1>4. ASSUME NEW n \in j + 1 .. i - 1 PROVE ~ Disturbs(sent[c][n], d)
  <2>1. sent'[c][n] = sent[c][n]
    BY <1>2, <1>3
  <2>2. ~ Disturbs(sent'[c][n], d)
    BY DEF Undisturbed
  <2> QED
    BY <2>1, <2>2
<1>5. ASSUME NEW n \in 1 .. j PROVE SetsMode(sent[c][n]) => n = j
  <2>1. sent'[c][n] = sent[c][n]
    BY <1>2, <1>3
  <2>2. SetsMode(sent'[c][n]) => n = j
    BY DEF Undisturbed
  <2> QED
    BY <2>1, <2>2
<1> QED
  BY <1>1, <1>4, <1>5 DEF Undisturbed

LEMMA ReadsKept ==
  ASSUME Inv, Extends, NEW c \in Client, Keeps(c), Reads(c), Taken(c)' \in Nat
  PROVE  Reads(c)'
<1> SUFFICES ASSUME NEW i \in 1 .. Taken(c)', NEW j \in 1 .. i - 1, NEW d \in Device,
                    Gets(sent'[c][i], d), Disturbs(sent'[c][j], d),
                    Reply(c, i)'.success, Reply(c, j)'.success, Undisturbed(c, j, i, d)'
             PROVE  Effect(sent'[c][j], d, Reply(c, i)'.body)
  BY DEF Reads
<1>1. /\ Taken(c) \in Nat /\ Len(sent[c]) \in Nat /\ DOMAIN sent[c] = 1 .. Len(sent[c])
      /\ Taken(c) <= Len(sent[c]) /\ Taken(c)' <= Taken(c)
  BY Bounds DEF Keeps
<1>2. i \in 1 .. Taken(c) /\ j \in 1 .. Taken(c)' /\ i \in DOMAIN sent[c] /\ j \in DOMAIN sent[c]
  BY <1>1
<1>3. sent'[c][i] = sent[c][i] /\ sent'[c][j] = sent[c][j]
  BY <1>2 DEF Extends
<1>4. Reply(c, i)' = Reply(c, i) /\ Reply(c, j)' = Reply(c, j)
  BY <1>2 DEF Keeps
<1>5. Undisturbed(c, j, i, d)
  <2>1. j \in Nat /\ i \in Nat /\ j <= Len(sent[c]) /\ i <= Len(sent[c]) + 1
    BY <1>1
  <2> QED
    BY <2>1, Monotone
<1> QED
  BY <1>2, <1>3, <1>4, <1>5, Zenon DEF Reads

(* Nobody else touches a device that c has for itself: neither another      *)
(* client's message, which would disturb it, nor the analyzer.              *)
Spares(c) ==
  \A d \in Device :
    \/ colors'[d] = colors[d] /\ mode' = mode
    \/ mode = "analyzer" /\ mode' = mode
    \/ \E e \in Client \ {c} : \E n \in DOMAIN sent[e] : Disturbs(sent[e][n], d)

LEMMA OwnKept ==
  ASSUME Inv, Extends, NEW c \in Client, Keeps(c), Spares(c), OwnWrites(c), Taken(c)' \in Nat
  PROVE  OwnWrites(c)'
<1> SUFFICES ASSUME conn'[c] # "closed", NEW j \in 1 .. Taken(c)', NEW d \in Device,
                    Disturbs(sent'[c][j], d), Reply(c, j)'.success,
                    Undisturbed(c, j, Taken(c) + 1, d)'
             PROVE  /\ Effect(sent'[c][j], d, colors'[d])
                    /\ Determines(sent'[c][j], d) => mode' = "control"
  BY DEF OwnWrites
<1>1. /\ Taken(c) \in Nat /\ Len(sent[c]) \in Nat /\ DOMAIN sent[c] = 1 .. Len(sent[c])
      /\ Taken(c) <= Len(sent[c]) /\ Taken(c)' = Taken(c) /\ conn[c] # "closed"
  BY Bounds DEF Keeps
<1>2. j \in 1 .. Taken(c) /\ j \in DOMAIN sent[c]
  BY <1>1
<1>3. sent'[c][j] = sent[c][j]
  BY <1>2 DEF Extends
<1>4. Reply(c, j)' = Reply(c, j)
  BY DEF Keeps
<1>5. Undisturbed(c, j, Taken(c) + 1, d)
  <2>1. PICK i \in Nat : i = Taken(c) + 1
    BY <1>1
  <2>2. Taken(c)' + 1 = i /\ j \in Nat /\ j <= Len(sent[c]) /\ i <= Len(sent[c]) + 1
    BY <1>1, <1>2, <2>1
  <2>3. Undisturbed(c, j, i, d)'
    BY <2>2 DEF Undisturbed
  <2> QED
    BY <2>1, <2>2, <2>3, Monotone
<1>6. /\ Effect(sent[c][j], d, colors[d])
      /\ Determines(sent[c][j], d) => mode = "control"
  BY <1>1, <1>2, <1>3, <1>4, <1>5, Zenon DEF OwnWrites
<1>7. CASE colors'[d] = colors[d] /\ mode' = mode
  BY <1>3, <1>6, <1>7
<1>8. CASE mode = "analyzer"
  BY <1>3, <1>6, <1>8, NoEffect
<1>9. CASE \E e \in Client \ {c} : \E n \in DOMAIN sent[e] : Disturbs(sent[e][n], d)
  BY <1>5, <1>9, Zenon DEF Undisturbed
<1> QED
  BY <1>7, <1>8, <1>9 DEF Spares

(* Who has asked for a mode is remembered.                                  *)
LEMMA AskedKept ==
  ASSUME Extends, ModeIsAsked, mode' \in {mode, "control"},
         \A e \in Client :
           /\ Taken(e) \in Nat /\ Taken(e)' \in Nat
           /\ conn'[e] # "closed" => conn[e] # "closed" /\ Taken(e) <= Taken(e)'
  PROVE  ModeIsAsked'
<1> SUFFICES ASSUME mode' = "analyzer"
             PROVE  \E e \in Client : \E n \in DOMAIN sent'[e] :
                      SetsMode(sent'[e][n]) /\ (conn'[e] # "closed" => n <= Taken(e)')
  BY DEF ModeIsAsked
<1>1. PICK e \in Client : \E n \in DOMAIN sent[e] :
        SetsMode(sent[e][n]) /\ (conn[e] # "closed" => n <= Taken(e))
  BY DEF ModeIsAsked
<1>2. PICK n \in DOMAIN sent[e] : SetsMode(sent[e][n]) /\ (conn[e] # "closed" => n <= Taken(e))
  BY <1>1
<1>3. n \in DOMAIN sent'[e] /\ sent'[e][n] = sent[e][n] /\ n \in Nat
  BY DEF Extends
<1>4. conn'[e] # "closed" => n <= Taken(e)'
  <2>1. /\ Taken(e) \in Nat /\ Taken(e)' \in Nat
        /\ conn'[e] # "closed" => conn[e] # "closed" /\ Taken(e) <= Taken(e)'
    OBVIOUS
  <2> QED
    BY <1>2, <1>3, <2>1
<1> QED
  BY <1>2, <1>3, <1>4

-------------------------------------------------------------------------------
(***************************************************************************)
(* The steps.                                                              *)
(***************************************************************************)
LEMMA OwnInit == Init => OwnInv
<1> SUFFICES ASSUME Init PROVE OwnInv
  OBVIOUS
<1>1. ModeIsAsked
  BY DEF Init, ModeIsAsked
<1>2. ASSUME NEW c \in Client PROVE OwnWrites(c) /\ Reads(c)
  <2>1. Taken(c) = 0
    BY DEF Init, Taken
  <2> QED
    BY <2>1 DEF OwnWrites, Reads
<1> QED
  BY <1>1, <1>2, InvInit DEF OwnInv

(* A step that executes nothing, and in which only the analyzer paints.     *)
LEMMA IdleStep ==
  ASSUME OwnInv, Inv', Extends, mode' = mode, colors' = colors \/ mode = "analyzer",
         \A c \in Client : Keeps(c)
  PROVE  OwnInv'
<1>1. \A c \in Client : Taken(c) \in Nat /\ Taken(c)' \in Nat
  <2>1. ASSUME NEW c \in Client PROVE Taken(c)' \in Nat
    <3>1. InStep(c)'
      BY DEF Inv
    <3> QED
      BY <3>1 DEF InStep, Replied, IsSeq, Taken
  <2> QED
    BY <2>1, Bounds DEF OwnInv
<1>2. ModeIsAsked'
  BY <1>1, AskedKept DEF OwnInv, Keeps
<1>3. ASSUME NEW c \in Client PROVE OwnWrites(c)' /\ Reads(c)'
  <2>1. Spares(c)
    BY DEF Spares
  <2> QED
    BY <1>1, <2>1, OwnKept, ReadsKept DEF OwnInv
<1> QED
  BY <1>2, <1>3 DEF OwnInv

LEMMA SameExtends ==
  ASSUME Inv, sent' = sent
  PROVE  Extends
  BY Bounds DEF Extends

LEMMA StillKeeps ==
  ASSUME Inv, NEW c \in Client, replies'[c] = replies[c],
         \/ buffer'[c] = buffer[c] /\ conn'[c] \in {conn[c], "closed"}
         \/ conn[c] \notin {"writing", "closed"} /\ conn'[c] # "writing"
  PROVE  Keeps(c)
<1>1. Len(replies[c]) \in Nat
  BY Bounds
<1>2. Taken(c)' <= Taken(c) /\ (conn'[c] # "closed" => conn[c] # "closed" /\ Taken(c)' = Taken(c))
  BY <1>1 DEF Taken
<1>3. ASSUME NEW i \in 1 .. Taken(c)' PROVE Reply(c, i)' = Reply(c, i)
  <2>1. buffer'[c] = buffer[c] \/ i <= Len(replies[c])
    BY <1>1 DEF Taken
  <2> QED
    BY <2>1 DEF Reply
<1> QED
  BY <1>2, <1>3 DEF Keeps

LEMMA WrittenKeeps ==
  ASSUME Inv, NEW c \in Client, ResponseWritten(c)
  PROVE  Keeps(c)
<1>1. /\ conn[c] = "writing" /\ conn'[c] = "reading"
      /\ replies'[c] = replies[c] \o buffer[c]
  BY DEF ResponseWritten, Inv, TypeInv
<1>2. PICK r : buffer[c] = <<r>>
  BY <1>1 DEF Inv, InStep, Buffered
<1>3. IsSeq(replies[c]) /\ buffer[c][1] = r
  BY <1>2 DEF Inv, InStep, Replied
<1>4. /\ Len(replies[c]) \in Nat /\ Len(replies'[c]) = Len(replies[c]) + 1
      /\ \A i \in 1 .. Len(replies[c]) + 1 :
           replies'[c][i] = IF i <= Len(replies[c]) THEN replies[c][i] ELSE r
  BY <1>1, <1>2, <1>3, AppendOne, Bounds
<1>5. Taken(c)' = Len(replies[c]) + 1 /\ Taken(c) = Len(replies[c]) + 1
  BY <1>1, <1>4 DEF Taken
<1>6. ASSUME NEW i \in 1 .. Len(replies[c]) + 1 PROVE Reply(c, i)' = Reply(c, i)
  <2>1. i <= Len(replies'[c])
    BY <1>4
  <2> QED
    BY <1>3, <1>4, <2>1 DEF Reply
<1> QED
  BY <1>1, <1>4, <1>5, <1>6 DEF Keeps

(* The client's next message is executed: whatever it answers, the sets     *)
(* before it keep their effect unless it disturbs them.                     *)
LEMMA ExecuteStep ==
  ASSUME OwnInv, Inv', NEW c \in Client, ReadRequest(c),
         NEW a \in HandleRequest(Head(inbox[c]), State),
         conn' = [conn EXCEPT ![c] = "writing"],
         buffer' = [buffer EXCEPT ![c] = <<ResponseTo(a)>>],
         State' = a.outcome.state
  PROVE  OwnInv'
<1> DEFINE m == Head(inbox[c])
<1>1. /\ conn[c] = "reading" /\ inbox[c] # <<>> /\ UNCHANGED <<sent, replies>>
      /\ m \in Message /\ IsState(State)
  BY ReadCases, RequestIsHead DEF OwnInv, Inv, TypeInv
<1>2. PICK k \in Nat : k = Taken(c)
  BY Bounds DEF OwnInv
<1>3. /\ Len(replies[c]) = k /\ Taken(c)' = k + 1 /\ conn'[c] = "writing"
      /\ buffer'[c] = <<ResponseTo(a)>>
  BY <1>1, <1>2 DEF Taken, OwnInv, Inv, TypeInv
<1>4. m = sent[c][k + 1] /\ k + 1 \in DOMAIN sent[c]
  <2>1. Taken(c)' <= Len(sent'[c]) /\ DOMAIN sent[c] = 1 .. Len(sent[c]) /\ Len(sent[c]) \in Nat
    <3>1. Taken(c)' <= Len(sent'[c])
      <4>1. InStep(c)' /\ sent'[c] \in Seq(Message)
        BY DEF Inv, TypeInv
      <4> QED
        BY <4>1, <1>3, LenProperties DEF InStep, Replied, Buffered, IsSeq, Taken
    <3> QED
      BY <3>1, Bounds DEF OwnInv
  <2>2. 1 \in 1 .. Len(inbox[c]) /\ m = inbox[c][1]
    <3>1. inbox[c] \in Seq(Message)
      BY DEF OwnInv, Inv, TypeInv
    <3> QED
      BY <1>1, <3>1
  <2>3. inbox[c][1] = sent[c][k + 1]
    BY <1>1, <1>2, <2>2 DEF OwnInv, Inv, InStep, Pending
  <2> QED
    BY <1>1, <1>3, <2>1, <2>2, <2>3
<1>5. /\ mode' = a.outcome.state.mode /\ colors' = a.outcome.state.colors
      /\ mode = State.mode /\ colors = State.colors
  BY DEF State
<1>6. /\ \A i \in 1 .. k : Reply(c, i)' = Reply(c, i)
      /\ Reply(c, k + 1)' = ResponseTo(a)
  BY <1>1, <1>2, <1>3 DEF Reply
<1>7. ResponseTo(a).success = a.outcome.success /\ ResponseTo(a).body = a.outcome.body
  BY Zenon DEF ResponseTo
<1>8. Extends
  BY <1>1, SameExtends DEF OwnInv
<1> HIDE DEF m
<1>9. /\ ~ SetsMode(m) => mode' = mode
      /\ \A d \in Device : ~ Disturbs(m, d) => colors'[d] = colors[d]
  BY <1>1, <1>5, Undisturbing DEF m
<1>10. \A d \in Device : ~ Disturbs(m, d) => mode' = mode
  BY <1>9 DEF Disturbs
<1>11. ASSUME NEW e \in Client \ {c} PROVE OwnWrites(e)' /\ Reads(e)'
  <2>1. replies'[e] = replies[e] /\ buffer'[e] = buffer[e] /\ conn'[e] = conn[e]
    BY <1>1 DEF OwnInv, Inv, TypeInv
  <2>2. Keeps(e) /\ Taken(e)' \in Nat
    BY <2>1, StillKeeps, Bounds DEF OwnInv, Taken
  <2>3. Spares(e)
    <3>1. ASSUME NEW d \in Device, Disturbs(m, d)
          PROVE  \E f \in Client \ {e} : \E n \in DOMAIN sent[f] : Disturbs(sent[f][n], d)
      BY <1>4, <3>1
    <3> QED
      BY <1>9, <1>10, <3>1 DEF Spares
  <2> QED
    BY <1>8, <2>2, <2>3, OwnKept, ReadsKept DEF OwnInv
<1>12. ModeIsAsked'
  <2>1. CASE SetsMode(m)
    BY <1>1, <1>3, <1>4, <2>1 DEF ModeIsAsked
  <2>2. CASE ~ SetsMode(m)
    <3>1. ASSUME NEW e \in Client
          PROVE  /\ Taken(e) \in Nat /\ Taken(e)' \in Nat
                 /\ conn'[e] # "closed" => conn[e] # "closed" /\ Taken(e) <= Taken(e)'
      <4>1. CASE e = c
        BY <1>1, <1>2, <1>3, <4>1
      <4>2. CASE e # c
        <5>1. conn'[e] = conn[e] /\ Taken(e)' = Taken(e) /\ Taken(e) \in Nat
          BY <1>1, <4>2, Bounds DEF OwnInv, Inv, TypeInv, Taken
        <5> QED
          BY <5>1
      <4> QED
        BY <4>1, <4>2
    <3> QED
      BY <1>8, <1>9, <2>2, <3>1, AskedKept DEF OwnInv
  <2> QED
    BY <2>1, <2>2
(* What the devices show, or have shown, for an earlier message.            *)
<1>13. ASSUME NEW j \in 1 .. k, NEW d \in Device, Disturbs(sent[c][j], d), Reply(c, j).success,
              Undisturbed(c, j, k + 1, d)
       PROVE  /\ Effect(sent[c][j], d, colors[d])
              /\ Determines(sent[c][j], d) => mode = "control"
  BY <1>1, <1>2, <1>13, Zenon DEF OwnInv, OwnWrites
<1>14. OwnWrites(c)'
  <2> SUFFICES ASSUME NEW j \in 1 .. k + 1, NEW d \in Device, Disturbs(sent[c][j], d),
                      Reply(c, j)'.success, Undisturbed(c, j, k + 2, d)'
               PROVE  /\ Effect(sent[c][j], d, colors'[d])
                      /\ Determines(sent[c][j], d) => mode' = "control"
    <3>1. Taken(c)' + 1 = k + 2
      BY <1>2, <1>3
    <3>2. \A j \in 1 .. k + 1 : \A d \in Device :
            Undisturbed(c, j, Taken(c) + 1, d)' => Undisturbed(c, j, k + 2, d)'
      BY <3>1 DEF Undisturbed
    <3> QED
      BY <1>1, <1>3, <3>2 DEF OwnWrites
  <2>1. Undisturbed(c, j, k + 2, d)
    BY <1>1 DEF Undisturbed
  <2>2. CASE j \in 1 .. k
    <3>1. Undisturbed(c, j, k + 1, d) /\ ~ Disturbs(m, d)
      BY <1>2, <1>4, <2>1, <2>2 DEF Undisturbed
    <3>2. Reply(c, j).success
      BY <1>6, <2>2
    <3> QED
      BY <1>9, <1>10, <1>13, <2>2, <3>1, <3>2
  <2>3. CASE j = k + 1
    <3>1. sent[c][j] = m /\ Disturbs(m, d)
      BY <1>4, <2>3
    <3>2. a.outcome.success
      BY <1>6, <1>7, <2>3
    <3>3. /\ Effect(m, d, colors'[d])
          /\ SetsDevice(m, d) => mode' = mode
          /\ ~ SetsDevice(m, d) /\ Determines(m, d) => mode' = "control"
      BY <1>1, <1>5, <3>1, <3>2, Executed DEF m
    <3>4. ASSUME SetsDevice(m, d), mode # "control" PROVE FALSE
      <4>1. mode = "analyzer"
        BY <1>1, <1>5, <3>4 DEF IsState
      <4>2. PICK e \in Client : \E n \in DOMAIN sent[e] :
              SetsMode(sent[e][n]) /\ (conn[e] # "closed" => n <= Taken(e))
        BY <4>1 DEF OwnInv, ModeIsAsked
      <4>3. PICK n \in DOMAIN sent[e] :
              SetsMode(sent[e][n]) /\ (conn[e] # "closed" => n <= Taken(e))
        BY <4>2
      <4>4. Disturbs(sent[e][n], d)
        BY <4>3 DEF Disturbs
      <4>5. e = c
        BY <2>1, <4>4 DEF Undisturbed
      <4>6. n \in 1 .. k
        BY <1>1, <1>2, <4>3, <4>5, Bounds DEF OwnInv
      <4>7. n = k + 1
        BY <1>2, <2>1, <2>3, <4>3, <4>5, <4>6 DEF Undisturbed
      <4> QED
        BY <1>2, <4>6, <4>7
    <3> QED
      BY <3>1, <3>3, <3>4
  <2> QED
    BY <1>2, <2>2, <2>3
<1>15. Reads(c)'
  <2> SUFFICES ASSUME NEW i \in 1 .. k + 1, NEW j \in 1 .. i - 1, NEW d \in Device,
                      Gets(sent[c][i], d), Disturbs(sent[c][j], d),
                      Reply(c, i)'.success, Reply(c, j)'.success, Undisturbed(c, j, i, d)'
               PROVE  Effect(sent[c][j], d, Reply(c, i)'.body)
    BY <1>1, <1>3 DEF Reads
  <2>1. Undisturbed(c, j, i, d)
    BY <1>1 DEF Undisturbed
  <2>2. j \in 1 .. k /\ Reply(c, j).success
    BY <1>2, <1>6
  <2>3. CASE i \in 1 .. k
    BY <1>2, <1>6, <2>1, <2>2, <2>3 DEF OwnInv, Reads
  <2>4. CASE i = k + 1
    <3>1. a.outcome.success /\ Reply(c, i)'.body = a.outcome.body /\ Gets(m, d)
      BY <1>4, <1>6, <1>7, <2>4
    <3>2. Effect(sent[c][j], d, State.colors[d])
      BY <1>5, <1>13, <2>1, <2>2, <2>4
    <3> QED
      BY <1>1, <3>1, <3>2, Shown DEF m
  <2> QED
    BY <1>2, <2>3, <2>4
<1> QED
  BY <1>11, <1>12, <1>14, <1>15 DEF OwnInv

LEMMA SendExtends ==
  ASSUME OwnInv, Inv', NEW c \in Client, NEW text \in Texts[c], Send(c, text)
  PROVE  OwnInv'
<1> DEFINE m == [id |-> Len(sent[c]) + 1, kind |-> text.kind, request |-> text.request]
<1>1. /\ sent' = [sent EXCEPT ![c] = Append(@, m)]
      /\ UNCHANGED <<conn, buffer, replies, application>>
  BY DEF Send
<1> HIDE DEF m
<1>2. ASSUME NEW e \in Client
      PROVE  /\ DOMAIN sent[e] = 1 .. Len(sent[e]) /\ Len(sent[e]) \in Nat
             /\ \A n \in DOMAIN sent[e] : n \in DOMAIN sent'[e] /\ sent'[e][n] = sent[e][n]
  <2>1. sent[e] \in Seq(Message) /\ DOMAIN sent[e] = 1 .. Len(sent[e]) /\ Len(sent[e]) \in Nat
    BY Bounds DEF OwnInv, Inv, TypeInv
  <2>2. CASE e = c
    <3>1. sent'[e] = Append(sent[e], m)
      BY <1>1, <2>2 DEF OwnInv, Inv, TypeInv
    <3>2. sent[e] \in Seq(Message \cup {m}) /\ m \in Message \cup {m}
      BY <2>1, SeqMonotonic
    <3> QED
      BY <2>1, <3>1, <3>2, AppendProperties
  <2>3. CASE e # c
    BY <1>1, <2>1, <2>3 DEF OwnInv, Inv, TypeInv
  <2> QED
    BY <2>2, <2>3
<1>3. Extends
  BY <1>2 DEF Extends
<1>4. \A e \in Client : Keeps(e)
  BY <1>1, StillKeeps DEF OwnInv
<1> QED
  BY <1>1, <1>3, <1>4, IdleStep DEF application

LEMMA OwnStep == OwnInv /\ [Next]_vars => OwnInv'
<1> SUFFICES ASSUME OwnInv, [Next]_vars PROVE OwnInv'
  OBVIOUS
<1>1. Inv /\ Inv'
  BY InvStep DEF OwnInv
<1>2. ASSUME NEW c \in Client, Connect(c) \/ Accept(c) \/ Start(c) \/ Run(c) \/ Fail(c)
      PROVE  OwnInv'
  <2>1. UNCHANGED <<buffer, sent, replies, application>>
    BY <1>2 DEF Connect, Accept, Start, Run, Fail
  <2>2. ASSUME NEW e \in Client PROVE Keeps(e)
    <3>1. CASE e = c
      <4>1. \/ conn'[c] \in {conn[c], "closed"}
            \/ conn[c] \notin {"writing", "closed"} /\ conn'[c] # "writing"
        BY <1>1, <1>2 DEF Connect, Accept, Start, Run, Fail, Inv, TypeInv
      <4> QED
        BY <1>1, <2>1, <3>1, <4>1, StillKeeps
    <3>2. CASE e # c
      <4>1. conn'[e] = conn[e]
        BY <1>1, <1>2, <3>2 DEF Connect, Accept, Start, Run, Fail, Inv, TypeInv
      <4> QED
        BY <1>1, <2>1, <4>1, StillKeeps
    <3> QED
      BY <3>1, <3>2
  <2>3. mode' = mode /\ colors' = colors /\ Extends
    BY <1>1, <2>1, SameExtends DEF application
  <2> QED
    BY <1>1, <2>2, <2>3, IdleStep
<1>3. ASSUME NEW c \in Client, ReadRequest(c) PROVE OwnInv'
  <2>1. CASE conn' = [conn EXCEPT ![c] = "closed"] /\ UNCHANGED application
    <3>1. UNCHANGED <<sent, replies>> /\ conn[c] = "reading"
      BY <1>1, <1>3, ReadCases
    <3>2. \A e \in Client \ {c} : buffer'[e] = buffer[e]
      BY <1>1, <1>3 DEF ReadRequest, Drop, Execute, Respond, Inv, TypeInv
    <3>3. ASSUME NEW e \in Client PROVE Keeps(e)
      <4>1. CASE e = c
        <5>1. conn'[e] # "writing"
          BY <1>1, <2>1, <4>1 DEF Inv, TypeInv
        <5> QED
          BY <1>1, <3>1, <4>1, <5>1, StillKeeps
      <4>2. CASE e # c
        <5>1. conn'[e] = conn[e]
          BY <1>1, <2>1, <4>2 DEF Inv, TypeInv
        <5> QED
          BY <1>1, <3>1, <3>2, <4>2, <5>1, StillKeeps
      <4> QED
        BY <4>1, <4>2
    <3>4. mode' = mode /\ colors' = colors /\ Extends
      BY <1>1, <2>1, <3>1, SameExtends DEF application
    <3> QED
      BY <1>1, <3>3, <3>4, IdleStep
  <2>2. ASSUME NEW a \in HandleRequest(Head(inbox[c]), State),
               conn' = [conn EXCEPT ![c] = "writing"],
               buffer' = [buffer EXCEPT ![c] = <<ResponseTo(a)>>],
               State' = a.outcome.state
        PROVE  OwnInv'
    BY <1>1, <1>3, <2>2, ExecuteStep
  <2> QED
    BY <1>1, <1>3, <2>1, <2>2, ReadCases
<1>4. ASSUME NEW c \in Client, ResponseWritten(c) PROVE OwnInv'
  <2>1. UNCHANGED <<sent, application>>
    BY <1>4 DEF ResponseWritten
  <2>2. ASSUME NEW e \in Client, e # c PROVE Keeps(e)
    <3>1. replies'[e] = replies[e] /\ buffer'[e] = buffer[e] /\ conn'[e] = conn[e]
      BY <1>1, <1>4, <2>2 DEF ResponseWritten, Inv, TypeInv
    <3> QED
      BY <1>1, <3>1, StillKeeps
  <2>3. mode' = mode /\ colors' = colors /\ Extends
    BY <1>1, <2>1, SameExtends DEF application
  <2> QED
    BY <1>1, <1>4, <2>2, <2>3, WrittenKeeps, IdleStep
<1>5. ASSUME NEW d \in Device, Paint(d) PROVE OwnInv'
  <2>1. mode = "analyzer" /\ mode' = mode /\ UNCHANGED <<conn, buffer, sent, replies>>
    BY <1>5 DEF Paint, network
  <2>2. Extends /\ \A e \in Client : Keeps(e)
    BY <1>1, <2>1, SameExtends, StillKeeps
  <2> QED
    BY <1>1, <2>1, <2>2, IdleStep
<1>6. CASE Stop \/ Idle \/ UNCHANGED vars
  <2>1. UNCHANGED <<conn, buffer, sent, replies, mode, colors>>
    BY <1>6 DEF Stop, Idle, vars, network, application
  <2>2. Extends /\ \A e \in Client : Keeps(e)
    BY <1>1, <2>1, SameExtends, StillKeeps
  <2> QED
    BY <1>1, <2>1, <2>2, IdleStep
<1> QED
  BY <1>1, <1>2, <1>3, <1>4, <1>5, <1>6, SendExtends DEF Next

(* However far a client sends ahead, and whatever of it fails: as long as   *)
(* no other client sends a request that sets the device or the mode, a      *)
(* getter answers what the client's last successful set before it asked     *)
(* for.                                                                     *)
THEOREM ReadsWhatItWrote == Spec => []ReadsOwnWrites
<1>1. OwnInv => ReadsOwnWrites
  <2> SUFFICES ASSUME OwnInv, NEW c \in Client, NEW i \in DOMAIN replies[c], NEW j \in 1 .. i - 1,
                      NEW d \in Device, Gets(sent[c][i], d), Disturbs(sent[c][j], d),
                      replies[c][i].success, replies[c][j].success, Undisturbed(c, j, i, d)
               PROVE  IF SetsDevice(sent[c][j], d)
                      THEN Shows(replies[c][i].body, CallOf(sent[c][j].request))
                      ELSE sent[c][j].request.mode = <<"control">> =>
                             Shows(replies[c][i].body, [NoCall EXCEPT !.op = "clear"])
    BY DEF ReadsOwnWrites
  <2>1. /\ DOMAIN replies[c] = 1 .. Len(replies[c]) /\ Len(replies[c]) \in Nat
        /\ Taken(c) \in {Len(replies[c]), Len(replies[c]) + 1}
    BY Bounds, LenProperties DEF OwnInv, Inv, InStep, Replied, IsSeq, Taken
  <2>2. i \in 1 .. Taken(c) /\ i <= Len(replies[c]) /\ j <= Len(replies[c])
    BY <2>1
  <2>3. Reply(c, i) = replies[c][i] /\ Reply(c, j) = replies[c][j]
    BY <2>2 DEF Reply
  <2>4. Effect(sent[c][j], d, replies[c][i].body)
    BY <2>2, <2>3, Zenon DEF OwnInv, Reads
  <2> QED
    BY <2>4 DEF Effect
<1> QED
  BY <1>1, OwnInit, OwnStep, PTL DEF Spec

===============================================================================
