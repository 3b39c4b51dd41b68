----------------------------- MODULE LanguageServer -----------------------------
(***************************************************************************)
(* One language session: LspService in the browser, the socket handler of  *)
(* terminal/lspHandler.ts and the language server it starts in the         *)
(* container.  Upwards, messages that arrive before the server runs wait   *)
(* in messageQueue.  Downwards, the server's JSON-RPC messages are cut into *)
(* Docker frames, the frames into chunks, and both are put together again: *)
(* by extractDockerPayload in the backend, by parseFrames in the browser.  *)
(*                                                                         *)
(* A message k of the server is three bytes: <<k, Head>>, which stands for *)
(* its Content-Length header, and a body of two, <<k, 1>> and <<k, 2>>,    *)
(* which in a wide message are the two bytes of one character.  A Docker   *)
(* frame of n bytes is headed by <<0, n>>; frames of stderr are only       *)
(* logged.  The front end's switch ENABLE_CONTAINER_LSP is taken as on.    *)
(***************************************************************************)
EXTENDS Naturals, Sequences, SequencesExt

CONSTANTS
    MaxRequests,  \* bound: requests of the editor; the first is initialize
    MaxSent       \* bound: messages of the language server

VARIABLES
    status,     \* LspService.status
    socket,         \* the socket: none, connecting, open, closed
    asked,      \* reqId - 1: requests made
    waiting,    \* requests without an answer
    answered,   \* requests whose promise was resolved
    up,         \* messages on the way to the backend
    handler,    \* handleLspConnection: checking, starting, ready, stopped
    queue,      \* messageQueue
    input,      \* what the language server has read
    sent,       \* its messages: the request answered (0: diagnostics), and wide
    raw,        \* bytes of the exec stream before the backend
    frames,     \* frameBuffer of the backend
    down,       \* payloads on the way to the browser
    chars,      \* frameBuffer of the browser
    parsed      \* messages the browser has understood
browser == <<status, asked, waiting, answered, chars, parsed>>
backend == <<handler, queue, frames>>
process == <<input, sent, raw>>
vars == <<browser, socket, up, down, backend, process>>

Requests == 1..MaxRequests
Head0 == 0

TypeOK ==
    /\ status \in {"off", "connecting", "ready", "error"}
    /\ socket \in {"none", "connecting", "open", "closed"}
    /\ asked \in 0..MaxRequests
    /\ waiting \subseteq Requests /\ answered \subseteq Requests
    /\ up \in Seq(Requests) /\ queue \in Seq(Requests) /\ input \in Seq(Requests)
    /\ handler \in {"none", "checking", "starting", "ready", "stopped"}
    /\ sent \in Seq([to : 0..MaxRequests, wide : BOOLEAN])
    /\ parsed \in Seq(1..Len(sent))

Init ==
    /\ status = "off" /\ socket = "none"
    /\ asked = 0 /\ waiting = {} /\ answered = {}
    /\ up = <<>> /\ handler = "none" /\ queue = <<>> /\ input = <<>>
    /\ sent = <<>> /\ raw = <<>> /\ frames = <<>> /\ down = <<>>
    /\ chars = <<>> /\ parsed = <<>>

-----------------------------------------------------------------------------
(* The browser. *)

Connect ==
    /\ socket = "none"
    /\ socket' = "connecting" /\ status' = "connecting"
    /\ UNCHANGED <<asked, waiting, answered, chars, parsed, up, down, backend, process>>

(* request(): sendRaw sends only on an open socket; the entry stays waiting *)
(* until an answer or the timeout of 30 s. *)
Request ==
    /\ asked < MaxRequests
    /\ asked' = asked + 1
    /\ waiting' = waiting \cup {asked'}
    /\ up' = IF socket = "open" THEN Append(up, asked') ELSE up

(* onopen: the initialize request. *)
Opened ==
    /\ socket = "connecting"
    /\ socket' = "open"
    /\ handler' = "checking"
    /\ asked' = 1 /\ waiting' = {1} /\ up' = <<1>>
    /\ UNCHANGED <<status, answered, chars, parsed, down, queue, frames, process>>

(* Hover, completion and signature providers ask while initialized. *)
Ask ==
    /\ 1 \in answered /\ status # "off"
    /\ Request
    /\ UNCHANGED <<status, answered, chars, parsed, socket, down, backend, process>>

TimeoutFires(r) ==
    /\ r \in waiting
    /\ waiting' = waiting \ {r}
    /\ status' = IF r = 1 /\ status # "off" THEN "error" ELSE status
    /\ UNCHANGED <<asked, answered, chars, parsed, socket, up, down, backend, process>>

(* disconnect(): every waiting request is rejected, the handlers go.  The  *)
(* rejected initialize ends in the catch of onopen, after setStatus('off'). *)
Disconnect ==
    /\ socket \in {"connecting", "open"}
    /\ socket' = "closed"
    /\ status' = IF 1 \in waiting THEN "error" ELSE "off"
    /\ waiting' = {}
    /\ up' = <<>> /\ down' = <<>>
    /\ UNCHANGED <<asked, answered, chars, parsed, backend, process>>

(* onclose: 4403 is a role that may not use the language server. *)
Closed(code) ==
    /\ socket' = "closed"
    /\ status' = IF code = 4403 THEN "off" ELSE "error"
    /\ up' = <<>> /\ down' = <<>>

IsWide(k) == sent[k].wide
(* TextDecoder on one payload: a character cut in two becomes two wrong    *)
(* ones, <<k, 4>>; a whole one is <<k, 3>>. *)
Decoded(payload) ==
    FlattenSeq([i \in 1..Len(payload) |->
        LET k == payload[i][1]  part == payload[i][2] IN
        IF part = Head0 \/ ~IsWide(k) THEN <<payload[i]>>
        ELSE IF part = 1 /\ i < Len(payload) THEN << <<k, 3>> >>
        ELSE IF part = 2 /\ i > 1 THEN <<>>
        ELSE << <<k, 4>> >>])

(* Mutant: what follows a frame or message in the same chunk is dropped. *)
RestDropped(buffer, n) == <<>>
Rest(buffer, n) == SubSeq(buffer, n + 1, Len(buffer))

(* parseFrames: the length counts bytes, the buffer is cut by characters.  *)
(* A body that is not the one its header announced is no JSON. *)
RECURSIVE Parse(_, _)
Parse(buffer, messages) ==
    LET heads == {i \in 1..Len(buffer) : buffer[i][2] = Head0}
        h == CHOOSE i \in heads : \A j \in heads : i <= j
        k == buffer[h][1] IN
    IF heads = {} \/ Len(buffer) < h + 2 THEN [rest |-> buffer, messages |-> messages]
    ELSE Parse(Rest(buffer, h + 2),
               IF SubSeq(buffer, h + 1, h + 2) = << <<k, 1>>, <<k, 2>> >> THEN Append(messages, k) ELSE messages)

(* handleMessage: answers settle their requests, late ones are ignored.    *)
Message ==
    /\ socket = "open" /\ down # <<>>
    /\ down' = Tail(down)
    /\ LET result == Parse(chars \o Decoded(down[1]), <<>>)
           ids == {sent[result.messages[i]].to : i \in 1..Len(result.messages)} \cap waiting IN
        /\ chars' = result.rest
        /\ parsed' = parsed \o result.messages
        /\ waiting' = waiting \ ids
        /\ answered' = answered \cup ids
        /\ status' = IF 1 \in ids THEN "ready" ELSE status
    /\ UNCHANGED <<asked, socket, up, backend, process>>

-----------------------------------------------------------------------------
(* The backend and the language server. *)

Running == handler = "ready"

(* ws.on('message') *)
Received ==
    /\ up # <<>> /\ socket = "open"
    /\ up' = Tail(up)
    /\ IF Running THEN input' = Append(input, up[1]) /\ UNCHANGED queue
                  ELSE queue' = Append(queue, up[1]) /\ UNCHANGED input
    /\ UNCHANGED <<browser, socket, down, handler, frames, sent, raw>>

(* Parameters, token, workspace and role: close with a code, or go on.     *)
Checked ==
    /\ handler = "checking"
    /\ handler' = "starting"
    /\ UNCHANGED <<browser, socket, up, down, queue, frames, process>>

Refused(code) ==
    /\ handler = "checking" /\ socket = "open"
    /\ handler' = "stopped"
    /\ Closed(code)
    /\ UNCHANGED <<asked, waiting, answered, chars, parsed, queue, frames, process>>

InputDrained == input \o queue

(* The exec stream is there: the queue is written, then the stream is read. *)
Started ==
    /\ handler = "starting"
    /\ handler' = "ready"
    /\ input' = InputDrained /\ queue' = <<>>
    /\ UNCHANGED <<browser, socket, up, down, frames, sent, raw>>

(* No container, no exec, the stream ends, fails, or 15 minutes were idle. *)
Stops ==
    /\ handler \in {"starting", "ready"} /\ socket = "open"
    /\ handler' = "stopped"
    /\ Closed(1011)
    /\ UNCHANGED <<asked, waiting, answered, chars, parsed, queue, frames, process>>

(* The server answers a request it has read or publishes diagnostics; its  *)
(* output is cut into two Docker frames after any byte. *)
Emit(to, wide, cut) ==
    LET k == Len(sent) + 1
        bytes == << <<k, Head0>>, <<k, 1>>, <<k, 2>> >>
        Frame(payload) == IF payload = <<>> THEN <<>> ELSE << <<0, Len(payload)>> >> \o payload IN
    /\ Running /\ Len(sent) < MaxSent
    /\ to # 0 => to \in ToSet(input) /\ \A i \in 1..Len(sent) : sent[i].to # to
    /\ sent' = Append(sent, [to |-> to, wide |-> wide])
    /\ raw' = raw \o Frame(SubSeq(bytes, 1, cut)) \o Frame(SubSeq(bytes, cut + 1, 3))
    /\ UNCHANGED <<browser, socket, up, down, backend, input>>

(* extractDockerPayload until the buffer holds no whole frame. *)
RECURSIVE Extract(_, _)
Extract(buffer, payloads) ==
    IF buffer = <<>> \/ Len(buffer) < 1 + buffer[1][2] THEN [rest |-> buffer, payloads |-> payloads]
    ELSE LET n == buffer[1][2] IN
         Extract(Rest(buffer, n + 1), Append(payloads, SubSeq(buffer, 2, n + 1)))

(* execStream.on('data') *)
Data(n) ==
    /\ Running
    /\ LET result == Extract(frames \o SubSeq(raw, 1, n), <<>>) IN
        /\ frames' = result.rest
        /\ down' = IF socket = "open" THEN down \o result.payloads ELSE down
    /\ raw' = SubSeq(raw, n + 1, Len(raw))
    /\ UNCHANGED <<browser, socket, up, handler, queue, input, sent>>

Next ==
    \/ Connect \/ Opened \/ Ask \/ Disconnect \/ Message
    \/ \E r \in Requests : TimeoutFires(r)
    \/ Received \/ Checked \/ Started \/ Stops
    \/ \E code \in {4000, 4403} : Refused(code)
    \/ \E to \in 0..MaxRequests : \E wide \in BOOLEAN : \E cut \in 1..3 : Emit(to, wide, cut)
    \/ \E n \in 1..Len(raw) : Data(n)

Spec == Init /\ [][Next]_vars

-----------------------------------------------------------------------------
(* Properties. *)

(* The server reads the requests in the order the editor made them,        *)
(* whether they came before it ran or after. *)
RequestsKeepOrder == \A i \in 1..Len(input) : input[i] = i

(* Wherever frames and chunks are cut, messages without wide characters    *)
(* all arrive, once and in order: those behind the last parsed one are     *)
(* still on their way. *)
NarrowMessagesArrive ==
    (\A k \in 1..Len(sent) : ~IsWide(k)) =>
        /\ \A i \in 1..Len(parsed) : parsed[i] = i
        /\ socket = "open" /\ raw = <<>> /\ down = <<>> => Len(parsed) = Len(sent)

(* A wide character loses messages and never makes one up or repeats one,  *)
(* so that no request gets the answer of another. *)
AnswersAreGenuine == \A i, j \in 1..Len(parsed) : i < j => parsed[i] < parsed[j]

StreamsAreFaithful == RequestsKeepOrder /\ NarrowMessagesArrive /\ AnswersAreGenuine
=============================================================================
