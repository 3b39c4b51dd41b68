---------------------------- MODULE TerminalStream ----------------------------
(***************************************************************************)
(* Terminal output on its way from the container's PTY to the browser:     *)
(* TerminalStreamBuffer of terminal/terminalStreamBuffer.ts between the    *)
(* stream and socket handlers that terminal/terminalHandler.ts registers.  *)
(* The buffer coalesces chunks for maxBatchMs or up to maxBatchBytes and   *)
(* holds them back while the socket has more than maxBufferedAmount bytes  *)
(* to transmit.                                                            *)
(*                                                                         *)
(* A byte is named by its position in the output.  ws.send returns at once *)
(* and never re-enters the buffer, so isFlushing is never seen set; the    *)
(* only caller takes the default options, so maxBatchMs is never 0.        *)
(***************************************************************************)
EXTENDS Naturals, Sequences

CONSTANTS
    MaxBatch,     \* maxBatchBytes
    MaxBuffered,  \* maxBufferedAmount
    MaxChunk,     \* bound: bytes of one chunk of the stream
    MaxPrinted    \* bound: bytes the shell prints

ASSUME LimitAssumption ==
    /\ MaxBatch \in Nat \ {0} /\ MaxBuffered \in Nat
    /\ MaxChunk \in Nat \ {0} /\ MaxPrinted \in Nat

VARIABLES
    printed,   \* bytes the stream has emitted
    pending,   \* the bytes of this.chunks
    bytes,     \* this.currentBytes
    timer,     \* this.flushTimer: none or armed
    wire,      \* bytes given to ws.send and not transmitted: ws.bufferedAmount
    received,  \* bytes that reached the browser
    ws,        \* ws.readyState
    shell      \* the exec stream: running, ended, failed, or destroyed here
buffer == <<pending, bytes, timer>>
vars == <<printed, buffer, wire, received, ws, shell>>

TypeOK ==
    /\ printed \in 0..MaxPrinted
    /\ pending \in Seq(Nat)
    /\ bytes \in Nat
    /\ timer \in {"none", "armed"}
    /\ wire \in Seq(Nat)
    /\ received \in Seq(Nat)
    /\ ws \in {"open", "closing", "closed"}
    /\ shell \in {"running", "ended", "failed", "destroyed"}

Init ==
    /\ printed = 0
    /\ pending = <<>> /\ bytes = 0 /\ timer = "none"
    /\ wire = <<>> /\ received = <<>>
    /\ ws = "open"
    /\ shell = "running"

-----------------------------------------------------------------------------
(* The buffer. *)

(* clear() *)
Clear ==
    /\ pending' = <<>>
    /\ bytes' = 0
    /\ timer' = "none"

(* Mutant: currentBytes is taken down by a full batch, whatever was sent.  *)
BytesLessBatch(n) == n - MaxBatch

BytesAfterSend(n) == 0

(* Mutant: the held batch is left to a timer nobody armed. *)
HeldWithoutTimer(t) == t

(* "Reschedule flush once socket drains" *)
HeldTimer(t) == "armed"

(* Buffer.concat(chunks, currentBytes): cut, or filled with zeros, to size. *)
Combined(chunks, n) ==
    [i \in 1..n |-> IF i <= Len(chunks) THEN chunks[i] ELSE 0]

(* flush(), called with these chunks, this byte count and this timer. *)
Flush(chunks, n, t) ==
    \/ /\ chunks = <<>>
       /\ pending' = chunks /\ bytes' = n /\ timer' = t
       /\ UNCHANGED wire
    \/ /\ chunks # <<>> /\ ws # "open"
       /\ Clear
       /\ UNCHANGED wire
    \/ /\ chunks # <<>> /\ ws = "open" /\ Len(wire) > MaxBuffered
       /\ pending' = chunks /\ bytes' = n /\ timer' = HeldTimer(t)
       /\ UNCHANGED wire
    \/ /\ chunks # <<>> /\ ws = "open" /\ Len(wire) <= MaxBuffered
       /\ wire' = wire \o Combined(chunks, n)
       /\ pending' = <<>> /\ bytes' = BytesAfterSend(n) /\ timer' = t

(* Mutant: a chunk gets ahead of the held ones. *)
PushedInFront(chunk) == chunk \o pending

Pushed(chunk) == pending \o chunk

(* stream.on('data'): push(chunk).  A full batch is flushed at once, a     *)
(* smaller one waits for the timer; on a socket that closes it is dropped. *)
Data(n) ==
    LET chunk == [i \in 1..n |-> printed + i] IN
    /\ shell = "running"
    /\ printed + n <= MaxPrinted
    /\ printed' = printed + n
    /\ \/ /\ ws = "open" /\ bytes + n >= MaxBatch
          /\ Flush(Pushed(chunk), bytes + n, "none")
       \/ /\ ws = "open" /\ bytes + n < MaxBatch
          /\ pending' = Pushed(chunk) /\ bytes' = bytes + n /\ timer' = "armed"
          /\ UNCHANGED wire
       \/ /\ ws # "open"
          /\ UNCHANGED <<buffer, wire>>
    /\ UNCHANGED <<received, ws, shell>>

TimerFires ==
    /\ timer = "armed"
    /\ Flush(pending, bytes, "none")
    /\ UNCHANGED <<printed, received, ws, shell>>

-----------------------------------------------------------------------------
(* The exec stream and the socket. *)

CloseSocket == ws' = IF ws = "open" THEN "closing" ELSE ws

(* stream.on('end'): flush, then ws.close(1000). *)
ShellEnds ==
    /\ shell = "running"
    /\ shell' = "ended"
    /\ Flush(pending, bytes, timer)
    /\ CloseSocket
    /\ UNCHANGED <<printed, received>>

(* stream.on('error'): clear, then ws.close(1011). *)
ShellFails ==
    /\ shell = "running"
    /\ shell' = "failed"
    /\ Clear
    /\ CloseSocket
    /\ UNCHANGED <<printed, wire, received>>

(* The transport carries some of the buffered bytes to the browser. *)
Drain(n) ==
    /\ ws # "closed"
    /\ n <= Len(wire)
    /\ received' = received \o SubSeq(wire, 1, n)
    /\ wire' = SubSeq(wire, n + 1, Len(wire))
    /\ UNCHANGED <<printed, buffer, ws, shell>>

PeerCloses ==
    /\ ws = "open"
    /\ ws' = "closing"
    /\ UNCHANGED <<printed, buffer, wire, received, shell>>

(* ws.on('close'): clear the buffer and destroy a stream that still runs.  *)
SocketClosed ==
    /\ ws' = "closed"
    /\ Clear
    /\ shell' = IF shell = "running" THEN "destroyed" ELSE shell
    /\ UNCHANGED <<printed, received>>

(* The closing handshake ends once everything sent was transmitted. *)
CloseEvent ==
    /\ ws = "closing"
    /\ wire = <<>>
    /\ SocketClosed
    /\ UNCHANGED wire

(* The connection dies, or the heartbeat terminates it. *)
ConnectionLost ==
    /\ ws # "closed"
    /\ wire' = <<>>
    /\ SocketClosed

Next ==
    \/ \E n \in 1..MaxChunk : Data(n)
    \/ TimerFires
    \/ ShellEnds \/ ShellFails
    \/ \E n \in 1..Len(wire) : Drain(n)
    \/ PeerCloses \/ CloseEvent \/ ConnectionLost

Spec == Init /\ [][Next]_vars

(* Timers fire; a socket with bytes to transmit transmits some or is torn  *)
(* down (the 30 s heartbeat terminates a peer that does not answer).       *)
Fairness ==
    /\ WF_vars(TimerFires)
    /\ WF_vars((\E n \in 1..Len(wire) : Drain(n)) \/ (wire # <<>> /\ ConnectionLost))

FairSpec == Spec /\ Fairness

-----------------------------------------------------------------------------
(* Properties. *)

(* s holds the bytes that come after the first k, in order. *)
Follows(s, k) == \A i \in 1..Len(s) : s[i] = k + i

(* Between the PTY and the browser the output is whole: received, in       *)
(* flight and held back bytes are consecutive, and while the socket is     *)
(* open they are all the shell printed, whatever batches and back-pressure *)
(* made of the chunks.                                                     *)
OutputIsWhole ==
    /\ Follows(received, 0)
    /\ Follows(wire, Len(received))
    /\ Follows(pending, Len(received) + Len(wire))
    /\ Len(received) + Len(wire) + Len(pending) <= printed
    /\ ws = "open" => Len(received) + Len(wire) + Len(pending) = printed

(* currentBytes is what Buffer.concat is told to take: were it off, output *)
(* would be cut or padded.                                                 *)
BytesExact == bytes = Len(pending)

(* Held output is never stranded: on an open socket a timer is armed for   *)
(* it, after every order of full batches, back-pressure and timers.        *)
HeldOutputIsScheduled == ws = "open" /\ pending # <<>> => timer = "armed"

StreamInv ==
    /\ OutputIsWhole
    /\ BytesExact
    /\ HeldOutputIsScheduled

(* The buffer implements the promise of a terminal to its user. *)
Output == INSTANCE TerminalOutput WITH shown <- received, open <- ws # "closed"
ImplementsOutput == Output!Spec

(* Back-pressure delays output and does not withhold it: what was printed  *)
(* is shown, or the connection goes away.                                  *)
OutputIsShown ==
    []<>(Len(received) = printed \/ ws # "open")
=============================================================================
