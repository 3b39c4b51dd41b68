------------------------- MODULE TerminalStreamProofs -------------------------
(***************************************************************************)
(* Proofs about a terminal session.  TerminalStream, for any limits: the   *)
(* output between the PTY and the browser is whole, held output has a      *)
(* timer, and the buffer implements the promise of TerminalOutput.         *)
(* ContainerFiles, for any paths and terminals: the watchers spare the rows *)
(* of files that are there. *)
(***************************************************************************)
EXTENDS TerminalSession, SequenceTheorems, FiniteSetTheorems, FunctionTheorems, WellFoundedInduction, TLAPS

(* Consecutive bytes stay consecutive when they are put together ... *)
LEMMA ConcatFollows ==
    ASSUME NEW s \in Seq(Nat), NEW t \in Seq(Nat), NEW k \in Nat,
           Follows(s, k), Follows(t, k + Len(s))
    PROVE  /\ s \o t \in Seq(Nat)
           /\ Len(s \o t) = Len(s) + Len(t)
           /\ Follows(s \o t, k)
<1>1. s \o t \in Seq(Nat) /\ Len(s \o t) = Len(s) + Len(t)
  BY ConcatProperties
<1>2. ASSUME NEW i \in 1..Len(s \o t) PROVE (s \o t)[i] = k + i
  <2>1. CASE i <= Len(s)
    BY <1>1, <2>1, ConcatProperties DEF Follows
  <2>2. CASE i > Len(s)
    <3>1. (s \o t)[i] = t[i - Len(s)] /\ i - Len(s) \in 1..Len(t)
      BY <1>1, <2>2, ConcatProperties
    <3> QED
      BY <3>1 DEF Follows
  <2> QED
    BY <1>1, <2>1, <2>2
<1> QED
  BY <1>1, <1>2 DEF Follows

(* ... and when some are taken from the front. *)
LEMMA SplitFollows ==
    ASSUME NEW s \in Seq(Nat), NEW k \in Nat, NEW n \in 1..Len(s), Follows(s, k)
    PROVE  /\ SubSeq(s, 1, n) \in Seq(Nat)
           /\ Len(SubSeq(s, 1, n)) = n
           /\ Follows(SubSeq(s, 1, n), k)
           /\ SubSeq(s, n + 1, Len(s)) \in Seq(Nat)
           /\ Len(SubSeq(s, n + 1, Len(s))) = Len(s) - n
           /\ Follows(SubSeq(s, n + 1, Len(s)), k + n)
<1>1. Len(s) \in Nat /\ \A i \in 1..Len(s) : s[i] \in Nat
  OBVIOUS
<1>2. SubSeq(s, 1, n) = [i \in 1..n |-> s[i]]
  BY <1>1, SubSeqProperties
<1>3. SubSeq(s, n + 1, Len(s)) = [i \in 1..(Len(s) - n) |-> s[n + i]]
  BY <1>1, SubSeqProperties
<1> QED
  BY <1>1, <1>2, <1>3 DEF Follows

(* Buffer.concat told the exact size changes nothing. *)
LEMMA CombinedExact ==
    ASSUME NEW s \in Seq(Nat)
    PROVE  Combined(s, Len(s)) = s
BY DEF Combined

LEMMA EmptyFollows == <<>> \in Seq(Nat) /\ Len(<<>>) = 0 /\ \A k \in Nat : Follows(<<>>, k)
BY EmptySeq DEF Follows

(* What flush() makes of chunks that continue what is in flight. *)
LEMMA FlushStep ==
    ASSUME TypeOK, NEW chunks \in Seq(Nat), NEW t \in {"none", "armed"},
           Follows(wire, Len(received)),
           Follows(chunks, Len(received) + Len(wire)),
           Flush(chunks, Len(chunks), t)
    PROVE  /\ pending' \in Seq(Nat) /\ bytes' \in Nat /\ timer' \in {"none", "armed"}
           /\ wire' \in Seq(Nat) /\ Len(wire') \in Nat
           /\ bytes' = Len(pending')
           /\ Follows(wire', Len(received))
           /\ Follows(pending', Len(received) + Len(wire'))
           /\ Len(wire') + Len(pending') <= Len(wire) + Len(chunks)
           /\ ws = "open" => Len(wire') + Len(pending') = Len(wire) + Len(chunks)
           /\ ws = "open" /\ pending' # <<>> => timer' = "armed"
<1> DEFINE Sum == Len(received) + Len(wire)
<1>0. Len(received) \in Nat /\ Len(wire) \in Nat /\ Len(chunks) \in Nat
  BY LenProperties DEF TypeOK
<1>1. CASE chunks = <<>> /\ pending' = chunks /\ bytes' = Len(chunks) /\ timer' = t
           /\ UNCHANGED wire
  BY <1>0, <1>1, EmptyFollows DEF TypeOK
<1>2. CASE chunks # <<>> /\ ws # "open" /\ Clear /\ UNCHANGED wire
  BY <1>0, <1>2, EmptyFollows DEF TypeOK, Clear
<1>3. CASE /\ chunks # <<>> /\ ws = "open" /\ Len(wire) > MaxBuffered
           /\ pending' = chunks /\ bytes' = Len(chunks) /\ timer' = HeldTimer(t)
           /\ UNCHANGED wire
  BY <1>0, <1>3 DEF TypeOK, HeldTimer
<1>4. CASE /\ chunks # <<>> /\ ws = "open" /\ Len(wire) <= MaxBuffered
           /\ wire' = wire \o Combined(chunks, Len(chunks))
           /\ pending' = <<>> /\ bytes' = BytesAfterSend(Len(chunks)) /\ timer' = t
  <2>1. wire' = wire \o chunks
    BY <1>4, CombinedExact
  <2>2. wire' \in Seq(Nat) /\ Len(wire') = Len(wire) + Len(chunks)
        /\ Follows(wire', Len(received))
    BY <1>0, <2>1, ConcatFollows DEF TypeOK
  <2> QED
    BY <1>0, <1>4, <2>2, EmptyFollows DEF BytesAfterSend
<1> QED
  BY <1>1, <1>2, <1>3, <1>4 DEF Flush

LEMMA InvStep ==
    ASSUME TypeOK, StreamInv, [Next]_vars
    PROVE  TypeOK' /\ StreamInv'
<1> USE DEF StreamInv, OutputIsWhole, BytesExact, HeldOutputIsScheduled
<1>0. /\ Len(received) \in Nat /\ Len(wire) \in Nat /\ Len(pending) \in Nat
      /\ printed \in Nat /\ MaxPrinted \in Nat
  BY LenProperties, LimitAssumption DEF TypeOK
<1>1. ASSUME NEW n \in 1..MaxChunk, Data(n) PROVE TypeOK' /\ StreamInv'
  <2> DEFINE chunk == [i \in 1..n |-> printed + i]
  <2>1. chunk \in Seq(Nat) /\ Len(chunk) = n /\ Follows(chunk, printed)
    BY <1>0, LimitAssumption DEF Follows
  <2>2. printed' = printed + n /\ printed' \in 0..MaxPrinted /\ n \in Nat
        /\ UNCHANGED <<received, ws, shell>>
    BY <1>0, <1>1, LimitAssumption DEF Data
  <2>3. \/ ws = "open" /\ Flush(Pushed(chunk), bytes + n, "none")
        \/ /\ ws = "open" /\ pending' = Pushed(chunk) /\ bytes' = bytes + n
           /\ timer' = "armed" /\ UNCHANGED wire
        \/ ws # "open" /\ UNCHANGED <<buffer, wire>>
    BY <1>1 DEF Data
  <2> HIDE DEF chunk
  <2>4. ASSUME ws = "open"
        PROVE  /\ Pushed(chunk) \in Seq(Nat) /\ Len(Pushed(chunk)) = bytes + n
               /\ Follows(Pushed(chunk), Len(received) + Len(wire))
    <3>1. Follows(chunk, Len(received) + Len(wire) + Len(pending))
      BY <2>1, <2>4
    <3>2. /\ pending \in Seq(Nat) /\ chunk \in Seq(Nat)
          /\ Len(received) + Len(wire) \in Nat
          /\ Follows(pending, Len(received) + Len(wire))
      BY <1>0, <2>1 DEF TypeOK
    <3>3. /\ Pushed(chunk) \in Seq(Nat) /\ Len(Pushed(chunk)) = Len(pending) + Len(chunk)
          /\ Follows(Pushed(chunk), Len(received) + Len(wire))
      BY <3>1, <3>2, ConcatFollows DEF Pushed
    <3> QED
      BY <2>1, <3>3
  <2>5. CASE ws = "open" /\ Flush(Pushed(chunk), bytes + n, "none")
    <3>1. Flush(Pushed(chunk), Len(Pushed(chunk)), "none")
      BY <2>4, <2>5
    <3>2. /\ pending' \in Seq(Nat) /\ bytes' \in Nat /\ timer' \in {"none", "armed"}
          /\ wire' \in Seq(Nat) /\ Len(wire') \in Nat
          /\ bytes' = Len(pending')
          /\ Follows(wire', Len(received))
          /\ Follows(pending', Len(received) + Len(wire'))
          /\ Len(wire') + Len(pending') = Len(wire) + Len(Pushed(chunk))
          /\ pending' # <<>> => timer' = "armed"
      BY <2>4, <2>5, <3>1, FlushStep DEF TypeOK
    <3>3. TypeOK'
      BY <2>2, <3>2 DEF TypeOK
    <3>4. /\ Follows(received', 0)
          /\ Follows(wire', Len(received'))
          /\ Follows(pending', Len(received') + Len(wire'))
      BY <2>2, <3>2
    <3>5. Len(received') + Len(wire') + Len(pending') = printed'
      <4>1. Len(wire') + Len(pending') = Len(wire) + Len(pending) + n
        BY <2>4, <2>5, <3>2, SMTT(30)
      <4>2. Len(received) + Len(wire) + Len(pending) = printed
        BY <2>5
      <4>3. /\ Len(received') = Len(received) /\ printed' = printed + n
            /\ Len(wire') \in Nat /\ Len(pending') \in Nat /\ n \in Nat
        BY <2>2, <3>2
      <4> QED
        BY <1>0, <4>1, <4>2, <4>3, SMTT(30)
    <3>6. printed' \in Nat
      BY <1>0, <2>2
    <3> QED
      BY <3>2, <3>3, <3>4, <3>5, <3>6, SMTT(30)
  <2>6. CASE /\ ws = "open" /\ pending' = Pushed(chunk) /\ bytes' = bytes + n
             /\ timer' = "armed" /\ UNCHANGED wire
    <3>1. TypeOK'
      BY <1>0, <2>2, <2>4, <2>6 DEF TypeOK
    <3>2. StreamInv'
      BY <1>0, <2>2, <2>4, <2>6, SMTT(30)
    <3> QED
      BY <3>1, <3>2
  <2>7. CASE ws # "open" /\ UNCHANGED <<buffer, wire>>
    BY <1>0, <2>2, <2>7 DEF TypeOK, buffer
  <2> QED
    BY <2>3, <2>5, <2>6, <2>7
<1>2. CASE TimerFires
  <2>1. Flush(pending, Len(pending), "none") /\ UNCHANGED <<printed, received, ws, shell>>
    BY <1>2 DEF TimerFires
  <2>2. /\ pending' \in Seq(Nat) /\ bytes' \in Nat /\ timer' \in {"none", "armed"}
        /\ wire' \in Seq(Nat) /\ Len(wire') \in Nat
        /\ bytes' = Len(pending')
        /\ Follows(wire', Len(received))
        /\ Follows(pending', Len(received) + Len(wire'))
        /\ Len(wire') + Len(pending') <= Len(wire) + Len(pending)
        /\ ws = "open" => Len(wire') + Len(pending') = Len(wire) + Len(pending)
        /\ ws = "open" /\ pending' # <<>> => timer' = "armed"
    BY <2>1, FlushStep DEF TypeOK
  <2>3. TypeOK'
    BY <2>1, <2>2 DEF TypeOK
  <2>4. /\ Follows(received', 0)
        /\ Follows(wire', Len(received'))
        /\ Follows(pending', Len(received') + Len(wire'))
    BY <2>1, <2>2
  <2>5. ws' = "open" => Len(received') + Len(wire') + Len(pending') = printed'
    <3> SUFFICES ASSUME ws = "open"
                 PROVE  Len(received') + Len(wire') + Len(pending') = printed'
      BY <2>1
    <3>1. Len(wire') + Len(pending') = Len(wire) + Len(pending)
      BY <2>2
    <3>2. Len(received') = Len(received) /\ printed' = printed
          /\ Len(wire') \in Nat /\ Len(pending') \in Nat
      BY <2>1, <2>2
    <3>3. Len(received) + Len(wire) + Len(pending) = printed
      OBVIOUS
    <3> QED
      BY <1>0, <3>1, <3>2, <3>3
  <2>6. StreamInv'
    BY <1>0, <2>1, <2>2, <2>4, <2>5, SMTT(30)
  <2> QED
    BY <2>3, <2>6
<1>3. CASE ShellEnds
  <2>1. Flush(pending, Len(pending), timer) /\ UNCHANGED <<printed, received>>
        /\ shell' = "ended"
    BY <1>3 DEF ShellEnds
  <2>2. ws' \in {"closing", "closed"}
    BY <1>3 DEF ShellEnds, CloseSocket, TypeOK
  <2>3. timer \in {"none", "armed"}
    BY DEF TypeOK
  <2> QED
    BY <1>0, <2>1, <2>2, <2>3, FlushStep DEF TypeOK
<1>4. CASE ShellFails
  <2>1. ws' \in {"closing", "closed"}
    BY <1>4 DEF ShellFails, CloseSocket, TypeOK
  <2> QED
    BY <1>0, <1>4, <2>1, EmptyFollows DEF ShellFails, Clear, TypeOK
<1>5. ASSUME NEW n \in 1..Len(wire), Drain(n) PROVE TypeOK' /\ StreamInv'
  <2>1. /\ SubSeq(wire, 1, n) \in Seq(Nat)
        /\ Len(SubSeq(wire, 1, n)) = n
        /\ Follows(SubSeq(wire, 1, n), Len(received))
        /\ wire' \in Seq(Nat) /\ Len(wire') = Len(wire) - n
        /\ Follows(wire', Len(received) + n)
    BY <1>0, <1>5, SplitFollows DEF Drain, TypeOK
  <2>2. received' \in Seq(Nat) /\ Len(received') = Len(received) + n
        /\ Follows(received', 0)
    <3>1. Follows(SubSeq(wire, 1, n), 0 + Len(received))
      BY <1>0, <2>1
    <3> QED
      BY <1>0, <1>5, <2>1, <3>1, ConcatFollows DEF Drain, TypeOK
  <2>3. UNCHANGED <<printed, pending, bytes, timer, ws, shell>>
    BY <1>5 DEF Drain, buffer
  <2>4. TypeOK'
    BY <2>1, <2>2, <2>3 DEF TypeOK
  <2>5. Follows(pending', Len(received') + Len(wire'))
    <3>1. Len(received') + Len(wire') = Len(received) + Len(wire)
      BY <1>0, <2>1, <2>2
    <3> QED
      BY <2>3, <3>1
  <2>6. Len(received') + Len(wire') + Len(pending') = Len(received) + Len(wire) + Len(pending)
    BY <1>0, <2>1, <2>2, <2>3
  <2>7. Follows(wire', Len(received'))
    BY <2>1, <2>2
  <2>8. StreamInv'
    <3>1. BytesExact' /\ HeldOutputIsScheduled'
      BY <2>3
    <3>2. Follows(received', 0) /\ printed' = printed /\ ws' = ws
      BY <2>2, <2>3
    <3> QED
      BY <2>5, <2>6, <2>7, <3>1, <3>2
  <2> QED
    BY <2>4, <2>8
<1>6. CASE PeerCloses
  BY <1>0, <1>6 DEF PeerCloses, TypeOK, buffer
<1>7. CASE CloseEvent \/ ConnectionLost
  <2>1. SocketClosed /\ wire' = <<>>
    BY <1>7 DEF CloseEvent, ConnectionLost
  <2>2. shell' \in {"running", "ended", "failed", "destroyed"}
    BY <2>1 DEF SocketClosed, TypeOK
  <2> QED
    BY <1>0, <2>1, <2>2, EmptyFollows DEF SocketClosed, Clear, TypeOK
<1>8. CASE UNCHANGED vars
  BY <1>8 DEF vars, buffer, TypeOK
<1> QED
  BY <1>1, <1>2, <1>3, <1>4, <1>5, <1>6, <1>7, <1>8 DEF Next

(* Types and the inductive invariant of the stream. *)
THEOREM StreamInvariant == Spec => [](TypeOK /\ StreamInv)
<1>1. Init => TypeOK /\ StreamInv
  BY EmptyFollows, LimitAssumption
     DEF Init, TypeOK, StreamInv, OutputIsWhole, BytesExact, HeldOutputIsScheduled
<1>2. TypeOK /\ StreamInv /\ [Next]_vars => TypeOK' /\ StreamInv'
  BY InvStep
<1> QED
  BY <1>1, <1>2, PTL DEF Spec

(* No order of batches, back-pressure and timers tears a hole in the output. *)
THEOREM OutputStaysWhole == Spec => []OutputIsWhole
<1>1. StreamInv => OutputIsWhole
  BY DEF StreamInv
<1> QED
  BY <1>1, StreamInvariant, PTL

(* Output that is held back on an open socket has a timer. *)
THEOREM HeldOutputHasTimer == Spec => []HeldOutputIsScheduled
<1>1. StreamInv => HeldOutputIsScheduled
  BY DEF StreamInv
<1> QED
  BY <1>1, StreamInvariant, PTL

(* A step of the stream is a step of the promise, or leaves it alone. *)
LEMMA StepImplements ==
    ASSUME TypeOK, StreamInv, TypeOK', StreamInv', [Next]_vars
    PROVE  [Output!Next]_Output!vars
<1> USE DEF Output!Next, Output!vars
<1>1. ASSUME NEW n \in 1..MaxChunk, Data(n) PROVE Output!Emit
  BY <1>1, LimitAssumption DEF Data, Output!Emit, TypeOK
<1>2. CASE TimerFires
  BY <1>2 DEF TimerFires
<1>3. CASE ShellEnds \/ ShellFails
  BY <1>3 DEF ShellEnds, ShellFails, CloseSocket, TypeOK
<1>4. ASSUME NEW n \in 1..Len(wire), Drain(n) PROVE Output!Show
  <2>1. Len(received) \in Nat /\ Len(received') \in Nat /\ printed' \in Nat
        /\ Len(wire') \in Nat /\ Len(pending') \in Nat /\ Len(wire) \in Nat
    BY LenProperties, LimitAssumption DEF TypeOK
  <2>2. Len(received') = Len(received) + n
    BY <1>4, <2>1 DEF Drain, TypeOK
  <2>3. Len(received') <= printed
    BY <1>4, <2>1 DEF Drain, StreamInv, OutputIsWhole
  <2>4. received' = [i \in 1..Len(received') |-> i]
    BY LenProperties, SMTT(30) DEF StreamInv, OutputIsWhole, Follows, TypeOK
  <2>5. ws # "closed" /\ ws' = ws /\ printed' = printed
    BY <1>4 DEF Drain
  <2> QED
    BY <2>1, <2>2, <2>3, <2>4, <2>5 DEF Output!Show, Output!FirstBytes, TypeOK
<1>5. CASE PeerCloses
  BY <1>5 DEF PeerCloses
<1>6. CASE CloseEvent \/ ConnectionLost
  BY <1>6 DEF CloseEvent, ConnectionLost, SocketClosed, Output!Close
<1>7. CASE UNCHANGED vars
  BY <1>7 DEF vars
<1> QED
  BY <1>1, <1>2, <1>3, <1>4, <1>5, <1>6, <1>7 DEF Next

(* The buffer, the socket and the shell handlers keep the promise of a     *)
(* terminal: in order, without gap or repetition, until the connection is  *)
(* closed.                                                                 *)
THEOREM StreamImplementsOutput == Spec => ImplementsOutput
<1>1. Init => Output!Init
  BY DEF Init, Output!Init
<1>2. TypeOK /\ StreamInv /\ TypeOK' /\ StreamInv' /\ [Next]_vars
        => [Output!Next]_Output!vars
  BY StepImplements
<1> QED
  BY <1>1, <1>2, StreamInvariant, PTL DEF Spec, ImplementsOutput, Output!Spec

-----------------------------------------------------------------------------
(* Rows and disk. *)

LEMMA SameSize == \A S : Files!Cardinality(S) = Cardinality(S)
BY DEF Files!Cardinality, Cardinality

(* A set of naturals has a least one. *)
LEMMA LeastNatural ==
    ASSUME NEW T, T \subseteq Nat, T # {}
    PROVE  \E n \in T : \A m \in T : n <= m
<1>1. PICK n \in T : \A m \in T : <<m, n>> \notin OpToRel(<, Nat)
  BY WFMin, NatLessThanWellFounded
<1>2. \A m \in T : m \in Nat /\ n \in Nat /\ ~(m < n)
  BY <1>1 DEF OpToRel
<1> QED
  BY <1>2

(* An id for a new row, where there is one, is nobody's. *)
LEMMA FreshIds ==
    ASSUME Files!TypeOK
    PROVE  /\ Files!NewIds \subseteq Files!Ids
           /\ Files!NewIds # {} => Files!NewId \in Files!NewIds
           /\ \A i \in Files!NewIds : /\ i # 0 /\ i \notin live
                                      /\ \A p \in Paths : rows[p].id # i
                                      /\ \A w \in Terminals : i \notin kept[w]
<1>1. Files!NewIds # {} => Files!NewId \in Files!NewIds
  <2>1. Files!NewIds \subseteq Nat
    BY FilesAssumption DEF Files!NewIds, Files!Ids
  <2>2. ASSUME Files!NewIds # {} PROVE \E n \in Files!NewIds : \A m \in Files!NewIds : n <= m
    BY <2>1, <2>2, LeastNatural
  <2> QED
    BY <2>2 DEF Files!NewId, Files!Min
<1>2. \A i \in Files!NewIds : i # 0 /\ i \notin live
  BY DEF Files!NewIds
<1>3. \A i \in Files!NewIds, p \in Paths : rows[p].id # i
  BY DEF Files!NewIds
<1>4. \A i \in Files!NewIds, w \in Terminals : i \notin kept[w]
  BY DEF Files!NewIds
<1> QED
  BY <1>1, <1>2, <1>3, <1>4 DEF Files!NewIds

(* What the rows of a state are: typed, and no two of them with one id. *)
RowsOK(table) ==
    /\ table \in [Paths -> Files!RowStates]
    /\ \A p, q \in Paths : table[p].id # 0 /\ table[p].id = table[q].id => p = q
DiskOK(files) ==
    /\ files \in [Paths -> Files!FileStates]
    /\ \A p, q \in Paths : files[p].ino # 0 /\ files[p].ino = files[q].ino => p = q
Scans ==
    [step : {"idle", "listed", "compared"}, first : BOOLEAN,
     files : [Paths -> Files!FileStates], rows : [Paths -> Files!RowStates],
     gone : SUBSET Paths, added : SUBSET Paths, todo : SUBSET Paths, misread : BOOLEAN]
Entries == [has : BOOLEAN, ino : 0..MaxIno, stamp : Files!Texts]

LEMMA TypesSplit ==
    Files!TypeOK <=>
        /\ DiskOK(disk) /\ RowsOK(rows)
        /\ scan \in [Terminals -> Scans] /\ known \in [Terminals -> [Paths -> Entries]]
        /\ live \subseteq Files!Ids /\ kept \in [Terminals -> SUBSET Files!Ids]
        /\ cool \subseteq Paths
        /\ syncs \subseteq [op : {"write", "remove"}, id : Files!Ids, path : Paths, text : Files!Texts]
        /\ terminal \in [Terminals -> BOOLEAN] /\ shellOnly \in BOOLEAN /\ ops \in 0..MaxOps
BY DEF Files!TypeOK, DiskOK, RowsOK, Scans, Entries, Files!HasRow, Files!OnDisk

LEMMA SmallValues ==
    /\ 0 \in Files!Ids /\ 0 \in Files!Texts /\ 0 \in 0..MaxIno
    /\ Files!NoFile \in Files!FileStates /\ Files!NoRow \in Files!RowStates
    /\ Files!NoFile.ino = 0 /\ Files!NoRow.id = 0
    /\ Files!Unseen \in Entries
    /\ \A file \in Files!FileStates : Files!Seen(file) \in Entries
    /\ Files!FreeInos \subseteq 0..MaxIno /\ 0 \notin Files!FreeInos
    /\ \A i \in Files!FreeInos, p \in Paths : disk[p].ino # i
<1>1. 0 \in Files!Ids /\ 0 \in Files!Texts /\ 0 \in 0..MaxIno
  BY FilesAssumption DEF Files!Ids, Files!Texts
<1>2. Files!FreeInos \subseteq 0..MaxIno /\ 0 \notin Files!FreeInos /\ \A i \in Files!FreeInos, p \in Paths : disk[p].ino # i
  BY FilesAssumption DEF Files!FreeInos
<1> QED
  BY <1>1, <1>2 DEF Files!NoFile, Files!NoRow, Files!FileStates, Files!RowStates, Files!Unseen, Files!Seen, Entries

LEMMA IdleOK == ASSUME NEW first \in BOOLEAN PROVE Files!Idle(first) \in Scans /\ Files!Idle(first).step = "idle"
BY SmallValues DEF Scans, Files!Idle

LEMMA OperationCounts == ASSUME ops \in 0..MaxOps, Files!Operation PROVE ops' \in 0..MaxOps /\ ops' \in Files!Texts
BY FilesAssumption DEF Files!Operation, Files!Texts

(* A watcher changes the disk never, and its own scan and memory alone. *)
Watches(w) ==
    \/ \E misread \in BOOLEAN : Files!List(w, misread)
    \/ Files!Seed(w) \/ Files!Compare(w) \/ Files!Rename(w) \/ Files!RenameFails(w) \/ Files!EndScan(w) \/ Files!ScanFails(w)
    \/ Files!OpenTerminal(w)
    \/ \E p \in Paths : Files!Delete(w, p) \/ Files!AddFile(w, p) \/ Files!PullText(w, p) \/ Files!SkipFile(w, p)

LEMMA StepsSplit ==
    ASSUME [Files!Next]_(Files!vars)
    PROVE  \/ UNCHANGED Files!vars
           \/ \E p \in Paths : Files!ShellCreates(p) \/ Files!ShellWrites(p) \/ Files!ShellRemoves(p)
           \/ \E p, q \in Paths : Files!ShellMoves(p, q)
           \/ \E p \in Paths : Files!CreateFile(p) \/ Files!DeleteFile(p) \/ Files!OpenEditor(p) \/ Files!CooldownEnds(p)
           \/ \E i \in live : Files!CloseEditor(i) \/ Files!SaveEditor(i)
           \/ \E s \in syncs : Files!SyncWrites(s) \/ Files!SyncRemoves(s) \/ Files!SyncFails(s)
           \/ \E w \in Terminals : Watches(w) \/ Files!CloseTerminal(w)
BY Zenon DEF Files!Next, Files!Scan, Watches

LEMMA WatchersStay ==
    ASSUME [Files!Next]_(Files!vars), ~\E w \in Terminals : Watches(w)
    PROVE  scan' = scan /\ known' = known
BY StepsSplit DEF Files!vars, Files!server, Files!watcher, Files!ghosts, Files!ShellCreates, Files!ShellWrites, Files!ShellRemoves, Files!ShellMoves, Files!CreateFile,
   Files!DeleteFile, Files!OpenEditor, Files!SaveEditor, Files!CooldownEnds, Files!CloseEditor, Files!SyncWrites, Files!SyncRemoves, Files!SyncFails, Files!CloseTerminal

LEMMA DiskStays ==
    ASSUME NEW w \in Terminals, Watches(w)
    PROVE  disk' = disk /\ live' = live /\ syncs' = syncs /\ cool' = cool
BY DEF Watches, Files!server, Files!watcher, Files!ghosts, Files!List, Files!Seed, Files!Compare, Files!Rename, Files!RenameFails, Files!EndScan, Files!ScanFails, Files!OpenTerminal,
   Files!Delete, Files!AddFile, Files!PullText, Files!SkipFile, Files!Turn

LEMMA DiskKept ==
    ASSUME Files!TypeOK, Files!RealIds, [Files!Next]_(Files!vars)
    PROVE  DiskOK(disk')
<1> USE SmallValues DEF DiskOK
<1>0. DiskOK(disk) /\ ops \in Files!Texts
  BY TypesSplit DEF Files!Texts
<1>1. ASSUME NEW p \in Paths, Files!ShellCreates(p) PROVE DiskOK(disk')
  BY <1>0, <1>1, TypesSplit, OperationCounts DEF Files!ShellCreates, Files!FileStates
<1>2. ASSUME NEW p \in Paths, Files!ShellWrites(p) PROVE DiskOK(disk')
  BY <1>0, <1>2, TypesSplit, OperationCounts DEF Files!ShellWrites, Files!FileStates
<1>3. ASSUME NEW p \in Paths, Files!ShellRemoves(p) PROVE DiskOK(disk')
  BY <1>0, <1>3 DEF Files!ShellRemoves
<1>4. ASSUME NEW p \in Paths, NEW q \in Paths, Files!ShellMoves(p, q) PROVE DiskOK(disk')
  BY <1>0, <1>4 DEF Files!ShellMoves
<1>5. ASSUME NEW s \in syncs, Files!SyncWrites(s) PROVE DiskOK(disk')
  <2>1. PICK i \in Files!FreeInos : disk' = [p \in Paths |->
            IF rows[p].id # s.id THEN disk[p]
            ELSE [ino |-> IF Files!OnDisk(p) THEN disk[p].ino ELSE i, stamp |-> ops, text |-> s.text]]
    BY <1>5 DEF Files!SyncWrites
  <2>2. s.text \in Files!Texts
    BY TypesSplit
  <2>3. disk' \in [Paths -> Files!FileStates]
    BY <1>0, <2>1, <2>2 DEF Files!FileStates
  <2>4. ASSUME NEW p \in Paths, NEW q \in Paths, disk'[p].ino # 0, disk'[p].ino = disk'[q].ino PROVE p = q
    <3>1. s.id # 0 /\ RowsOK(rows)
      BY TypesSplit DEF Files!RealIds
    <3>2. rows[p].id = s.id /\ rows[q].id = s.id => p = q
      BY <3>1 DEF RowsOK
    <3>3. disk[p].ino # i /\ disk[q].ino # i
      OBVIOUS
    <3>4. disk'[p].ino = (IF rows[p].id # s.id \/ disk[p].ino # 0 THEN disk[p].ino ELSE i)
      BY <2>1 DEF Files!OnDisk
    <3>5. disk'[q].ino = (IF rows[q].id # s.id \/ disk[q].ino # 0 THEN disk[q].ino ELSE i)
      BY <2>1 DEF Files!OnDisk
    <3> QED
      BY <1>0, <2>4, <3>2, <3>3, <3>4, <3>5
  <2> QED
    BY <2>3, <2>4
<1>6. ASSUME NEW s \in syncs, Files!SyncRemoves(s) PROVE DiskOK(disk')
  BY <1>0, <1>6 DEF Files!SyncRemoves
<1>7. ASSUME disk' = disk PROVE DiskOK(disk')
  BY <1>0, <1>7
<1>8. ASSUME ~\E p \in Paths : Files!ShellCreates(p) \/ Files!ShellWrites(p) \/ Files!ShellRemoves(p),
             ~\E p, q \in Paths : Files!ShellMoves(p, q),
             ~\E s \in syncs : Files!SyncWrites(s) \/ Files!SyncRemoves(s)
      PROVE  disk' = disk
  BY <1>8, StepsSplit, DiskStays, Zenon DEF Files!vars, Files!CreateFile, Files!DeleteFile, Files!OpenEditor, Files!CooldownEnds, Files!CloseEditor,
     Files!SaveEditor, Files!SyncFails, Files!CloseTerminal
<1> QED
  BY <1>1, <1>2, <1>3, <1>4, <1>5, <1>6, <1>7, <1>8

LEMMA FreshRow ==
    ASSUME Files!TypeOK, NEW p \in Paths, ~Files!HasRow(p), NEW t \in Files!Texts, Files!NewIds # {}
    PROVE  RowsOK([rows EXCEPT ![p] = [id |-> Files!NewId, text |-> t]])
<1>1. Files!NewId \in Files!Ids /\ \A q \in Paths : rows[q].id # Files!NewId
  BY FreshIds
<1>2. RowsOK(rows)
  BY TypesSplit
<1> QED
  BY <1>1, <1>2 DEF RowsOK, Files!RowStates

(* A rename takes the row of a file that is gone along to a file that is   *)
(* new. *)
Moved(w, p, q) ==
    /\ scan[w].rows[p].id # 0 /\ ~Files!NameTaken(scan[w].rows[p].id, q)
    /\ rows' = [r \in Paths |-> IF r = q /\ Files!PathsOf(scan[w].rows[p].id) # {}
                               THEN rows[CHOOSE o \in Files!PathsOf(scan[w].rows[p].id) : TRUE]
                               ELSE IF rows[r].id = scan[w].rows[p].id THEN Files!NoRow ELSE rows[r]]
    /\ known' = [known EXCEPT ![w] = [@ EXCEPT ![p] = Files!Unseen, ![q] = Files!Seen(scan[w].files[q])]]
    /\ scan' = [scan EXCEPT ![w].gone = @ \ {p}, ![w].added = @ \ {q}]
    /\ kept' = [v \in Terminals |-> IF v = w THEN kept[v] ELSE kept[v] \ {scan[w].rows[p].id}]
LEMMA RenameMoves ==
    ASSUME NEW w \in Terminals, Files!Rename(w)
    PROVE  \E p \in scan[w].gone, q \in scan[w].added : Moved(w, p, q)
<1>1. PICK pq \in Files!Renames(w) : Moved(w, pq[1], pq[2])
  <2>1. \A pq \in Files!Renames(w) : scan[w].rows[pq[1]].id # 0
    BY DEF Files!Renames, Files!SameInode
  <2> QED
    BY <2>1 DEF Files!Rename, Moved
<1>2. pq[1] \in scan[w].gone /\ pq[2] \in scan[w].added
  BY DEF Files!Renames
<1> QED
  BY <1>1, <1>2, SMTT(30)

(* Where rows are after it. *)
LEMMA MovedRows ==
    ASSUME Files!TypeOK, NEW w \in Terminals, NEW p \in Paths, NEW q \in Paths, Moved(w, p, q)
    PROVE  /\ RowsOK(rows')
           /\ \A r \in Paths : rows'[r].id \in {0, rows[r].id, scan[w].rows[p].id}
<1> USE SmallValues DEF RowsOK
<1>0. RowsOK(rows)
  BY TypesSplit
<1>1. PICK i : i = scan[w].rows[p].id
  OBVIOUS
<1>2. CASE Files!PathsOf(i) # {}
  <2>1. PICK o \in Paths : rows[o].id = i /\ o = CHOOSE x \in Files!PathsOf(i) : TRUE
    BY <1>2 DEF Files!PathsOf
  <2>2. rows' = [r \in Paths |-> IF r = q THEN rows[o] ELSE IF rows[r].id = i THEN Files!NoRow ELSE rows[r]]
    BY <1>1, <1>2, <2>1 DEF Moved
  <2>3. rows[q].id \in {0, i}
    BY <1>1, <1>2 DEF Moved, Files!NameTaken, Files!HasRow
  <2> HIDE DEF Files!NoRow
  <2>4. rows' \in [Paths -> Files!RowStates]
    BY <1>0, <2>1, <2>2
  <2>5. /\ rows'[q].id = i
        /\ \A r \in Paths : r # q => rows'[r].id = 0 \/ (rows'[r].id = rows[r].id /\ rows[r].id # i)
    BY <2>1, <2>2
  <2> QED
    BY <1>0, <1>1, <2>4, <2>5
<1>3. CASE Files!PathsOf(i) = {}
  <2>1. rows' = [r \in Paths |-> IF rows[r].id = i THEN Files!NoRow ELSE rows[r]]
    BY <1>1, <1>3 DEF Moved
  <2> QED
    BY <1>0, <2>1
<1> QED
  BY <1>2, <1>3

LEMMA PulledRows ==
    ASSUME Files!TypeOK, NEW w \in Terminals, NEW p \in Paths, Files!PullText(w, p)
    PROVE  RowsOK(rows') /\ \A r \in Paths : rows'[r].id = rows[r].id
<1>0. RowsOK(rows) /\ \A q \in Paths : Files!TextsRead(q) \subseteq Files!Texts
  BY TypesSplit, SmallValues DEF Files!TextsRead, DiskOK, Files!FileStates
<1>1. PICK text \in Files!Texts :
        rows' = [r \in Paths |-> IF rows[r].id = scan[w].rows[p].id /\ text # scan[w].rows[p].text
                                 THEN [rows[r] EXCEPT !.text = text] ELSE rows[r]]
  BY <1>0 DEF Files!PullText
<1>2. \A r \in Paths : rows[r] \in Files!RowStates
  BY <1>0 DEF RowsOK
<1>3. \A r \in Paths : rows'[r] \in Files!RowStates /\ rows'[r].id = rows[r].id
  BY <1>1, <1>2 DEF Files!RowStates
<1>4. rows' \in [Paths -> Files!RowStates]
  BY <1>1, <1>3
<1> QED
  BY <1>0, <1>3, <1>4 DEF RowsOK

LEMMA AddedRows ==
    ASSUME Files!TypeOK, NEW w \in Terminals, NEW p \in Paths, Files!AddFile(w, p)
    PROVE  RowsOK(rows') /\ \A r \in Paths : rows'[r].id \in {rows[r].id} \cup Files!NewIds
<1>0. RowsOK(rows) /\ \A q \in Paths : Files!TextsRead(q) \subseteq Files!Texts
  BY TypesSplit, SmallValues DEF Files!TextsRead, DiskOK, Files!FileStates
<1>1. CASE rows' = rows
  BY <1>0, <1>1
<1>2. CASE rows' # rows
  <2>1. PICK text \in Files!Texts : /\ rows' = [rows EXCEPT ![p] = [id |-> Files!NewId, text |-> text]]
                                    /\ ~Files!HasRow(p) /\ Files!NewIds # {}
    BY <1>0, <1>2 DEF Files!AddFile
  <2>2. Files!NewId \in Files!NewIds
    BY <2>1, FreshIds, SMTT(30)
  <2> QED
    BY <1>0, <2>1, <2>2, FreshRow DEF RowsOK
<1> QED
  BY <1>1, <1>2

LEMMA RowsOfOthers ==
    ASSUME [Files!Next]_(Files!vars),
           ~\E p \in Paths : Files!CreateFile(p) \/ Files!DeleteFile(p), ~\E i \in live : Files!SaveEditor(i),
           ~\E w \in Terminals : Files!Rename(w),
           ~\E w \in Terminals, p \in Paths : Files!Delete(w, p) \/ Files!AddFile(w, p) \/ Files!PullText(w, p)
    PROVE  rows' = rows
BY StepsSplit, ZenonT(60) DEF Watches, Files!vars, Files!server, Files!watcher, Files!ghosts, Files!ShellCreates, Files!ShellWrites, Files!ShellRemoves, Files!ShellMoves, Files!OpenEditor,
   Files!CooldownEnds, Files!CloseEditor, Files!SyncWrites, Files!SyncRemoves, Files!SyncFails, Files!List, Files!Seed, Files!Compare, Files!RenameFails, Files!EndScan,
   Files!ScanFails, Files!SkipFile, Files!CloseTerminal, Files!OpenTerminal

LEMMA RowsKept ==
    ASSUME Files!TypeOK, [Files!Next]_(Files!vars)
    PROVE  RowsOK(rows')
<1> USE SmallValues DEF RowsOK
<1>0. RowsOK(rows) /\ scan \in [Terminals -> Scans]
  BY TypesSplit
<1>1. ASSUME NEW p \in Paths, Files!CreateFile(p) PROVE RowsOK(rows')
  BY <1>1, FreshRow DEF Files!CreateFile
<1>2. ASSUME NEW p \in Paths, Files!DeleteFile(p) PROVE RowsOK(rows')
  BY <1>0, <1>2 DEF Files!DeleteFile
<1>3. ASSUME NEW i \in live, Files!SaveEditor(i) PROVE RowsOK(rows')
  <2>1. i \in Files!Ids /\ ops' \in Files!Texts
    BY <1>3, TypesSplit, OperationCounts DEF Files!SaveEditor
  <2>2. rows' = [p \in Paths |-> IF rows[p].id = i THEN [id |-> i, text |-> ops'] ELSE rows[p]]
    BY <1>3 DEF Files!SaveEditor
  <2>3. \A p \in Paths : rows'[p].id = rows[p].id
    BY <2>2
  <2>4. rows' \in [Paths -> Files!RowStates]
    BY <1>0, <2>1, <2>2 DEF Files!RowStates
  <2> QED
    BY <1>0, <2>3, <2>4
<1>4. ASSUME NEW w \in Terminals, Files!Rename(w) PROVE RowsOK(rows')
  <2>1. PICK p \in scan[w].gone, q \in scan[w].added : Moved(w, p, q)
    BY <1>4, RenameMoves
  <2>2. p \in Paths /\ q \in Paths
    BY <1>0 DEF Scans
  <2> QED
    BY <2>1, <2>2, MovedRows
<1>5. ASSUME NEW w \in Terminals, NEW p \in Paths, Files!Delete(w, p) PROVE RowsOK(rows')
  BY <1>0, <1>5 DEF Files!Delete
<1>6. ASSUME NEW w \in Terminals, NEW p \in Paths, Files!AddFile(w, p) \/ Files!PullText(w, p) PROVE RowsOK(rows')
  BY <1>6, AddedRows, PulledRows
<1> QED
  BY <1>0, <1>1, <1>2, <1>3, <1>4, <1>5, <1>6, RowsOfOthers

(* What the steps of a watcher make of its scan. *)
Others(w) == \A v \in Terminals : v # w => scan'[v] = scan[v]
LEMMA ScanLists ==
    ASSUME Files!TypeOK, NEW w \in Terminals, NEW misread \in BOOLEAN, Files!List(w, misread)
    PROVE  /\ scan' \in [Terminals -> Scans] /\ Others(w)
           /\ scan'[w].step = "listed" /\ scan'[w].misread = misread
           /\ scan'[w].files = [p \in Paths |-> IF misread THEN Files!NoFile ELSE Files!Listed(p)]
<1>0. DiskOK(disk) /\ scan \in [Terminals -> Scans]
  BY TypesSplit
<1>1. PICK files \in [Paths -> Files!FileStates] : files = [p \in Paths |-> IF misread THEN Files!NoFile ELSE Files!Listed(p)]
  BY <1>0, SmallValues DEF DiskOK, Files!Listed
<1>2. scan' = [scan EXCEPT ![w].step = "listed", ![w].misread = misread, ![w].files = files]
  BY <1>1 DEF Files!List
<1>3. PICK run \in Scans : run = [scan[w] EXCEPT !.step = "listed", !.misread = misread, !.files = files]
  <2>1. scan[w] \in Scans
    BY <1>0
  <2> QED
    BY <2>1 DEF Scans
<1>4. scan' = [scan EXCEPT ![w] = run]
  BY <1>0, <1>2, <1>3
<1>5. run.step = "listed" /\ run.misread = misread /\ run.files = files
  BY <1>0, <1>3 DEF Scans
<1> QED
  BY <1>0, <1>1, <1>4, <1>5 DEF Others

LEMMA ScanCompares ==
    ASSUME Files!TypeOK, NEW w \in Terminals, Files!Compare(w)
    PROVE  /\ scan' \in [Terminals -> Scans] /\ Others(w)
           /\ scan[w].step = "listed" /\ scan'[w].step = "compared"
           /\ scan'[w].rows = rows /\ scan'[w].gone = Files!Gone(w)
           /\ scan'[w].files = scan[w].files /\ scan'[w].misread = scan[w].misread
<1>0. RowsOK(rows) /\ scan \in [Terminals -> Scans] /\ rows \in [Paths -> Files!RowStates] /\ Files!Gone(w) \in SUBSET Paths
  BY TypesSplit DEF RowsOK, Files!Gone
<1>1. PICK added \in SUBSET Paths, todo \in SUBSET Paths :
        scan' = [scan EXCEPT ![w].step = "compared", ![w].rows = rows, ![w].gone = Files!Gone(w),
                             ![w].added = added, ![w].todo = todo]
  BY DEF Files!Compare
<1>2. scan[w].step = "listed"
  BY DEF Files!Compare
<1>3. scan[w] \in Scans
  BY <1>0
<1>4. PICK run \in Scans : run = [scan[w] EXCEPT !.step = "compared", !.rows = rows, !.gone = Files!Gone(w), !.added = added, !.todo = todo]
  BY <1>0, <1>3 DEF Scans
<1>5. scan' = [scan EXCEPT ![w] = run]
  BY <1>0, <1>1, <1>4
<1>6. /\ run.step = "compared" /\ run.rows = rows /\ run.gone = Files!Gone(w)
      /\ run.files = scan[w].files /\ run.misread = scan[w].misread
  BY <1>3, <1>4 DEF Scans
<1> QED
  BY <1>0, <1>2, <1>5, <1>6 DEF Others

(* The steps after it only take paths off. *)
Shrinks(w) ==
    /\ scan'[w].step = scan[w].step
    /\ scan'[w].rows = scan[w].rows /\ scan'[w].files = scan[w].files /\ scan'[w].misread = scan[w].misread
    /\ scan'[w].gone \subseteq scan[w].gone
LEMMA ScanRenames ==
    ASSUME Files!TypeOK, NEW w \in Terminals, NEW p, NEW q, Moved(w, p, q)
    PROVE  /\ scan' \in [Terminals -> Scans] /\ Others(w) /\ Shrinks(w)
           /\ scan'[w].gone = scan[w].gone \ {p}
<1>0. scan \in [Terminals -> Scans]
  BY TypesSplit
<1>1. scan' = [scan EXCEPT ![w].gone = @ \ {p}, ![w].added = @ \ {q}]
  BY DEF Moved
<1>2. scan[w] \in Scans
  BY <1>0
<1>3. PICK run \in Scans : run = [scan[w] EXCEPT !.gone = @ \ {p}, !.added = @ \ {q}]
  BY <1>2 DEF Scans
<1>4. scan' = [scan EXCEPT ![w] = run]
  BY <1>0, <1>1, <1>3
<1>5. /\ run.step = scan[w].step /\ run.rows = scan[w].rows /\ run.files = scan[w].files /\ run.misread = scan[w].misread
      /\ run.gone = scan[w].gone \ {p}
  BY <1>2, <1>3 DEF Scans
<1> QED
  BY <1>0, <1>4, <1>5 DEF Others, Shrinks

LEMMA ScanTurns ==
    ASSUME Files!TypeOK, NEW w \in Terminals, NEW p \in Paths,
           Files!Delete(w, p) \/ Files!AddFile(w, p) \/ Files!PullText(w, p) \/ Files!SkipFile(w, p)
    PROVE  scan' \in [Terminals -> Scans] /\ Others(w) /\ Shrinks(w) /\ scan[w].step = "compared"
<1>0. scan \in [Terminals -> Scans]
  BY TypesSplit
<1>1. scan' = [scan EXCEPT ![w].gone = @ \ {p}] \/ scan' = [scan EXCEPT ![w].todo = @ \ {p}]
  BY DEF Files!Delete, Files!AddFile, Files!PullText, Files!SkipFile, Files!Turn
<1>2. scan[w].step = "compared"
  BY DEF Files!Delete, Files!AddFile, Files!PullText, Files!SkipFile, Files!Turn
<1>3. scan[w] \in Scans
  BY <1>0
<1>4. PICK run \in Scans : run \in {[scan[w] EXCEPT !.gone = @ \ {p}], [scan[w] EXCEPT !.todo = @ \ {p}]} /\ scan' = [scan EXCEPT ![w] = run]
  <2>1. CASE scan' = [scan EXCEPT ![w].gone = @ \ {p}]
    <3>1. [scan[w] EXCEPT !.gone = @ \ {p}] \in Scans
      BY <1>3 DEF Scans
    <3> QED
      BY <1>0, <2>1, <3>1
  <2>2. CASE scan' = [scan EXCEPT ![w].todo = @ \ {p}]
    <3>1. [scan[w] EXCEPT !.todo = @ \ {p}] \in Scans
      BY <1>3 DEF Scans
    <3> QED
      BY <1>0, <2>2, <3>1
  <2> QED
    BY <1>1, <2>1, <2>2
<1>5. /\ run.step = scan[w].step /\ run.rows = scan[w].rows /\ run.files = scan[w].files /\ run.misread = scan[w].misread
      /\ run.gone \subseteq scan[w].gone
  BY <1>3, <1>4 DEF Scans
<1> QED
  BY <1>0, <1>2, <1>4, <1>5 DEF Others, Shrinks

LEMMA ScanEnds ==
    ASSUME Files!TypeOK, NEW w \in Terminals,
           Files!Seed(w) \/ Files!RenameFails(w) \/ Files!EndScan(w) \/ Files!ScanFails(w) \/ Files!OpenTerminal(w)
    PROVE  scan' \in [Terminals -> Scans] /\ Others(w) /\ scan'[w].step = "idle"
<1>0. scan \in [Terminals -> Scans] /\ scan[w].first \in BOOLEAN
  BY TypesSplit DEF Scans
<1>1. PICK first \in BOOLEAN : scan' = [scan EXCEPT ![w] = Files!Idle(first)]
  BY <1>0 DEF Files!Seed, Files!RenameFails, Files!EndScan, Files!ScanFails, Files!OpenTerminal
<1>2. Files!Idle(first) \in Scans /\ Files!Idle(first).step = "idle"
  BY IdleOK
<1> QED
  BY <1>0, <1>1, <1>2 DEF Others

(* So a step leaves a watcher's scan as it is, or is one of these of its own. *)
LEMMA ScanSteps ==
    ASSUME Files!TypeOK, [Files!Next]_(Files!vars)
    PROVE  /\ scan' \in [Terminals -> Scans]
           /\ \A w \in Terminals :
                \/ scan'[w] = scan[w]
                \/ \E misread \in BOOLEAN : Files!List(w, misread)
                \/ Files!Compare(w) \/ Files!Rename(w)
                \/ Shrinks(w) /\ scan[w].step = "compared"
                \/ scan'[w].step = "idle"
<1>1. CASE ~\E w \in Terminals : Watches(w)
  BY <1>1, WatchersStay, TypesSplit
<1>2. ASSUME NEW w \in Terminals, Watches(w)
      PROVE  /\ scan' \in [Terminals -> Scans] /\ Others(w)
             /\ \/ \E misread \in BOOLEAN : Files!List(w, misread)
                \/ Files!Compare(w) \/ Files!Rename(w)
                \/ Shrinks(w) /\ scan[w].step = "compared"
                \/ scan'[w].step = "idle"
  <2>1. ASSUME NEW misread \in BOOLEAN, Files!List(w, misread) PROVE scan' \in [Terminals -> Scans] /\ Others(w)
    BY <2>1, ScanLists
  <2>2. CASE Files!Compare(w)
    BY <2>2, ScanCompares
  <2>3. CASE Files!Rename(w)
    BY <2>3, RenameMoves, ScanRenames
  <2>4. ASSUME NEW p \in Paths, Files!Delete(w, p) \/ Files!AddFile(w, p) \/ Files!PullText(w, p) \/ Files!SkipFile(w, p)
        PROVE  scan' \in [Terminals -> Scans] /\ Others(w) /\ Shrinks(w) /\ scan[w].step = "compared"
    BY <2>4, ScanTurns
  <2>5. CASE Files!Seed(w) \/ Files!RenameFails(w) \/ Files!EndScan(w) \/ Files!ScanFails(w) \/ Files!OpenTerminal(w)
    BY <2>5, ScanEnds
  <2> QED
    BY <1>2, <2>1, <2>2, <2>3, <2>4, <2>5, Zenon DEF Watches
<1>3. ASSUME NEW w \in Terminals, Watches(w), NEW v \in Terminals, v # w PROVE scan'[v] = scan[v]
  BY <1>2, <1>3 DEF Others
<1> QED
  BY <1>1, <1>2, <1>3, ZenonT(30)

LEMMA KnownKept ==
    ASSUME Files!TypeOK, [Files!Next]_(Files!vars)
    PROVE  known' \in [Terminals -> [Paths -> Entries]]
<1> USE SmallValues
<1>0. scan \in [Terminals -> Scans] /\ known \in [Terminals -> [Paths -> Entries]]
  BY TypesSplit
<1>9. \A w \in Terminals, p \in Paths : Files!Seen(scan[w].files[p]) \in Entries
  BY <1>0 DEF Scans
<1>1. ASSUME NEW w \in Terminals, Files!Seed(w) PROVE known' \in [Terminals -> [Paths -> Entries]]
  BY <1>0, <1>1, <1>9 DEF Files!Seed
<1>2. ASSUME NEW w \in Terminals, Files!Rename(w) PROVE known' \in [Terminals -> [Paths -> Entries]]
  <2>1. PICK p \in scan[w].gone, q \in scan[w].added : Moved(w, p, q)
    BY <1>2, RenameMoves
  <2>2. q \in Paths
    BY <1>0 DEF Scans
  <2> QED
    BY <1>0, <1>9, <2>1, <2>2 DEF Moved
<1>3. ASSUME NEW w \in Terminals, NEW p \in Paths, Files!Delete(w, p) PROVE known' \in [Terminals -> [Paths -> Entries]]
  BY <1>0, <1>3 DEF Files!Delete
<1>4. ASSUME NEW w \in Terminals, NEW p \in Paths, Files!AddFile(w, p) \/ Files!PullText(w, p) \/ Files!SkipFile(w, p)
      PROVE  known' \in [Terminals -> [Paths -> Entries]]
  <2>1. Files!Remember(w, p) \/ known' = known
    BY <1>4 DEF Files!AddFile, Files!PullText, Files!SkipFile
  <2> QED
    BY <1>0, <1>9, <2>1, SMTT(30) DEF Files!Remember
<1>5. ASSUME NEW w \in Terminals, Files!OpenTerminal(w) PROVE known' \in [Terminals -> [Paths -> Entries]]
  BY <1>0, <1>5 DEF Files!OpenTerminal
<1>6. ASSUME NEW w \in Terminals, Files!Compare(w) \/ Files!RenameFails(w) \/ Files!EndScan(w) \/ Files!ScanFails(w) \/ \E misread \in BOOLEAN : Files!List(w, misread)
      PROVE  known' = known
  BY <1>6 DEF Files!Compare, Files!RenameFails, Files!EndScan, Files!ScanFails, Files!List
<1>7. ASSUME NEW w \in Terminals, Watches(w) PROVE known' \in [Terminals -> [Paths -> Entries]]
  BY <1>0, <1>1, <1>2, <1>3, <1>4, <1>5, <1>6, <1>7, Zenon DEF Watches
<1> QED
  BY <1>0, <1>7, WatchersStay

SyncOK(calls) ==
    /\ calls \subseteq [op : {"write", "remove"}, id : Files!Ids, path : Paths, text : Files!Texts]
    /\ \A s \in calls : s.id # 0
KeptOK(ids) == ids \in [Terminals -> SUBSET (Files!Ids \ {0})]

(* Only its listing says anew which files are where a watcher found them. *)
LEMMA KeptShrinks ==
    ASSUME Files!TypeOK, [Files!Next]_(Files!vars)
    PROVE  \/ \E w \in Terminals, misread \in BOOLEAN : Files!List(w, misread)
           \/ kept' \in [Terminals -> SUBSET Files!Ids] /\ \A w \in Terminals : kept'[w] \subseteq kept[w]
<1> DEFINE Less == kept' \in [Terminals -> SUBSET Files!Ids] /\ \A w \in Terminals : kept'[w] \subseteq kept[w]
<1>0. kept \in [Terminals -> SUBSET Files!Ids]
  BY TypesSplit
<1>1. ASSUME NEW p \in Paths, kept' = Files!Vacated(p) PROVE Less
  BY <1>0, <1>1 DEF Files!Vacated
<1>2. ASSUME NEW w \in Terminals, Files!Rename(w) PROVE Less
  BY <1>0, <1>2 DEF Files!Rename
<1>3. CASE kept' = kept
  BY <1>0, <1>3, Zenon
<1> HIDE DEF Less
<1>4. ASSUME NEW w \in Terminals, Watches(w), ~\E misread \in BOOLEAN : Files!List(w, misread), ~Files!Rename(w) PROVE kept' = kept
  BY <1>4 DEF Watches, Files!ghosts, Files!Seed, Files!Compare, Files!RenameFails, Files!EndScan, Files!ScanFails, Files!OpenTerminal,
     Files!Delete, Files!AddFile, Files!PullText, Files!SkipFile, Files!Turn
<1>5. ASSUME ~\E w \in Terminals : Watches(w) PROVE kept' = kept \/ \E p \in Paths : kept' = Files!Vacated(p)
  <2>1. \A s \in syncs : s.path \in Paths
    BY TypesSplit
  <2> QED
    BY <1>5, <2>1, StepsSplit DEF Files!vars, Files!server, Files!watcher, Files!ghosts, Files!ShellCreates, Files!ShellWrites, Files!ShellRemoves, Files!ShellMoves, Files!CreateFile,
       Files!DeleteFile, Files!OpenEditor, Files!SaveEditor, Files!CooldownEnds, Files!CloseEditor, Files!SyncWrites, Files!SyncRemoves, Files!SyncFails, Files!CloseTerminal
<1> QED
  BY <1>1, <1>2, <1>3, <1>4, <1>5, Zenon DEF Less

(* What the rest of the state refers to are ids that rows have or had. *)
LEMMA IdsKept ==
    ASSUME Files!TypeOK, Files!RealIds, [Files!Next]_(Files!vars)
    PROVE  live' \subseteq Files!Ids \ {0} /\ SyncOK(syncs') /\ KeptOK(kept')
<1>0. /\ live \subseteq Files!Ids \ {0} /\ KeptOK(kept) /\ SyncOK(syncs)
      /\ \A p \in Paths : rows[p].id \in Files!Ids
  <2>1. rows \in [Paths -> Files!RowStates]
    BY TypesSplit DEF RowsOK
  <2> QED
    BY <2>1, TypesSplit DEF Files!RealIds, SyncOK, KeptOK, Files!RowStates
<1>1. ASSUME NEW p \in Paths, Files!CreateFile(p) PROVE SyncOK(syncs') /\ live' = live
  <2>1. Files!NewId \in Files!Ids /\ Files!NewId # 0
    BY <1>1, FreshIds DEF Files!CreateFile
  <2> QED
    BY <1>0, <1>1, <2>1, SmallValues DEF Files!CreateFile, SyncOK
<1>2. ASSUME NEW p \in Paths, Files!DeleteFile(p) PROVE SyncOK(syncs') /\ live' = live
  BY <1>0, <1>2, SmallValues DEF Files!DeleteFile, SyncOK, Files!HasRow
<1>3. ASSUME NEW p \in Paths, Files!OpenEditor(p) PROVE syncs' = syncs /\ live' \subseteq Files!Ids \ {0}
  BY <1>0, <1>3 DEF Files!OpenEditor, Files!HasRow
<1>4. ASSUME NEW i \in live, Files!SaveEditor(i) PROVE SyncOK(syncs') /\ live' = live
  <2>1. i \in Files!Ids \ {0} /\ ops' \in Files!Texts
    BY <1>0, <1>4, TypesSplit, OperationCounts DEF Files!SaveEditor
  <2> QED
    BY <1>0, <1>4, <2>1 DEF Files!SaveEditor, SyncOK, Files!PathsOf, Files!ghosts
<1>5. ASSUME ~\E p \in Paths : Files!CreateFile(p) \/ Files!DeleteFile(p) \/ Files!OpenEditor(p),
             ~\E i \in live : Files!SaveEditor(i)
      PROVE  syncs' \subseteq syncs /\ live' \subseteq live
  BY <1>5, StepsSplit, DiskStays DEF Files!vars, Files!server, Files!ShellCreates, Files!ShellWrites, Files!ShellRemoves, Files!ShellMoves,
     Files!CooldownEnds, Files!CloseEditor, Files!SyncWrites, Files!SyncRemoves, Files!SyncFails, Files!CloseTerminal
<1>6. ASSUME syncs' \subseteq syncs PROVE SyncOK(syncs')
  BY <1>0, <1>6 DEF SyncOK
<1>7. SyncOK(syncs') /\ live' \subseteq Files!Ids \ {0}
  BY <1>0, <1>1, <1>2, <1>3, <1>4, <1>5, <1>6
<1>8. ASSUME NEW w \in Terminals, NEW misread \in BOOLEAN, Files!List(w, misread) PROVE KeptOK(kept')
  <2>1. PICK ids \in SUBSET (Files!Ids \ {0}) : kept' = [kept EXCEPT ![w] = ids]
    BY <1>0, <1>8 DEF Files!List, Files!HasRow
  <2> QED
    BY <1>0, <2>1 DEF KeptOK
<1>9. ASSUME kept' \in [Terminals -> SUBSET Files!Ids], \A w \in Terminals : kept'[w] \subseteq kept[w] PROVE KeptOK(kept')
  BY <1>0, <1>9 DEF KeptOK
<1> QED
  BY <1>7, <1>8, <1>9, KeptShrinks

LEMMA RestKept ==
    ASSUME Files!TypeOK, [Files!Next]_(Files!vars)
    PROVE  cool' \subseteq Paths /\ terminal' \in [Terminals -> BOOLEAN] /\ shellOnly' \in BOOLEAN /\ ops' \in 0..MaxOps
<1> USE DEF Files!server, Files!watcher, Files!ghosts
<1>0. cool \subseteq Paths /\ terminal \in [Terminals -> BOOLEAN] /\ shellOnly \in BOOLEAN /\ ops \in 0..MaxOps
  BY TypesSplit, SMTT(30)
<1>1. cool' \subseteq Paths
  <2>1. ASSUME NEW w \in Terminals, Watches(w) PROVE cool' = cool
    BY <2>1, DiskStays
  <2> QED
    BY <1>0, <2>1, StepsSplit, ZenonT(60) DEF Files!vars, Files!ShellCreates, Files!ShellWrites, Files!ShellRemoves, Files!ShellMoves, Files!CreateFile, Files!DeleteFile,
       Files!OpenEditor, Files!CooldownEnds, Files!CloseEditor, Files!SaveEditor, Files!SyncWrites, Files!SyncRemoves, Files!SyncFails, Files!CloseTerminal, Files!PathsOf
<1>2. \/ terminal' = terminal
      \/ \E w \in Terminals : terminal' = [terminal EXCEPT ![w] = TRUE] \/ terminal' = [terminal EXCEPT ![w] = FALSE]
  BY StepsSplit, ZenonT(90) DEF Watches, Files!vars, Files!ShellCreates, Files!ShellWrites, Files!ShellRemoves, Files!ShellMoves, Files!CreateFile, Files!DeleteFile, Files!OpenEditor,
     Files!CooldownEnds, Files!CloseEditor, Files!SaveEditor, Files!SyncWrites, Files!SyncRemoves, Files!SyncFails, Files!CloseTerminal, Files!OpenTerminal,
     Files!List, Files!Seed, Files!Compare, Files!Rename, Files!RenameFails, Files!EndScan, Files!ScanFails, Files!Delete, Files!AddFile, Files!PullText, Files!SkipFile, Files!Turn
<1>3. shellOnly' \in BOOLEAN
  BY <1>0, StepsSplit, ZenonT(90) DEF Watches, Files!vars, Files!ShellCreates, Files!ShellWrites, Files!ShellRemoves, Files!ShellMoves, Files!CreateFile, Files!DeleteFile, Files!OpenEditor,
     Files!CooldownEnds, Files!CloseEditor, Files!SaveEditor, Files!SyncWrites, Files!SyncRemoves, Files!SyncFails, Files!CloseTerminal, Files!OpenTerminal,
     Files!List, Files!Seed, Files!Compare, Files!Rename, Files!RenameFails, Files!EndScan, Files!ScanFails, Files!Delete, Files!AddFile, Files!PullText, Files!SkipFile, Files!Turn
<1>4. Files!Operation \/ ops' = ops
  BY StepsSplit, ZenonT(90) DEF Watches, Files!vars, Files!ShellCreates, Files!ShellWrites, Files!ShellRemoves, Files!ShellMoves, Files!CreateFile, Files!DeleteFile, Files!OpenEditor,
     Files!CooldownEnds, Files!CloseEditor, Files!SaveEditor, Files!SyncWrites, Files!SyncRemoves, Files!SyncFails, Files!CloseTerminal, Files!OpenTerminal,
     Files!List, Files!Seed, Files!Compare, Files!Rename, Files!RenameFails, Files!EndScan, Files!ScanFails, Files!Delete, Files!AddFile, Files!PullText, Files!SkipFile, Files!Turn
<1>5. terminal' \in [Terminals -> BOOLEAN]
  BY <1>0, <1>2
<1> QED
  BY <1>0, <1>1, <1>3, <1>4, <1>5, OperationCounts

LEMMA FilesTypes ==
    ASSUME Files!TypeOK, Files!RealIds, [Files!Next]_(Files!vars)
    PROVE  Files!TypeOK' /\ Files!RealIds'
<1>1. /\ DiskOK(disk') /\ RowsOK(rows')
      /\ scan' \in [Terminals -> Scans] /\ known' \in [Terminals -> [Paths -> Entries]]
      /\ live' \subseteq Files!Ids \ {0} /\ KeptOK(kept') /\ SyncOK(syncs')
      /\ cool' \subseteq Paths /\ terminal' \in [Terminals -> BOOLEAN] /\ shellOnly' \in BOOLEAN /\ ops' \in 0..MaxOps
  BY DiskKept, RowsKept, ScanSteps, KnownKept, IdsKept, RestKept, SMTT(30)
<1>2. Files!RealIds'
  BY <1>1 DEF KeptOK, SyncOK, Files!RealIds
<1>3. kept' \in [Terminals -> SUBSET Files!Ids] /\ live' \subseteq Files!Ids
  BY <1>1 DEF KeptOK
<1> QED
  BY <1>1, <1>2, <1>3 DEF Files!TypeOK, DiskOK, RowsOK, Scans, Entries, SyncOK, Files!HasRow, Files!OnDisk

(* Whoever moves, the row of a file that stayed where a watcher has found   *)
(* it stays as well, unless that watcher renames it itself. *)
LEMMA KeptRowsStay ==
    ASSUME Files!TypeOK, Files!RealIds, [Files!Next]_(Files!vars), NEW v \in Terminals,
           ~Files!Rename(v), ~\E misread \in BOOLEAN : Files!List(v, misread)
    PROVE  /\ kept'[v] \subseteq kept[v]
           /\ \A p \in Paths : rows'[p].id \in kept'[v] => rows'[p].id = rows[p].id
<1>0. /\ rows \in [Paths -> Files!RowStates] /\ Files!NoRow.id = 0 /\ kept \in [Terminals -> SUBSET Files!Ids] /\ 0 \notin kept[v]
      /\ scan \in [Terminals -> Scans]
  BY TypesSplit, SmallValues DEF RowsOK, Files!RealIds
<1>1. kept'[v] \subseteq kept[v]
  <2>1. ASSUME NEW w \in Terminals, NEW misread \in BOOLEAN, Files!List(w, misread) PROVE kept'[v] = kept[v]
    BY <1>0, <2>1 DEF Files!List
  <2> QED
    BY <2>1, KeptShrinks
<1>2. ASSUME NEW p \in Paths, NEW q \in Paths, Files!CreateFile(q), rows'[p].id \in kept'[v] PROVE rows'[p].id = rows[p].id
  BY <1>0, <1>1, <1>2, FreshIds DEF Files!CreateFile
<1>3. ASSUME NEW p \in Paths, NEW q \in Paths, Files!DeleteFile(q), rows'[p].id \in kept'[v] PROVE rows'[p].id = rows[p].id
  BY <1>0, <1>1, <1>3 DEF Files!DeleteFile
<1>4. ASSUME NEW p \in Paths, NEW i \in live, Files!SaveEditor(i) PROVE rows'[p].id = rows[p].id
  BY <1>0, <1>4 DEF Files!SaveEditor
<1>5. ASSUME NEW p \in Paths, NEW w \in Terminals, Files!Rename(w), rows'[p].id \in kept'[v] PROVE rows'[p].id = rows[p].id
  <2>1. PICK g \in scan[w].gone, q \in scan[w].added : Moved(w, g, q)
    BY <1>5, RenameMoves
  <2>2. g \in Paths /\ q \in Paths /\ w # v
    BY <1>0, <1>5 DEF Scans
  <2>3. scan[w].rows[g].id \notin kept'[v]
    BY <2>1, <2>2 DEF Moved
  <2>4. rows'[p].id \in {0, rows[p].id, scan[w].rows[g].id}
    BY <2>1, <2>2, MovedRows
  <2> QED
    BY <1>0, <1>1, <1>5, <2>3, <2>4
<1>6. ASSUME NEW p \in Paths, NEW w \in Terminals, NEW q \in Paths, Files!Delete(w, q), rows'[p].id \in kept'[v] PROVE rows'[p].id = rows[p].id
  BY <1>0, <1>1, <1>6 DEF Files!Delete
<1>7. ASSUME NEW p \in Paths, NEW w \in Terminals, NEW q \in Paths, Files!AddFile(w, q), rows'[p].id \in kept'[v] PROVE rows'[p].id = rows[p].id
  BY <1>1, <1>7, AddedRows, FreshIds
<1>8. ASSUME NEW p \in Paths, NEW w \in Terminals, NEW q \in Paths, Files!PullText(w, q) PROVE rows'[p].id = rows[p].id
  BY <1>8, PulledRows
<1> QED
  BY <1>1, <1>2, <1>3, <1>4, <1>5, <1>6, <1>7, <1>8, RowsOfOthers, Zenon

LEMMA ListedStep ==
    ASSUME Files!TypeOK, Files!WatcherInv, [Files!Next]_(Files!vars), NEW w \in Terminals, scan'[w].step = "listed"
    PROVE  Files!KeptAreListed(w, rows)'
<1>0. scan \in [Terminals -> Scans] /\ RowsOK(rows) /\ Files!RealIds /\ kept \in [Terminals -> SUBSET Files!Ids]
  BY TypesSplit DEF Files!WatcherInv
<1>1. ASSUME NEW misread \in BOOLEAN, Files!List(w, misread) PROVE Files!KeptAreListed(w, rows)'
  <2>1. /\ scan'[w].files = [p \in Paths |-> IF misread THEN Files!NoFile ELSE Files!Listed(p)] /\ scan'[w].misread = misread
    BY <1>1, ScanLists
  <2>2. /\ kept'[w] = {rows[p].id : p \in {q \in Paths : Files!HasRow(q) /\ Files!OnDisk(q)}}
        /\ rows' = rows
    BY <1>0, <1>1 DEF Files!List, Files!server
  <2>3. ASSUME NEW p \in Paths, rows[p].id \in kept'[w], ~misread, p \notin Hidden PROVE scan'[w].files[p].ino # 0
    <3>1. PICK q \in Paths : Files!HasRow(q) /\ Files!OnDisk(q) /\ rows[q].id = rows[p].id
      BY <2>2, <2>3
    <3>2. Files!OnDisk(p)
      BY <1>0, <3>1 DEF RowsOK, Files!HasRow
    <3> QED
      BY <2>1, <2>3, <3>2 DEF Files!Listed, Files!OnDisk
  <2> QED
    BY <2>1, <2>2, <2>3 DEF Files!KeptAreListed, Files!IsListed
<1>2. ASSUME ~\E misread \in BOOLEAN : Files!List(w, misread) PROVE Files!KeptAreListed(w, rows)'
  <2>1. scan'[w] = scan[w]
    <3>1. ASSUME Files!Compare(w) PROVE FALSE
      BY <3>1, ScanCompares
    <3>2. ASSUME Files!Rename(w) PROVE FALSE
      <4>1. scan[w].step = "compared" /\ Shrinks(w)
        BY <3>2, RenameMoves, ScanRenames DEF Files!Rename
      <4> QED
        BY <4>1, SMTT(30) DEF Shrinks
    <3> QED
      BY <1>2, <3>1, <3>2, ScanSteps DEF Shrinks
  <2>2. ~Files!Rename(w)
    BY <2>1 DEF Files!Rename
  <2>3. kept'[w] \subseteq kept[w] /\ \A p \in Paths : rows'[p].id \in kept'[w] => rows'[p].id = rows[p].id
    BY <1>0, <1>2, <2>2, KeptRowsStay
  <2>4. Files!KeptAreListed(w, rows)
    BY <2>1 DEF Files!WatcherInv
  <2> QED
    BY <2>1, <2>3, <2>4 DEF Files!KeptAreListed, Files!IsListed
<1> QED
  BY <1>1, <1>2

LEMMA ComparedStep ==
    ASSUME Files!TypeOK, Files!WatcherInv, [Files!Next]_(Files!vars), NEW w \in Terminals, scan'[w].step = "compared"
    PROVE  Files!KeptAreListed(w, scan[w].rows)' /\ Files!GoneStayPut(w)'
<1>0. scan \in [Terminals -> Scans] /\ RowsOK(rows) /\ Files!RealIds /\ kept \in [Terminals -> SUBSET Files!Ids]
  BY TypesSplit DEF Files!WatcherInv
<1>1. ~\E misread \in BOOLEAN : Files!List(w, misread)
  BY ScanLists
<1>2. CASE Files!Compare(w)
  <2>1. /\ scan[w].step = "listed" /\ scan'[w].rows = rows /\ scan'[w].gone = Files!Gone(w)
        /\ scan'[w].files = scan[w].files /\ scan'[w].misread = scan[w].misread
    BY <1>2, ScanCompares
  <2>2. rows' = rows /\ kept' = kept
    BY <1>2 DEF Files!Compare, Files!server, Files!ghosts
  <2>3. Files!KeptAreListed(w, scan[w].rows)'
    BY <2>1, <2>2 DEF Files!WatcherInv, Files!KeptAreListed, Files!IsListed
  <2>4. \A p \in scan'[w].gone : p \in Paths /\ scan'[w].files[p].ino = 0
    BY <2>1 DEF Files!Gone, Files!IsListed
  <2>5. \A p \in scan'[w].gone, q \in Paths : rows'[q].id \in kept'[w] /\ rows'[q].id = scan'[w].rows[p].id => p = q
    BY <1>0, <2>1, <2>2, <2>4 DEF RowsOK, Files!RealIds
  <2>6. \A p, q \in Paths : scan'[w].rows[p].id # 0 /\ scan'[w].rows[p].id = scan'[w].rows[q].id => p = q
    BY <1>0, <2>1 DEF RowsOK
  <2> QED
    BY <2>3, <2>4, <2>5, <2>6 DEF Files!GoneStayPut, Files!IsListed
<1>3. CASE ~Files!Compare(w)
  <2>1. scan[w].step = "compared" /\ (scan'[w] = scan[w] \/ Shrinks(w))
    <3>1. CASE Files!Rename(w)
      BY <3>1, RenameMoves, ScanRenames DEF Files!Rename
    <3>2. CASE ~Files!Rename(w)
      BY <1>1, <1>3, <3>2, ScanSteps
    <3> QED
      BY <3>1, <3>2, SMTT(30)
  <2>2. /\ scan'[w].rows = scan[w].rows /\ scan'[w].files = scan[w].files /\ scan'[w].misread = scan[w].misread
        /\ scan'[w].gone \subseteq scan[w].gone
    BY <2>1 DEF Shrinks
  <2>3. Files!KeptAreListed(w, scan[w].rows) /\ Files!GoneStayPut(w) /\ scan[w].gone \subseteq Paths
    BY <1>0, <2>1 DEF Files!WatcherInv, Scans
  <2>4. kept'[w] \subseteq kept[w]
    <3>1. \/ \E v \in Terminals, misread \in BOOLEAN : Files!List(v, misread)
          \/ kept'[w] \subseteq kept[w]
      BY KeptShrinks
    <3>2. ASSUME NEW v \in Terminals, NEW misread \in BOOLEAN, Files!List(v, misread) PROVE kept'[w] = kept[w]
      BY <1>0, <1>1, <3>2 DEF Files!List
    <3> QED
      BY <3>1, <3>2
  <2>5. ASSUME NEW g \in scan'[w].gone, NEW r \in Paths, rows'[r].id \in kept'[w], rows'[r].id = scan'[w].rows[g].id
        PROVE  rows'[r].id = rows[r].id
    <3>1. CASE Files!Rename(w)
      <4>1. PICK p \in scan[w].gone, q \in scan[w].added : Moved(w, p, q)
        BY <3>1, RenameMoves
      <4>2. p \in Paths /\ q \in Paths
        BY <1>0 DEF Scans
      <4>3. scan'[w].gone = scan[w].gone \ {p}
        BY <4>1, ScanRenames
      <4>4. scan[w].rows[g].id # scan[w].rows[p].id
        BY <1>0, <2>2, <2>3, <2>4, <2>5, <4>2, <4>3 DEF Files!GoneStayPut, Files!RealIds
      <4>5. rows'[r].id \in {0, rows[r].id, scan[w].rows[p].id}
        BY <4>1, <4>2, MovedRows
      <4> QED
        BY <1>0, <2>2, <2>4, <2>5, <4>4, <4>5 DEF Files!RealIds
    <3>2. CASE ~Files!Rename(w)
      BY <1>0, <1>1, <2>5, <3>2, KeptRowsStay
    <3> QED
      BY <3>1, <3>2
  <2>6. Files!KeptAreListed(w, scan[w].rows)'
    BY <2>2, <2>3, <2>4 DEF Files!KeptAreListed, Files!IsListed
  <2> QED
    BY <2>2, <2>3, <2>4, <2>5, <2>6 DEF Files!GoneStayPut, Files!IsListed
<1> QED
  BY <1>2, <1>3

LEMMA FilesStart == Files!Init => Files!TypeOK /\ Files!WatcherInv
<1> SUFFICES ASSUME Files!Init PROVE Files!TypeOK /\ Files!WatcherInv
  OBVIOUS
<1>1. PICK n \in Nat : n = Cardinality(Paths) /\ 1..n \subseteq Files!Ids \ {0} /\ 1..n \subseteq 1..MaxIno
  BY FilesAssumption, FS_CardinalityType DEF Files!Ids
<1>2. \E g \in [Paths -> 1..n] : \A p, q \in Paths : g[p] = g[q] => p = q
  <2>1. ExistsBijection(Paths, 1..n)
    BY <1>1, FilesAssumption, FS_CardinalityType, Fun_ExistsBijSymmetric
  <2> QED
    BY <2>1 DEF ExistsBijection, Bijection, Injection, IsInjective
<1> DEFINE f == CHOOSE g \in [Paths -> 1..Files!Cardinality(Paths)] : \A p, q \in Paths : g[p] = g[q] => p = q
<1>3. PICK full \in SUBSET Paths :
        /\ rows = [p \in Paths |-> IF p \in full THEN [id |-> f[p], text |-> 0] ELSE Files!NoRow]
        /\ disk = [p \in Paths |-> IF p \in full THEN [ino |-> f[p], stamp |-> 0, text |-> 0] ELSE Files!NoFile]
  BY DEF Files!Init
<1>8. f \in [Paths -> 1..n] /\ \A p, q \in Paths : f[p] = f[q] => p = q
  BY <1>1, <1>2, SameSize
<1> HIDE DEF f
<1>4. RowsOK(rows) /\ DiskOK(disk)
  BY <1>1, <1>3, <1>8, SmallValues DEF RowsOK, DiskOK, Files!RowStates, Files!FileStates
<1>5. /\ scan \in [Terminals -> Scans] /\ \A w \in Terminals : scan[w].step = "idle"
      /\ known \in [Terminals -> [Paths -> Entries]]
  BY IdleOK, SmallValues DEF Files!Init
<1>6. kept = [w \in Terminals |-> {}] /\ terminal \in [Terminals -> BOOLEAN]
  BY DEF Files!Init
<1>7. ops \in 0..MaxOps
  BY FilesAssumption DEF Files!Init
<1> QED
  BY <1>4, <1>5, <1>6, <1>7, TypesSplit DEF Files!Init, Files!WatcherInv, Files!RealIds

(* The invariant of rows and disk holds for any number of terminals: a row  *)
(* whose file stayed where a watcher listed it, and that no other watcher   *)
(* moved, is not among those its scan takes for gone                        *)
(* (terminal/terminalHandler.ts, startTerminalWatcher). *)
THEOREM FilesInvariant == Files!Spec => [](Files!TypeOK /\ Files!WatcherInv)
<1>1. ASSUME Files!TypeOK, Files!WatcherInv, [Files!Next]_(Files!vars) PROVE Files!TypeOK' /\ Files!WatcherInv'
  <2>1. Files!RealIds
    BY <1>1 DEF Files!WatcherInv
  <2>2. Files!TypeOK' /\ Files!RealIds'
    BY <1>1, <2>1, FilesTypes
  <2>3. ASSUME NEW w \in Terminals
        PROVE  /\ scan'[w].step = "listed" => Files!KeptAreListed(w, rows)'
               /\ scan'[w].step = "compared" => Files!KeptAreListed(w, scan[w].rows)' /\ Files!GoneStayPut(w)'
    BY <1>1, ListedStep, ComparedStep
  <2> QED
    BY <2>2, <2>3 DEF Files!WatcherInv
<1> QED
  BY <1>1, FilesStart, PTL DEF Files!Spec

(* The deletions of a watcher: of a file that the listing found there none  *)
(* is. *)
LEMMA DeletesGone ==
    ASSUME Files!TypeOK, Files!WatcherInv, NEW w \in Terminals, NEW g \in Paths, Files!Delete(w, g),
           NEW p \in Paths, rows[p].id \in kept[w], ~Files!HasRow(p)'
    PROVE  scan[w].misread \/ p \in Hidden
<1>0. Files!KeptAreListed(w, scan[w].rows) /\ Files!GoneStayPut(w) /\ rows[p].id # 0
  <2>1. scan[w].step = "compared"
    BY DEF Files!Delete
  <2> QED
    BY <2>1 DEF Files!WatcherInv, Files!RealIds
<1>1. g \in scan[w].gone /\ rows[p].id = scan[w].rows[g].id
  BY <1>0 DEF Files!Delete, Files!HasRow
<1>2. g = p
  BY <1>0, <1>1 DEF Files!GoneStayPut
<1> QED
  BY <1>0, <1>1, <1>2 DEF Files!KeptAreListed, Files!GoneStayPut

(* For any paths, terminals and operations of the model, whatever syncs,    *)
(* saves and other scans run beside a scan: it deletes the row of a file    *)
(* only when, since the listing, the file has left its path or another      *)
(* watcher has moved the row, or when the listing failed or leaves the path  *)
(* out (runScan).  Renaming over HTTP is not among the operations. *)
THEOREM WatcherSparesFiles == Files!Spec => RowsGoOnlyWhenRemoved
<1>1. ASSUME Files!TypeOK, Files!WatcherInv
      PROVE  [\A w \in Terminals, p \in Paths :
                Files!TakesRowOf(w, p) /\ rows[p].id \in kept[w] => scan[w].misread \/ p \in Hidden]_(Files!vars)
  BY <1>1, DeletesGone DEF Files!TakesRowOf
<1> QED
  BY <1>1, FilesInvariant, PTL DEF RowsGoOnlyWhenRemoved, Files!RowsGoOnlyWhenRemoved
=============================================================================
