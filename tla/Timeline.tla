--------------------------------- MODULE Timeline ---------------------------------
(***************************************************************************)
(* The frames of a file's replay: extractSnapshotFromYText of              *)
(* services/workspaceFile.service.ts, its copy snapshotFromYText and       *)
(* buildLegacyTimeline of components/Editor/TimelapseReplayer.tsx.         *)
(*                                                                         *)
(* A Yjs text is a list of characters in document order, the deleted ones  *)
(* among them.  Each was inserted by a client at a tick of the client's    *)
(* clock; a deletion has no tick.                                          *)
(***************************************************************************)
EXTENDS Integers, Sequences, FiniteSetsExt, SequencesExt

CONSTANTS
    Clients,
    MaxItems     \* bound: characters ever inserted

VARIABLES items   \* the text's list
timelineVars == <<items>>

Characters == {"letter", "newline"}
Item == [char : Characters, client : Clients, clock : Nat, deleted : BOOLEAN]

-----------------------------------------------------------------------------
(* One frame. *)

Visible(list) == SelectSeq(list, LAMBDA it : ~it.deleted)

(* Mutant: a run goes on over the end of the line. *)
OverLines(s, k) == k > 1 /\ s[k - 1].client = s[k].client /\ s[k].char # "newline"
Continues(s, k) == k > 1 /\ s[k - 1].char # "newline" /\ s[k - 1].client = s[k].client /\ s[k].char # "newline"

(* The text, and a range of offsets for each run of one client on a line. *)
SnapshotOf(s) ==
    LET Starts(k) == s[k].char # "newline" /\ ~Continues(s, k)
        End(k) == Min({j \in k..Len(s) : j = Len(s) \/ ~Continues(s, j + 1)})
    IN [text |-> [k \in DOMAIN s |-> s[k].char],
        authorRanges |-> {[start |-> k - 1, end |-> End(k), clientId |-> s[k].client]
                            : k \in {j \in DOMAIN s : Starts(j)}}]

(* offsetToPosition: line and column, from one, walking line by line. *)
LineEnds(text) == {k \in DOMAIN text : text[k] = "newline"}
OffsetToPosition(text, offset) ==
    LET before == {k \in LineEnds(text) : k <= offset} IN
    [lineNumber |-> Cardinality(before) + 1,
     column |-> offset - (IF before = {} THEN 0 ELSE Max(before)) + 1]

-----------------------------------------------------------------------------
(* buildLegacyTimeline: clocks of all clients on one axis.  They are       *)
(* doubled, so that a deletion half a tick later is a number.              *)

RunStart(list, k) == Min({j \in 1..k : \A i \in j..k : list[i].deleted /\ list[i].client = list[k].client})
RunEnd(list, k) == Max({j \in k..Len(list) : \A i \in k..j : list[i].deleted /\ list[i].client = list[k].client})

InsertClock(list, k) == 2 * list[k].clock

(* Mutant: a deletion comes with the insertion. *)
DeletedAtOnce(list, k) == InsertClock(list, k)
DeleteClock(list, k) == Max({InsertClock(list, i) : i \in RunStart(list, k)..RunEnd(list, k)}) + 1

AllClocks(list) ==
    {InsertClock(list, k) : k \in DOMAIN list}
        \cup {DeleteClock(list, k) : k \in {j \in DOMAIN list : list[j].deleted}}
SequenceOf(list, clock) == Cardinality({c \in AllClocks(list) : c <= clock})

(* The items of the frame at pos, in document order. *)
FrameItems(list, pos) ==
    LET Shown(k) == /\ SequenceOf(list, InsertClock(list, k)) <= pos
                    /\ list[k].deleted => SequenceOf(list, DeleteClock(list, k)) > pos
        places == SetToSortSeq({k \in DOMAIN list : Shown(k)}, <)
    IN [k \in DOMAIN places |-> list[places[k]]]

LegacyFrames(list) == [pos \in 0..Cardinality(AllClocks(list)) |-> SnapshotOf(FrameItems(list, pos))]

-----------------------------------------------------------------------------
Init == items = <<>>

Clock(c) == Cardinality({k \in DOMAIN items : items[k].client = c})

InsertText(c, at, ch) ==
    /\ Len(items) < MaxItems
    /\ items' = InsertAt(items, at, [char |-> ch, client |-> c, clock |-> Clock(c), deleted |-> FALSE])

DeleteText(k) ==
    /\ ~items[k].deleted
    /\ items' = [items EXCEPT ![k].deleted = TRUE]

Next ==
    \/ \E c \in Clients, at \in 1..(Len(items) + 1), ch \in Characters : InsertText(c, at, ch)
    \/ \E k \in DOMAIN items : DeleteText(k)
Spec == Init /\ [][Next]_timelineVars

-----------------------------------------------------------------------------
(* Properties. *)

(* Ranges name the author of each character of a line and nothing else,    *)
(* and none spans two lines, so that a range of offsets is one of columns. *)
RangesAreRight(s) ==
    LET snap == SnapshotOf(s) IN
    /\ \A k \in DOMAIN s :
        LET over == {r \in snap.authorRanges : r.start < k /\ k <= r.end} IN
        IF s[k].char = "newline" THEN over = {}
        ELSE Cardinality(over) = 1 /\ \A r \in over : r.clientId = s[k].client
    /\ \A r \in snap.authorRanges :
        LET from == OffsetToPosition(snap.text, r.start)  to == OffsetToPosition(snap.text, r.end) IN
        from.lineNumber = to.lineNumber /\ to.column - from.column = r.end - r.start

(* A replay starts empty and ends with the text as it is, each frame's     *)
(* authors are right, and every character, deleted ones too, can be seen   *)
(* in some frame.                                                          *)
TimelineIsFaithful ==
    LET frames == LegacyFrames(items)  last == Cardinality(AllClocks(items)) IN
    /\ frames[0].text = <<>>
    /\ frames[last] = SnapshotOf(Visible(items))
    /\ \A pos \in 0..last : RangesAreRight(FrameItems(items, pos))
    /\ \A k \in DOMAIN items : \E pos \in 0..last :
        \E i \in DOMAIN FrameItems(items, pos) : FrameItems(items, pos)[i] = items[k]
=============================================================================
