------------------------------ MODULE ConflictBlocks ------------------------------
(***************************************************************************)
(* Conflict markers of a file: parseConflicts of utils/conflictParser.ts   *)
(* and what components/Conflict/ConflictResolver.tsx makes of its blocks.  *)
(*                                                                         *)
(* A line is a marker (it opens, divides or closes a conflict) or text; a  *)
(* line of text is known by its number, 0 is an empty line.  Joining no    *)
(* lines gives the empty text, which is a line again once it is joined.    *)
(***************************************************************************)
EXTENDS Naturals, Sequences, SequencesExt

CONSTANT MaxFileLines   \* bound: lines of the file

VARIABLE lines   \* the kinds of the file's lines
conflictVars == <<lines>>

Kinds == {"opens", "divides", "closes", "text"}

-----------------------------------------------------------------------------
(* parseConflicts: the loop's variables and its body. *)

Start == [blocks |-> <<>>, inside |-> "unchanged", unchanged |-> <<>>, ours |-> <<>>, theirs |-> <<>>]

Flushed(s) ==
    IF s.unchanged = <<>> THEN s
    ELSE [s EXCEPT !.blocks = Append(@, [type |-> "unchanged", content |-> s.unchanged]), !.unchanged = <<>>]

Block(s) == [type |-> "conflict", ours |-> s.ours, theirs |-> s.theirs]

(* Mutant: the buffers of a closed block are kept. *)
ClosedKeepingSides(s) == [s EXCEPT !.blocks = Append(@, Block(s)), !.inside = "unchanged"]
Closed(s) == [s EXCEPT !.blocks = Append(@, Block(s)), !.ours = <<>>, !.theirs = <<>>, !.inside = "unchanged"]

Scan(s, line) ==
    CASE line.kind = "opens" -> [Flushed(s) EXCEPT !.inside = "ours"]
      [] line.kind = "divides" -> [s EXCEPT !.inside = "theirs"]
      [] line.kind = "closes" -> Closed(s)
      [] OTHER -> CASE s.inside = "unchanged" -> [s EXCEPT !.unchanged = Append(@, line.number)]
                    [] s.inside = "ours" -> [s EXCEPT !.ours = Append(@, line.number)]
                    [] OTHER -> [s EXCEPT !.theirs = Append(@, line.number)]

ParseConflicts(file) ==
    Flushed(FoldLeft(Scan, Start, [k \in DOMAIN file |-> [kind |-> file[k], number |-> k]])).blocks

(* handleResolve: the side chosen for every conflict, blocks joined. *)
Joined(part) == IF part = <<>> THEN <<0>> ELSE part
Resolved(blocks, side) ==
    FlattenSeq([k \in DOMAIN blocks |->
        Joined(IF blocks[k].type = "unchanged" THEN blocks[k].content
               ELSE IF side[k] = "ours" THEN blocks[k].ours ELSE blocks[k].theirs)])

-----------------------------------------------------------------------------
Init == lines = <<>>
AddLine == \E kind \in Kinds : Len(lines) < MaxFileLines /\ lines' = Append(lines, kind)
Next == AddLine
Spec == Init /\ [][Next]_conflictVars

-----------------------------------------------------------------------------
(* Properties. *)

(* Markers as git writes them: in turn, and the last conflict is closed. *)
Markers == SelectSeq(lines, LAMBDA k : k # "text")
WellFormed ==
    /\ Len(Markers) % 3 = 0
    /\ \A k \in DOMAIN Markers :
        Markers[k] = CASE k % 3 = 1 -> "opens" [] k % 3 = 2 -> "divides" [] OTHER -> "closes"

MarkersBefore(k) == Len(SelectSeq(SubSeq(lines, 1, k), LAMBDA m : m # "text"))

(* A line of text stays when it is outside or on the side chosen for its   *)
(* conflict, the n-th of the file. *)
Stays(k, side) ==
    LET before == MarkersBefore(k) IN
    /\ lines[k] = "text"
    /\ CASE before % 3 = 0 -> TRUE
         [] before % 3 = 1 -> side[before \div 3 + 1] = "ours"
         [] OTHER -> side[before \div 3 + 1] = "theirs"

(* Resolving a file with well-formed markers keeps, in order, exactly the  *)
(* text outside the conflicts and that of the chosen sides, and adds one   *)
(* empty line for each empty side; every conflict makes one block.         *)
ResolutionsKeepText ==
    WellFormed =>
        LET blocks == ParseConflicts(lines)
            conflicts == {k \in DOMAIN blocks : blocks[k].type = "conflict"}
            n == Len(Markers) \div 3 IN
        /\ Cardinality(conflicts) = n
        /\ \A side \in [1..n -> {"ours", "theirs"}] :
            LET Nth(k) == Cardinality({j \in conflicts : j <= k})
                text == Resolved(blocks, [k \in DOMAIN blocks |-> IF k \in conflicts THEN side[Nth(k)] ELSE "ours"]) IN
            /\ SelectSeq(text, LAMBDA l : l # 0)
                = SelectSeq([k \in DOMAIN lines |-> IF Stays(k, side) THEN k ELSE 0], LAMBDA l : l # 0)
            /\ Len(SelectSeq(text, LAMBDA l : l = 0)) =
                Cardinality({k \in conflicts : (IF side[Nth(k)] = "ours" THEN blocks[k].ours ELSE blocks[k].theirs) = <<>>})
=============================================================================
