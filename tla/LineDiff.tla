--------------------------------- MODULE LineDiff ---------------------------------
(***************************************************************************)
(* The line diff between a snapshot's file and the live one, and what the  *)
(* panel folds away of it: computeDiff and CollapsedDiff of                *)
(* components/Snapshots/SnapshotPanel.tsx.  A text is its lines.           *)
(***************************************************************************)
EXTENDS Naturals, Sequences, FiniteSetsExt, SequencesExt

CONSTANTS
    Lines,      \* contents of a line
    MaxLines,   \* bound: lines of a text
    CONTEXT     \* unchanged lines shown around a change

VARIABLES
    oldText,   \* snapshot_content, split
    newText    \* live_content, split
diffVars == <<oldText, newText>>

-----------------------------------------------------------------------------
(* dp, as a function of the lengths of the two prefixes. *)
Common(a, b) ==
    LET dp[i \in 0..Len(a), j \in 0..Len(b)] ==
            IF i = 0 \/ j = 0 THEN 0
            ELSE IF a[i] = b[j] THEN dp[i - 1, j - 1] + 1
            ELSE Max({dp[i - 1, j], dp[i, j - 1]})
    IN dp

Unchanged(line, i, j) == [type |-> "unchanged", text |-> line, lineA |-> i, lineB |-> j]
Added(line, j) == [type |-> "added", text |-> line, lineA |-> 0, lineB |-> j]
Removed(line, i) == [type |-> "removed", text |-> line, lineA |-> i, lineB |-> 0]

(* Mutant: the walk back prefers the other neighbour. *)
TakesOld(dp, i, j) == j > 0 /\ (i = 0 \/ dp[i, j - 1] < dp[i - 1, j])
TakesNew(dp, i, j) == j > 0 /\ (i = 0 \/ dp[i, j - 1] >= dp[i - 1, j])

(* The walk back from the ends of both texts. *)
ComputeDiff(a, b) ==
    LET dp == Common(a, b)
        walk[i \in 0..Len(a), j \in 0..Len(b)] ==
            IF i = 0 /\ j = 0 THEN <<>>
            ELSE IF i > 0 /\ j > 0 /\ a[i] = b[j] THEN Append(walk[i - 1, j - 1], Unchanged(a[i], i, j))
            ELSE IF TakesNew(dp, i, j) THEN Append(walk[i, j - 1], Added(b[j], j))
            ELSE Append(walk[i - 1, j], Removed(a[i], i))
    IN walk[Len(a), Len(b)]

(* CollapsedDiff: runs of lines that are near a change or not. *)
Near(diff, k) == \E d \in DOMAIN diff : diff[d].type # "unchanged" /\ d <= k + CONTEXT /\ k <= d + CONTEXT
StartsGroup(diff, k) == k = 1 \/ (Near(diff, k) # Near(diff, k - 1))
Groups(diff) ==
    {[first |-> k, hidden |-> ~Near(diff, k),
      last |-> Min({j \in k..Len(diff) : j = Len(diff) \/ StartsGroup(diff, j + 1)})]
        : k \in {j \in DOMAIN diff : StartsGroup(diff, j)}}

-----------------------------------------------------------------------------
(* split gives at least one line. *)
Init == oldText \in {<<l>> : l \in Lines} /\ newText \in {<<l>> : l \in Lines}

(* Another file is selected: any two texts. *)
Select ==
    \/ \E l \in Lines : Len(oldText) < MaxLines /\ oldText' = Append(oldText, l) /\ UNCHANGED newText
    \/ \E l \in Lines : Len(newText) < MaxLines /\ newText' = Append(newText, l) /\ UNCHANGED oldText

Next == Select
Spec == Init /\ [][Next]_diffVars

-----------------------------------------------------------------------------
(* Properties. *)

Texts(diff, types) == LET kept == SelectSeq(diff, LAMBDA l : l.type \in types)
                      IN [k \in DOMAIN kept |-> kept[k].text]
Chosen(s, picked) == LET places == SetToSortSeq(picked, <) IN [k \in DOMAIN places |-> s[places[k]]]
Subsequences(s) == {Chosen(s, picked) : picked \in SUBSET (DOMAIN s)}

(* The diff is a script from the old text to the new one with its lines    *)
(* numbered right, it keeps as many lines as any common subsequence has,   *)
(* and the folded groups cover it once and hide no change.                 *)
DiffsAreMinimal ==
    LET diff == ComputeDiff(oldText, newText)  groups == Groups(diff) IN
    /\ Texts(diff, {"unchanged", "removed"}) = oldText
    /\ Texts(diff, {"unchanged", "added"}) = newText
    /\ \A k \in DOMAIN diff :
        /\ diff[k].lineA # 0 => oldText[diff[k].lineA] = diff[k].text
        /\ diff[k].lineB # 0 => newText[diff[k].lineB] = diff[k].text
    /\ Len(Texts(diff, {"unchanged"})) =
        Max({Len(s) : s \in Subsequences(oldText) \cap Subsequences(newText)})
    /\ \A k \in DOMAIN diff : Cardinality({g \in groups : k \in g.first..g.last}) = 1
    /\ \A g \in groups : g.hidden => \A k \in g.first..g.last : diff[k].type = "unchanged"
=============================================================================
