------------------------------- MODULE MCServices -------------------------------
(* Instances for TLC of the parts around the collaboration that share      *)
(* nothing with each other: those of Services, and the pure algorithms.    *)
(* In each behaviour one of them moves: the states of the run are the sum  *)
(* of theirs.                                                              *)
EXTENDS Services, TLC

CONSTANTS
    Directories, Names, MaxFiles, Lines, MaxLines, CONTEXT, Clients, MaxItems, MaxFileLines,
    MaxCursors

VARIABLES part,
    committed, head, oldText, newText, items, lines, cursors

Trees == INSTANCE MerkleTree WITH files <- committed, Contents <- {1, 2}
Diffs == INSTANCE LineDiff
History == INSTANCE Timeline
Conflicts == INSTANCE ConflictBlocks
Codec == INSTANCE CursorCodec WITH Hashes <- {0, 65535, 65537}, Positions <- {-1, 0, 65535, 65540}

(* Two demo names that differ in case, and a GitHub account with and       *)
(* without the email of the first. *)
DemoAndGithub ==
    {[name |-> n, email |-> "ann@test.local", github |-> "none"] : n \in {"ann", "Ann"}}
        \cup {[name |-> "Ann", email |-> e, github |-> "42"] : e \in {"ann@mail", "ann@test.local"}}
ThreeLogins == 1..3
(* Two sockets on one pod. *)
TwoSockets == {"s1", "s2"}
OnOnePod == [s \in TwoSockets |-> CHOOSE p \in Pods : TRUE]
(* Two files of one name and one of another. *)
ThreeTabs == 1..3
TabNames == <<"a", "a", "b">>

poolVars == vars
algorithmVars == <<committed, head, oldText, newText, items, lines, cursors>>
allVars == <<part, poolVars, debouncerVars, workerVars, algorithmVars, panelVars, playerVars, accessVars,
             accountVars, pageVars, presenceVars, editorVars, textVars>>

MCInit ==
    /\ part \in {"pool", "debouncer", "workers", "trees", "diffs", "history", "conflicts", "codec",
                 "panel", "player", "roles", "users", "page", "presence", "editor", "text"}
    /\ Init /\ DebouncerInit /\ Workers!Init /\ Trees!Init /\ Diffs!Init /\ History!Init
    /\ Conflicts!Init /\ Codec!Init /\ Panel!Init /\ Player!Init /\ Roles!Init /\ Users!Init /\ Page!Init
    /\ Present!Init /\ Editor!Init /\ File!Init
    /\ part # "trees" => committed = <<>>
    /\ part # "diffs" => oldText = <<"a">> /\ newText = <<"a">>
    /\ part # "panel" => taken = {}
    /\ part # "roles" => ~isPublic /\ \A u \in Guests : collab[u] = "none"
    /\ part # "page" => rows = {}
    /\ part # "editor" => tab = 1
    /\ part # "text" => stored = File!Blank

(* The rest stands still. *)
PoolMoves ==
    /\ part = "pool" /\ Next
    /\ UNCHANGED <<part, debouncerVars, workerVars, algorithmVars, panelVars, playerVars, accessVars, accountVars, pageVars, presenceVars, editorVars, textVars>>
DebouncerMoves ==
    /\ part = "debouncer" /\ DebouncerNext
    /\ UNCHANGED <<part, poolVars, workerVars, algorithmVars, panelVars, playerVars, accessVars, accountVars, pageVars, presenceVars, editorVars, textVars>>
WorkersMove ==
    /\ part = "workers" /\ Workers!Next
    /\ UNCHANGED <<part, poolVars, debouncerVars, algorithmVars, panelVars, playerVars, accessVars, accountVars, pageVars, presenceVars, editorVars, textVars>>
AlgorithmsMove ==
    /\ \/ part = "trees" /\ Trees!Next /\ UNCHANGED <<oldText, newText, items, lines, cursors>>
       \/ part = "diffs" /\ Diffs!Next /\ UNCHANGED <<committed, head, items, lines, cursors>>
       \/ part = "history" /\ History!Next /\ UNCHANGED <<committed, head, oldText, newText, lines, cursors>>
       \/ part = "conflicts" /\ Conflicts!Next /\ UNCHANGED <<committed, head, oldText, newText, items, cursors>>
       \/ part = "codec" /\ Codec!Next /\ UNCHANGED <<committed, head, oldText, newText, items, lines>>
    /\ UNCHANGED <<part, poolVars, debouncerVars, workerVars, panelVars, playerVars, accessVars, accountVars, pageVars, presenceVars, editorVars, textVars>>
PanelMoves ==
    /\ part = "panel" /\ Panel!Next
    /\ UNCHANGED <<part, poolVars, debouncerVars, workerVars, algorithmVars, playerVars, accessVars, accountVars, pageVars, presenceVars, editorVars, textVars>>
PlayerMoves ==
    /\ part = "player" /\ Player!Next
    /\ UNCHANGED <<part, poolVars, debouncerVars, workerVars, algorithmVars, panelVars, accessVars, accountVars, pageVars, presenceVars, editorVars, textVars>>
RolesMove ==
    /\ part = "roles" /\ Roles!Next
    /\ UNCHANGED <<part, poolVars, debouncerVars, workerVars, algorithmVars, panelVars, playerVars, accountVars, pageVars, presenceVars, editorVars, textVars>>
UsersMove ==
    /\ part = "users" /\ Users!Next
    /\ UNCHANGED <<part, poolVars, debouncerVars, workerVars, algorithmVars, panelVars, playerVars, accessVars, pageVars, presenceVars, editorVars, textVars>>
PageMoves ==
    /\ part = "page" /\ Page!Next
    /\ UNCHANGED <<part, poolVars, debouncerVars, workerVars, algorithmVars, panelVars, playerVars, accessVars, accountVars, presenceVars, editorVars, textVars>>
PresenceMoves ==
    /\ part = "presence" /\ Present!Next
    /\ UNCHANGED <<part, poolVars, debouncerVars, workerVars, algorithmVars, panelVars, playerVars, accessVars, accountVars, pageVars, editorVars, textVars>>
EditorMoves ==
    /\ part = "editor" /\ Editor!Next
    /\ UNCHANGED <<part, poolVars, debouncerVars, workerVars, algorithmVars, panelVars, playerVars, accessVars, accountVars, pageVars, presenceVars, textVars>>
(* Nothing is said of a text after a meeting that the code does not allow  *)
(* for: these behaviours end there. *)
TextMoves ==
    /\ part = "text" /\ ~upset /\ File!Next
    /\ UNCHANGED <<part, poolVars, debouncerVars, workerVars, algorithmVars, panelVars, playerVars, accessVars, accountVars, pageVars, presenceVars, editorVars>>

MCNext ==
    PoolMoves \/ DebouncerMoves \/ WorkersMove \/ AlgorithmsMove \/ PanelMoves \/ PlayerMoves
        \/ RolesMove \/ UsersMove \/ PageMoves \/ PresenceMoves \/ EditorMoves \/ TextMoves

MCSpec == MCInit /\ [][MCNext]_allVars

(* Requests differ in nothing but their name. *)
Alike == Permutations(Requests)

(* The pure algorithms against what they are for: trees and their          *)
(* difference, line diffs, the timeline of a text, resolved conflicts,     *)
(* binary cursors. *)
AlgorithmsAreRight ==
    /\ part = "trees" => Trees!TreesAreCanonical
    /\ part = "diffs" => Diffs!DiffsAreMinimal
    /\ part = "history" => History!TimelineIsFaithful
    /\ part = "conflicts" => Conflicts!ResolutionsKeepText
    /\ part = "codec" => Codec!FramesRoundTrip
=============================================================================
