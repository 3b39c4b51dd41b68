---------------------------- MODULE TerminalSession ----------------------------
(* A terminal's output (TerminalStream) and the files of its container     *)
(* (ContainerFiles), which share nothing. *)
EXTENDS TerminalStream, FiniteSets

CONSTANTS Terminals, Paths, Hidden, MaxIno, MaxIds, MaxOps    \* see ContainerFiles

VARIABLES disk, rows, live, cool, syncs, terminal, known, scan, ops, kept, shellOnly

Files == INSTANCE ContainerFiles

(* There are numbers for the inodes and rows that the disk starts with. *)
ASSUME FilesAssumption ==
    /\ IsFiniteSet(Paths) /\ Cardinality(Paths) <= MaxIno /\ Cardinality(Paths) <= MaxIds
    /\ MaxIno \in Nat /\ MaxIds \in Nat /\ MaxOps \in Nat

filesVars == <<disk, rows, live, cool, syncs, terminal, known, scan, ops, kept, shellOnly>>

RowsGoOnlyWhenRemoved == Files!RowsGoOnlyWhenRemoved
NamesConverge == Files!NamesConverge
=============================================================================
