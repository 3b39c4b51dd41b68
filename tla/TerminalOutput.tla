---------------------------- MODULE TerminalOutput ----------------------------
(***************************************************************************)
(* What a terminal promises its user: the bytes the shell printed appear   *)
(* in the order they were printed, without a gap and without a repetition, *)
(* until the connection is closed.  A byte is named by its position in the *)
(* output of the shell.                                                    *)
(***************************************************************************)
EXTENDS Naturals, Sequences

VARIABLES
    printed,  \* bytes the shell has printed
    shown,    \* the bytes that reached the terminal of the browser
    open      \* the connection still exists
vars == <<printed, shown, open>>

(* The first n bytes of the output. *)
FirstBytes(n) == [i \in 1..n |-> i]

Init ==
    /\ printed = 0
    /\ shown = <<>>
    /\ open = TRUE

Emit ==
    /\ printed' \in Nat
    /\ printed' > printed
    /\ UNCHANGED <<shown, open>>

Show ==
    /\ open
    /\ Len(shown') \in (Len(shown) + 1)..printed
    /\ shown' = FirstBytes(Len(shown'))
    /\ UNCHANGED <<printed, open>>

Close ==
    /\ open
    /\ open' = FALSE
    /\ UNCHANGED <<printed, shown>>

Next == Emit \/ Show \/ Close

Spec == Init /\ [][Next]_vars
=============================================================================
