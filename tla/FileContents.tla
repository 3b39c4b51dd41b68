------------------------------ MODULE FileContents ------------------------------
(* The text of a file that is replaced as a whole (FileTexts), under names *)
(* the other services leave free. *)
EXTENDS Naturals

CONSTANTS
    MaxValues, MaxReplacements, MaxVisits, MaxReads,
    MaxBroken   \* FileTexts' MaxFaults

VARIABLES
    stored, updates, buffer, stateCache, historyCache, room, doc, saveTimer, saving, saved, orphan,
    change, doomed, reader, after, wanted, texts, upset, mixed, misread, fresh, replacements, visits, reads, broken

File == INSTANCE FileTexts
            WITH rows <- updates, cache <- stateCache, timer <- saveTimer, faults <- broken, MaxFaults <- MaxBroken

ASSUME TextAssumption ==
    /\ MaxValues \in Nat /\ MaxReplacements \in Nat /\ MaxVisits \in Nat
    /\ MaxReads \in Nat /\ MaxBroken \in Nat

textVars == <<stored, updates, buffer, stateCache, historyCache, room, doc, saveTimer, saving, saved, orphan,
              change, doomed, reader, after, wanted, texts, upset, mixed, misread, fresh, replacements, visits, reads, broken>>

(* A text that was put in place of the old one is all there is, with what  *)
(* was typed since, and a replay of the history ends with a text the file  *)
(* had meanwhile: restoreSnapshot, updateFileContent, getFileHistory. *)
TextsAreFaithful == File!TextsAreFaithful
=============================================================================
