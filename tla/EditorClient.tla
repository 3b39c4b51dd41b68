---------------------------- MODULE EditorClient ----------------------------
(* One editor pane (src/frontend/src/hooks/useCodeEditorSetup.ts and       *)
(* components/Editor/CodeEditor.tsx): a Yjs document and a provider for    *)
(* the file that is open, a Monaco model for its NAME, and the binding     *)
(* between the two.  Texts are sets of edits; the rooms on the server are  *)
(* edited by others too.                                                   *)
EXTENDS Integers, FiniteSets

CONSTANTS
    Tabs,           \* the files that can be opened
    NameOf,         \* the name of each: two directories may use one name
    MaxTyped,       \* bound: edits, here and elsewhere
    MaxLosses,      \* bound: lost connections
    MaxOpened       \* bound: switches of the file

VARIABLES
    rooms,          \* the text of each file on the server
    tab, ydoc,      \* the file that is open, its document here
    link,           \* the provider: closed, open, or open with the server's state received (synced)
    uploaded,       \* the server has asked for, and got, what the document had
    bound,          \* a MonacoBinding exists
    models,         \* the text of each Monaco model
    typed,          \* history: the edits made in this editor while bound; all edits are counted
    abandoned,      \* history: edits of documents closed before the server had them
    edits, losses, opened

editorVars == <<rooms, tab, ydoc, link, uploaded, bound, models, typed, abandoned, edits, losses, opened>>

ModelNames == {NameOf[t] : t \in Tabs}
Edits(t) == {t} \X (1..MaxTyped)
AllEdits == Tabs \X (1..MaxTyped)

-----------------------------------------------------------------------------
(* The effect on a document t opened anew: MonacoBinding sets the model to *)
(* the text of the document; without the server's state it is not created  *)
(* over a model that still holds a text. *)
CanBind(t, m) == m[NameOf[t]] = {}
Start(t, m) ==
    /\ tab' = t /\ ydoc' = {} /\ link' = "closed" /\ uploaded' = FALSE
    /\ bound' = CanBind(t, m) /\ models' = m

Init ==
    /\ rooms \in [Tabs -> SUBSET {}]
    /\ tab \in Tabs /\ ydoc = {} /\ link = "closed" /\ uploaded = FALSE /\ bound = TRUE
    /\ models = [n \in ModelNames |-> {}] /\ typed = {} /\ abandoned = {}
    /\ edits = 0 /\ losses = 0 /\ opened = 0

(* Another file is opened: the cleanup destroys binding, provider and      *)
(* document (and empties the tab cache, so the next effect always starts   *)
(* from nothing); the editor shows the model of the new name. *)
Open(t) ==
    /\ t # tab /\ opened < MaxOpened /\ opened' = opened + 1
    /\ Start(t, models)
    /\ abandoned' = abandoned \cup (ydoc \ rooms[tab])
    /\ UNCHANGED <<rooms, typed, edits, losses>>

Connect ==
    /\ link = "closed" /\ link' = "open" /\ uploaded' = FALSE
    /\ UNCHANGED <<rooms, tab, ydoc, bound, models, typed, abandoned, edits, losses, opened>>

(* The server's sync step 2: 'sync' fires, and the binding is made anew on *)
(* the model, whatever it held. *)
KeepsBinding == bound     \* a mutant: the sync event leaves the binding as it is
Rebound == TRUE
Synced ==
    /\ link = "open" /\ link' = "synced"
    /\ ydoc' = ydoc \cup rooms[tab] /\ bound' = Rebound
    /\ models' = IF bound' THEN [models EXCEPT ![NameOf[tab]] = ydoc'] ELSE models
    /\ UNCHANGED <<rooms, tab, uploaded, typed, abandoned, edits, losses, opened>>

(* The answer to the server's sync step 1. *)
Upload ==
    /\ link # "closed" /\ ~uploaded /\ uploaded' = TRUE
    /\ rooms' = [rooms EXCEPT ![tab] = @ \cup ydoc]
    /\ UNCHANGED <<tab, ydoc, link, bound, models, typed, abandoned, edits, losses, opened>>

(* The user types.  A bound model passes the edit to the document, and an  *)
(* open connection to the room; in an unbound one it stays in the model. *)
Type ==
    /\ edits < MaxTyped /\ edits' = edits + 1
    /\ LET e == <<tab, edits + 1>> IN
           /\ models' = [models EXCEPT ![NameOf[tab]] = @ \cup {e}]
           /\ ydoc' = IF bound THEN ydoc \cup {e} ELSE ydoc
           /\ typed' = IF bound THEN typed \cup {e} ELSE typed
           /\ rooms' = IF bound /\ link # "closed" THEN [rooms EXCEPT ![tab] = @ \cup {e}] ELSE rooms
    /\ UNCHANGED <<tab, link, uploaded, bound, abandoned, losses, opened>>

(* Somebody else edits a file; the room of the open one passes it on. *)
OtherTypes(t) ==
    /\ edits < MaxTyped /\ edits' = edits + 1
    /\ LET e == <<t, edits + 1>>
           arrives == t = tab /\ link = "synced"
       IN /\ rooms' = [rooms EXCEPT ![t] = @ \cup {e}]
          /\ ydoc' = IF arrives THEN ydoc \cup {e} ELSE ydoc
          /\ models' = IF arrives /\ bound THEN [models EXCEPT ![NameOf[t]] = @ \cup {e}] ELSE models
    /\ UNCHANGED <<tab, link, uploaded, bound, typed, abandoned, losses, opened>>

(* The connection breaks; document and binding stay, the provider tries    *)
(* again. *)
Lose ==
    /\ link # "closed" /\ losses < MaxLosses
    /\ losses' = losses + 1 /\ link' = "closed" /\ uploaded' = FALSE
    /\ UNCHANGED <<rooms, tab, ydoc, bound, models, typed, abandoned, edits, opened>>

Next == Connect \/ Synced \/ Upload \/ Type \/ Lose \/ \E t \in Tabs : Open(t) \/ OtherTypes(t)

Spec == Init /\ [][Next]_editorVars

-----------------------------------------------------------------------------
TypeOK ==
    /\ rooms \in [Tabs -> SUBSET AllEdits] /\ tab \in Tabs /\ ydoc \subseteq AllEdits
    /\ link \in {"closed", "open", "synced"} /\ uploaded \in BOOLEAN /\ bound \in BOOLEAN
    /\ models \in [ModelNames -> SUBSET AllEdits]
    /\ typed \subseteq AllEdits /\ abandoned \subseteq AllEdits
    /\ edits \in 0..MaxTyped /\ losses \in 0..MaxLosses /\ opened \in 0..MaxOpened

(* No text reaches another file, though files of one name share a model;   *)
(* a bound editor shows its document; once synchronised both ways it is    *)
(* bound and shows what the server has; and an edit made in a bound editor *)
(* is on the server, in the open document, or lost with a document that    *)
(* was closed before the server had it. *)
EditorIsFaithful ==
    /\ \A t \in Tabs : rooms[t] \subseteq Edits(t)
    /\ bound => models[NameOf[tab]] = ydoc
    /\ link = "synced" /\ uploaded => bound /\ ydoc = rooms[tab]
    /\ \A e \in typed : e \in rooms[e[1]] \cup abandoned \/ (e[1] = tab /\ e \in ydoc)

(* Inductive: the open document is of its file, and what a handshake has   *)
(* brought in one direction stays, as both ends pass each edit on. *)
EditorInv ==
    /\ EditorIsFaithful
    /\ ydoc \subseteq Edits(tab)
    /\ link = "synced" => bound /\ rooms[tab] \subseteq ydoc
    /\ uploaded => link # "closed" /\ ydoc \subseteq rooms[tab]
=============================================================================
