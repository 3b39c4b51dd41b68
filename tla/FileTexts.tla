------------------------------- MODULE FileTexts -------------------------------
(***************************************************************************)
(* The text of one file when it is replaced as a whole: restoreSnapshot    *)
(* (services/workspaceSnapshot.service.ts) and updateFileContent           *)
(* (services/workspaceFile.service.ts) write a fresh Y.Doc to the database *)
(* and edit the live one (docsRegistry.ts), while rooms open, save and     *)
(* close (services/yjsSyncEngine.service.ts) and getFileHistory replays    *)
(* the stored updates.                                                     *)
(*                                                                         *)
(* A Y.Doc is the pieces inserted and the pieces deleted, and merging is   *)
(* union.  A piece is a value and the copy of it: the same text inserted   *)
(* twice by two Y.Docs is two pieces.  A piece is shown when what it was   *)
(* inserted next to is there; until then Yjs keeps it pending.  Saves that *)
(* overlap or fail are the subject of DocPersistence; here they do neither.*)
(***************************************************************************)
EXTENDS Naturals

CONSTANTS
    MaxValues,        \* bound: texts typed or put in place of the old one
    MaxReplacements,  \* bound: restores and PUTs
    MaxVisits,        \* bound: times the room opens
    MaxReads,         \* bound: requests for the history
    MaxFaults         \* bound: transactions that fail

Value == 0..MaxValues     \* 0 is files.content of a file that was never opened
Piece == Value \X (0..MaxVisits + 2)
(* The copies: of a replacement, of an edit, of a replay; a load has one of *)
(* its own. *)
Stored == 0
Live == MaxVisits + 1
Base == MaxVisits + 2
Blank == [ins |-> {}, del |-> {}]
Doc == [ins : SUBSET Piece, del : SUBSET Piece]
Missing == [ins |-> {}, del |-> {}, missing |-> TRUE]   \* no such entry, no such snapshot

VARIABLES
    stored,     \* files.yjs_state; Blank stands for NULL
    rows,       \* file_updates of the file
    buffer,     \* its write-behind list in Redis
    cache,      \* yjs:state:<id>
    historyCache, \* file:yjs:<id>:history: "none", or what yjs_state was
    room,       \* none, reading, rows (loading), live, saving, compacting (closing)
    doc,        \* its Y.Doc
    timer,      \* the debouncer has a timer
    saving,     \* the snapshot of a running executeSave
    saved,      \* whether its UPDATE is done
    orphan,     \* a destroyed Y.Doc whose debouncer still has a timer
    change,     \* the replacement under way: its kind, value and progress
    doomed,     \* the rows its transaction deletes
    reader,     \* a getFileHistory: its progress, what it has, what the cache said
    after,      \* history: what each piece was inserted next to
    wanted,     \* history: the values the text should consist of
    texts,      \* history: the texts the file had since the reader began
    upset,      \* history: a replacement met what the README lists
    mixed,      \* history: so did the reader
    misread,    \* history: a replay ended wrongly
    fresh, replacements, visits, reads, faults

storeVars == <<stored, rows, buffer, cache, historyCache>>
roomVars == <<room, doc, timer, saving, saved, orphan>>
changeVars == <<change, doomed>>
countVars == <<fresh, replacements, visits, reads, faults>>
ghostVars == <<after, wanted, upset>>
textVars == <<storeVars, roomVars, changeVars, reader, texts, mixed, misread, ghostVars, countVars>>

Merge(d, e) == [ins |-> d.ins \cup e.ins, del |-> d.del \cup e.del]
Shown(d) == {p \in d.ins \ d.del : after[p] \subseteq d.ins}
Less(d, e) == [ins |-> d.ins \ e.ins, del |-> d.del \ e.del]
Values(pieces) == {p[1] : p \in pieces}
(* Each value once. *)
ReadsAs(pieces, values) == Values(pieces) = values /\ \A p, q \in pieces : p[1] = q[1] => p = q

Idle == [kind |-> "none", value |-> 0, step |-> "none"]
NoRead == [step |-> "idle", doc |-> Blank, hit |-> "none"]

Closing == room \in {"saving", "compacting"}
Loaded == room \in {"live", "saving", "compacting"}
(* The registry has the document; its promise may be pending. *)
Registered == room # "none"
Persisted == Merge(Merge(stored, rows), buffer)
Text == IF Loaded THEN Values(Shown(doc))
        ELSE IF stored = Blank THEN {0} ELSE Values(Shown(Persisted))

Changes == [kind : {"none", "restore", "put"}, value : Value, step : {"none", "written", "applied"}]
Readers == [step : {"idle", "based", "replayed"}, doc : Doc, hit : {"none", "null", "state"}]
DocumentsOK ==
    /\ stored \in Doc /\ rows \in Doc /\ buffer \in Doc /\ doc \in Doc /\ doomed \in Doc
    /\ cache \in Doc \cup {Missing} /\ saving \in Doc \cup {Missing} /\ orphan \in Doc \cup {Missing}
    /\ room = "saving" => saving \in Doc
    /\ after \in [Piece -> SUBSET Piece]
StepsOK ==
    /\ historyCache \in {"none", "null", "state"}
    /\ room \in {"none", "reading", "rows", "live", "saving", "compacting"}
    /\ timer \in BOOLEAN /\ saved \in BOOLEAN /\ upset \in BOOLEAN
    /\ change \in Changes /\ reader \in Readers
    /\ wanted \subseteq Value
CountsOK ==
    /\ fresh \in 1..MaxValues + 1 /\ replacements \in 0..MaxReplacements
    /\ visits \in 0..MaxVisits /\ reads \in 0..MaxReads /\ faults \in 0..MaxFaults
TypeOK ==
    /\ DocumentsOK /\ StepsOK /\ CountsOK
    /\ texts \subseteq SUBSET Value /\ mixed \in BOOLEAN /\ misread \in BOOLEAN

(* A file that was never opened, or one that was and is closed. *)
Init ==
    /\ stored \in {Blank, [ins |-> {<<0, Stored>>}, del |-> {}]}
    /\ rows = Blank /\ buffer = Blank /\ cache = Missing /\ historyCache = "none"
    /\ room = "none" /\ doc = Blank /\ timer = FALSE /\ saving = Missing /\ saved = FALSE
    /\ orphan = Missing /\ change = Idle /\ doomed = Blank /\ reader = NoRead
    /\ after = [p \in Piece |-> {}] /\ wanted = {0} /\ texts = {} /\ upset = FALSE /\ mixed = FALSE /\ misread = FALSE
    /\ fresh = 1 /\ replacements = 0 /\ visits = 0 /\ reads = 0 /\ faults = 0

(* What a document learns goes to the write-behind list as well. *)
Insert(piece, deleted) ==
    /\ doc' = [ins |-> doc.ins \cup {piece}, del |-> doc.del \cup deleted]
    /\ buffer' = [ins |-> buffer.ins \cup {piece}, del |-> buffer.del \cup deleted]
    /\ after' = [after EXCEPT ![piece] = doc.ins]

Learn(d) == doc' = Merge(doc, d) /\ buffer' = Merge(buffer, Less(d, doc))

(* flushFileBuffer.  A new row is not among those that a transaction       *)
(* deletes, even if it repeats one of them. *)
Flush ==
    /\ rows' = Merge(rows, buffer) /\ buffer' = Blank
    /\ doomed' = Less(doomed, buffer)
    /\ cache' = IF buffer = Blank THEN cache ELSE Missing

-----------------------------------------------------------------------------
(* The room. *)

(* getOrCreateDoc.  A close drops the cached state, which ReplacementsHold  *)
(* states: a room opens from the database here. *)
Open ==
    /\ room = "none" /\ visits < MaxVisits /\ cache = Missing
    /\ room' = "reading" /\ doc' = Blank /\ timer' = FALSE /\ visits' = visits + 1
    /\ UNCHANGED <<storeVars, saving, saved, orphan, changeVars, reader, ghostVars, fresh, replacements, reads, faults>>

(* SELECT of the state; without one the content is inserted.  What an open *)
(* transaction has written is not seen.  The document is new and learns     *)
(* all of it: what is stored is buffered again. *)
LoadState ==
    /\ room = "reading" /\ room' = "rows"
    /\ IF Shown(stored) = {} THEN Insert(<<0, visits>>, {})
       ELSE Learn(stored) /\ UNCHANGED after
    /\ upset' = (upset \/ (change.kind = "restore" /\ change.step = "applied"))
    /\ UNCHANGED <<stored, rows, cache, historyCache, timer, saving, saved, orphan, changeVars, reader, wanted, countVars>>

(* SELECT of the rows; the result is cached, and saved in a while. *)
LoadRows ==
    /\ room = "rows" /\ room' = "live"
    /\ Learn(rows) /\ cache' = doc' /\ timer' = TRUE
    /\ UNCHANGED <<stored, rows, historyCache, saving, saved, orphan, changeVars, reader, ghostVars, countVars>>

Type ==
    /\ room = "live" /\ fresh <= MaxValues
    /\ Insert(<<fresh, Live>>, {}) /\ wanted' = wanted \cup {fresh}
    /\ fresh' = fresh + 1 /\ timer' = TRUE
    /\ UNCHANGED <<stored, rows, cache, historyCache, room, saving, saved, orphan, changeVars, reader, upset, replacements, visits, reads, faults>>

SaveStart ==
    /\ room = "live" /\ timer /\ timer' = FALSE
    /\ saving = Missing /\ saving' = doc /\ saved' = FALSE
    /\ UNCHANGED <<storeVars, room, doc, orphan, changeVars, reader, ghostVars, countVars>>

(* isSaving: the timer has fired for nothing. *)
SaveDropped ==
    /\ room = "live" /\ timer /\ saving # Missing /\ timer' = FALSE
    /\ UNCHANGED <<storeVars, room, doc, saving, saved, orphan, changeVars, reader, ghostVars, countVars>>

(* The transaction of a restore holds the lock of the row. *)
RowFree == ~(change.kind = "restore" /\ change.step # "none")
SaveUpdate ==
    /\ room = "live" /\ saving # Missing /\ ~saved /\ RowFree
    /\ stored' = saving /\ saved' = TRUE
    /\ UNCHANGED <<rows, buffer, cache, historyCache, room, doc, timer, saving, orphan, changeVars, reader, ghostVars, countVars>>

(* The flush and what the save drops from the caches. *)
Uncached ==
    /\ rows' = Merge(rows, buffer) /\ buffer' = Blank /\ doomed' = Less(doomed, buffer)
    /\ cache' = Missing /\ historyCache' = "none"
SaveEnd ==
    /\ room = "live" /\ saved /\ saving' = Missing /\ saved' = FALSE
    /\ Uncached
    /\ UNCHANGED <<stored, room, doc, timer, orphan, change, reader, ghostVars, countVars>>

(* The last client goes: performFinalSave cancels the timer and saves. *)
Leave ==
    /\ room = "live" /\ saving = Missing
    /\ room' = "saving" /\ timer' = FALSE /\ saving' = doc
    /\ upset' = (upset \/ change # Idle)
    /\ UNCHANGED <<storeVars, doc, saved, orphan, changeVars, reader, after, wanted, countVars>>

FinalUpdate ==
    /\ room = "saving" /\ ~saved /\ RowFree
    /\ stored' = saving /\ saved' = TRUE
    /\ UNCHANGED <<rows, buffer, cache, historyCache, room, doc, timer, saving, orphan, changeVars, reader, ghostVars, countVars>>

FinalFlush ==
    /\ room = "saving" /\ saved /\ saving' = Missing /\ saved' = FALSE /\ room' = "compacting"
    /\ Uncached
    /\ UNCHANGED <<stored, doc, timer, orphan, change, reader, ghostVars, countVars>>

(* compactFileCrdtDeltas, unless it fails, which nobody hears of; then the *)
(* room is given up.  Its debouncer is not. *)
Reclaim ==
    /\ room' = "none" /\ doc' = Blank /\ timer' = FALSE
    /\ orphan' = IF timer THEN doc ELSE orphan
Compact ==
    /\ room = "compacting" /\ RowFree
    /\ stored' = Merge(stored, rows) /\ rows' = Blank
    /\ Reclaim
    /\ UNCHANGED <<buffer, cache, historyCache, saving, saved, changeVars, reader, ghostVars, countVars>>
CompactFails ==
    /\ room = "compacting" /\ rows # Blank
    /\ faults < MaxFaults /\ faults' = faults + 1
    /\ Reclaim
    /\ UNCHANGED <<storeVars, saving, saved, changeVars, reader, ghostVars, fresh, replacements, visits, reads>>

(* The timer of a destroyed document: executeSave, as before. *)
OrphanSave ==
    /\ orphan # Missing /\ RowFree /\ orphan' = Missing
    /\ stored' = orphan /\ Uncached
    /\ UNCHANGED <<room, doc, timer, saving, saved, change, reader, ghostVars, countVars>>

WorkerFlush ==
    /\ buffer # Blank /\ Flush
    /\ UNCHANGED <<stored, historyCache, roomVars, change, reader, ghostVars, countVars>>

-----------------------------------------------------------------------------
(* Replacements, one at a time. *)

Fresh(v) == [ins |-> {<<v, Stored>>}, del |-> {}]
Begin(kind) ==
    /\ change = Idle /\ fresh <= MaxValues /\ replacements < MaxReplacements
    /\ change' = [kind |-> kind, value |-> fresh, step |-> "written"]
    /\ fresh' = fresh + 1 /\ replacements' = replacements + 1

(* Mutant: the updates of the replaced text stay. *)
RowsLeft == Blank

(* DELETE FROM file_updates, in the transaction *)
RowsDeleted == rows

(* BEGIN, UPDATE and DELETE; the cache of the state goes at once. *)
Restore ==
    /\ Begin("restore")
    /\ doomed' = RowsDeleted /\ cache' = Missing
    /\ upset' = (upset \/ Closing)
    /\ UNCHANGED <<stored, rows, buffer, historyCache, roomVars, reader, after, wanted, visits, reads, faults>>

(* updateFileAndYjsState, and the cache of the history.  Rows that outlive *)
(* a compaction that failed bring their text back. *)
Put ==
    /\ Begin("put")
    /\ stored' = Fresh(fresh) /\ historyCache' = "none"
    /\ upset' = (upset \/ Closing \/ (room = "none" /\ rows # Blank))
    /\ UNCHANGED <<rows, buffer, cache, roomVars, doomed, reader, after, wanted, visits, reads, faults>>

(* Mutant: the new text is added to the old. *)
NothingDeleted == {}

(* ytext.delete(0, ytext.length) *)
AllDeleted == Shown(doc)

(* applyRestoredContentToLiveDocs waits for a document that is loading.    *)
(* One that is being closed changes too. *)
ApplyToLiveDoc ==
    /\ change.step = "written" /\ room \notin {"reading", "rows"}
    /\ change' = IF change.kind = "put" THEN Idle ELSE [change EXCEPT !.step = "applied"]
    /\ wanted' = {change.value}
    /\ IF Loaded
       THEN Insert(<<change.value, Live>>, AllDeleted) /\ timer' = TRUE
       ELSE UNCHANGED <<doc, buffer, after, timer>>
    /\ upset' = (upset \/ Closing \/ orphan # Missing)
    /\ UNCHANGED <<stored, rows, cache, historyCache, room, saving, saved, orphan, doomed, reader, countVars>>

Commit ==
    /\ change.step = "applied"
    /\ stored' = Fresh(change.value)
    /\ rows' = Less(rows, doomed)
    /\ change' = Idle /\ doomed' = Blank
    /\ UNCHANGED <<buffer, cache, historyCache, roomVars, reader, ghostVars, countVars>>

(* The connection is lost before COMMIT: the live document stays restored. *)
CommitFails ==
    /\ change.step = "applied"
    /\ faults < MaxFaults /\ faults' = faults + 1
    /\ change' = Idle /\ doomed' = Blank /\ upset' = TRUE
    /\ UNCHANGED <<storeVars, roomVars, reader, after, wanted, fresh, replacements, visits, reads>>

-----------------------------------------------------------------------------
(* getFileHistory. *)

(* A Y.Doc made of files.content *)
OfContent ==
    LET values == IF stored = Blank THEN {0} ELSE Values(Shown(stored))
    IN [ins |-> {<<v, Base>> : v \in values}, del |-> {}]

(* The state through the cache.  Cached, it has been through JSON and is   *)
(* no Buffer any more: its length is undefined and it is never applied. *)
ReadBase ==
    /\ reader.step = "idle" /\ reads < MaxReads /\ reads' = reads + 1
    /\ reader' = [NoRead EXCEPT !.step = "based", !.hit = historyCache,
                                !.doc = IF historyCache = "state" THEN Blank
                                        ELSE IF historyCache = "null" \/ stored = Blank THEN OfContent
                                        ELSE stored]
    /\ historyCache' = IF historyCache # "none" THEN historyCache
                       ELSE IF stored = Blank THEN "null" ELSE "state"
    /\ UNCHANGED <<stored, rows, buffer, cache, roomVars, changeVars, ghostVars, fresh, replacements, visits, faults>>

(* The list is flushed, the rows are replayed; without rows the state. *)
Replay ==
    /\ reader.step = "based" /\ Flush
    /\ reader' = [reader EXCEPT !.step = "replayed", !.doc = IF rows' = Blank THEN @ ELSE rows']
    /\ UNCHANGED <<stored, historyCache, roomVars, change, ghostVars, countVars>>

(* Mutant: the stored updates are all there is. *)
StoredOnly(d) == d

(* encodeStateAsUpdate(liveDoc) *)
WithLive(d) == IF Loaded THEN Merge(d, doc) ELSE d

Answer ==
    /\ reader.step = "replayed" /\ room \notin {"reading", "rows"}
    /\ reader' = NoRead
    /\ UNCHANGED <<storeVars, roomVars, changeVars, ghostVars, countVars>>

-----------------------------------------------------------------------------
Move ==
    \/ Open \/ LoadState \/ LoadRows \/ Type
    \/ SaveStart \/ SaveDropped \/ SaveUpdate \/ SaveEnd
    \/ Leave \/ FinalUpdate \/ FinalFlush \/ Compact \/ CompactFails \/ OrphanSave \/ WorkerFlush
    \/ Restore \/ Put \/ ApplyToLiveDoc \/ Commit \/ CommitFails
    \/ ReadBase \/ Replay \/ Answer

(* The texts a request that is under way could rightly show.  One that     *)
(* meets a replacement or the first opening of the file mixes two Y.Docs   *)
(* that know nothing of each other; one that meets the end of a room has   *)
(* the state of before and the updates of after. *)
Unsettled == change # Idle \/ Closing \/ (room = "reading" /\ stored = Blank)
Reading == reader.step # "idle"
Begins == ~Reading /\ reader'.step # "idle"
Ends == Reading /\ reader'.step = "idle"

(* The last frame shows a text the file had meanwhile.  Nothing is said of *)
(* a file that is closed when the state came from the cache or a           *)
(* compaction has failed, nor when the cache said that there is no state.  *)
EndsRight == \E t \in texts : ReadsAs(Shown(WithLive(reader.doc)), t)
Excused == upset \/ mixed \/ (IF Registered THEN reader.hit = "null" ELSE reader.hit # "none" \/ faults # 0)

Next ==
    /\ Move
    /\ texts' = IF Begins THEN {Text} ELSE IF Ends THEN {}
                ELSE IF Reading THEN texts \cup {Text, Text'} ELSE texts
    /\ mixed' = IF Begins THEN Unsettled ELSE IF Ends THEN FALSE
                ELSE IF Reading THEN mixed \/ Unsettled' ELSE mixed
    /\ misread' = (misread \/ (Ends /\ ~Excused /\ ~EndsRight))

Spec == Init /\ [][Next]_textVars

-----------------------------------------------------------------------------
Settled ==
    /\ change = Idle /\ saving = Missing /\ ~timer /\ orphan = Missing
    /\ room \in {"none", "live"}

(* "Synchronizes database SQL content, active in-memory Yjs documents":    *)
(* when everything has settled the text is what was put in its place last  *)
(* and what was typed since, each once, in the open document and for the   *)
(* next one that is opened, which has no cached state to open from; unless *)
(* one of the meetings listed in the README came about. *)
ReplacementsHold ==
    Settled /\ ~upset =>
        /\ room = "live" => ReadsAs(Shown(doc), wanted)
        /\ room = "none" => cache = Missing
        /\ room = "none" /\ stored # Blank => ReadsAs(Shown(Merge(stored, rows)), wanted)

(* The replay of a file ends with a text the file had meanwhile, but for   *)
(* the cases named above. *)
HistoriesEndRight == ~misread

(* What the bundle checks. *)
TextsAreFaithful == ReplacementsHold /\ HistoriesEndRight

(* The invariant that carries it, until something is upset.  Pieces are    *)
(* new when they are inserted. *)
Within(d, e) == d.ins \subseteq e.ins /\ d.del \subseteq e.del
NonBlank(d) == d.ins # {}
Used(p) ==
    /\ p[1] < fresh /\ (p[2] <= visits \/ p[2] \in {Live, Base})
    /\ ~(change.step = "written" /\ p = <<change.value, Live>>)
    /\ ~(room = "reading" /\ p[2] = visits)
Held ==
    stored.ins \cup stored.del \cup rows.ins \cup rows.del \cup buffer.ins \cup buffer.del
        \cup doc.ins \cup doc.del \cup doomed.ins \cup doomed.del \cup saving.ins \cup saving.del
PiecesAreNew ==
    /\ \A p \in Piece : (p[2] \in {Stored, Base} => after[p] = {}) /\ \A q \in after[p] : Used(q)
    /\ \A p \in Held : Used(p)

(* What a room at each point has to do with what is stored. *)
Opened == room \in {"rows", "live", "saving", "compacting"}
RoomFollows ==
    /\ orphan = Missing /\ (saved => saving # Missing)
    /\ room \in {"none", "reading", "rows", "compacting"} => saving = Missing
    /\ Closing => change = Idle /\ ~timer
    /\ room \in {"none", "reading", "compacting"} => buffer = Blank /\ cache = Missing
    /\ room = "reading" => doc = Blank /\ visits > 0
    /\ Opened => NonBlank(doc) /\ Within(buffer, doc)
    /\ Loaded => Within(rows, doc)
    /\ room = "live" /\ saving # Missing => Within(saving, doc) /\ NonBlank(saving)
    /\ room = "saving" => saving = doc /\ (saved => stored = doc)
    /\ room = "compacting" => stored = doc

(* What the text is, wherever it is kept. *)
ChangeIsKnown ==
    /\ wanted # {} /\ change.value < fresh
    /\ change.kind = "none" <=> change.step = "none"
    /\ change.step = "none" => change = Idle
    /\ change.step = "applied" => change.kind = "restore" /\ room # "rows"
    /\ change.kind = "restore" =>
          /\ <<change.value, Live>> \notin doomed.ins
          /\ room \in {"none", "reading"} => Within(rows, doomed)
TextIsWanted ==
    /\ room \in {"none", "reading"} /\ change = Idle =>
          /\ Within(rows, stored)
          /\ IF stored = Blank THEN wanted = {0} ELSE ReadsAs(Shown(stored), wanted)
    /\ room \in {"none", "reading"} /\ change.step = "applied" => wanted = {change.value}
    /\ room = "none" /\ change.kind = "put" => stored = Fresh(change.value) /\ rows = Blank
    /\ room = "rows" /\ change = Idle => ReadsAs(Shown(Merge(doc, rows)), wanted)
    /\ Loaded /\ change.step # "written" => ReadsAs(Shown(doc), wanted)

(* What a replay has read so far. *)
Kept == NonBlank(rows) \/ NonBlank(buffer)
UpdatesAreKept ==
    /\ room = "none" /\ change = Idle /\ faults = 0 => rows = Blank
    /\ room \in {"rows", "live"} /\ change = Idle => Kept \/ (stored # Blank /\ Within(stored, doc))
    /\ Loaded /\ change.step = "applied" =>
          <<change.value, Live>> \in (rows.ins \cup buffer.ins)
FirstText == [ins |-> {<<0, Base>>}, del |-> {}]
Tracked ==
    /\ room = "none" /\ reader.hit = "none" /\ faults = 0 =>
          reader.doc = (IF stored = Blank THEN FirstText ELSE stored)
    /\ reader.hit # "null" =>
          /\ room = "none" => Within(reader.doc, stored) \/ (stored = Blank /\ reader.doc = FirstText)
          /\ room = "reading" => Within(reader.doc, stored)
          /\ room = "rows" => Within(reader.doc, Merge(doc, rows)) \/ (reader.step = "based" /\ Kept)
          /\ Loaded => Within(reader.doc, doc) \/ (reader.step = "based" /\ Kept)
ReplayFollows == Reading => Text \in texts /\ (~mixed => ~Unsettled /\ Tracked)
TextInv ==
    ~upset => PiecesAreNew /\ RoomFollows /\ ChangeIsKnown /\ TextIsWanted /\ UpdatesAreKept /\ ReplayFollows
=============================================================================
