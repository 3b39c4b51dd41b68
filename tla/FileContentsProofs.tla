--------------------------- MODULE FileContentsProofs ---------------------------
(***************************************************************************)
(* Proofs about the text of a file that is replaced as a whole             *)
(* (FileTexts), for any number of replacements, openings, requests for the *)
(* history and failed transactions.                                        *)
(***************************************************************************)
EXTENDS FileContents, TLAPS

(* Documents and their pieces. *)

LEMMA DocumentParts ==
    /\ File!Blank \in File!Doc /\ File!Blank.ins = {} /\ File!Blank.del = {}
    /\ \A d \in File!Doc :
          d.ins \in SUBSET File!Piece /\ d.del \in SUBSET File!Piece /\ d = [ins |-> d.ins, del |-> d.del]
    /\ \A i, e \in SUBSET File!Piece : [ins |-> i, del |-> e] \in File!Doc
    /\ \A d, e \in File!Doc : (d.ins = e.ins /\ d.del = e.del) => d = e
BY DEF File!Blank, File!Doc

LEMMA MergedDocuments ==
    ASSUME NEW d \in File!Doc, NEW e \in File!Doc
    PROVE  /\ File!Merge(d, e) \in File!Doc
           /\ File!Merge(d, e).ins = d.ins \cup e.ins /\ File!Merge(d, e).del = d.del \cup e.del
           /\ File!Within(e, d) => File!Merge(d, e) = d
           /\ File!Within(d, e) => File!Merge(d, e) = e
BY DocumentParts DEF File!Merge, File!Within

LEMMA LessDocuments ==
    ASSUME NEW d \in File!Doc, NEW e \in File!Doc
    PROVE  /\ File!Less(d, e) \in File!Doc
           /\ File!Less(d, e).ins = d.ins \ e.ins /\ File!Less(d, e).del = d.del \ e.del
           /\ File!Less(d, File!Blank) = d
<1>1. File!Less(d, e) \in File!Doc
  <2>1. d.ins \ e.ins \in SUBSET File!Piece /\ d.del \ e.del \in SUBSET File!Piece
    BY DocumentParts
  <2> QED
    BY <2>1, DocumentParts DEF File!Less
<1>2. File!Less(d, e).ins = d.ins \ e.ins /\ File!Less(d, e).del = d.del \ e.del
  BY DEF File!Less
<1>3. File!Less(d, File!Blank) = d
  <2>1. d.ins \ {} = d.ins /\ d.del \ {} = d.del
    OBVIOUS
  <2> QED
    BY <2>1, DocumentParts DEF File!Less
<1> QED
  BY <1>1, <1>2, <1>3

LEMMA Learned ==
    ASSUME doc \in File!Doc, buffer \in File!Doc, NEW d \in File!Doc, File!Learn(d)
    PROVE  /\ doc' = File!Merge(doc, d) /\ doc' \in File!Doc /\ buffer' \in File!Doc
           /\ doc'.ins = doc.ins \cup d.ins /\ doc'.del = doc.del \cup d.del
           /\ buffer'.ins = buffer.ins \cup (d.ins \ doc.ins)
           /\ buffer'.del = buffer.del \cup (d.del \ doc.del)
BY MergedDocuments, LessDocuments DEF File!Learn

LEMMA MissingIsNone == File!Missing.ins = {} /\ File!Missing.del = {}
BY DEF File!Missing

LEMMA FreshOne ==
    ASSUME NEW v \in File!Value
    PROVE  /\ File!Fresh(v) \in File!Doc /\ File!Fresh(v).ins = {<<v, File!Stored>>} /\ File!Fresh(v).del = {}
           /\ <<v, File!Stored>> \in File!Piece
<1>1. <<v, File!Stored>> \in File!Piece
  BY TextAssumption DEF File!Piece, File!Stored
<1> QED
  BY <1>1 DEF File!Fresh, File!Doc

LEMMA PieceCopies ==
    /\ \A v \in File!Value : <<v, File!Live>> \in File!Piece /\ <<v, File!Base>> \in File!Piece
    /\ \A n \in 0..MaxVisits : <<0, n>> \in File!Piece /\ n # File!Live /\ n # File!Base
    /\ File!Live # File!Base /\ File!Live # File!Stored /\ File!Base # File!Stored
BY TextAssumption DEF File!Piece, File!Live, File!Base, File!Stored, File!Value

LEMMA InsertedPiece ==
    ASSUME File!DocumentsOK, NEW piece \in File!Piece, NEW deleted \in SUBSET File!Piece,
           File!Insert(piece, deleted)
    PROVE  /\ doc' \in File!Doc /\ doc'.ins = doc.ins \cup {piece} /\ doc'.del = doc.del \cup deleted
           /\ buffer' \in File!Doc /\ buffer'.ins = buffer.ins \cup {piece} /\ buffer'.del = buffer.del \cup deleted
           /\ after' \in [File!Piece -> SUBSET File!Piece]
           /\ \A p \in File!Piece : after'[p] = IF p = piece THEN doc.ins ELSE after[p]
<1>1. /\ doc.ins \in SUBSET File!Piece /\ doc.del \in SUBSET File!Piece
      /\ buffer.ins \in SUBSET File!Piece /\ buffer.del \in SUBSET File!Piece
  BY DocumentParts DEF File!DocumentsOK
<1>2. doc' = [ins |-> doc.ins \cup {piece}, del |-> doc.del \cup deleted]
      /\ buffer' = [ins |-> buffer.ins \cup {piece}, del |-> buffer.del \cup deleted]
      /\ after' = [after EXCEPT ![piece] = doc.ins]
  BY DEF File!Insert
<1>3. doc' \in File!Doc /\ buffer' \in File!Doc
  BY <1>1, <1>2, DocumentParts
<1>4. after \in [File!Piece -> SUBSET File!Piece]
  BY DEF File!DocumentsOK
<1> QED
  BY <1>1, <1>2, <1>3, <1>4

(* Every step keeps the types. *)
LEMMA MoveTypes ==
    ASSUME File!DocumentsOK, File!StepsOK, File!CountsOK, File!Move
    PROVE  File!DocumentsOK' /\ File!StepsOK' /\ File!CountsOK'
<1>1. CASE File!Open
  <2>1. File!DocumentsOK'
    BY <1>1, MergedDocuments, DocumentParts
       DEF File!Open, File!DocumentsOK, File!storeVars, File!roomVars, File!changeVars, File!ghostVars
  <2>2. File!StepsOK'
    BY <1>1 DEF File!Open, File!StepsOK, File!storeVars, File!roomVars, File!changeVars, File!ghostVars
  <2>3. File!CountsOK'
    BY <1>1, TextAssumption DEF File!Open, File!CountsOK, File!countVars
  <2> QED
    BY <2>1, <2>2, <2>3
<1>2. CASE File!LoadState
  <2>1. File!DocumentsOK'
    <3>1. CASE File!Shown(stored) = {}
      <4>1. <<0, visits>> \in File!Piece /\ File!Insert(<<0, visits>>, {})
        BY <1>2, <3>1, PieceCopies DEF File!LoadState, File!CountsOK
      <4> QED
        BY <1>2, <4>1, InsertedPiece DEF File!LoadState, File!DocumentsOK, File!changeVars
    <3>2. CASE File!Shown(stored) # {}
      <4>1. File!Learn(stored) /\ UNCHANGED after
        BY <1>2, <3>2 DEF File!LoadState
      <4> QED
        BY <1>2, <4>1, Learned DEF File!LoadState, File!DocumentsOK, File!changeVars
    <3> QED
      BY <3>1, <3>2
  <2>2. File!StepsOK'
    BY <1>2 DEF File!LoadState, File!StepsOK, File!storeVars, File!roomVars, File!changeVars, File!ghostVars
  <2>3. File!CountsOK'
    BY <1>2, TextAssumption DEF File!LoadState, File!CountsOK, File!countVars
  <2> QED
    BY <2>1, <2>2, <2>3
<1>3. CASE File!LoadRows
  <2>1. File!DocumentsOK'
    <3>1. doc' \in File!Doc /\ buffer' \in File!Doc
      BY <1>3, Learned DEF File!LoadRows, File!DocumentsOK
    <3> QED
      BY <1>3, <3>1 DEF File!LoadRows, File!DocumentsOK, File!changeVars, File!ghostVars
  <2>2. File!StepsOK'
    BY <1>3 DEF File!LoadRows, File!StepsOK, File!storeVars, File!roomVars, File!changeVars, File!ghostVars
  <2>3. File!CountsOK'
    BY <1>3, TextAssumption DEF File!LoadRows, File!CountsOK, File!countVars
  <2> QED
    BY <2>1, <2>2, <2>3
<1>4. CASE File!Type
  <2>1. File!DocumentsOK'
    <3>1. <<fresh, File!Live>> \in File!Piece
      <4>1. fresh \in File!Value
        BY <1>4, TextAssumption DEF File!Type, File!CountsOK, File!Value
      <4> QED
        BY <4>1, PieceCopies
    <3> QED
      BY <1>4, <3>1, InsertedPiece DEF File!Type, File!DocumentsOK, File!changeVars
  <2>2. File!StepsOK'
    <3>1. fresh \in File!Value
      BY <1>4, TextAssumption DEF File!Type, File!CountsOK, File!Value
    <3> QED
      BY <1>4, <3>1 DEF File!Type, File!StepsOK, File!changeVars
  <2>3. File!CountsOK'
    BY <1>4, TextAssumption DEF File!Type, File!CountsOK, File!countVars
  <2> QED
    BY <2>1, <2>2, <2>3
<1>5. CASE File!SaveStart
  <2>1. File!DocumentsOK'
    BY <1>5, MergedDocuments, DocumentParts
       DEF File!SaveStart, File!DocumentsOK, File!storeVars, File!roomVars, File!changeVars, File!ghostVars
  <2>2. File!StepsOK'
    BY <1>5 DEF File!SaveStart, File!StepsOK, File!storeVars, File!roomVars, File!changeVars, File!ghostVars
  <2>3. File!CountsOK'
    BY <1>5, TextAssumption DEF File!SaveStart, File!CountsOK, File!countVars
  <2> QED
    BY <2>1, <2>2, <2>3
<1>6. CASE File!SaveDropped
  <2>1. File!DocumentsOK'
    BY <1>6, MergedDocuments, DocumentParts
       DEF File!SaveDropped, File!DocumentsOK, File!storeVars, File!roomVars, File!changeVars,
           File!ghostVars
  <2>2. File!StepsOK'
    BY <1>6
       DEF File!SaveDropped, File!StepsOK, File!storeVars, File!roomVars, File!changeVars, File!ghostVars
  <2>3. File!CountsOK'
    BY <1>6, TextAssumption DEF File!SaveDropped, File!CountsOK, File!countVars
  <2> QED
    BY <2>1, <2>2, <2>3
<1>7. CASE File!SaveUpdate
  <2>1. File!DocumentsOK'
    BY <1>7, MergedDocuments, DocumentParts
       DEF File!SaveUpdate, File!DocumentsOK, File!storeVars, File!roomVars, File!changeVars, File!ghostVars
  <2>2. File!StepsOK'
    BY <1>7
       DEF File!SaveUpdate, File!StepsOK, File!storeVars, File!roomVars, File!changeVars, File!ghostVars
  <2>3. File!CountsOK'
    BY <1>7, TextAssumption DEF File!SaveUpdate, File!CountsOK, File!countVars
  <2> QED
    BY <2>1, <2>2, <2>3
<1>8. CASE File!SaveEnd
  <2>1. File!DocumentsOK'
    BY <1>8, MergedDocuments, LessDocuments, DocumentParts
       DEF File!SaveEnd, File!Uncached, File!DocumentsOK, File!storeVars, File!roomVars, File!changeVars,
           File!ghostVars
  <2>2. File!StepsOK'
    BY <1>8
       DEF File!SaveEnd, File!Uncached, File!StepsOK, File!storeVars, File!roomVars, File!changeVars,
           File!ghostVars
  <2>3. File!CountsOK'
    BY <1>8, TextAssumption DEF File!SaveEnd, File!Uncached, File!CountsOK, File!countVars
  <2> QED
    BY <2>1, <2>2, <2>3
<1>9. CASE File!Leave
  <2>1. File!DocumentsOK'
    BY <1>9, MergedDocuments, DocumentParts
       DEF File!Leave, File!DocumentsOK, File!storeVars, File!roomVars, File!changeVars, File!ghostVars
  <2>2. File!StepsOK'
    BY <1>9 DEF File!Leave, File!StepsOK, File!storeVars, File!roomVars, File!changeVars, File!ghostVars
  <2>3. File!CountsOK'
    BY <1>9, TextAssumption DEF File!Leave, File!CountsOK, File!countVars
  <2> QED
    BY <2>1, <2>2, <2>3
<1>10. CASE File!FinalUpdate
  <2>1. File!DocumentsOK'
    BY <1>10, MergedDocuments, DocumentParts
       DEF File!FinalUpdate, File!DocumentsOK, File!storeVars, File!roomVars, File!changeVars,
           File!ghostVars
  <2>2. File!StepsOK'
    BY <1>10
       DEF File!FinalUpdate, File!StepsOK, File!storeVars, File!roomVars, File!changeVars, File!ghostVars
  <2>3. File!CountsOK'
    BY <1>10, TextAssumption DEF File!FinalUpdate, File!CountsOK, File!countVars
  <2> QED
    BY <2>1, <2>2, <2>3
<1>11. CASE File!FinalFlush
  <2>1. File!DocumentsOK'
    BY <1>11, MergedDocuments, LessDocuments, DocumentParts
       DEF File!FinalFlush, File!Uncached, File!DocumentsOK, File!storeVars, File!roomVars, File!changeVars,
           File!ghostVars
  <2>2. File!StepsOK'
    BY <1>11
       DEF File!FinalFlush, File!Uncached, File!StepsOK, File!storeVars, File!roomVars, File!changeVars,
           File!ghostVars
  <2>3. File!CountsOK'
    BY <1>11, TextAssumption DEF File!FinalFlush, File!Uncached, File!CountsOK, File!countVars
  <2> QED
    BY <2>1, <2>2, <2>3
<1>12. CASE File!Compact
  <2>1. File!DocumentsOK'
    BY <1>12, MergedDocuments, DocumentParts
       DEF File!Compact, File!Reclaim, File!DocumentsOK, File!storeVars, File!roomVars, File!changeVars,
           File!ghostVars
  <2>2. File!StepsOK'
    BY <1>12
       DEF File!Compact, File!Reclaim, File!StepsOK, File!storeVars, File!roomVars, File!changeVars,
           File!ghostVars
  <2>3. File!CountsOK'
    BY <1>12, TextAssumption DEF File!Compact, File!Reclaim, File!CountsOK, File!countVars
  <2> QED
    BY <2>1, <2>2, <2>3
<1>13. CASE File!CompactFails
  <2>1. File!DocumentsOK'
    BY <1>13, MergedDocuments, DocumentParts
       DEF File!CompactFails, File!Reclaim, File!DocumentsOK, File!storeVars, File!roomVars, File!changeVars,
           File!ghostVars
  <2>2. File!StepsOK'
    BY <1>13
       DEF File!CompactFails, File!Reclaim, File!StepsOK, File!storeVars, File!roomVars, File!changeVars,
           File!ghostVars
  <2>3. File!CountsOK'
    BY <1>13, TextAssumption DEF File!CompactFails, File!Reclaim, File!CountsOK, File!countVars
  <2> QED
    BY <2>1, <2>2, <2>3
<1>14. CASE File!OrphanSave
  <2>1. File!DocumentsOK'
    BY <1>14, MergedDocuments, LessDocuments, DocumentParts
       DEF File!OrphanSave, File!Uncached, File!DocumentsOK, File!storeVars, File!roomVars, File!changeVars,
           File!ghostVars
  <2>2. File!StepsOK'
    BY <1>14
       DEF File!OrphanSave, File!Uncached, File!StepsOK, File!storeVars, File!roomVars, File!changeVars,
           File!ghostVars
  <2>3. File!CountsOK'
    BY <1>14, TextAssumption DEF File!OrphanSave, File!Uncached, File!CountsOK, File!countVars
  <2> QED
    BY <2>1, <2>2, <2>3
<1>15. CASE File!WorkerFlush
  <2>1. File!DocumentsOK'
    BY <1>15, MergedDocuments, LessDocuments, DocumentParts
       DEF File!WorkerFlush, File!Flush, File!DocumentsOK, File!storeVars, File!roomVars, File!changeVars,
           File!ghostVars
  <2>2. File!StepsOK'
    BY <1>15
       DEF File!WorkerFlush, File!Flush, File!StepsOK, File!storeVars, File!roomVars, File!changeVars,
           File!ghostVars
  <2>3. File!CountsOK'
    BY <1>15, TextAssumption DEF File!WorkerFlush, File!Flush, File!CountsOK, File!countVars
  <2> QED
    BY <2>1, <2>2, <2>3
<1>16. CASE File!Restore
  <2>1. File!DocumentsOK'
    BY <1>16, MergedDocuments, DocumentParts
       DEF File!Restore, File!Begin, File!RowsDeleted, File!DocumentsOK, File!storeVars, File!roomVars,
           File!changeVars, File!ghostVars
  <2>2. File!StepsOK'
    <3>1. fresh \in File!Value
      BY <1>16, TextAssumption DEF File!Restore, File!Begin, File!CountsOK, File!Value
    <3>2. change' \in File!Changes
      BY <1>16, <3>1 DEF File!Restore, File!Begin, File!Changes
    <3> QED
      BY <1>16, <3>2 DEF File!Restore, File!Begin, File!StepsOK, File!roomVars
  <2>3. File!CountsOK'
    BY <1>16, TextAssumption DEF File!Restore, File!Begin, File!RowsDeleted, File!CountsOK, File!countVars
  <2> QED
    BY <2>1, <2>2, <2>3
<1>17. CASE File!Put
  <2>1. File!DocumentsOK'
    <3>1. fresh \in File!Value
      BY <1>17, TextAssumption DEF File!Put, File!Begin, File!CountsOK, File!Value
    <3> QED
      BY <1>17, <3>1, FreshOne DEF File!Put, File!DocumentsOK, File!roomVars
  <2>2. File!StepsOK'
    <3>1. fresh \in File!Value
      BY <1>17, TextAssumption DEF File!Put, File!Begin, File!CountsOK, File!Value
    <3>2. change' \in File!Changes
      BY <1>17, <3>1 DEF File!Put, File!Begin, File!Changes
    <3> QED
      BY <1>17, <3>2 DEF File!Put, File!Begin, File!StepsOK, File!roomVars
  <2>3. File!CountsOK'
    BY <1>17, TextAssumption DEF File!Put, File!Begin, File!CountsOK, File!countVars
  <2> QED
    BY <2>1, <2>2, <2>3
<1>18. CASE File!ApplyToLiveDoc
  <2>1. File!DocumentsOK'
    <3>1. <<change.value, File!Live>> \in File!Piece /\ File!AllDeleted \in SUBSET File!Piece
      BY PieceCopies, DocumentParts
         DEF File!DocumentsOK, File!StepsOK, File!Changes, File!AllDeleted, File!Shown
    <3>2. CASE File!Loaded
      BY <1>18, <3>1, <3>2, InsertedPiece DEF File!ApplyToLiveDoc, File!DocumentsOK
    <3>3. CASE ~File!Loaded
      BY <1>18, <3>3 DEF File!ApplyToLiveDoc, File!DocumentsOK
    <3> QED
      BY <3>2, <3>3
  <2>2. File!StepsOK'
    <3>1. change' \in File!Changes
      BY <1>18, TextAssumption DEF File!ApplyToLiveDoc, File!StepsOK, File!Changes, File!Idle, File!Value
    <3>2. wanted' \subseteq File!Value /\ saveTimer' \in BOOLEAN /\ upset' \in BOOLEAN
      BY <1>18 DEF File!ApplyToLiveDoc, File!StepsOK, File!Changes
    <3> QED
      BY <1>18, <3>1, <3>2 DEF File!ApplyToLiveDoc, File!StepsOK
  <2>3. File!CountsOK'
    BY <1>18, TextAssumption DEF File!ApplyToLiveDoc, File!CountsOK, File!countVars
  <2> QED
    BY <2>1, <2>2, <2>3
<1>19. CASE File!Commit
  <2>1. File!DocumentsOK'
    <3>1. stored' \in File!Doc
      BY <1>19, FreshOne DEF File!Commit, File!StepsOK, File!Changes
    <3>2. updates' \in File!Doc
      BY <1>19, LessDocuments DEF File!Commit, File!DocumentsOK
    <3> QED
      BY <1>19, <3>1, <3>2, DocumentParts DEF File!Commit, File!DocumentsOK, File!roomVars, File!ghostVars
  <2>2. File!StepsOK'
    <3>1. change' \in File!Changes
      BY <1>19, TextAssumption DEF File!Commit, File!Idle, File!Changes, File!Value
    <3> QED
      BY <1>19, <3>1 DEF File!Commit, File!StepsOK, File!storeVars, File!roomVars, File!ghostVars
  <2>3. File!CountsOK'
    BY <1>19, TextAssumption DEF File!Commit, File!CountsOK, File!countVars
  <2> QED
    BY <2>1, <2>2, <2>3
<1>20. CASE File!CommitFails
  <2>1. File!DocumentsOK'
    BY <1>20, MergedDocuments, DocumentParts
       DEF File!CommitFails, File!DocumentsOK, File!storeVars, File!roomVars, File!changeVars,
           File!ghostVars
  <2>2. File!StepsOK'
    <3>1. change' \in File!Changes
      BY <1>20, TextAssumption DEF File!CommitFails, File!Idle, File!Changes, File!Value
    <3> QED
      BY <1>20, <3>1 DEF File!CommitFails, File!StepsOK, File!storeVars, File!roomVars, File!ghostVars
  <2>3. File!CountsOK'
    BY <1>20, TextAssumption DEF File!CommitFails, File!CountsOK, File!countVars
  <2> QED
    BY <2>1, <2>2, <2>3
<1>21. CASE File!ReadBase
  <2>1. File!DocumentsOK'
    BY <1>21, MergedDocuments, DocumentParts
       DEF File!ReadBase, File!DocumentsOK, File!storeVars, File!roomVars, File!changeVars, File!ghostVars
  <2>2. File!StepsOK'
    <3>1. File!OfContent \in File!Doc
      <4>1. (IF stored = File!Blank THEN {0} ELSE File!Values(File!Shown(stored))) \in SUBSET File!Value
        BY DocumentParts, TextAssumption
           DEF File!DocumentsOK, File!Values, File!Shown, File!Value, File!Piece
      <4> DEFINE i == {<<v, File!Base>> : v \in IF stored = File!Blank THEN {0} ELSE File!Values(File!Shown(stored))}
      <4>2. i \in SUBSET File!Piece
        BY <4>1, PieceCopies
      <4>3. File!OfContent = [ins |-> i, del |-> {}]
        BY DEF File!OfContent
      <4> HIDE DEF i
      <4> QED
        BY <4>2, <4>3, DocumentParts
    <3>2. reader' \in File!Readers
      BY <1>21, <3>1, DocumentParts
         DEF File!ReadBase, File!StepsOK, File!DocumentsOK, File!NoRead, File!Readers
    <3>3. historyCache' \in {"none", "null", "state"}
      BY <1>21 DEF File!ReadBase, File!StepsOK
    <3> QED
      BY <1>21, <3>2, <3>3 DEF File!ReadBase, File!StepsOK, File!roomVars, File!changeVars, File!ghostVars
  <2>3. File!CountsOK'
    BY <1>21, TextAssumption DEF File!ReadBase, File!CountsOK, File!countVars
  <2> QED
    BY <2>1, <2>2, <2>3
<1>22. CASE File!Replay
  <2>1. File!DocumentsOK'
    BY <1>22, MergedDocuments, LessDocuments, DocumentParts
       DEF File!Replay, File!Flush, File!DocumentsOK, File!storeVars, File!roomVars, File!changeVars,
           File!ghostVars
  <2>2. File!StepsOK'
    <3>1. updates' \in File!Doc
      BY <1>22, MergedDocuments DEF File!Replay, File!Flush, File!DocumentsOK
    <3>2. reader' \in File!Readers
      BY <1>22, <3>1 DEF File!Replay, File!StepsOK, File!Readers
    <3> QED
      BY <1>22, <3>2 DEF File!Replay, File!StepsOK, File!roomVars, File!changeVars, File!ghostVars
  <2>3. File!CountsOK'
    BY <1>22, TextAssumption DEF File!Replay, File!Flush, File!CountsOK, File!countVars
  <2> QED
    BY <2>1, <2>2, <2>3
<1>23. CASE File!Answer
  <2>1. File!DocumentsOK'
    BY <1>23, MergedDocuments, DocumentParts
       DEF File!Answer, File!DocumentsOK, File!storeVars, File!roomVars, File!changeVars, File!ghostVars
  <2>2. File!StepsOK'
    <3>1. reader' \in File!Readers
      BY <1>23, DocumentParts DEF File!Answer, File!NoRead, File!Readers
    <3> QED
      BY <1>23, <3>1
         DEF File!Answer, File!StepsOK, File!storeVars, File!roomVars, File!changeVars, File!ghostVars
  <2>3. File!CountsOK'
    BY <1>23, TextAssumption DEF File!Answer, File!CountsOK, File!countVars
  <2> QED
    BY <2>1, <2>2, <2>3
<1> QED
  BY <1>1, <1>2, <1>3, <1>4, <1>5, <1>6, <1>7, <1>8, <1>9, <1>10, <1>11, <1>12, <1>13, <1>14, <1>15, <1>16,
     <1>17, <1>18, <1>19, <1>20, <1>21, <1>22, <1>23
     DEF File!Move


-----------------------------------------------------------------------------
(* What is shown, with all it depends on. *)
TextReads(d, a, w) == File!ReadsAs({p \in d.ins \ d.del : a[p] \subseteq d.ins}, w)

LEMMA MissingIsNoDoc == File!Missing \notin File!Doc
<1>1. "missing" \in DOMAIN File!Missing /\ \A d \in File!Doc : "missing" \notin DOMAIN d
  BY DEF File!Missing, File!Doc
<1> QED
  BY <1>1

LEMMA OneReads ==
    ASSUME NEW d, NEW a, NEW p, d.ins = {p}, p \notin d.del, a[p] = {}
    PROVE  TextReads(d, a, {p[1]})
<1>1. {q \in d.ins \ d.del : a[q] \subseteq d.ins} = {p}
  OBVIOUS
<1> QED
  BY <1>1 DEF TextReads, File!ReadsAs, File!Values

LEMMA FreshReads ==
    ASSUME NEW v \in File!Value, NEW a, a[<<v, File!Stored>>] = {}
    PROVE  TextReads(File!Fresh(v), a, {v})
<1>1. PICK p : p = <<v, File!Stored>>
  OBVIOUS
<1>2. File!Fresh(v).ins = {p} /\ p \notin File!Fresh(v).del /\ a[p] = {} /\ p[1] = v
  BY <1>1, FreshOne
<1> QED
  BY <1>2, OneReads

LEMMA ReadsSomething ==
    ASSUME NEW d, NEW a, NEW w, w # {}, TextReads(d, a, w)
    PROVE  d.ins # {} /\ {p \in d.ins \ d.del : a[p] \subseteq d.ins} # {}
BY DEF TextReads, File!ReadsAs, File!Values

LEMMA OneMore ==
    ASSUME NEW S, NEW w, File!ReadsAs(S, w), NEW p, p[1] \notin w
    PROVE  File!ReadsAs(S \cup {p}, w \cup {p[1]})
<1>1. \A q \in S : q[1] \in w
  BY DEF File!ReadsAs, File!Values
<1>2. File!Values(S \cup {p}) = w \cup {p[1]}
  BY DEF File!ReadsAs, File!Values
<1> QED
  BY <1>1, <1>2 DEF File!ReadsAs

(* A new piece is shown behind what is there, or in its place. *)
LEMMA NewPieceShown ==
    ASSUME File!DocumentsOK, File!PiecesAreNew, NEW piece \in File!Piece, ~File!Used(piece),
           NEW deleted \in SUBSET File!Shown(doc), File!Insert(piece, deleted)
    PROVE  {p \in doc'.ins \ doc'.del : after'[p] \subseteq doc'.ins} = (File!Shown(doc) \ deleted) \cup {piece}
<1>1. /\ deleted \subseteq doc.ins /\ deleted \in SUBSET File!Piece /\ doc.ins \in SUBSET File!Piece
      /\ doc.del \in SUBSET File!Piece
  BY DocumentParts DEF File!Shown, File!DocumentsOK
<1>2. /\ doc'.ins = doc.ins \cup {piece} /\ doc'.del = doc.del \cup deleted
      /\ \A p \in File!Piece : after'[p] = IF p = piece THEN doc.ins ELSE after[p]
  BY <1>1, InsertedPiece
<1>3. piece \notin doc.ins /\ piece \notin doc.del /\ \A p \in File!Piece : piece \notin after[p]
  BY DEF File!PiecesAreNew, File!Held
<1>4. \A p \in doc.ins : after'[p] = after[p] /\ (after[p] \subseteq doc'.ins <=> after[p] \subseteq doc.ins)
  BY <1>1, <1>2, <1>3
<1> QED
  BY <1>1, <1>2, <1>3, <1>4 DEF File!Shown

LEMMA HeldPieces == ASSUME File!DocumentsOK PROVE File!Held \subseteq File!Piece
BY DocumentParts, MissingIsNone DEF File!DocumentsOK, File!Held

LEMMA NewStays ==
    ASSUME File!DocumentsOK, File!PiecesAreNew, \A p \in File!Piece : File!Used(p) => File!Used(p)',
           \A p \in File!Held' : p \in File!Held \/ (p \in File!Piece /\ File!Used(p)'),
           \A p \in File!Piece :
              after'[p] = after[p] \/ (p[2] \notin {File!Stored, File!Base} /\ after'[p] \subseteq File!Held)
                              \/ after'[p] = {}
    PROVE  File!PiecesAreNew'
<1>1. File!Held \subseteq File!Piece /\ after \in [File!Piece -> SUBSET File!Piece]
  BY HeldPieces DEF File!DocumentsOK
<1>2. \A p \in File!Held : File!Used(p)'
  BY <1>1 DEF File!PiecesAreNew
<1>3. \A p \in File!Held' : File!Used(p)'
  BY <1>2
<1>4. ASSUME NEW p \in File!Piece
      PROVE  (p[2] \in {File!Stored, File!Base} => after'[p] = {}) /\ \A q \in after'[p] : File!Used(q)'
  BY <1>1, <1>2 DEF File!PiecesAreNew
<1> QED
  BY <1>3, <1>4 DEF File!PiecesAreNew

WantedHolds ==
    /\ room \in {"none", "reading"} /\ change = File!Idle =>
          /\ File!Within(updates, stored)
          /\ IF stored = File!Blank THEN wanted = {0} ELSE TextReads(stored, after, wanted)
    /\ room \in {"none", "reading"} /\ change.step = "applied" => wanted = {change.value}
    /\ room = "none" /\ change.kind = "put" => stored = File!Fresh(change.value) /\ updates = File!Blank
    /\ room = "rows" /\ change = File!Idle => TextReads(File!Merge(doc, updates), after, wanted)
    /\ File!Loaded /\ change.step # "written" => TextReads(doc, after, wanted)

LEMMA WantedText == File!TextIsWanted <=> WantedHolds
BY DEF File!TextIsWanted, WantedHolds, TextReads, File!Shown

TextTyped == File!DocumentsOK /\ File!StepsOK /\ File!CountsOK
TextCore == File!PiecesAreNew /\ File!RoomFollows /\ File!ChangeIsKnown /\ WantedHolds /\ File!UpdatesAreKept

(* A step that uses no new piece. *)
LEMMA NothingNew ==
    ASSUME TextTyped, TextCore, after' = after, File!Held' \subseteq File!Held, fresh' = fresh, visits' = visits,
           change' = change \/ change'.step # "written", room' = room \/ room' # "reading"
    PROVE  File!PiecesAreNew'
<1>1. \A p \in File!Piece : File!Used(p) => File!Used(p)'
  BY DEF File!Used
<1> QED
  BY <1>1, NewStays DEF TextTyped, TextCore

(* A flush takes nothing to the rows that the document does not have. *)
LEMMA Flushed ==
    ASSUME TextTyped, TextCore, updates' = File!Merge(updates, buffer), doomed' = File!Less(doomed, buffer)
    PROVE  /\ updates' \in File!Doc
           /\ updates'.ins = updates.ins \cup buffer.ins /\ updates'.del = updates.del \cup buffer.del
           /\ doomed'.ins \subseteq doomed.ins /\ doomed'.del \subseteq doomed.del
           /\ room \in {"none", "reading", "compacting"} => updates' = updates /\ doomed' = doomed
           /\ room = "rows" => File!Merge(doc, updates') = File!Merge(doc, updates)
           /\ File!Loaded => File!Within(updates', doc)
<1>1. updates \in File!Doc /\ buffer \in File!Doc /\ doc \in File!Doc /\ doomed \in File!Doc
  BY DEF TextTyped, File!DocumentsOK
<1>2. /\ updates' \in File!Doc /\ updates'.ins = updates.ins \cup buffer.ins
      /\ updates'.del = updates.del \cup buffer.del
  BY <1>1, MergedDocuments
<1>3. ASSUME room \in {"none", "reading", "compacting"} PROVE updates' = updates /\ doomed' = doomed
  <2>1. buffer = File!Blank
    BY <1>3 DEF TextCore, File!RoomFollows
  <2>2. updates' = updates
    BY <1>1, <1>2, <2>1, DocumentParts
  <2>3. doomed' = doomed
    BY <1>1, <2>1, LessDocuments
  <2> QED
    BY <2>2, <2>3
<1>4. ASSUME room = "rows" PROVE File!Merge(doc, updates') = File!Merge(doc, updates)
  <2>1. File!Within(buffer, doc)
    BY <1>4 DEF TextCore, File!RoomFollows, File!Opened
  <2>2. /\ doc.ins \cup updates'.ins = doc.ins \cup updates.ins
        /\ doc.del \cup updates'.del = doc.del \cup updates.del
    BY <1>2, <2>1 DEF File!Within
  <2> QED
    BY <2>2 DEF File!Merge
<1>5. File!Loaded => File!Within(updates', doc)
  BY <1>2 DEF TextCore, File!RoomFollows, File!Opened, File!Loaded, File!Within
<1>6. doomed'.ins \subseteq doomed.ins /\ doomed'.del \subseteq doomed.del
  BY <1>1, LessDocuments
<1> QED
  BY <1>2, <1>3, <1>4, <1>5, <1>6


-----------------------------------------------------------------------------
(* What is stored, buffered, open and wanted stay together, one step after *)
(* the other, unless the step upsets something. *)

LEMMA OpenCore ==
    ASSUME TextTyped, TextTyped', TextCore, File!Open, ~upset'
    PROVE  TextCore'
<1>1. File!PiecesAreNew'
  <2>1. visits' = visits + 1 /\ visits' <= MaxVisits /\ visits \in Nat /\ room' = "reading"
    BY TextAssumption DEF File!Open, TextTyped, File!CountsOK
  <2>2. ASSUME NEW p \in File!Piece, File!Used(p) PROVE File!Used(p)'
    <3>1. p[2] \in Nat
      BY TextAssumption DEF File!Piece
    <3>2. p[2] # visits'
      BY <2>1, <2>2, <3>1, TextAssumption DEF File!Used, File!Live, File!Base
    <3>3. p[2] <= visits => p[2] <= visits'
      BY <2>1, <3>1
    <3> QED
      BY <2>1, <2>2, <3>2, <3>3 DEF File!Used, File!Open, File!changeVars
  <2>3. File!Held' \subseteq File!Held /\ after' = after
    BY DocumentParts DEF File!Open, File!Held, File!storeVars, File!changeVars, File!ghostVars
  <2> QED
    BY <2>2, <2>3, NewStays DEF TextTyped, TextCore
<1>2. File!RoomFollows'
  BY TextAssumption
     DEF File!Open, TextTyped, File!CountsOK, TextCore, File!RoomFollows, File!Opened, File!Loaded,
         File!Closing, File!storeVars, File!changeVars
<1>3. File!ChangeIsKnown'
  BY DEF File!Open, TextCore, File!ChangeIsKnown, File!Within, File!storeVars, File!roomVars,
         File!changeVars, File!ghostVars, File!countVars
<1>4. WantedHolds'
  BY DEF File!Open, TextCore, WantedHolds, File!Loaded, File!Within, File!storeVars, File!roomVars,
         File!changeVars, File!ghostVars, File!countVars
<1>5. File!UpdatesAreKept'
  BY DEF File!Open, TextCore, File!UpdatesAreKept, File!Kept, File!NonBlank, File!Loaded, File!Within,
         File!storeVars, File!roomVars, File!changeVars, File!ghostVars, File!countVars
<1> QED
  BY <1>1, <1>2, <1>3, <1>4, <1>5 DEF TextCore

LEMMA LoadStateCore ==
    ASSUME TextTyped, TextTyped', TextCore, File!LoadState, ~upset'
    PROVE  TextCore'
<1>a. File!Shown(File!Blank) = {}
  BY DocumentParts DEF File!Shown
<1>b. ~(change.kind = "restore" /\ change.step = "applied") /\ change.step # "applied"
  BY DEF File!LoadState, TextCore, File!ChangeIsKnown
<1>c. change.step = "none" => change = File!Idle
  BY DEF TextCore, File!ChangeIsKnown
<1>d. wanted # {}
  BY DEF TextCore, File!ChangeIsKnown
<1>e. /\ doc = File!Blank /\ buffer = File!Blank /\ visits > 0 /\ saving = File!Missing /\ ~saved
      /\ orphan = File!Missing
  BY DEF File!LoadState, TextCore, File!RoomFollows
<1>f. change = File!Idle =>
         File!Within(updates, stored) /\ IF stored = File!Blank THEN wanted = {0} ELSE TextReads(stored, after, wanted)
  BY DEF File!LoadState, TextCore, WantedHolds
<1>g. stored \in File!Doc /\ updates \in File!Doc /\ buffer \in File!Doc /\ doc \in File!Doc
  BY DEF TextTyped, File!DocumentsOK
<1>h. change = File!Idle /\ File!Shown(stored) = {} => stored = File!Blank
  BY <1>d, <1>f, ReadsSomething DEF File!Shown
<1>i. CASE File!Shown(stored) = {}
  <2>1. PICK piece \in File!Piece : piece = <<0, visits>>
    BY PieceCopies DEF TextTyped, File!CountsOK
  <2>2. File!Insert(piece, {}) /\ piece[1] = 0 /\ piece[2] = visits
    BY <1>i, <2>1 DEF File!LoadState
  <2>3. /\ doc' \in File!Doc /\ doc'.ins = {piece} /\ doc'.del = {}
        /\ buffer' \in File!Doc /\ buffer'.ins = {piece} /\ buffer'.del = {}
        /\ after'[piece] = {} /\ \A p \in File!Piece : after'[p] = after[p] \/ after'[p] = {}
    BY <1>e, <2>2, InsertedPiece, DocumentParts DEF TextTyped
  <2>4. ~File!Used(piece)
    BY <2>2 DEF File!LoadState, File!Used
  <2>5. \A p \in File!Piece : File!Used(p) => File!Used(p)'
    BY DEF File!LoadState, File!Used, File!changeVars, File!countVars
  <2>6. File!Used(piece)'
    <3>1. piece[1] < fresh /\ piece # <<change.value, File!Live>> /\ piece[2] <= visits
      BY <2>1, <2>2, PieceCopies, TextAssumption DEF TextTyped, File!CountsOK
    <3> QED
      BY <3>1 DEF File!LoadState, File!Used, File!changeVars, File!countVars
  <2>7. File!PiecesAreNew'
    <3>1. \A p \in File!Held' : p \in File!Held \/ p = piece
      BY <2>3 DEF File!LoadState, File!Held, File!changeVars
    <3> QED
      BY <2>3, <2>5, <2>6, <3>1, NewStays DEF TextTyped, TextCore
  <2>8. File!RoomFollows'
    BY <1>e, <2>3
       DEF File!LoadState, File!RoomFollows, File!Opened, File!Loaded, File!Closing, File!NonBlank,
           File!Within, File!changeVars
  <2>9. File!ChangeIsKnown'
    BY <1>b DEF File!LoadState, TextCore, File!ChangeIsKnown, File!Within, File!changeVars, File!countVars
  <2>10. WantedHolds'
    <3>1. ASSUME change = File!Idle PROVE TextReads(File!Merge(doc', updates), after', wanted)
      <4>1. updates.ins = {} /\ updates.del = {} /\ wanted = {0}
        BY <1>f, <1>h, <1>i, <3>1, DocumentParts DEF File!Within
      <4>2. File!Merge(doc', updates).ins = {piece} /\ piece \notin File!Merge(doc', updates).del
        BY <1>g, <2>3, <4>1, MergedDocuments
      <4> QED
        BY <2>2, <2>3, <4>1, <4>2, OneReads
    <3> QED
      BY <3>1 DEF File!LoadState, WantedHolds, File!Loaded, File!changeVars
  <2>11. File!UpdatesAreKept'
    BY <2>3, <1>b
       DEF File!LoadState, File!UpdatesAreKept, File!Kept, File!NonBlank, File!Loaded, File!changeVars
  <2> QED
    BY <2>7, <2>8, <2>9, <2>10, <2>11 DEF TextCore
<1>j. CASE File!Shown(stored) # {}
  <2>1. doc' = stored /\ buffer' = stored /\ after' = after /\ room' = "rows" /\ stored # File!Blank
    <3>1. File!Learn(stored) /\ after' = after /\ room' = "rows" /\ stored # File!Blank
      BY <1>a, <1>j DEF File!LoadState
    <3>2. File!Merge(File!Blank, stored) = stored /\ File!Less(stored, File!Blank) = stored
      <4>1. File!Within(File!Blank, stored)
        BY DocumentParts DEF File!Within
      <4> QED
        BY <1>g, <4>1, MergedDocuments, LessDocuments, DocumentParts
    <3> QED
      BY <1>e, <3>1, <3>2 DEF File!Learn
  <2>2. File!PiecesAreNew'
    <3>1. File!Held' \subseteq File!Held
      BY <2>1 DEF File!LoadState, File!Held, File!changeVars
    <3> QED
      BY <2>1, <3>1, NothingNew DEF File!LoadState, File!changeVars, File!countVars
  <2>3. File!RoomFollows'
    <3>1. File!NonBlank(stored) /\ File!Within(stored, stored)
      BY <1>j, DocumentParts DEF File!NonBlank, File!Within, File!Shown
    <3> QED
      BY <1>e, <2>1, <3>1
         DEF File!LoadState, File!RoomFollows, File!Opened, File!Loaded, File!Closing, File!changeVars
  <2>4. File!ChangeIsKnown'
    BY <1>b DEF File!LoadState, TextCore, File!ChangeIsKnown, File!Within, File!changeVars, File!countVars
  <2>5. WantedHolds'
    <3>1. change = File!Idle => TextReads(File!Merge(stored, updates), after, wanted)
      BY <1>f, <1>g, <2>1, MergedDocuments
    <3> QED
      BY <2>1, <3>1 DEF File!LoadState, WantedHolds, File!Loaded, File!changeVars
  <2>6. File!UpdatesAreKept'
    BY <2>1, <1>b DEF File!LoadState, File!UpdatesAreKept, File!Loaded, File!Within, File!changeVars
  <2> QED
    BY <2>2, <2>3, <2>4, <2>5, <2>6 DEF TextCore
<1> QED
  BY <1>i, <1>j

LEMMA LoadRowsCore ==
    ASSUME TextTyped, TextTyped', TextCore, File!LoadRows, ~upset'
    PROVE  TextCore'
<1>a. /\ doc' = File!Merge(doc, updates)
      /\ doc'.ins = doc.ins \cup updates.ins /\ doc'.del = doc.del \cup updates.del
      /\ buffer'.ins = buffer.ins \cup (updates.ins \ doc.ins)
      /\ buffer'.del = buffer.del \cup (updates.del \ doc.del)
  BY Learned DEF File!LoadRows, TextTyped, File!DocumentsOK
<1>b. (change.step = "none" /\ change = File!Idle) \/ change.step = "written"
  BY DEF File!LoadRows, TextTyped, File!StepsOK, File!Changes, TextCore, File!ChangeIsKnown
<1>1. File!PiecesAreNew'
  <2>1. File!Held' \subseteq File!Held
    BY <1>a DEF File!LoadRows, File!Held, File!changeVars
  <2> QED
    BY <2>1, NothingNew
       DEF File!LoadRows, File!storeVars, File!roomVars, File!changeVars, File!ghostVars, File!countVars
<1>2. File!RoomFollows'
  BY <1>a
     DEF File!LoadRows, TextCore, File!RoomFollows, File!Opened, File!Loaded, File!Closing, File!NonBlank,
         File!Within, File!changeVars, File!countVars
<1>3. File!ChangeIsKnown'
  BY DEF File!LoadRows, TextCore, File!ChangeIsKnown, File!Within, File!storeVars, File!roomVars,
         File!changeVars, File!ghostVars, File!countVars
<1>4. WantedHolds'
  <2>1. change = File!Idle => TextReads(doc', after, wanted)
    BY <1>a DEF File!LoadRows, TextCore, WantedHolds
  <2> QED
    BY <1>b, <2>1 DEF File!LoadRows, WantedHolds, File!Loaded, File!changeVars, File!ghostVars
<1>5. File!UpdatesAreKept'
  BY <1>a, <1>b
     DEF File!LoadRows, TextCore, File!UpdatesAreKept, File!Kept, File!NonBlank, File!Loaded, File!Within,
         File!storeVars, File!roomVars, File!changeVars, File!ghostVars, File!countVars
<1> QED
  BY <1>1, <1>2, <1>3, <1>4, <1>5 DEF TextCore

LEMMA TypeCore ==
    ASSUME TextTyped, TextTyped', TextCore, File!Type, ~upset'
    PROVE  TextCore'
<1>a. PICK piece \in File!Piece : piece = <<fresh, File!Live>>
  <2>1. fresh \in File!Value
    BY TextAssumption DEF File!Type, TextTyped, File!CountsOK, File!Value
  <2> QED
    BY <2>1, PieceCopies
<1>b. /\ File!Insert(piece, {}) /\ piece[1] = fresh /\ piece[2] = File!Live /\ fresh \in Nat
      /\ fresh' = fresh + 1 /\ change' = change
  BY <1>a DEF File!Type, TextTyped, File!CountsOK, File!changeVars
<1>c. /\ doc' \in File!Doc /\ doc'.ins = doc.ins \cup {piece} /\ doc'.del = doc.del
      /\ buffer' \in File!Doc /\ buffer'.ins = buffer.ins \cup {piece} /\ buffer'.del = buffer.del
      /\ \A p \in File!Piece : after'[p] = IF p = piece THEN doc.ins ELSE after[p]
  <2>1. {} \in SUBSET File!Piece /\ doc.del \cup {} = doc.del /\ buffer.del \cup {} = buffer.del
    OBVIOUS
  <2> QED
    BY <1>b, <2>1, InsertedPiece DEF TextTyped
<1>d. ~File!Used(piece)
  BY <1>b DEF File!Used
<1>1. File!PiecesAreNew'
  <2>1. change.value \in Nat /\ change.value < fresh
    BY TextAssumption DEF TextTyped, File!StepsOK, File!Changes, File!Value, TextCore, File!ChangeIsKnown
  <2>2. ASSUME NEW p \in File!Piece, File!Used(p) PROVE File!Used(p)'
    <3>1. p[1] < fresh'
      BY <1>b, <2>2, TextAssumption DEF File!Used, File!Piece, File!Value
    <3> QED
      BY <1>b, <2>2, <3>1 DEF File!Used, File!Type
  <2>3. File!Used(piece)'
    <3>1. piece[1] < fresh' /\ piece # <<change.value, File!Live>>
      BY <1>a, <1>b, <2>1
    <3> QED
      BY <1>b, <3>1 DEF File!Used, File!Type
  <2>4. \A p \in File!Held' : p \in File!Held \/ p = piece
    BY <1>c DEF File!Type, File!Held, File!changeVars
  <2>5. piece[2] \notin {File!Stored, File!Base} /\ doc.ins \subseteq File!Held
    BY <1>b, PieceCopies DEF File!Held
  <2>6. \A p \in File!Piece :
              after'[p] = after[p] \/ (p[2] \notin {File!Stored, File!Base} /\ after'[p] \subseteq File!Held)
    BY <1>c, <2>5
  <2> QED
    BY <2>2, <2>3, <2>4, <2>6, NewStays DEF TextTyped, TextCore
<1>2. File!RoomFollows'
  BY <1>c
     DEF File!Type, TextCore, File!RoomFollows, File!Opened, File!Loaded, File!Closing, File!NonBlank,
         File!Within, File!changeVars, File!countVars
<1>3. File!ChangeIsKnown'
  <2>1. change.value < fresh'
    BY <1>b, TextAssumption
       DEF TextTyped, File!StepsOK, File!Changes, File!Value, TextCore, File!ChangeIsKnown
  <2> QED
    BY <1>b, <2>1 DEF File!Type, TextCore, File!ChangeIsKnown, File!changeVars
<1>4. WantedHolds'
  <2>1. ASSUME change.step # "written" PROVE TextReads(doc', after', wanted')
    <3>1. File!ReadsAs(File!Shown(doc), wanted)
      BY <2>1 DEF File!Type, TextCore, WantedHolds, File!Loaded, TextReads, File!Shown
    <3>2. piece[1] \notin wanted
      <4>1. \A p \in File!Shown(doc) : p \in doc.ins /\ p \in File!Held
        BY DEF File!Shown, File!Held
      <4>2. \A p \in File!Shown(doc) : p[1] # fresh
        BY <1>b, <4>1 DEF TextCore, File!PiecesAreNew, File!Used
      <4> QED
        BY <1>b, <3>1, <4>2 DEF File!ReadsAs, File!Values
    <3>3. {p \in doc'.ins \ doc'.del : after'[p] \subseteq doc'.ins} = File!Shown(doc) \cup {piece}
      BY <1>b, <1>d, NewPieceShown DEF TextTyped, TextCore
    <3>4. wanted' = wanted \cup {piece[1]}
      BY <1>b DEF File!Type
    <3> QED
      BY <3>1, <3>2, <3>3, <3>4, OneMore DEF TextReads
  <2> QED
    BY <1>b, <2>1 DEF File!Type, WantedHolds, File!Loaded
<1>5. File!UpdatesAreKept'
  BY <1>b, <1>c
     DEF File!Type, TextCore, File!UpdatesAreKept, File!Kept, File!NonBlank, File!Loaded, File!Within
<1> QED
  BY <1>1, <1>2, <1>3, <1>4, <1>5 DEF TextCore

LEMMA SaveStartCore ==
    ASSUME TextTyped, TextTyped', TextCore, File!SaveStart, ~upset'
    PROVE  TextCore'
<1>1. File!PiecesAreNew'
  <2>1. File!Held' \subseteq File!Held
    BY MissingIsNone, DocumentParts
       DEF File!SaveStart, File!Held, File!storeVars, File!roomVars, File!changeVars, File!ghostVars,
           File!countVars
  <2> QED
    BY <2>1, NothingNew
       DEF File!SaveStart, File!storeVars, File!roomVars, File!changeVars, File!ghostVars, File!countVars
<1>2. File!RoomFollows'
  BY DEF File!SaveStart, TextCore, File!RoomFollows, File!Opened, File!Loaded, File!Closing, File!NonBlank,
         File!Within, File!storeVars, File!roomVars, File!changeVars, File!ghostVars, File!countVars
<1>3. File!ChangeIsKnown'
  BY DEF File!SaveStart, TextCore, File!ChangeIsKnown, File!Within, File!storeVars, File!roomVars,
         File!changeVars, File!ghostVars, File!countVars
<1>4. WantedHolds'
  BY DEF File!SaveStart, TextCore, WantedHolds, File!Loaded, File!Within, File!storeVars, File!roomVars,
         File!changeVars, File!ghostVars, File!countVars
<1>5. File!UpdatesAreKept'
  BY DEF File!SaveStart, TextCore, File!UpdatesAreKept, File!Kept, File!NonBlank, File!Loaded, File!Within,
         File!storeVars, File!roomVars, File!changeVars, File!ghostVars, File!countVars
<1> QED
  BY <1>1, <1>2, <1>3, <1>4, <1>5 DEF TextCore

LEMMA SaveDroppedCore ==
    ASSUME TextTyped, TextTyped', TextCore, File!SaveDropped, ~upset'
    PROVE  TextCore'
<1>1. File!PiecesAreNew'
  <2>1. File!Held' \subseteq File!Held
    BY MissingIsNone, DocumentParts
       DEF File!SaveDropped, File!Held, File!storeVars, File!roomVars, File!changeVars, File!ghostVars,
           File!countVars
  <2> QED
    BY <2>1, NothingNew
       DEF File!SaveDropped, File!storeVars, File!roomVars, File!changeVars, File!ghostVars, File!countVars
<1>2. File!RoomFollows'
  BY DEF File!SaveDropped, TextCore, File!RoomFollows, File!Opened, File!Loaded, File!Closing, File!NonBlank,
         File!Within, File!storeVars, File!roomVars, File!changeVars, File!ghostVars, File!countVars
<1>3. File!ChangeIsKnown'
  BY DEF File!SaveDropped, TextCore, File!ChangeIsKnown, File!Within, File!storeVars, File!roomVars,
         File!changeVars, File!ghostVars, File!countVars
<1>4. WantedHolds'
  BY DEF File!SaveDropped, TextCore, WantedHolds, File!Loaded, File!Within, File!storeVars, File!roomVars,
         File!changeVars, File!ghostVars, File!countVars
<1>5. File!UpdatesAreKept'
  BY DEF File!SaveDropped, TextCore, File!UpdatesAreKept, File!Kept, File!NonBlank, File!Loaded, File!Within,
         File!storeVars, File!roomVars, File!changeVars, File!ghostVars, File!countVars
<1> QED
  BY <1>1, <1>2, <1>3, <1>4, <1>5 DEF TextCore

LEMMA SaveUpdateCore ==
    ASSUME TextTyped, TextTyped', TextCore, File!SaveUpdate, ~upset'
    PROVE  TextCore'
<1>a. saving \in File!Doc /\ File!Within(saving, doc) /\ File!NonBlank(saving) /\ saving # File!Blank
  BY DocumentParts
     DEF File!SaveUpdate, TextTyped, File!DocumentsOK, TextCore, File!RoomFollows, File!NonBlank
<1>1. File!PiecesAreNew'
  <2>1. File!Held' \subseteq File!Held
    BY MissingIsNone, DocumentParts
       DEF File!SaveUpdate, File!Held, File!storeVars, File!roomVars, File!changeVars, File!ghostVars,
           File!countVars
  <2> QED
    BY <2>1, NothingNew
       DEF File!SaveUpdate, File!storeVars, File!roomVars, File!changeVars, File!ghostVars, File!countVars
<1>2. File!RoomFollows'
  BY DEF File!SaveUpdate, TextCore, File!RoomFollows, File!Opened, File!Loaded, File!Closing, File!NonBlank,
         File!Within, File!storeVars, File!roomVars, File!changeVars, File!ghostVars, File!countVars
<1>3. File!ChangeIsKnown'
  BY DEF File!SaveUpdate, TextCore, File!ChangeIsKnown, File!Within, File!storeVars, File!roomVars,
         File!changeVars, File!ghostVars, File!countVars
<1>4. WantedHolds'
  BY DEF File!SaveUpdate, TextCore, WantedHolds, File!Loaded, File!Within, File!storeVars, File!roomVars,
         File!changeVars, File!ghostVars, File!countVars
<1>5. File!UpdatesAreKept'
  BY <1>a
     DEF File!SaveUpdate, TextCore, File!UpdatesAreKept, File!Kept, File!Loaded, File!storeVars,
         File!roomVars, File!changeVars, File!ghostVars, File!countVars
<1> QED
  BY <1>1, <1>2, <1>3, <1>4, <1>5 DEF TextCore

LEMMA SaveEndCore ==
    ASSUME TextTyped, TextTyped', TextCore, File!SaveEnd, ~upset'
    PROVE  TextCore'
<1>a. /\ updates' \in File!Doc
      /\ updates'.ins = updates.ins \cup buffer.ins /\ updates'.del = updates.del \cup buffer.del
      /\ doomed'.ins \subseteq doomed.ins /\ doomed'.del \subseteq doomed.del
      /\ room \in {"none", "reading", "compacting"} => updates' = updates /\ doomed' = doomed
      /\ room = "rows" => File!Merge(doc, updates') = File!Merge(doc, updates)
      /\ File!Loaded => File!Within(updates', doc)
      /\ buffer' = File!Blank /\ buffer'.ins = {} /\ buffer'.del = {}
  BY Flushed, DocumentParts DEF File!SaveEnd, File!Uncached
<1>1. File!PiecesAreNew'
  <2>1. File!Held' \subseteq File!Held
    BY <1>a, MissingIsNone
       DEF File!SaveEnd, File!Uncached, File!Held, File!storeVars, File!roomVars, File!changeVars,
           File!ghostVars, File!countVars
  <2> QED
    BY <2>1, NothingNew
       DEF File!SaveEnd, File!Uncached, File!storeVars, File!roomVars, File!changeVars, File!ghostVars,
           File!countVars
<1>2. File!RoomFollows'
  BY <1>a, DocumentParts
     DEF File!SaveEnd, File!Uncached, TextCore, File!RoomFollows, File!Opened, File!Loaded, File!Closing,
         File!NonBlank, File!Within, File!storeVars, File!roomVars, File!changeVars, File!ghostVars,
         File!countVars
<1>3. File!ChangeIsKnown'
  BY <1>a
     DEF File!SaveEnd, File!Uncached, TextCore, File!ChangeIsKnown, File!storeVars, File!roomVars,
         File!changeVars, File!ghostVars, File!countVars
<1>4. WantedHolds'
  BY <1>a
     DEF File!SaveEnd, File!Uncached, TextCore, WantedHolds, File!Loaded, File!storeVars, File!roomVars,
         File!changeVars, File!ghostVars, File!countVars
<1>5. File!UpdatesAreKept'
  BY <1>a
     DEF File!SaveEnd, File!Uncached, TextCore, File!UpdatesAreKept, File!Kept, File!NonBlank, File!Loaded,
         File!Within, File!storeVars, File!roomVars, File!changeVars, File!ghostVars, File!countVars
<1> QED
  BY <1>1, <1>2, <1>3, <1>4, <1>5 DEF TextCore

LEMMA LeaveCore ==
    ASSUME TextTyped, TextTyped', TextCore, File!Leave, ~upset'
    PROVE  TextCore'
<1>1. File!PiecesAreNew'
  <2>1. File!Held' \subseteq File!Held
    BY MissingIsNone, DocumentParts
       DEF File!Leave, File!Held, File!storeVars, File!roomVars, File!changeVars, File!ghostVars,
           File!countVars
  <2> QED
    BY <2>1, NothingNew
       DEF File!Leave, File!storeVars, File!roomVars, File!changeVars, File!ghostVars, File!countVars
<1>2. File!RoomFollows'
  BY DEF File!Leave, TextCore, File!RoomFollows, File!Opened, File!Loaded, File!Closing, File!NonBlank,
         File!Within, File!storeVars, File!roomVars, File!changeVars, File!ghostVars, File!countVars
<1>3. File!ChangeIsKnown'
  BY DEF File!Leave, TextCore, File!ChangeIsKnown, File!Within, File!storeVars, File!roomVars,
         File!changeVars, File!ghostVars, File!countVars
<1>4. WantedHolds'
  BY DEF File!Leave, TextCore, WantedHolds, File!Loaded, File!Within, File!storeVars, File!roomVars,
         File!changeVars, File!ghostVars, File!countVars
<1>5. File!UpdatesAreKept'
  BY DEF File!Leave, TextCore, File!UpdatesAreKept, File!Kept, File!NonBlank, File!Loaded, File!Within,
         File!storeVars, File!roomVars, File!changeVars, File!ghostVars, File!countVars
<1> QED
  BY <1>1, <1>2, <1>3, <1>4, <1>5 DEF TextCore

LEMMA FinalUpdateCore ==
    ASSUME TextTyped, TextTyped', TextCore, File!FinalUpdate, ~upset'
    PROVE  TextCore'
<1>a. saving = doc /\ saving \in File!Doc /\ saving # File!Missing
  BY MissingIsNoDoc DEF File!FinalUpdate, TextTyped, File!DocumentsOK, TextCore, File!RoomFollows
<1>1. File!PiecesAreNew'
  <2>1. File!Held' \subseteq File!Held
    BY MissingIsNone, DocumentParts
       DEF File!FinalUpdate, File!Held, File!storeVars, File!roomVars, File!changeVars, File!ghostVars,
           File!countVars
  <2> QED
    BY <2>1, NothingNew
       DEF File!FinalUpdate, File!storeVars, File!roomVars, File!changeVars, File!ghostVars, File!countVars
<1>2. File!RoomFollows'
  BY <1>a
     DEF File!FinalUpdate, TextCore, File!RoomFollows, File!Opened, File!Loaded, File!Closing, File!Within,
         File!NonBlank, File!storeVars, File!roomVars, File!changeVars, File!ghostVars, File!countVars
<1>3. File!ChangeIsKnown'
  BY DEF File!FinalUpdate, TextCore, File!ChangeIsKnown, File!Within, File!storeVars, File!roomVars,
         File!changeVars, File!ghostVars, File!countVars
<1>4. WantedHolds'
  BY DEF File!FinalUpdate, TextCore, WantedHolds, File!Loaded, File!Within, File!storeVars, File!roomVars,
         File!changeVars, File!ghostVars, File!countVars
<1>5. File!UpdatesAreKept'
  BY <1>a
     DEF File!FinalUpdate, TextCore, File!UpdatesAreKept, File!Loaded, File!storeVars, File!roomVars,
         File!changeVars, File!ghostVars, File!countVars
<1> QED
  BY <1>1, <1>2, <1>3, <1>4, <1>5 DEF TextCore

LEMMA FinalFlushCore ==
    ASSUME TextTyped, TextTyped', TextCore, File!FinalFlush, ~upset'
    PROVE  TextCore'
<1>a. /\ updates' \in File!Doc
      /\ updates'.ins = updates.ins \cup buffer.ins /\ updates'.del = updates.del \cup buffer.del
      /\ doomed'.ins \subseteq doomed.ins /\ doomed'.del \subseteq doomed.del
      /\ room \in {"none", "reading", "compacting"} => updates' = updates /\ doomed' = doomed
      /\ room = "rows" => File!Merge(doc, updates') = File!Merge(doc, updates)
      /\ File!Loaded => File!Within(updates', doc)
      /\ buffer' = File!Blank /\ buffer'.ins = {} /\ buffer'.del = {}
  BY Flushed, DocumentParts DEF File!FinalFlush, File!Uncached
<1>1. File!PiecesAreNew'
  <2>1. File!Held' \subseteq File!Held
    BY <1>a, MissingIsNone
       DEF File!FinalFlush, File!Uncached, File!Held, File!storeVars, File!roomVars, File!changeVars,
           File!ghostVars, File!countVars
  <2> QED
    BY <2>1, NothingNew
       DEF File!FinalFlush, File!Uncached, File!storeVars, File!roomVars, File!changeVars, File!ghostVars,
           File!countVars
<1>2. File!RoomFollows'
  BY <1>a, DocumentParts
     DEF File!FinalFlush, File!Uncached, TextCore, File!RoomFollows, File!Opened, File!Loaded, File!Closing,
         File!NonBlank, File!Within, File!storeVars, File!roomVars, File!changeVars, File!ghostVars,
         File!countVars
<1>3. File!ChangeIsKnown'
  BY <1>a
     DEF File!FinalFlush, File!Uncached, TextCore, File!ChangeIsKnown, File!storeVars, File!roomVars,
         File!changeVars, File!ghostVars, File!countVars
<1>4. WantedHolds'
  BY <1>a
     DEF File!FinalFlush, File!Uncached, TextCore, WantedHolds, File!Loaded, File!storeVars, File!roomVars,
         File!changeVars, File!ghostVars, File!countVars
<1>5. File!UpdatesAreKept'
  BY <1>a
     DEF File!FinalFlush, File!Uncached, TextCore, File!UpdatesAreKept, File!Kept, File!NonBlank,
         File!Loaded, File!Within, File!storeVars, File!roomVars, File!changeVars, File!ghostVars,
         File!countVars
<1> QED
  BY <1>1, <1>2, <1>3, <1>4, <1>5 DEF TextCore

LEMMA CompactCore ==
    ASSUME TextTyped, TextTyped', TextCore, File!Compact, ~upset'
    PROVE  TextCore'
<1>a. /\ change = File!Idle /\ ~saveTimer /\ stored = doc /\ File!Within(updates, doc) /\ File!NonBlank(doc)
      /\ saving = File!Missing /\ ~saved /\ orphan = File!Missing /\ buffer = File!Blank /\ stateCache = File!Missing
  BY DEF File!Compact, TextCore, File!RoomFollows, File!Closing, File!Opened, File!Loaded
<1>b. /\ stored' = stored /\ updates' = File!Blank /\ room' = "none" /\ doc' = File!Blank
      /\ saveTimer' = FALSE /\ orphan' = File!Missing /\ stored # File!Blank
  BY <1>a, MergedDocuments, DocumentParts
     DEF File!Compact, File!Reclaim, TextTyped, File!DocumentsOK, File!NonBlank
<1>c. TextReads(stored, after, wanted)
  BY <1>a DEF File!Compact, TextCore, WantedHolds, File!Loaded, File!Idle
<1>1. File!PiecesAreNew'
  <2>1. File!Held' \subseteq File!Held
    BY <1>b, DocumentParts DEF File!Compact, File!Held, File!changeVars
  <2> QED
    BY <1>b, <2>1, NothingNew
       DEF File!Compact, File!storeVars, File!roomVars, File!changeVars, File!ghostVars, File!countVars
<1>2. File!RoomFollows'
  BY <1>a, <1>b DEF File!Compact, File!RoomFollows, File!Opened, File!Loaded, File!Closing, File!changeVars
<1>3. File!ChangeIsKnown'
  <2>1. File!Idle.kind = "none" /\ change' = change
    BY DEF File!Idle, File!Compact, File!changeVars
  <2> QED
    BY <1>a, <2>1
       DEF File!Compact, TextCore, File!ChangeIsKnown, File!storeVars, File!roomVars, File!changeVars,
           File!ghostVars, File!countVars
<1>4. WantedHolds'
  <2>1. File!Within(File!Blank, stored) /\ File!Idle.kind = "none" /\ File!Idle.step = "none"
    BY DocumentParts DEF File!Within, File!Idle
  <2> QED
    BY <1>a, <1>b, <1>c, <2>1
       DEF File!Compact, WantedHolds, File!Loaded, File!storeVars, File!roomVars, File!changeVars,
           File!ghostVars, File!countVars
<1>5. File!UpdatesAreKept'
  BY <1>b DEF File!Compact, File!UpdatesAreKept, File!Loaded
<1> QED
  BY <1>1, <1>2, <1>3, <1>4, <1>5 DEF TextCore

LEMMA CompactFailsCore ==
    ASSUME TextTyped, TextTyped', TextCore, File!CompactFails, ~upset'
    PROVE  TextCore'
<1>a. /\ change = File!Idle /\ ~saveTimer /\ stored = doc /\ File!Within(updates, doc) /\ File!NonBlank(doc)
      /\ saving = File!Missing /\ ~saved /\ orphan = File!Missing /\ buffer = File!Blank /\ stateCache = File!Missing
  BY DEF File!CompactFails, TextCore, File!RoomFollows, File!Closing, File!Opened, File!Loaded
<1>b. /\ room' = "none" /\ doc' = File!Blank /\ saveTimer' = FALSE /\ orphan' = File!Missing
      /\ stored # File!Blank /\ broken' # 0
  BY <1>a, DocumentParts, TextAssumption
     DEF File!CompactFails, File!Reclaim, TextTyped, File!DocumentsOK, File!CountsOK, File!NonBlank
<1>c. TextReads(stored, after, wanted)
  BY <1>a DEF File!CompactFails, TextCore, WantedHolds, File!Loaded, File!Idle
<1>1. File!PiecesAreNew'
  <2>1. File!Held' \subseteq File!Held
    BY <1>b, DocumentParts
       DEF File!CompactFails, File!Held, File!storeVars, File!roomVars, File!changeVars, File!ghostVars,
           File!countVars
  <2> QED
    BY <1>b, <2>1, NothingNew
       DEF File!CompactFails, File!storeVars, File!roomVars, File!changeVars, File!ghostVars, File!countVars
<1>2. File!RoomFollows'
  BY <1>a, <1>b
     DEF File!CompactFails, File!RoomFollows, File!Opened, File!Loaded, File!Closing, File!storeVars,
         File!changeVars
<1>3. File!ChangeIsKnown'
  <2>1. File!Idle.kind = "none" /\ change' = change
    BY DEF File!Idle, File!CompactFails, File!changeVars
  <2> QED
    BY <1>a, <2>1
       DEF File!CompactFails, TextCore, File!ChangeIsKnown, File!storeVars, File!roomVars, File!changeVars,
           File!ghostVars, File!countVars
<1>4. WantedHolds'
  <2>1. File!Idle.kind = "none" /\ File!Idle.step = "none"
    BY DEF File!Idle
  <2> QED
    BY <1>a, <1>b, <1>c, <2>1
       DEF File!CompactFails, WantedHolds, File!Loaded, File!storeVars, File!roomVars, File!changeVars,
           File!ghostVars, File!countVars
<1>5. File!UpdatesAreKept'
  BY <1>b DEF File!CompactFails, File!UpdatesAreKept, File!Loaded
<1> QED
  BY <1>1, <1>2, <1>3, <1>4, <1>5 DEF TextCore

LEMMA OrphanSaveCore ==
    ASSUME TextTyped, TextTyped', TextCore, File!OrphanSave, ~upset'
    PROVE  TextCore'
<1> QED
  BY DEF File!OrphanSave, TextCore, File!RoomFollows

LEMMA WorkerFlushCore ==
    ASSUME TextTyped, TextTyped', TextCore, File!WorkerFlush, ~upset'
    PROVE  TextCore'
<1>a. /\ updates' \in File!Doc
      /\ updates'.ins = updates.ins \cup buffer.ins /\ updates'.del = updates.del \cup buffer.del
      /\ doomed'.ins \subseteq doomed.ins /\ doomed'.del \subseteq doomed.del
      /\ room \in {"none", "reading", "compacting"} => updates' = updates /\ doomed' = doomed
      /\ room = "rows" => File!Merge(doc, updates') = File!Merge(doc, updates)
      /\ File!Loaded => File!Within(updates', doc)
      /\ buffer' = File!Blank /\ buffer'.ins = {} /\ buffer'.del = {}
  BY Flushed, DocumentParts DEF File!WorkerFlush, File!Flush, File!roomVars
<1>1. File!PiecesAreNew'
  <2>1. File!Held' \subseteq File!Held
    BY <1>a, MissingIsNone
       DEF File!WorkerFlush, File!Flush, File!Held, File!storeVars, File!roomVars, File!changeVars,
           File!ghostVars, File!countVars
  <2> QED
    BY <2>1, NothingNew
       DEF File!WorkerFlush, File!Flush, File!storeVars, File!roomVars, File!changeVars, File!ghostVars,
           File!countVars
<1>2. File!RoomFollows'
  BY <1>a, DocumentParts
     DEF File!WorkerFlush, File!Flush, TextCore, File!RoomFollows, File!Opened, File!Loaded, File!Closing,
         File!NonBlank, File!Within, File!storeVars, File!roomVars, File!changeVars, File!ghostVars,
         File!countVars
<1>3. File!ChangeIsKnown'
  BY <1>a
     DEF File!WorkerFlush, File!Flush, TextCore, File!ChangeIsKnown, File!storeVars, File!roomVars,
         File!changeVars, File!ghostVars, File!countVars
<1>4. WantedHolds'
  BY <1>a
     DEF File!WorkerFlush, File!Flush, TextCore, WantedHolds, File!Loaded, File!storeVars, File!roomVars,
         File!changeVars, File!ghostVars, File!countVars
<1>5. File!UpdatesAreKept'
  BY <1>a
     DEF File!WorkerFlush, File!Flush, TextCore, File!UpdatesAreKept, File!Kept, File!NonBlank, File!Loaded,
         File!Within, File!storeVars, File!roomVars, File!changeVars, File!ghostVars, File!countVars
<1> QED
  BY <1>1, <1>2, <1>3, <1>4, <1>5 DEF TextCore

LEMMA RestoreCore ==
    ASSUME TextTyped, TextTyped', TextCore, File!Restore, ~upset'
    PROVE  TextCore'
<1>a. /\ change' = [kind |-> "restore", value |-> fresh, step |-> "written"] /\ change'.value = fresh
      /\ change'.kind = "restore" /\ change'.step = "written" /\ change' # File!Idle
      /\ fresh' = fresh + 1 /\ fresh \in Nat /\ fresh \in File!Value
  BY TextAssumption
     DEF File!Restore, File!Begin, File!RowsDeleted, TextTyped, File!CountsOK, File!Value, File!Idle
<1>b. \A p \in File!Piece : File!Used(p) => File!Used(p)'
  <2>1. ASSUME NEW p \in File!Piece, File!Used(p) PROVE File!Used(p)'
    <3>1. p[1] < fresh' /\ p # <<fresh, File!Live>>
      BY <1>a, <2>1, TextAssumption DEF File!Used, File!Piece, File!Value
    <3> QED
      BY <1>a, <2>1, <3>1 DEF File!Restore, File!Begin, File!RowsDeleted, File!Used, File!roomVars
  <2> QED
    BY <2>1
<1>1. File!PiecesAreNew'
  <2>1. File!Held' \subseteq File!Held /\ after' = after
    BY DEF File!Restore, File!Begin, File!RowsDeleted, File!Held, File!roomVars
  <2> QED
    BY <1>b, <2>1, NewStays DEF TextTyped, TextCore
<1>2. File!RoomFollows'
  BY DEF File!Restore, File!Begin, File!RowsDeleted, TextCore, File!RoomFollows, File!Opened, File!Loaded,
         File!Closing, File!NonBlank, File!Within, File!storeVars, File!roomVars, File!changeVars,
         File!ghostVars, File!countVars
<1>3. File!ChangeIsKnown'
  <2>1. <<fresh, File!Live>> \notin updates.ins
    BY <1>a DEF TextCore, File!PiecesAreNew, File!Held, File!Used
  <2>2. fresh < fresh'
    BY <1>a
  <2> QED
    BY <1>a, <2>1, <2>2
       DEF File!Restore, File!Begin, File!RowsDeleted, TextCore, File!ChangeIsKnown, File!Within,
           File!roomVars
<1>4. WantedHolds'
  BY <1>a DEF File!Restore, File!Begin, File!RowsDeleted, WantedHolds, File!Loaded, File!roomVars
<1>5. File!UpdatesAreKept'
  BY <1>a DEF File!UpdatesAreKept
<1> QED
  BY <1>1, <1>2, <1>3, <1>4, <1>5 DEF TextCore

LEMMA PutCore ==
    ASSUME TextTyped, TextTyped', TextCore, File!Put, ~upset'
    PROVE  TextCore'
<1>a. /\ change' = [kind |-> "put", value |-> fresh, step |-> "written"] /\ change'.value = fresh
      /\ change'.kind = "put" /\ change'.step = "written" /\ change' # File!Idle
      /\ fresh' = fresh + 1 /\ fresh \in Nat /\ fresh \in File!Value
  BY TextAssumption DEF File!Put, File!Begin, TextTyped, File!CountsOK, File!Value, File!Idle
<1>b. \A p \in File!Piece : File!Used(p) => File!Used(p)'
  <2>1. ASSUME NEW p \in File!Piece, File!Used(p) PROVE File!Used(p)'
    <3>1. p[1] < fresh' /\ p # <<fresh, File!Live>>
      BY <1>a, <2>1, TextAssumption DEF File!Used, File!Piece, File!Value
    <3> QED
      BY <1>a, <2>1, <3>1 DEF File!Put, File!Begin, File!Used, File!roomVars
  <2> QED
    BY <2>1
<1>c. PICK piece \in File!Piece :
         piece = <<fresh, File!Stored>> /\ stored' = File!Fresh(fresh) /\ stored'.ins = {piece} /\ stored'.del = {}
  BY <1>a, FreshOne DEF File!Put
<1>d. piece[1] = fresh /\ piece[2] = File!Stored
  BY <1>c
<1>1. File!PiecesAreNew'
  <2>1. File!Used(piece)'
    <3>1. piece[1] < fresh' /\ piece # <<fresh, File!Live>>
      BY <1>a, <1>c, <1>d, PieceCopies
    <3>2. piece[2] <= visits /\ (room = "reading" => piece[2] # visits)
      BY <1>d DEF File!Stored, TextCore, File!RoomFollows, TextTyped, File!CountsOK
    <3> QED
      BY <1>a, <3>1, <3>2 DEF File!Put, File!Used, File!roomVars
  <2>2. (\A p \in File!Held' : p \in File!Held \/ p = piece) /\ after' = after
    BY <1>c DEF File!Put, File!Held, File!roomVars
  <2> QED
    BY <1>b, <2>1, <2>2, NewStays DEF TextTyped, TextCore
<1>2. File!RoomFollows'
  BY DEF File!Put, File!Begin, TextCore, File!RoomFollows, File!Opened, File!Loaded, File!Closing,
         File!NonBlank, File!Within, File!storeVars, File!roomVars, File!changeVars, File!ghostVars,
         File!countVars
<1>3. File!ChangeIsKnown'
  <2>1. fresh < fresh'
    BY <1>a
  <2> QED
    BY <1>a, <2>1 DEF File!Put, File!Begin, TextCore, File!ChangeIsKnown, File!Within, File!roomVars
<1>4. WantedHolds'
  BY <1>a, <1>c DEF File!Put, File!Begin, WantedHolds, File!Loaded, File!roomVars
<1>5. File!UpdatesAreKept'
  BY <1>a DEF File!UpdatesAreKept
<1> QED
  BY <1>1, <1>2, <1>3, <1>4, <1>5 DEF TextCore

LEMMA ApplyToLiveDocCore ==
    ASSUME TextTyped, TextTyped', TextCore, File!ApplyToLiveDoc, ~upset'
    PROVE  TextCore'
<1>a. room \in {"none", "live"} /\ orphan = File!Missing
  BY DEF File!ApplyToLiveDoc, File!Closing, TextTyped, File!StepsOK
<1>b. PICK piece \in File!Piece :
         piece = <<change.value, File!Live>> /\ piece[1] = change.value /\ piece[2] = File!Live
  BY PieceCopies DEF TextTyped, File!StepsOK, File!Changes
<1>c. ~File!Used(piece) /\ change.kind \in {"restore", "put"} /\ change.value < fresh
  BY <1>b
     DEF File!ApplyToLiveDoc, File!Used, TextTyped, File!StepsOK, File!Changes, TextCore, File!ChangeIsKnown
<1>d. IF change.kind = "put" THEN change' = File!Idle
      ELSE change'.kind = "restore" /\ change'.step = "applied" /\ change'.value = change.value /\ change' # File!Idle
  BY <1>c DEF File!ApplyToLiveDoc, TextTyped, File!StepsOK, File!Changes, File!Idle
<1>e. /\ File!Idle.value = 0 /\ File!Idle.kind = "none" /\ File!Idle.step = "none"
      /\ change'.step # "written" /\ wanted' = {change.value}
  BY <1>d DEF File!Idle, File!ApplyToLiveDoc
<1>f. \A p \in File!Piece : File!Used(p) => File!Used(p)'
  BY <1>e DEF File!ApplyToLiveDoc, File!Used, File!countVars
<1>g. File!ChangeIsKnown'
  <2>1. change'.value < fresh
    BY <1>c, <1>d, <1>e, TextAssumption DEF TextTyped, File!CountsOK
  <2> QED
    BY <1>a, <1>d, <1>e, <2>1
       DEF File!ApplyToLiveDoc, TextCore, File!ChangeIsKnown, File!Within, File!countVars
<1>h. CASE room = "live"
  <2>1. /\ File!Insert(piece, File!AllDeleted) /\ File!AllDeleted \in SUBSET File!Shown(doc)
        /\ File!AllDeleted \in SUBSET File!Piece
    BY <1>b, <1>h, DocumentParts
       DEF File!ApplyToLiveDoc, File!Loaded, File!AllDeleted, File!Shown, TextTyped, File!DocumentsOK
  <2>2. /\ doc'.ins = doc.ins \cup {piece} /\ doc'.del = doc.del \cup File!AllDeleted
        /\ buffer'.ins = buffer.ins \cup {piece} /\ buffer'.del = buffer.del \cup File!AllDeleted
        /\ \A p \in File!Piece : after'[p] = IF p = piece THEN doc.ins ELSE after[p]
    BY <2>1, InsertedPiece DEF TextTyped
  <2>3. File!PiecesAreNew'
    <3>1. File!Used(piece)'
      BY <1>b, <1>c, <1>e, <1>h DEF File!ApplyToLiveDoc, File!Used, File!countVars
    <3>2. File!AllDeleted \subseteq doc.ins
      BY <2>1 DEF File!Shown
    <3>3. \A p \in File!Held' : p \in File!Held \/ p = piece
      BY <2>2, <3>2 DEF File!ApplyToLiveDoc, File!Held
    <3>4. piece[2] \notin {File!Stored, File!Base} /\ doc.ins \subseteq File!Held
      BY <1>b, PieceCopies DEF File!Held
    <3>5. \A p \in File!Piece :
              after'[p] = after[p] \/ (p[2] \notin {File!Stored, File!Base} /\ after'[p] \subseteq File!Held)
      BY <2>2, <3>4
    <3> QED
      BY <1>f, <3>1, <3>3, <3>5, NewStays DEF TextTyped, TextCore
  <2>4. File!RoomFollows'
    BY <1>a, <1>h, <2>2
       DEF File!ApplyToLiveDoc, TextCore, File!RoomFollows, File!Opened, File!Loaded, File!Closing,
           File!NonBlank, File!Within
  <2>5. WantedHolds'
    <3>1. {p \in doc'.ins \ doc'.del : after'[p] \subseteq doc'.ins} = {piece}
      BY <1>c, <2>1, NewPieceShown DEF TextTyped, TextCore, File!AllDeleted
    <3>2. File!ReadsAs({piece}, {change.value})
      BY <1>b DEF File!ReadsAs, File!Values
    <3>3. TextReads(doc', after', wanted')
      BY <1>e, <3>1, <3>2 DEF TextReads
    <3> QED
      BY <1>h, <3>3 DEF File!ApplyToLiveDoc, WantedHolds, File!Loaded
  <2>6. File!UpdatesAreKept'
    BY <1>b, <1>d, <1>e, <1>h, <2>2
       DEF File!ApplyToLiveDoc, File!UpdatesAreKept, File!Kept, File!NonBlank, File!Loaded
  <2> QED
    BY <1>g, <2>3, <2>4, <2>5, <2>6 DEF TextCore
<1>i. CASE room = "none"
  <2>1. UNCHANGED <<doc, buffer, after, saveTimer>>
    BY <1>i DEF File!ApplyToLiveDoc, File!Loaded
  <2>2. File!PiecesAreNew'
    <3>1. File!Held' \subseteq File!Held
      BY <2>1 DEF File!ApplyToLiveDoc, File!Held
    <3> QED
      BY <1>f, <2>1, <3>1, NewStays DEF TextTyped, TextCore
  <2>3. File!RoomFollows'
    BY <1>a, <1>i, <2>1
       DEF File!ApplyToLiveDoc, TextCore, File!RoomFollows, File!Opened, File!Loaded, File!Closing
  <2>4. change.kind = "put" => stored = File!Fresh(change.value) /\ updates = File!Blank
    BY <1>i DEF TextCore, WantedHolds
  <2>5. WantedHolds'
    <3>1. ASSUME change.kind = "put"
          PROVE  TextReads(stored, after, {change.value}) /\ stored # File!Blank /\ File!Within(updates, stored)
      <4>1. change.value \in File!Value /\ after[<<change.value, File!Stored>>] = {}
        <5>1. change.value \in File!Value /\ <<change.value, File!Stored>> \in File!Piece
          BY FreshOne DEF TextTyped, File!StepsOK, File!Changes
        <5> QED
          BY <5>1 DEF TextCore, File!PiecesAreNew
      <4> QED
        BY <2>4, <3>1, <4>1, FreshReads, FreshOne, DocumentParts DEF File!Within
    <3> QED
      BY <1>c, <1>d, <1>e, <1>i, <2>1, <3>1 DEF File!ApplyToLiveDoc, WantedHolds, File!Loaded
  <2>6. File!UpdatesAreKept'
    BY <1>c, <1>d, <1>i, <2>4 DEF File!ApplyToLiveDoc, File!UpdatesAreKept, File!Loaded
  <2> QED
    BY <1>g, <2>2, <2>3, <2>5, <2>6 DEF TextCore
<1> QED
  BY <1>a, <1>h, <1>i

LEMMA CommitCore ==
    ASSUME TextTyped, TextTyped', TextCore, File!Commit, ~upset'
    PROVE  TextCore'
<1>a. /\ change.kind = "restore" /\ change # File!Idle /\ room \in {"none", "reading", "live"}
      /\ change.value < fresh /\ <<change.value, File!Live>> \notin doomed.ins
      /\ room \in {"none", "reading"} => File!Within(updates, doomed)
  BY DEF File!Commit, File!Idle, TextTyped, File!StepsOK, TextCore, File!ChangeIsKnown, File!RoomFollows,
         File!Closing
<1>b. PICK piece \in File!Piece :
         /\ piece = <<change.value, File!Stored>> /\ piece[1] = change.value /\ piece[2] = File!Stored
         /\ stored' = File!Fresh(change.value) /\ stored'.ins = {piece} /\ stored'.del = {}
  BY FreshOne DEF File!Commit, TextTyped, File!StepsOK, File!Changes
<1>c. /\ updates'.ins = updates.ins \ doomed.ins /\ updates'.del = updates.del \ doomed.del
      /\ change' = File!Idle /\ doomed' = File!Blank
  BY LessDocuments DEF File!Commit, TextTyped, File!DocumentsOK
<1>d. File!Idle.value = 0 /\ File!Idle.kind = "none" /\ File!Idle.step = "none"
  BY DEF File!Idle
<1>e. room \in {"none", "reading"} => updates' = File!Blank
  <2>1. updates' \in File!Doc
    BY DEF TextTyped, File!DocumentsOK
  <2> QED
    BY <1>a, <1>c, <2>1, DocumentParts DEF File!Within
<1>1. File!PiecesAreNew'
  <2>1. File!Used(piece)'
    <3>1. piece[2] <= visits /\ (room = "reading" => piece[2] # visits)
      BY <1>b DEF File!Stored, TextCore, File!RoomFollows, TextTyped, File!CountsOK
    <3> QED
      BY <1>a, <1>b, <1>c, <1>d, <3>1 DEF File!Commit, File!Used, File!roomVars, File!countVars
  <2>2. (\A p \in File!Held' : p \in File!Held \/ p = piece) /\ after' = after
    BY <1>b, <1>c, DocumentParts DEF File!Commit, File!Held, File!roomVars, File!ghostVars
  <2>3. \A p \in File!Piece : File!Used(p) => File!Used(p)'
    BY <1>c, <1>d DEF File!Commit, File!Used, File!roomVars, File!countVars
  <2> QED
    BY <2>1, <2>2, <2>3, NewStays DEF TextTyped, TextCore
<1>2. File!RoomFollows'
  BY <1>a, <1>c
     DEF File!Commit, TextCore, File!RoomFollows, File!Opened, File!Loaded, File!Closing, File!NonBlank,
         File!Within, File!roomVars, File!countVars
<1>3. File!ChangeIsKnown'
  <2>1. change'.value < fresh
    BY <1>c, <1>d DEF TextTyped, File!CountsOK
  <2> QED
    BY <1>c, <1>d, <2>1
       DEF File!Commit, TextCore, File!ChangeIsKnown, File!storeVars, File!roomVars, File!changeVars,
           File!ghostVars, File!countVars
<1>4. WantedHolds'
  <2>1. room \in {"none", "reading"} => wanted = {change.value}
    BY DEF File!Commit, TextCore, WantedHolds
  <2>2. TextReads(stored', after, {change.value}) /\ stored' # File!Blank /\ File!Within(File!Blank, stored')
    <3>1. after[<<change.value, File!Stored>>] = {} /\ change.value \in File!Value
      BY <1>b DEF TextCore, File!PiecesAreNew, TextTyped, File!StepsOK, File!Changes
    <3> QED
      BY <1>b, <3>1, FreshReads, DocumentParts DEF File!Within
  <2>3. room = "live" => TextReads(doc, after, wanted)
    BY DEF File!Commit, TextCore, WantedHolds, File!Loaded
  <2> QED
    BY <1>a, <1>c, <1>d, <1>e, <2>1, <2>2, <2>3
       DEF File!Commit, WantedHolds, File!Loaded, File!roomVars, File!ghostVars
<1>5. File!UpdatesAreKept'
  <2>1. room = "live" => <<change.value, File!Live>> \in updates'.ins \cup buffer.ins
    BY <1>a, <1>c DEF File!Commit, TextCore, File!UpdatesAreKept, File!Loaded
  <2> QED
    BY <1>a, <1>c, <1>d, <1>e, <2>1
       DEF File!Commit, File!UpdatesAreKept, File!Kept, File!NonBlank, File!Loaded, File!roomVars
<1> QED
  BY <1>1, <1>2, <1>3, <1>4, <1>5 DEF TextCore

LEMMA CommitFailsCore ==
    ASSUME TextTyped, TextTyped', TextCore, File!CommitFails, ~upset'
    PROVE  TextCore'
<1>1. File!PiecesAreNew'
  <2>1. File!Held' \subseteq File!Held
    BY MissingIsNone, DocumentParts
       DEF File!CommitFails, File!Held, File!storeVars, File!roomVars, File!changeVars, File!ghostVars,
           File!countVars
  <2> QED
    BY <2>1, NothingNew
       DEF File!CommitFails, File!storeVars, File!roomVars, File!changeVars, File!ghostVars, File!countVars
<1>2. File!RoomFollows'
  BY DEF File!CommitFails, TextCore, File!RoomFollows, File!Opened, File!Loaded, File!Closing, File!NonBlank,
         File!Within, File!storeVars, File!roomVars, File!changeVars, File!ghostVars, File!countVars
<1>3. File!ChangeIsKnown'
  BY DEF File!CommitFails, TextCore, File!ChangeIsKnown, File!Within, File!storeVars, File!roomVars,
         File!changeVars, File!ghostVars, File!countVars
<1>4. WantedHolds'
  BY DEF File!CommitFails, TextCore, WantedHolds, File!Loaded, File!Within, File!storeVars, File!roomVars,
         File!changeVars, File!ghostVars, File!countVars
<1>5. File!UpdatesAreKept'
  BY DEF File!CommitFails, TextCore, File!UpdatesAreKept, File!Kept, File!NonBlank, File!Loaded, File!Within,
         File!storeVars, File!roomVars, File!changeVars, File!ghostVars, File!countVars
<1> QED
  BY <1>1, <1>2, <1>3, <1>4, <1>5 DEF TextCore

LEMMA ReadBaseCore ==
    ASSUME TextTyped, TextTyped', TextCore, File!ReadBase, ~upset'
    PROVE  TextCore'
<1>1. File!PiecesAreNew'
  <2>1. File!Held' \subseteq File!Held
    BY MissingIsNone, DocumentParts
       DEF File!ReadBase, File!Held, File!storeVars, File!roomVars, File!changeVars, File!ghostVars,
           File!countVars
  <2> QED
    BY <2>1, NothingNew
       DEF File!ReadBase, File!storeVars, File!roomVars, File!changeVars, File!ghostVars, File!countVars
<1>2. File!RoomFollows'
  BY DEF File!ReadBase, TextCore, File!RoomFollows, File!Opened, File!Loaded, File!Closing, File!NonBlank,
         File!Within, File!storeVars, File!roomVars, File!changeVars, File!ghostVars, File!countVars
<1>3. File!ChangeIsKnown'
  BY DEF File!ReadBase, TextCore, File!ChangeIsKnown, File!Within, File!storeVars, File!roomVars,
         File!changeVars, File!ghostVars, File!countVars
<1>4. WantedHolds'
  BY DEF File!ReadBase, TextCore, WantedHolds, File!Loaded, File!Within, File!storeVars, File!roomVars,
         File!changeVars, File!ghostVars, File!countVars
<1>5. File!UpdatesAreKept'
  BY DEF File!ReadBase, TextCore, File!UpdatesAreKept, File!Kept, File!NonBlank, File!Loaded, File!Within,
         File!storeVars, File!roomVars, File!changeVars, File!ghostVars, File!countVars
<1> QED
  BY <1>1, <1>2, <1>3, <1>4, <1>5 DEF TextCore

LEMMA ReplayCore ==
    ASSUME TextTyped, TextTyped', TextCore, File!Replay, ~upset'
    PROVE  TextCore'
<1>a. /\ updates' \in File!Doc
      /\ updates'.ins = updates.ins \cup buffer.ins /\ updates'.del = updates.del \cup buffer.del
      /\ doomed'.ins \subseteq doomed.ins /\ doomed'.del \subseteq doomed.del
      /\ room \in {"none", "reading", "compacting"} => updates' = updates /\ doomed' = doomed
      /\ room = "rows" => File!Merge(doc, updates') = File!Merge(doc, updates)
      /\ File!Loaded => File!Within(updates', doc)
      /\ buffer' = File!Blank /\ buffer'.ins = {} /\ buffer'.del = {}
  BY Flushed, DocumentParts DEF File!Replay, File!Flush, File!roomVars
<1>1. File!PiecesAreNew'
  <2>1. File!Held' \subseteq File!Held
    BY <1>a, MissingIsNone
       DEF File!Replay, File!Flush, File!Held, File!storeVars, File!roomVars, File!changeVars,
           File!ghostVars, File!countVars
  <2> QED
    BY <2>1, NothingNew
       DEF File!Replay, File!Flush, File!storeVars, File!roomVars, File!changeVars, File!ghostVars,
           File!countVars
<1>2. File!RoomFollows'
  BY <1>a, DocumentParts
     DEF File!Replay, File!Flush, TextCore, File!RoomFollows, File!Opened, File!Loaded, File!Closing,
         File!NonBlank, File!Within, File!storeVars, File!roomVars, File!changeVars, File!ghostVars,
         File!countVars
<1>3. File!ChangeIsKnown'
  BY <1>a
     DEF File!Replay, File!Flush, TextCore, File!ChangeIsKnown, File!storeVars, File!roomVars,
         File!changeVars, File!ghostVars, File!countVars
<1>4. WantedHolds'
  BY <1>a
     DEF File!Replay, File!Flush, TextCore, WantedHolds, File!Loaded, File!storeVars, File!roomVars,
         File!changeVars, File!ghostVars, File!countVars
<1>5. File!UpdatesAreKept'
  BY <1>a
     DEF File!Replay, File!Flush, TextCore, File!UpdatesAreKept, File!Kept, File!NonBlank, File!Loaded,
         File!Within, File!storeVars, File!roomVars, File!changeVars, File!ghostVars, File!countVars
<1> QED
  BY <1>1, <1>2, <1>3, <1>4, <1>5 DEF TextCore

LEMMA AnswerCore ==
    ASSUME TextTyped, TextTyped', TextCore, File!Answer, ~upset'
    PROVE  TextCore'
<1>1. File!PiecesAreNew'
  <2>1. File!Held' \subseteq File!Held
    BY MissingIsNone, DocumentParts
       DEF File!Answer, File!Held, File!storeVars, File!roomVars, File!changeVars, File!ghostVars,
           File!countVars
  <2> QED
    BY <2>1, NothingNew
       DEF File!Answer, File!storeVars, File!roomVars, File!changeVars, File!ghostVars, File!countVars
<1>2. File!RoomFollows'
  BY DEF File!Answer, TextCore, File!RoomFollows, File!Opened, File!Loaded, File!Closing, File!NonBlank,
         File!Within, File!storeVars, File!roomVars, File!changeVars, File!ghostVars, File!countVars
<1>3. File!ChangeIsKnown'
  BY DEF File!Answer, TextCore, File!ChangeIsKnown, File!Within, File!storeVars, File!roomVars,
         File!changeVars, File!ghostVars, File!countVars
<1>4. WantedHolds'
  BY DEF File!Answer, TextCore, WantedHolds, File!Loaded, File!Within, File!storeVars, File!roomVars,
         File!changeVars, File!ghostVars, File!countVars
<1>5. File!UpdatesAreKept'
  BY DEF File!Answer, TextCore, File!UpdatesAreKept, File!Kept, File!NonBlank, File!Loaded, File!Within,
         File!storeVars, File!roomVars, File!changeVars, File!ghostVars, File!countVars
<1> QED
  BY <1>1, <1>2, <1>3, <1>4, <1>5 DEF TextCore

LEMMA CoreMove ==
    ASSUME TextTyped, TextTyped', TextCore, File!Move, ~upset'
    PROVE  TextCore'
BY OpenCore, LoadStateCore, LoadRowsCore, TypeCore, SaveStartCore, SaveDroppedCore, SaveUpdateCore,
   SaveEndCore, LeaveCore, FinalUpdateCore, FinalFlushCore, CompactCore, CompactFailsCore, OrphanSaveCore,
   WorkerFlushCore, RestoreCore, PutCore, ApplyToLiveDocCore, CommitCore, CommitFailsCore, ReadBaseCore,
   ReplayCore, AnswerCore
   DEF File!Move

-----------------------------------------------------------------------------
(* A replay that meets nothing. *)
LEMMA NothingMet ==
    ASSUME TextTyped, ~File!Unsettled
    PROVE  /\ change = File!Idle /\ change.step = "none" /\ change.kind = "none" /\ ~File!Closing
           /\ room \notin {"saving", "compacting"}
           /\ (File!Loaded => room = "live") /\ (room = "reading" => stored # File!Blank)
BY DEF File!Unsettled, File!Closing, File!Loaded, File!Idle

LEMMA OpenTracked ==
    ASSUME TextTyped, TextCore, File!Open, ~File!Unsettled, ~File!Unsettled', File!Tracked
    PROVE  File!Tracked'
<1>1. stored # File!Blank
  BY DEF File!Open, File!Unsettled, File!storeVars, File!changeVars
<1> QED
  BY <1>1 DEF File!Open, File!Tracked, File!Loaded, File!storeVars

LEMMA LoadStateTracked ==
    ASSUME TextTyped, TextCore, File!LoadState, ~File!Unsettled, File!Tracked
    PROVE  File!Tracked'
<1>1. /\ wanted # {} /\ stored # File!Blank /\ TextReads(stored, after, wanted) /\ File!Within(updates, stored)
      /\ stored \in File!Doc /\ updates \in File!Doc
  BY NothingMet DEF File!LoadState, TextCore, WantedHolds, File!ChangeIsKnown, TextTyped, File!DocumentsOK
<1>2. doc' = stored /\ File!Merge(stored, updates) = stored
  <2>1. doc = File!Blank /\ File!Blank \in File!Doc /\ File!Within(File!Blank, stored)
    BY DocumentParts DEF File!LoadState, TextCore, File!RoomFollows, File!Within
  <2>2. File!Merge(doc, stored) = stored /\ File!Merge(stored, updates) = stored
    BY <1>1, <2>1, MergedDocuments
  <2>3. File!Shown(stored) # {}
    BY <1>1, ReadsSomething DEF File!Shown
  <2> QED
    BY <2>2, <2>3 DEF File!LoadState, File!Learn
<1> QED
  BY <1>2 DEF File!LoadState, File!Tracked, File!Loaded

LEMMA LoadRowsTracked ==
    ASSUME TextTyped, TextCore, File!LoadRows, File!Tracked
    PROVE  File!Tracked'
<1>1. doc' = File!Merge(doc, updates) /\ buffer.ins \subseteq buffer'.ins
  BY Learned DEF File!LoadRows, TextTyped, File!DocumentsOK
<1> QED
  BY <1>1 DEF File!LoadRows, File!Tracked, File!Loaded, File!Kept, File!NonBlank

LEMMA TypeTracked ==
    ASSUME TextTyped, TextCore, File!Type, File!Tracked
    PROVE  File!Tracked'
BY DEF File!Type, File!Insert, File!Tracked, File!Loaded, File!Kept, File!NonBlank, File!Within

LEMMA SaveTracked ==
    ASSUME TextTyped, TextCore, File!SaveStart \/ File!SaveDropped \/ File!SaveUpdate, File!Tracked
    PROVE  File!Tracked'
BY DEF File!SaveStart, File!SaveDropped, File!SaveUpdate, File!Tracked, File!Loaded, File!Kept,
       File!storeVars, File!countVars

LEMMA SaveEndTracked ==
    ASSUME TextTyped, TextCore, File!SaveEnd, File!Tracked
    PROVE  File!Tracked'
<1>1. updates'.ins = updates.ins \cup buffer.ins
  BY Flushed DEF File!SaveEnd, File!Uncached
<1> QED
  BY <1>1 DEF File!SaveEnd, File!Tracked, File!Loaded, File!Kept, File!NonBlank

LEMMA WorkerFlushTracked ==
    ASSUME TextTyped, TextCore, File!WorkerFlush, File!Tracked
    PROVE  File!Tracked'
<1>1. /\ updates'.ins = updates.ins \cup buffer.ins /\ room \notin {"none", "reading"}
      /\ room = "rows" => File!Merge(doc, updates') = File!Merge(doc, updates)
  BY Flushed DEF File!WorkerFlush, File!Flush, TextCore, File!RoomFollows
<1> QED
  BY <1>1 DEF File!WorkerFlush, File!Tracked, File!Loaded, File!Kept, File!NonBlank, File!roomVars

LEMMA ReplayTracked ==
    ASSUME TextTyped, TextCore, File!Replay, ~File!Unsettled, File!Tracked
    PROVE  File!Tracked'
<1>1. /\ updates' \in File!Doc
      /\ updates'.ins = updates.ins \cup buffer.ins /\ updates'.del = updates.del \cup buffer.del
      /\ room \in {"none", "reading"} => updates' = updates
      /\ room = "rows" => File!Merge(doc, updates') = File!Merge(doc, updates)
      /\ File!Loaded => File!Within(updates', doc)
  BY Flushed DEF File!Replay, File!Flush
<1>2. /\ reader'.step = "replayed" /\ reader'.hit = reader.hit
      /\ reader'.doc = IF updates' = File!Blank THEN reader.doc ELSE updates'
  BY DEF File!Replay, TextTyped, File!StepsOK, File!Readers
<1>3. /\ room = "none" /\ broken = 0 => updates = File!Blank
      /\ room \in {"none", "reading"} => File!Within(updates, stored)
  BY NothingMet DEF TextCore, WantedHolds, File!UpdatesAreKept
<1>4. updates' = File!Blank => ~File!Kept
  BY <1>1, DocumentParts DEF File!Kept, File!NonBlank
<1>5. File!Within(updates', File!Merge(doc, updates'))
  BY DEF File!Within, File!Merge
<1> QED
  BY <1>1, <1>2, <1>3, <1>4, <1>5 DEF File!Replay, File!Tracked, File!Loaded, File!roomVars, File!countVars

LEMMA BaseTracked ==
    ASSUME TextTyped, TextCore, File!ReadBase, ~File!Unsettled
    PROVE  File!Tracked'
<1>1. stored = File!Blank => File!OfContent = File!FirstText
  BY DEF File!OfContent, File!FirstText
<1>2. /\ reader'.step = "based" /\ reader'.hit = historyCache
      /\ reader'.doc = IF historyCache = "state" THEN File!Blank
                       ELSE IF historyCache = "null" \/ stored = File!Blank THEN File!OfContent ELSE stored
  BY DEF File!ReadBase, File!NoRead
<1>3. historyCache \in {"none", "null", "state"}
  BY DEF TextTyped, File!StepsOK
<1>4. \A d : File!Within(File!Blank, d) /\ File!Within(d, d)
  BY DocumentParts DEF File!Within
<1>5. room \in {"rows", "live"} => File!Kept \/ (stored # File!Blank /\ File!Within(stored, doc))
  BY NothingMet DEF TextCore, File!UpdatesAreKept
<1>6. File!Within(stored, doc) => File!Within(stored, File!Merge(doc, updates))
  BY DEF File!Within, File!Merge
<1>7. UNCHANGED <<stored, updates, buffer, room, doc, broken>>
  BY DEF File!ReadBase, File!roomVars
<1>8. room = "reading" => stored # File!Blank
  BY NothingMet
<1>9. File!Loaded => room = "live"
  BY NothingMet
<1> DEFINE d == reader'.doc
<1>10. room = "none" /\ historyCache = "none" => d = (IF stored = File!Blank THEN File!FirstText ELSE stored)
  BY <1>1, <1>2
<1>11. historyCache # "null" =>
          d = File!Blank \/ (d = File!FirstText /\ stored = File!Blank) \/ (d = stored /\ stored # File!Blank)
  BY <1>1, <1>2, <1>3
<1> HIDE DEF d
<1>12. File!Tracked' <=>
        /\ room = "none" /\ historyCache = "none" /\ broken = 0 =>
              d = (IF stored = File!Blank THEN File!FirstText ELSE stored)
        /\ historyCache # "null" =>
              /\ room = "none" => File!Within(d, stored) \/ (stored = File!Blank /\ d = File!FirstText)
              /\ room = "reading" => File!Within(d, stored)
              /\ room = "rows" => File!Within(d, File!Merge(doc, updates)) \/ File!Kept
              /\ File!Loaded => File!Within(d, doc) \/ File!Kept
  BY <1>2, <1>7 DEF d, File!Tracked, File!Loaded, File!Kept, File!FirstText, File!Base
<1> QED
  BY <1>4, <1>5, <1>6, <1>8, <1>9, <1>10, <1>11, <1>12

LEMMA MoveTracked ==
    ASSUME TextTyped, TextCore, File!Move, ~File!Unsettled, ~File!Unsettled', File!Reading,
           reader'.step # "idle", File!Tracked
    PROVE  File!Tracked'
<1>1. ~File!Leave /\ ~File!FinalUpdate /\ ~File!FinalFlush /\ ~File!Compact /\ ~File!CompactFails
  BY NothingMet
     DEF File!Leave, File!FinalUpdate, File!FinalFlush, File!Compact, File!CompactFails, File!Unsettled,
         File!Closing
<1>2. ~File!Restore /\ ~File!Put
  BY DEF File!Restore, File!Put, File!Begin, File!Unsettled, File!Idle
<1>3. ~File!ApplyToLiveDoc /\ ~File!Commit /\ ~File!CommitFails
  BY NothingMet DEF File!ApplyToLiveDoc, File!Commit, File!CommitFails
<1>4. ~File!ReadBase /\ ~File!OrphanSave /\ ~File!Answer
  BY DEF File!ReadBase, File!Reading, File!OrphanSave, TextCore, File!RoomFollows, File!Answer, File!NoRead
<1> QED
  BY <1>1, <1>2, <1>3, <1>4, OpenTracked, LoadStateTracked, LoadRowsTracked, TypeTracked, SaveTracked,
     SaveEndTracked, WorkerFlushTracked, ReplayTracked
     DEF File!Move

-----------------------------------------------------------------------------
(* What a replay shows when it has met nothing. *)
LEMMA ValuesShown ==
    ASSUME NEW d \in File!Doc, NEW a
    PROVE  File!Values({p \in d.ins \ d.del : a[p] \subseteq d.ins}) \in SUBSET File!Value
BY DocumentParts DEF File!Values, File!Piece

LEMMA TextIsText == ASSUME TextTyped PROVE File!Text \in SUBSET File!Value
<1>1. doc \in File!Doc /\ File!Persisted \in File!Doc
  BY MergedDocuments DEF TextTyped, File!DocumentsOK, File!Persisted
<1> QED
  BY <1>1, ValuesShown, TextAssumption DEF File!Text, File!Shown, File!Value

LEMMA NextText == ASSUME TextTyped' PROVE File!Text' \in SUBSET File!Value
<1>1. doc' \in File!Doc /\ File!Persisted' \in File!Doc
  BY MergedDocuments DEF TextTyped, File!DocumentsOK, File!Persisted
<1> QED
  BY <1>1, ValuesShown, TextAssumption DEF File!Text, File!Shown, File!Value

LEMMA AnswersRight ==
    ASSUME TextTyped, TextCore, File!ReplayFollows, File!Answer, ~File!Excused
    PROVE  File!EndsRight
<1>1. /\ File!Text \in texts /\ File!Tracked /\ ~File!Unsettled /\ reader.step = "replayed"
      /\ IF room = "none" THEN reader.hit = "none" /\ broken = 0 ELSE reader.hit # "null"
  BY DEF File!ReplayFollows, File!Reading, File!Answer, File!Excused, File!Registered
<1>2. room \in {"none", "live"} /\ change = File!Idle /\ change.step = "none"
  BY <1>1, NothingMet DEF File!Answer, TextTyped, File!StepsOK
<1>3. /\ reader.doc \in File!Doc /\ doc \in File!Doc /\ stored \in File!Doc /\ updates \in File!Doc
      /\ buffer \in File!Doc
  BY DEF TextTyped, File!DocumentsOK, File!StepsOK, File!Readers
<1>4. CASE room = "live"
  <2>1. File!Within(reader.doc, doc) /\ File!Loaded
    BY <1>1, <1>4 DEF File!Tracked, File!Loaded
  <2>2. File!WithLive(reader.doc) = doc /\ File!Text = File!Values(File!Shown(doc))
    BY <1>3, <2>1, MergedDocuments DEF File!WithLive, File!Text
  <2>3. File!ReadsAs(File!Shown(doc), wanted)
    BY <1>2, <2>1 DEF TextCore, WantedHolds, TextReads, File!Shown
  <2> QED
    BY <1>1, <2>2, <2>3 DEF File!EndsRight, File!ReadsAs
<1>5. CASE room = "none" /\ stored = File!Blank
  <2>1. reader.doc = File!FirstText /\ File!Text = {0} /\ File!WithLive(reader.doc) = reader.doc
    BY <1>1, <1>5 DEF File!Tracked, File!Text, File!Loaded, File!WithLive
  <2>2. PICK p \in File!Piece : p = <<0, File!Base>> /\ p[1] = 0 /\ p[2] = File!Base
    <3>1. 0 \in File!Value
      BY TextAssumption DEF File!Value
    <3> QED
      BY <3>1, PieceCopies
  <2>3. File!FirstText.ins = {p} /\ File!FirstText.del = {} /\ after[p] = {}
    BY <2>2 DEF File!FirstText, TextCore, File!PiecesAreNew
  <2>4. File!ReadsAs(File!Shown(File!FirstText), {0})
    <3>1. TextReads(File!FirstText, after, {p[1]})
      BY <2>3, OneReads
    <3>2. p[1] = 0
      BY <2>2
    <3> QED
      BY <3>1, <3>2 DEF TextReads, File!Shown
  <2>5. {0} \in texts /\ File!ReadsAs(File!Shown(File!WithLive(reader.doc)), {0})
    BY <1>1, <2>1, <2>4
  <2> QED
    BY <2>5, Zenon DEF File!EndsRight
<1>6. CASE room = "none" /\ stored # File!Blank
  <2>1. reader.doc = stored /\ File!WithLive(reader.doc) = stored
    BY <1>1, <1>6 DEF File!Tracked, File!Loaded, File!WithLive
  <2>2. TextReads(stored, after, wanted) /\ File!Within(updates, stored) /\ buffer = File!Blank
    BY <1>2, <1>6 DEF TextCore, WantedHolds, File!RoomFollows
  <2>3. File!Persisted = stored
    <3>1. File!Merge(stored, updates) = stored
      BY <1>3, <2>2, MergedDocuments
    <3>2. File!Within(File!Blank, stored)
      BY DocumentParts DEF File!Within
    <3> QED
      BY <1>3, <2>2, <3>1, <3>2, MergedDocuments DEF File!Persisted
  <2>4. File!Text = wanted
    BY <1>6, <2>2, <2>3 DEF File!Text, File!Loaded, TextReads, File!ReadsAs, File!Shown
  <2> QED
    BY <1>1, <2>1, <2>2, <2>4 DEF File!EndsRight, TextReads, File!Shown
<1> QED
  BY <1>2, <1>4, <1>5, <1>6

-----------------------------------------------------------------------------
TextIInv == File!TypeOK /\ File!TextInv /\ ~misread

LEMMA UpsetStays == ASSUME File!Move, ~upset' PROVE ~upset
BY DEF File!Move, File!Open, File!LoadState, File!LoadRows, File!Type, File!SaveStart, File!SaveDropped,
       File!SaveUpdate, File!SaveEnd, File!Leave, File!FinalUpdate, File!FinalFlush, File!Compact,
       File!CompactFails, File!OrphanSave, File!WorkerFlush, File!Restore, File!Put, File!ApplyToLiveDoc,
       File!Commit, File!CommitFails, File!ReadBase, File!Replay, File!Answer, File!ghostVars

LEMMA InvParts == TextIInv <=>
    /\ TextTyped /\ texts \subseteq SUBSET File!Value /\ mixed \in BOOLEAN /\ misread \in BOOLEAN /\ ~misread
    /\ ~upset => TextCore /\ File!ReplayFollows
BY WantedText DEF TextIInv, File!TypeOK, TextTyped, File!TextInv, TextCore

-----------------------------------------------------------------------------
(* The inductive invariant: it holds at first, and every step keeps it. *)

LEMMA InitText == ASSUME File!Init PROVE TextIInv
<1>1. PICK p \in File!Piece :
         /\ p = <<0, File!Stored>> /\ p[1] = 0 /\ p[2] = File!Stored
         /\ File!Fresh(0).ins = {p} /\ File!Fresh(0).del = {} /\ File!Fresh(0) \in File!Doc
  <2>1. 0 \in File!Value
    BY TextAssumption DEF File!Value
  <2> QED
    BY <2>1, FreshOne
<1>2. stored = File!Blank \/ stored = File!Fresh(0)
  BY DEF File!Init, File!Fresh
<1>3. TextTyped
  <2>1. File!DocumentsOK
    BY <1>1, <1>2, DocumentParts DEF File!Init, File!DocumentsOK
  <2>2. File!StepsOK
    <3>1. 0 \in File!Value /\ File!Idle \in File!Changes
      BY TextAssumption DEF File!Value, File!Idle, File!Changes
    <3>2. File!NoRead \in File!Readers
      BY DocumentParts DEF File!NoRead, File!Readers
    <3> QED
      BY <3>1, <3>2 DEF File!Init, File!StepsOK
  <2>3. File!CountsOK
    BY TextAssumption DEF File!Init, File!CountsOK
  <2> QED
    BY <2>1, <2>2, <2>3 DEF TextTyped
<1>4. texts \subseteq SUBSET File!Value /\ mixed \in BOOLEAN /\ misread \in BOOLEAN /\ ~misread
  BY DEF File!Init
<1>5. File!PiecesAreNew
  <2>1. File!Used(p)
    BY <1>1, PieceCopies, TextAssumption DEF File!Init, File!Used, File!Idle, File!Stored
  <2>2. File!Held \subseteq {p}
    BY <1>1, <1>2, DocumentParts, MissingIsNone DEF File!Init, File!Held
  <2>3. \A q \in File!Piece : after[q] = {}
    BY DEF File!Init
  <2> QED
    BY <2>1, <2>2, <2>3 DEF File!PiecesAreNew
<1>6. File!RoomFollows
  BY DEF File!Init, File!RoomFollows, File!Closing, File!Opened, File!Loaded
<1>7. File!ChangeIsKnown
  BY DEF File!Init, File!ChangeIsKnown, File!Idle
<1>8. WantedHolds
  <2>1. stored = File!Fresh(0) => TextReads(stored, after, {0})
    <3>1. 0 \in File!Value /\ after[<<0, File!Stored>>] = {}
      BY <1>1, TextAssumption DEF File!Init, File!Value
    <3> QED
      BY <3>1, FreshReads
  <2>2. File!Within(File!Blank, stored) /\ File!Idle.step = "none" /\ File!Idle.kind = "none"
    BY DocumentParts DEF File!Within, File!Idle
  <2> QED
    BY <1>2, <2>1, <2>2 DEF File!Init, WantedHolds, File!Loaded
<1>9. File!UpdatesAreKept
  BY DEF File!Init, File!UpdatesAreKept, File!Loaded
<1>10. File!ReplayFollows
  BY DEF File!Init, File!ReplayFollows, File!Reading, File!NoRead
<1> QED
  BY <1>3, <1>4, <1>5, <1>6, <1>7, <1>8, <1>9, <1>10, InvParts DEF TextCore

LEMMA StepText == ASSUME TextIInv, File!Next PROVE TextIInv'
<1>1. TextTyped /\ TextTyped'
  BY InvParts, MoveTypes DEF TextTyped, File!Next
<1>2. ASSUME ~upset' PROVE ~upset /\ TextCore /\ File!ReplayFollows /\ TextCore'
  BY <1>1, <1>2, InvParts, UpsetStays, CoreMove DEF File!Next
<1>3. texts' \subseteq SUBSET File!Value /\ mixed' \in BOOLEAN /\ misread' \in BOOLEAN
  <2>1. File!Text \in SUBSET File!Value
    BY <1>1, TextIsText
  <2>2. File!Text' \in SUBSET File!Value
    BY <1>1, NextText
  <2>3. texts \subseteq SUBSET File!Value /\ mixed \in BOOLEAN /\ misread \in BOOLEAN
    BY InvParts
  <2>4. texts' \subseteq SUBSET File!Value
    <3>1. texts' \in {{File!Text}, {}, texts \cup {File!Text, File!Text'}, texts}
      BY DEF File!Next
    <3> QED
      BY <2>1, <2>2, <2>3, <3>1
  <2>5. mixed' \in BOOLEAN
    BY <2>3 DEF File!Next, File!Unsettled
  <2>6. misread' \in BOOLEAN
    BY DEF File!Next
  <2> QED
    BY <2>4, <2>5, <2>6
<1>4. ~misread'
  <2>1. ASSUME File!Ends, ~File!Excused PROVE File!EndsRight
    <3>1. ~upset /\ TextCore /\ File!ReplayFollows
      BY <2>1, InvParts DEF File!Excused
    <3>2. File!Answer
      BY <2>1, <1>1
         DEF File!Ends, File!Reading, File!Next, File!Move, File!Open, File!LoadState, File!LoadRows,
             File!Type, File!SaveStart, File!SaveDropped, File!SaveUpdate, File!SaveEnd, File!Leave,
             File!FinalUpdate, File!FinalFlush, File!Compact, File!CompactFails, File!OrphanSave,
             File!WorkerFlush, File!Restore, File!Put, File!ApplyToLiveDoc, File!Commit, File!CommitFails,
             File!ReadBase, File!Replay, TextTyped, File!StepsOK, File!Readers
    <3> QED
      BY <1>1, <2>1, <3>1, <3>2, AnswersRight
  <2> QED
    BY <2>1, InvParts DEF File!Next
<1>5. ASSUME ~upset' PROVE File!ReplayFollows'
  <2>1. CASE ~File!Reading'
    BY <2>1 DEF File!ReplayFollows
  <2>2. CASE File!Begins
    <3>1. File!ReadBase
      BY <2>2, <1>1
         DEF File!Begins, File!Reading, File!Next, File!Move, File!Open, File!LoadState, File!LoadRows,
             File!Type, File!SaveStart, File!SaveDropped, File!SaveUpdate, File!SaveEnd, File!Leave,
             File!FinalUpdate, File!FinalFlush, File!Compact, File!CompactFails, File!OrphanSave,
             File!WorkerFlush, File!Restore, File!Put, File!ApplyToLiveDoc, File!Commit, File!CommitFails,
             File!Replay, File!Answer, TextTyped, File!StepsOK, File!Readers
    <3>2. File!Text' = File!Text /\ File!Unsettled' = File!Unsettled
      BY <3>1
         DEF File!ReadBase, File!Text, File!Persisted, File!Shown, File!Loaded, File!Unsettled, File!Closing,
             File!roomVars, File!changeVars, File!ghostVars
    <3>3. texts' = {File!Text} /\ mixed' = File!Unsettled
      BY <2>2 DEF File!Next
    <3>4. ~File!Unsettled => File!Tracked'
      BY <1>1, <1>2, <1>5, <3>1, BaseTracked
    <3> QED
      BY <3>2, <3>3, <3>4 DEF File!ReplayFollows
  <2>3. CASE File!Reading /\ File!Reading'
    <3>1. texts' = texts \cup {File!Text, File!Text'} /\ mixed' = (mixed \/ File!Unsettled')
      BY <2>3 DEF File!Begins, File!Ends, File!Reading, File!Next
    <3>2. ASSUME ~mixed' PROVE ~File!Unsettled' /\ File!Tracked'
      <4>1. ~mixed /\ ~File!Unsettled'
        BY <3>1, <3>2
      <4>2. ~File!Unsettled /\ File!Tracked
        BY <1>2, <1>5, <2>3, <4>1 DEF File!ReplayFollows
      <4> QED
        BY <1>1, <1>2, <1>5, <2>3, <4>1, <4>2, MoveTracked DEF File!Next, File!Reading
    <3> QED
      BY <3>1, <3>2 DEF File!ReplayFollows
  <2> QED
    BY <2>1, <2>2, <2>3 DEF File!Begins, File!Reading
<1>6. WantedHolds' => File!TextIsWanted'
  BY DEF File!TextIsWanted, WantedHolds, TextReads, File!Shown
<1> QED
  BY <1>1, <1>2, <1>3, <1>4, <1>5, <1>6 DEF TextIInv, File!TypeOK, TextTyped, File!TextInv, TextCore

(* However restoreSnapshot, updateFileContent and getFileHistory meet a    *)
(* room that opens, saves, closes and compacts, the variables keep their   *)
(* types and, until something is upset, the pieces of the text are where   *)
(* the next one to read them looks.                                        *)
THEOREM TextInvariant == File!Spec => []TextIInv
<1>1. File!Init => TextIInv
  BY InitText
<1>2. TextIInv /\ [File!Next]_(File!textVars) => TextIInv'
  <2>1. ASSUME TextIInv, UNCHANGED File!textVars PROVE TextIInv'
    BY <2>1
       DEF TextIInv, File!TypeOK, File!TextInv, File!textVars, File!storeVars, File!roomVars,
           File!changeVars, File!ghostVars, File!countVars, File!DocumentsOK, File!StepsOK, File!CountsOK,
           File!PiecesAreNew, File!Held, File!Used, File!RoomFollows, File!Opened, File!Loaded, File!Closing,
           File!ChangeIsKnown, File!TextIsWanted, File!Shown, File!UpdatesAreKept, File!Kept,
           File!ReplayFollows, File!Reading, File!Text, File!Persisted, File!Unsettled, File!Tracked
  <2> QED
    BY <2>1, StepText
<1> QED
  BY <1>1, <1>2, PTL DEF File!Spec

(* The text of a file that was restored or PUT is the new one and what was *)
(* typed since, each once, in the open document and for the next that is   *)
(* opened, and a getFileHistory ends with a text the file had meanwhile.   *)
THEOREM TextsStayFaithful == File!Spec => []TextsAreFaithful
<1>1. TextIInv => TextsAreFaithful
  <2>1. ASSUME TextIInv, File!Settled, ~upset
        PROVE  /\ room = "live" => File!ReadsAs(File!Shown(doc), wanted)
               /\ room = "none" => stateCache = File!Missing
               /\ room = "none" /\ stored # File!Blank => File!ReadsAs(File!Shown(File!Merge(stored, updates)), wanted)
    <3>1. TextTyped /\ TextCore
      BY <2>1, InvParts
    <3>2. File!Idle.step = "none"
      BY DEF File!Idle
    <3>3. room = "none" => File!Within(updates, stored) /\ (stored # File!Blank => TextReads(stored, after, wanted))
      BY <2>1, <3>1 DEF File!Settled, TextCore, WantedHolds
    <3>4. File!Within(updates, stored) => File!Merge(stored, updates) = stored
      BY <3>1, MergedDocuments DEF TextTyped, File!DocumentsOK
    <3> QED
      BY <2>1, <3>1, <3>2, <3>3, <3>4
         DEF File!Settled, TextCore, WantedHolds, File!Loaded, File!RoomFollows, TextReads, File!Shown
  <2> QED
    BY <2>1
       DEF TextsAreFaithful, File!TextsAreFaithful, File!ReplacementsHold, File!HistoriesEndRight, TextIInv
<1> QED
  BY <1>1, TextInvariant, PTL
=============================================================================
