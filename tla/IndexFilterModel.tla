-------------------------- MODULE IndexFilterModel --------------------------
(***************************************************************************)
(* index/indexfiltermodel.cpp on index/cluceneindex.cpp: a FilterModel     *)
(* that keeps a full text index of the literals of its parent.             *)
(*                                                                         *)
(* The index has one document per subject, a set of <<predicate, object>>  *)
(* fields.  ix is the CLuceneIndex together with its directory: changed    *)
(* documents wait in the cache of the open transaction; a commit deletes   *)
(* the old ones through the reader and adds the new ones through the       *)
(* writer.  CLucene is external: the deletions of a reader and the         *)
(* documents of a writer are on disk once it is closed, and a searcher     *)
(* sees the disk as it was when it was opened.  Commits do not fail here.  *)
(***************************************************************************)
EXTENDS Rdf, Integers, FiniteSets

CONSTANTS IxStatements, ForceIndex, IndexOnly, CacheSizes

ASSUME IxStatementsAssumption == \A st \in IxStatements : IsStatement(st)

VARIABLES
  ixContent,      \* the parent model
  ix,             \* the CLuceneIndex
  cacheSize, cacheId, cacheCount,   \* IndexFilterModelPrivate::transactionCache*
  hits,           \* the iterator of the last lucene query
  indexedOnly,    \* index-only statements that callers have added and not removed
  lost,           \* triples whose entry went with another graph's
  kept            \* entries whose removal was skipped

ixVars == <<ixContent, ix, cacheSize, cacheId, cacheCount, hits, indexedOnly, lost, kept>>

NoDocs == [s \in {} |-> {}]
NoView == [open |-> FALSE, docs |-> NoDocs]
NoHits == [open |-> FALSE, todo |-> {}, valid |-> FALSE]

IxInit ==
  /\ ixContent = {}
  /\ ix = [present |-> FALSE, disk |-> NoDocs, deleted |-> {}, written |-> NoDocs,
           reader |-> FALSE, writer |-> FALSE, searcher |-> NoView,
           cache |-> NoDocs, transactionID |-> 0]
  /\ cacheSize = 1 /\ cacheId = 0 /\ cacheCount = 0
  /\ hits = NoHits /\ indexedOnly = {} /\ lost = {} /\ kept = {}
-----------------------------------------------------------------------------
(***************************************************************************)
(* CLuceneIndex::Private: reader, writer and searcher.  Closing the reader *)
(* closes the searcher too, below any Hits still in use.                   *)
(***************************************************************************)
\* Documents with others added, or put in the place of those of their subjects
Merged(docs, others) ==
  [s \in DOMAIN docs \cup DOMAIN others |-> IF s \in DOMAIN others THEN others[s] ELSE docs[s]]
Without(docs, subjects) == [s \in DOMAIN docs \ subjects |-> docs[s]]

CloseReader(i) ==
  [i EXCEPT !.searcher = NoView, !.reader = FALSE,
            !.disk = Without(@, i.deleted), !.deleted = {}]

CloseWriter(i) == [i EXCEPT !.writer = FALSE, !.disk = Merged(@, i.written), !.written = NoDocs]

GetIndexReader_WriterOpen(i) == [i EXCEPT !.reader = TRUE]

GetIndexReader(i) == IF i.reader THEN i ELSE [CloseWriter(i) EXCEPT !.reader = TRUE]

GetIndexWriter(i) ==
  IF i.writer THEN i ELSE [CloseReader(i) EXCEPT !.writer = TRUE, !.present = TRUE]

GetIndexSearcher(i) ==
  IF i.searcher.open THEN i
  ELSE LET closed == CloseWriter(i)
       IN [closed EXCEPT !.searcher = [open |-> TRUE, docs |-> closed.disk]]

\* The cached document, or a copy of the stored one in the cache.
GetDocument(i, s) ==
  IF s \in DOMAIN i.cache THEN i
  ELSE LET read == IF i.present THEN GetIndexReader(i) ELSE i
           old == IF s \in DOMAIN read.disk \ read.deleted THEN read.disk[s] ELSE {}
       IN [read EXCEPT !.cache = Merged(@, [t \in {s} |-> old])]

DocEmpty(doc) == doc = {}

Commit(i) ==
  LET deleting == IF i.present /\ DOMAIN i.cache # {}
                  THEN [GetIndexReader(i) EXCEPT !.deleted = @ \cup (DOMAIN i.cache \cap DOMAIN GetIndexReader(i).disk)]
                  ELSE i
      full == {s \in DOMAIN i.cache : ~DocEmpty(i.cache[s])}
      adding == IF full = {} THEN deleting
                ELSE [GetIndexWriter(deleting) EXCEPT !.written = Merged(@, [s \in full |-> i.cache[s]])]
  IN [adding EXCEPT !.cache = NoDocs]
-----------------------------------------------------------------------------
StartTransaction(i) == IF i.transactionID = 0 THEN [i EXCEPT !.transactionID = 1] ELSE i
StartedId(i) == IF i.transactionID = 0 THEN 1 ELSE 0

CloseTransaction(i, id) ==
  IF id = i.transactionID /\ id > 0 THEN [Commit(i) EXCEPT !.transactionID = 0] ELSE i

AddProperty(doc, st) == doc \cup {<<st.p, st.o>>}
RemoveProperty(doc, st) == doc \ {<<st.p, st.o>>}

AutoCommit(i) == IF i.transactionID = 0 THEN Commit(i) ELSE i

IndexAddStatement(i, st) ==
  IF NodeText(st.o) = NoText THEN i
  ELSE LET got == GetDocument(i, st.s)
       IN AutoCommit([got EXCEPT !.cache[st.s] = AddProperty(@, st)])

\* "Just for speed" a removal is skipped when there is no index on disk, even
\* if the document is in the cache of the transaction.
IndexRemoveStatement(i, st) ==
  IF ~i.present \/ NodeText(st.o) = NoText THEN i
  ELSE LET got == GetDocument(i, st.s)
       IN AutoCommit([got EXCEPT !.cache[st.s] = RemoveProperty(@, st)])

Clear(i) ==
  IF ~i.present THEN i
  ELSE LET read == GetIndexReader(i)
       IN CloseReader([read EXCEPT !.deleted = DOMAIN read.disk])

CloseIndex(i) == CloseWriter(CloseReader(CloseTransaction(i, i.transactionID)))
-----------------------------------------------------------------------------
(***************************************************************************)
(* IndexFilterModelPrivate: changes are committed in groups of cacheSize.  *)
(* A change of the index is started and closed around the index operation. *)
(***************************************************************************)
StoreStatement(st) == st.p \notin IndexOnly
IndexStatement(st) == (IsLiteral(st.o) /\ NodeText(st.o) # NoText) \/ st.p \in ForceIndex

Starting == cacheSize > 1 /\ cacheId = 0

\* startTransaction, the operation given, closeTransaction
Change(op(_)) ==
  LET started == IF Starting THEN StartTransaction(ix) ELSE ix
      id == IF Starting THEN StartedId(ix) ELSE cacheId
      count == IF Starting THEN 1 ELSE cacheCount + 1
      done == op(started)
      closing == count >= cacheSize /\ id # 0
  IN /\ ix' = IF closing THEN CloseTransaction(done, id) ELSE done
     /\ cacheId' = IF closing THEN 0 ELSE id
     /\ cacheCount' = IF closing THEN 0 ELSE IF id = 0 THEN 0 ELSE count

NoChange == UNCHANGED <<ix, cacheId, cacheCount>>

\* The searcher of the open hits goes away with the reader.
HitsAfter(i) == hits' = [hits EXCEPT !.valid = @ /\ i.searcher.open]

ixAddStatement(st) ==
  /\ IF StoreStatement(st) /\ st \in ixContent
     THEN NoChange /\ UNCHANGED <<ixContent, indexedOnly, lost, kept>>
     ELSE /\ ixContent' = IF StoreStatement(st) THEN ixContent \cup {st} ELSE ixContent
          /\ indexedOnly' = IF StoreStatement(st) THEN indexedOnly ELSE indexedOnly \cup {Triple(st)}
          /\ IF IndexStatement(st) THEN Change(LAMBDA i : IndexAddStatement(i, st)) ELSE NoChange
          /\ lost' = lost \ {Triple(st)} /\ kept' = kept \ {Triple(st)}
  /\ HitsAfter(ix')
  /\ UNCHANGED cacheSize

\* An entry that waits in the cache of the first transaction ever is not removed;
\* one that is removed is lost to the other graphs that have the triple.
Waiting(i, s) == IF s \in DOMAIN i.cache THEN i.cache[s] ELSE {}
RemoveEntry(st) ==
  /\ Change(LAMBDA i : IndexRemoveStatement(i, st))
  /\ IF ix.present
     THEN /\ lost' = IF \E x \in ixContent' : Triple(x) = Triple(st) THEN lost \cup {Triple(st)} ELSE lost
          /\ kept' = kept \ {Triple(st)}
     ELSE /\ kept' = IF <<st.p, st.o>> \in Waiting(ix, st.s) THEN kept \cup {Triple(st)} ELSE kept
          /\ UNCHANGED lost

ixRemoveStatement(st) ==
  /\ ixContent' = ixContent \ {st}
  /\ indexedOnly' = indexedOnly \ {Triple(st)}
  /\ IF IndexStatement(st) THEN RemoveEntry(st) ELSE NoChange /\ UNCHANGED <<lost, kept>>
  /\ HitsAfter(ix')
  /\ UNCHANGED cacheSize

\* The statements are listed and taken out of the index one by one; here the
\* templates match at most one indexed statement.
ixRemoveAllStatements(template) ==
  LET gone == ListStatements(ixContent, template)
      indexed == {st \in gone : IndexStatement(st)}
  IN /\ Cardinality(indexed) <= 1
     /\ ixContent' = ixContent \ gone
     /\ IF indexed = {} THEN NoChange /\ UNCHANGED <<lost, kept>> ELSE \E st \in indexed : RemoveEntry(st)
     /\ HitsAfter(ix')
     /\ UNCHANGED <<cacheSize, indexedOnly>>
-----------------------------------------------------------------------------
setTransactionCacheSize(n) ==
  /\ cacheSize' = IF n < 1 THEN 1 ELSE n
  /\ LET closing == cacheCount >= cacheSize' /\ cacheId # 0
     IN /\ ix' = IF closing THEN CloseTransaction(ix, cacheId) ELSE ix
        /\ cacheId' = IF closing THEN 0 ELSE cacheId
        /\ cacheCount' = IF closing THEN 0 ELSE cacheCount
  /\ HitsAfter(ix')
  /\ UNCHANGED <<ixContent, indexedOnly, lost, kept>>

\* A lucene query first commits the open transaction.
executeLuceneQuery ==
  LET closed == IF cacheId # 0 THEN CloseTransaction(ix, cacheId) ELSE ix
  IN /\ closed.present
     /\ ix' = GetIndexSearcher(closed)
     /\ cacheId' = 0 /\ cacheCount' = IF cacheId # 0 THEN 0 ELSE cacheSize
     /\ hits' = [open |-> TRUE, todo |-> DOMAIN ix'.searcher.docs, valid |-> TRUE]
     /\ UNCHANGED <<ixContent, cacheSize, indexedOnly, lost, kept>>

\* QueryHitIteratorBackend: next and current, close
nextHit ==
  /\ hits.open /\ hits.valid
  /\ \E s \in hits.todo : hits' = [hits EXCEPT !.todo = @ \ {s}]
  /\ UNCHANGED <<ixContent, ix, cacheSize, cacheId, cacheCount, indexedOnly, lost, kept>>

closeHits ==
  /\ hits.open
  /\ hits' = NoHits
  /\ UNCHANGED <<ixContent, ix, cacheSize, cacheId, cacheCount, indexedOnly, lost, kept>>

\* rebuildIndex: a transaction that is not full stays open; the index's own
\* transactions then do not start, and everything waits in its cache.
\* Index-only statements are lost but for those still waiting there.
IndexAll(i, s, sts) ==
  LET got == GetDocument(StartTransaction(i), s)
      filled == IF sts = {} THEN StartTransaction(i)
                ELSE [got EXCEPT !.cache[s] = @ \cup {<<st.p, st.o>> : st \in sts}]
  IN CloseTransaction(filled, StartedId(i))

\* What is indexed of a subject: an object without text is refused by the index.
ToIndex(content, s) ==
  {st \in content : st.s = s /\ IndexStatement(st) /\ NodeText(st.o) # NoText}

\* The subjects one by one, in any order
Rebuilt(i, content, subjects) ==
  LET step[S \in SUBSET subjects] ==
        IF S = {} THEN Clear(i)
        ELSE LET s == CHOOSE x \in S : TRUE
             IN IndexAll(step[S \ {s}], s, ToIndex(content, s))
  IN step[subjects]

rebuildIndex ==
  LET closing == cacheCount >= cacheSize /\ cacheId # 0
      closed == IF closing THEN CloseTransaction(ix, cacheId) ELSE ix
  IN /\ ix' = Rebuilt(closed, ixContent, {st.s : st \in ixContent})
     /\ cacheId' = IF closing THEN 0 ELSE cacheId
     /\ cacheCount' = IF closing THEN 0 ELSE cacheCount
     /\ HitsAfter(ix')
     /\ indexedOnly' = {t \in indexedOnly : t.s \in DOMAIN closed.cache}
     /\ kept' = {t \in kept : t.s \in DOMAIN closed.cache} /\ lost' = {}
     /\ UNCHANGED <<ixContent, cacheSize>>

optimizeIndex ==
  /\ ix' = GetIndexWriter(ix)
  /\ HitsAfter(ix')
  /\ UNCHANGED <<ixContent, cacheSize, cacheId, cacheCount, indexedOnly, lost, kept>>

\* close() and open() with the same folder: the transaction is committed.
reopenIndex ==
  /\ ix' = CloseIndex(ix)
  /\ HitsAfter(ix')
  /\ UNCHANGED <<ixContent, cacheSize, cacheId, cacheCount, indexedOnly, lost, kept>>
-----------------------------------------------------------------------------
IxNext ==
  \/ \E st \in IxStatements :
       \/ ixAddStatement(st) \/ ixRemoveStatement(st)
       \/ ixRemoveAllStatements(Statement(st.s, st.p, Empty, st.c))
  \/ \E n \in CacheSizes : setTransactionCacheSize(n)
  \/ executeLuceneQuery \/ nextHit \/ closeHits
  \/ rebuildIndex \/ optimizeIndex \/ reopenIndex
-----------------------------------------------------------------------------
\* What a lucene query finds now, the open transaction committed, and what it
\* would find after the index was closed and opened again
Entries(docs) == UNION {{Statement(s, e[1], e[2], Empty) : e \in docs[s]} : s \in DOMAIN docs}
Committed == CloseTransaction(ix, cacheId)
Found == Entries(GetIndexSearcher(Committed).searcher.docs)
Reopened == Entries(CloseWriter(CloseReader(Committed)).disk)

(***************************************************************************)
(* cluceneindex.cpp: "indexwriter needs to be closed for deletion,         *)
(* indexreader needs to be closed after usage of writer".  A writer is     *)
(* never open together with a reader or a searcher, and no documents or    *)
(* deletions wait in an object that is closed, whatever the order of       *)
(* commits, searches and rebuilds.                                         *)
(***************************************************************************)
WriterExclusive ==
  /\ ix.writer => ~ix.reader /\ ~ix.searcher.open
  /\ ~ix.writer => DOMAIN ix.written = {}
  /\ ~ix.reader => ix.deleted = {}

(***************************************************************************)
(* Every literal that is stored is found by the next lucene query, by an   *)
(* old searcher too, whatever was cached, committed, rebuilt and removed   *)
(* before (addStatement, commit, rebuildIndex, getIndexSearcher).  The     *)
(* index has one entry for the same triple in two graphs: removing it from *)
(* one graph loses it, until it is added or rebuilt again.                 *)
(***************************************************************************)
IndexComplete ==
  \A st \in ixContent :
    IndexStatement(st) /\ NodeText(st.o) # NoText => Triple(st) \in Found \cup lost

(***************************************************************************)
(* What was removed leaves the index files: after the index is opened      *)
(* again, an entry is a stored or an index-only statement, or one whose    *)
(* removal was skipped because it waited in the first transaction ever.    *)
(* Before that, a searcher that is open may still find it.                 *)
(***************************************************************************)
IndexSound == Reopened \subseteq {Triple(st) : st \in ixContent} \cup indexedOnly \cup kept


(***************************************************************************)
(* The index and the model agree through every order of commits, searches, *)
(* rebuilds and reopenings, and the index files have one kind of user.     *)
(***************************************************************************)
IndexAgrees == WriterExclusive /\ IndexComplete /\ IndexSound
=============================================================================
