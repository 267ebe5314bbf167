------------------------- MODULE ContentReadsProofs -------------------------
(***************************************************************************)
(* What readers are shown while writers change the tables, for any users,  *)
(* items, writers and readers and for both stores: the four invariants of  *)
(* ContentReads, from one invariant on what a reader has put together.     *)
(***************************************************************************)
EXTENDS ContentReads, ContentServiceProofs, FiniteSetTheorems

\* An edge has its ends on the page, or its target in the window.
Anchored(edge, q, rep, win) ==
  /\ \E e \in rep.page : e.id = edge.source
  /\ IF q.op = "backlinks"
     THEN \E e \in win : e.id = edge.target /\ Shared(e.item)
     ELSE \E e \in rep.page : e.id = edge.target

\* What a reader that stands at `point` has put together for q, when `win` is
\* what was live meanwhile.
Fits(point, q, rep, win) ==
  /\ rep.page \subseteq win /\ IsFiniteSet(rep.page)
  /\ \A e \in rep.page : IF q.op = "get" THEN canView(e.item, q.viewer)
                         ELSE e.item.visibility = "public"
  /\ point = "idle" => rep = NoReply
  /\ point # "idle" => q \in Queries
  /\ point = "get" => q.op = "get"
  /\ point = "list" => q.op \in {"list", "feed", "graph", "portfolio"}
  /\ point = "stats" => q.op \in {"profile", "portfolio"}
  /\ point \in {"target", "backlinks"} => q.op = "backlinks"
  /\ point = "backlinks" => \E e \in win : e.id = q.id /\ Shared(e.item)
  /\ point = "edges" => q.op \in {"graph", "portfolio"}
  /\ point # "reply" => rep.edges = {}
  /\ \A edge \in rep.edges : Anchored(edge, q, rep, win)
  /\ point = "reply" /\ q.op = "portfolio" /\ rep.page # {} => rep.stats # NoStats

ReadsInv ==
  /\ ReadsTypeOK
  /\ \A r \in Readers :
       /\ Fits(rpc[r], query[r], reply[r], window[r])
       /\ rpc[r] # "idle" => LiveEntries \subseteq window[r]

LEMMA ReadsConstants ==
  /\ Queries \subseteq Query
  /\ NoQuery \notin Query
  /\ IsFiniteSet(Ids)
BY ReadsAssumption

LEMMA NoReplyTyped ==
  /\ NoReply \in Reply /\ NoStats \in [Kinds -> Nat]
  /\ NoReply.page = {} /\ NoReply.edges = {} /\ NoReply.stats = NoStats
  /\ IsFiniteSet({})
<1>1. NoStats \in [Kinds -> Nat]
  BY DEF NoStats
<1>2. IsFiniteSet({})
  BY FS_EmptySet
<1> QED
  BY <1>1, <1>2 DEF NoReply, Reply

LEMMA ReadsInitInv == ReadsInit => IInv /\ ReadsInv
<1> SUFFICES ASSUME ReadsInit PROVE IInv /\ ReadsInv
  OBVIOUS
<1>1. IInv
  BY InitInv DEF ReadsInit
<1>2. ReadsTypeOK
  BY NoReplyTyped DEF ReadsInit, ReadsTypeOK, ReadPoints
<1>3. \A r \in Readers : Fits(rpc[r], query[r], reply[r], window[r]) /\ rpc[r] = "idle"
  BY NoReplyTyped DEF ReadsInit, Fits
<1> QED
  BY <1>1, <1>2, <1>3 DEF ReadsInv

\* What was live stays in the window, so that nothing put together is spoilt.
LEMMA FitsLonger ==
  ASSUME NEW point, NEW q, NEW rep, NEW win, NEW more,
         Fits(point, q, rep, win), win \subseteq more
  PROVE  Fits(point, q, rep, more)
<1>1. rep.page \subseteq more
  BY DEF Fits
<1>2. point = "backlinks" => \E e \in more : e.id = q.id /\ Shared(e.item)
  BY DEF Fits
<1>3. \A edge \in rep.edges : Anchored(edge, q, rep, more)
  BY DEF Fits, Anchored
<1> QED
  BY <1>1, <1>2, <1>3 DEF Fits

\* Entries are typed and finitely many.
LEMMA EntriesTyped ==
  ASSUME TypeOK
  PROVE  LiveEntries \subseteq Entry /\ IsFiniteSet(LiveEntries)
<1>1. LiveEntries \subseteq Entry
  BY DEF LiveEntries, EntryOf, LiveIds, Live, Stored, Entry, TypeOK
<1>2. IsFiniteSet(LiveIds)
  BY ReadsConstants, FS_Subset DEF LiveIds
<1> DEFINE f == [i \in LiveIds |-> EntryOf(i)]
<1>3. f \in Surjection(LiveIds, LiveEntries)
  BY DEF Surjection, LiveEntries
<1> QED
  BY <1>1, <1>2, <1>3, FS_Surjection

\* A window grows by what is live, or is emptied.
LEMMA WindowTyped ==
  ASSUME ReadsTypeOK, TypeOK', Watch
  PROVE  window' \in [Readers -> SUBSET Entry]
<1>1. LiveEntries' \subseteq Entry
  <2>1. TypeOK' => (LiveEntries \subseteq Entry)'
    BY DEF LiveEntries, EntryOf, LiveIds, Live, Stored, Entry, TypeOK
  <2> QED
    BY <2>1
<1> QED
  BY <1>1 DEF Watch, ReadsTypeOK

-----------------------------------------------------------------------------
(* One reader's step *)

LEMMA ReaderKeeps ==
  ASSUME IInv, ReadsInv, NEW r \in Readers, UNCHANGED vars, Watch,
         NEW point \in ReadPoints, NEW q \in Queries \cup {NoQuery}, NEW rep \in Reply,
         rpc' = [rpc EXCEPT ![r] = point],
         query' = [query EXCEPT ![r] = q],
         reply' = [reply EXCEPT ![r] = rep],
         Fits(point, q, rep, IF point = "idle" THEN {} ELSE window[r] \cup LiveEntries)
  PROVE  ReadsInv'
<1>1. /\ LiveEntries' = LiveEntries
      /\ TypeOK'
      /\ ReadsTypeOK
  BY StutterStep DEF vars, LiveEntries, EntryOf, LiveIds, Live, Stored, IInv, ReadsInv
<1>2. ReadsTypeOK'
  BY <1>1, WindowTyped DEF ReadsTypeOK
<1>3. window' = [s \in Readers |-> IF rpc'[s] = "idle" THEN {}
                                   ELSE window[s] \cup LiveEntries]
  BY <1>1 DEF Watch
<1>4. ASSUME NEW s \in Readers
      PROVE  /\ Fits(rpc'[s], query'[s], reply'[s], window'[s])
             /\ rpc'[s] # "idle" => LiveEntries \subseteq window'[s]
  <2>1. CASE s = r
    <3>1. rpc'[r] = point /\ query'[r] = q /\ reply'[r] = rep
      BY <1>1 DEF ReadsTypeOK
    <3> QED
      BY <1>3, <2>1, <3>1
  <2>2. CASE s # r
    <3>1. rpc'[s] = rpc[s] /\ query'[s] = query[s] /\ reply'[s] = reply[s]
      BY <1>1, <2>2 DEF ReadsTypeOK
    <3>2. Fits(rpc[s], query[s], reply[s], window[s])
      BY DEF ReadsInv
    <3>3. CASE rpc[s] = "idle"
      BY <1>3, <3>1, <3>2, <3>3, NoReplyTyped DEF Fits
    <3>4. CASE rpc[s] # "idle"
      BY <1>3, <3>1, <3>2, <3>4, FitsLonger
    <3> QED
      BY <3>3, <3>4
  <2> QED
    BY <2>1, <2>2
<1> QED
  BY <1>1, <1>2, <1>4 DEF ReadsInv

\* A reader that goes on with the query it serves.
LEMMA CarryKeeps ==
  ASSUME IInv, ReadsInv, NEW r \in Readers, UNCHANGED vars, Watch,
         NEW point \in ReadPoints \ {"idle"}, NEW rep \in Reply,
         Carry(r, point, rep),
         Fits(point, query[r], rep, window[r] \cup LiveEntries)
  PROVE  ReadsInv'
<1>1. query[r] \in Queries \cup {NoQuery} /\ query' = [query EXCEPT ![r] = query[r]]
  BY DEF ReadsInv, ReadsTypeOK, Carry
<1> QED
  BY <1>1, ReaderKeeps DEF Carry

LEMMA FailKeeps ==
  ASSUME IInv, ReadsInv, NEW r \in Readers, UNCHANGED vars, Watch, rpc[r] # "idle",
         NEW err \in Answers, Fail(r, err)
  PROVE  ReadsInv'
<1> DEFINE rep == [NoReply EXCEPT !.status = err]
<1>1. /\ rep \in Reply /\ rep.page = {} /\ rep.edges = {}
  BY NoReplyTyped DEF NoReply, Reply
<1>2. query[r] \in Queries
  BY DEF ReadsInv, Fits
<1> HIDE DEF rep
<1>3. Fits("reply", query[r], rep, window[r] \cup LiveEntries)
  BY <1>1, <1>2, NoReplyTyped DEF Fits
<1>4. Carry(r, "reply", rep)
  BY DEF Fail, rep
<1> QED
  BY <1>1, <1>3, <1>4, CarryKeeps DEF ReadPoints

-----------------------------------------------------------------------------
(* The reads, one by one *)

LEMMA ReadBeginKeeps ==
  ASSUME IInv, ReadsInv, NEW r \in Readers, UNCHANGED vars, Watch,
         NEW q \in Queries, ReadBegin(r, q)
  PROVE  ReadsInv'
<1>1. q.op \in {"get", "list", "feed", "graph", "backlinks", "profile", "portfolio"}
  BY ReadsConstants DEF Query
<1>2. FirstCall(q.op) \in {"get", "target", "stats", "list"}
  BY <1>1 DEF FirstCall
<1>3. reply[r] = NoReply /\ reply' = [reply EXCEPT ![r] = NoReply]
  BY DEF ReadBegin, ReadsInv, Fits, ReadsTypeOK
<1>4. Fits(FirstCall(q.op), q, NoReply, window[r] \cup LiveEntries)
  BY <1>1, <1>2, NoReplyTyped DEF Fits, FirstCall
<1>5. FirstCall(q.op) \in ReadPoints /\ FirstCall(q.op) # "idle"
  BY <1>2 DEF ReadPoints
<1>6. /\ rpc' = [rpc EXCEPT ![r] = FirstCall(q.op)]
      /\ query' = [query EXCEPT ![r] = q]
  BY DEF ReadBegin
<1> HIDE DEF FirstCall
<1> QED
  BY <1>3, <1>4, <1>5, <1>6, NoReplyTyped, ReaderKeeps

\* FindVisible is an answer, and a success only for a live item one may see.
LEMMA FoundVisible ==
  ASSUME IInv, NEW i, NEW viewer
  PROVE  /\ FindVisible(i, viewer) \in Answers
         /\ FindVisible(i, viewer) = Ok => Live(i) /\ i \in Ids /\ canView(items[i], viewer)
<1>1. FindByID(i) \in Answers
  BY DEF FindByID, PgFindByID, MemFindByID, Answers
<1>2. FindByID(i) = Ok => Live(i) /\ i \in Ids
  BY FoundIsLive DEF IInv
<1> QED
  BY <1>1, <1>2 DEF FindVisible, Answers, Ok, ErrNotFound

LEMMA EntryOfLive ==
  ASSUME NEW i, Live(i)
  PROVE  /\ EntryOf(i) \in LiveEntries
         /\ EntryOf(i).id = i /\ EntryOf(i).item = items[i]
BY DEF EntryOf, LiveEntries, LiveIds, Live

LEMMA GetKeeps ==
  ASSUME IInv, ReadsInv, NEW r \in Readers, UNCHANGED vars, Watch, Get(r)
  PROVE  ReadsInv'
<1> DEFINE i     == query[r].id
           found == FindVisible(i, query[r].viewer)
           rep   == [NoReply EXCEPT !.status = Ok, !.page = {EntryOf(i)}]
<1>1. CASE found # Ok
  <2>1. Fail(r, found) /\ rpc[r] # "idle"
    BY <1>1 DEF Get
  <2> QED
    BY <2>1, FoundVisible, FailKeeps
<1>2. CASE found = Ok
  <2>1. /\ Carry(r, "reply", rep) /\ rpc[r] = "get"
        /\ query[r].op = "get" /\ query[r] \in Queries
    BY <1>2 DEF Get, ReadsInv, Fits
  <2>2. Live(i) /\ canView(items[i], query[r].viewer)
    BY <1>2, FoundVisible
  <2>3. /\ rep \in Reply /\ rep.page = {EntryOf(i)} /\ rep.edges = {}
    BY <2>2, NoReplyTyped, EntryOfLive, EntriesTyped DEF NoReply, Reply, Answers, IInv
  <2>4. IsFiniteSet({EntryOf(i)})
    BY <2>2, EntryOfLive, EntriesTyped, FS_Subset DEF IInv
  <2> HIDE DEF rep
  <2>5. Fits("reply", query[r], rep, window[r] \cup LiveEntries)
    BY <2>1, <2>2, <2>3, <2>4, EntryOfLive DEF Fits
  <2> QED
    BY <2>1, <2>3, <2>5, CarryKeeps DEF ReadPoints
<1> QED
  BY <1>1, <1>2

LEMMA BacklinksTargetKeeps ==
  ASSUME IInv, ReadsInv, NEW r \in Readers, UNCHANGED vars, Watch, BacklinksTarget(r)
  PROVE  ReadsInv'
<1> DEFINE i     == query[r].id
           found == FindVisible(i, Blank)
<1>1. CASE found # Ok
  <2>1. Fail(r, found) /\ rpc[r] # "idle"
    BY <1>1 DEF BacklinksTarget
  <2> QED
    BY <2>1, FoundVisible, FailKeeps
<1>2. CASE found = Ok
  <2>1. /\ Carry(r, "backlinks", NoReply)
        /\ query[r].op = "backlinks" /\ query[r] \in Queries
    BY <1>2 DEF BacklinksTarget, ReadsInv, Fits
  <2>2. Live(i) /\ Shared(items[i])
    BY <1>2, FoundVisible DEF canView
  <2>3. \E e \in window[r] \cup LiveEntries : e.id = i /\ Shared(e.item)
    BY <2>2, EntryOfLive
  <2>4. Fits("backlinks", query[r], NoReply, window[r] \cup LiveEntries)
    BY <2>1, <2>3, NoReplyTyped DEF Fits
  <2> QED
    BY <2>1, <2>4, NoReplyTyped, CarryKeeps DEF ReadPoints
<1> QED
  BY <1>1, <1>2

LEMMA BacklinksKeeps ==
  ASSUME IInv, ReadsInv, NEW r \in Readers, UNCHANGED vars, Watch, Backlinks(r)
  PROVE  ReadsInv'
<1> DEFINE sources == Matching(Blank, Blank)
           links == {e \in relations : /\ e.target = query[r].id
                                       /\ e.source \in {s.id : s \in sources}}
           page  == {s \in sources : s.id \in {e.source : e \in links}}
           rep   == [NoReply EXCEPT !.status = Ok, !.page = page, !.edges = links]
<1>1. /\ Carry(r, "reply", rep)
      /\ query[r].op = "backlinks" /\ query[r] \in Queries
      /\ \E e \in window[r] : e.id = query[r].id /\ Shared(e.item)
  BY DEF Backlinks, ReadsInv, Fits
<1>2. /\ page \subseteq LiveEntries
      /\ \A e \in page : e.item.visibility = "public"
      /\ IsFiniteSet(page)
  BY EntriesTyped, FS_Subset DEF Matching, IInv
<1>3. links \subseteq Relation
  BY DEF IInv, TypeOK
<1>4. /\ rep.page = page /\ rep.edges = links
      /\ rep \in Reply
  BY <1>2, <1>3, NoReplyTyped, EntriesTyped DEF NoReply, Reply, Answers, IInv
<1>5. \A edge \in links : /\ \E e \in page : e.id = edge.source
                          /\ edge.target = query[r].id
  OBVIOUS
<1> HIDE DEF rep, page, links, sources
<1>6. \A edge \in rep.edges : Anchored(edge, query[r], rep, window[r] \cup LiveEntries)
  BY <1>1, <1>4, <1>5 DEF Anchored
<1>7. Fits("reply", query[r], rep, window[r] \cup LiveEntries)
  BY <1>1, <1>2, <1>4, <1>6 DEF Fits
<1> QED
  BY <1>1, <1>4, <1>7, CarryKeeps DEF ReadPoints, rep, page, links, sources

\* Statistics are numbers, because pages are finite.
LEMMA StatsTyped ==
  ASSUME NEW entries, IsFiniteSet(entries)
  PROVE  statsForItems(entries) \in [Kinds -> Nat]
<1>1. ASSUME NEW k \in Kinds PROVE Cardinality({e \in entries : e.item.kind = k}) \in Nat
  BY FS_Subset, FS_CardinalityType
<1> QED
  BY <1>1 DEF statsForItems

\* Entries of an enumerated kind leave statistics that count something.
LEMMA StatsCount ==
  ASSUME NEW entries, IsFiniteSet(entries), NEW e \in entries, e.item.kind \in Kinds
  PROVE  statsForItems(entries) # NoStats
<1> DEFINE k    == e.item.kind
           same == {d \in entries : d.item.kind = k}
<1>1. IsFiniteSet(same) /\ same # {}
  BY FS_Subset
<1>2. Cardinality(same) # 0
  BY <1>1, FS_EmptySet
<1>3. statsForItems(entries)[k] = Cardinality(same) /\ NoStats[k] = 0
  BY DEF statsForItems, NoStats
<1> QED
  BY <1>2, <1>3

LEMMA StatsKeeps ==
  ASSUME IInv, ReadsInv, NEW r \in Readers, UNCHANGED vars, Watch, Stats(r)
  PROVE  ReadsInv'
<1> DEFINE rep  == [NoReply EXCEPT !.stats = statsForItems(Matching(query[r].owner, Blank))]
           full == [rep EXCEPT !.status = Ok]
<1>1. IsFiniteSet(Matching(query[r].owner, Blank))
  BY EntriesTyped, FS_Subset DEF Matching, IInv
<1>2. /\ rep \in Reply /\ rep.page = {} /\ rep.edges = {}
      /\ full \in Reply /\ full.page = {} /\ full.edges = {}
  BY <1>1, StatsTyped, NoReplyTyped DEF NoReply, Reply, Answers
<1>3. query[r] \in Queries
  BY DEF Stats, ReadsInv, Fits
<1>4. \/ Carry(r, "reply", full)
      \/ query[r].op = "portfolio" /\ Carry(r, "list", rep)
  BY DEF Stats
<1> HIDE DEF rep, full
<1>5. Fits("reply", query[r], full, window[r] \cup LiveEntries)
  BY <1>2, <1>3, NoReplyTyped DEF Fits
<1>6. query[r].op = "portfolio" => Fits("list", query[r], rep, window[r] \cup LiveEntries)
  BY <1>2, <1>3, NoReplyTyped DEF Fits
<1> QED
  BY <1>2, <1>4, <1>5, <1>6, CarryKeeps DEF ReadPoints

LEMMA ListKeeps ==
  ASSUME IInv, ReadsInv, NEW r \in Readers, UNCHANGED vars, Watch, List(r)
  PROVE  ReadsInv'
<1> DEFINE matching == Matching(query[r].owner, query[r].kind)
<1>1. PICK page \in Pages(matching, query[r].limit) :
        \/ /\ query[r].op \in {"list", "feed"}
           /\ Carry(r, "reply", [reply[r] EXCEPT !.status = Ok, !.page = page])
        \/ /\ query[r].op \in {"graph", "portfolio"}
           /\ Carry(r, "edges", [reply[r] EXCEPT !.page = page])
  BY DEF List
<1>2. page \subseteq matching
  BY DEF Pages, kSubset
<1>3. /\ page \subseteq LiveEntries /\ page \subseteq Entry
      /\ \A e \in page : e.item.visibility = "public"
      /\ IsFiniteSet(page)
  BY <1>2, EntriesTyped, FS_Subset DEF Matching, IInv
<1>4. query[r] \in Queries /\ reply[r] \in Reply /\ reply[r].edges = {}
  BY DEF List, ReadsInv, Fits, ReadsTypeOK
<1> DEFINE rep  == [reply[r] EXCEPT !.page = page]
           full == [reply[r] EXCEPT !.status = Ok, !.page = page]
<1>5. /\ rep \in Reply /\ rep.page = page /\ rep.edges = {}
      /\ full \in Reply /\ full.page = page /\ full.edges = {}
  BY <1>3, <1>4 DEF Reply, Answers
<1> HIDE DEF rep, full
<1>6. query[r].op \in {"list", "feed"} =>
        Fits("reply", query[r], full, window[r] \cup LiveEntries)
  BY <1>3, <1>4, <1>5 DEF Fits
<1>7. query[r].op \in {"graph", "portfolio"} =>
        Fits("edges", query[r], rep, window[r] \cup LiveEntries)
  BY <1>3, <1>4, <1>5 DEF Fits
<1> QED
  BY <1>1, <1>5, <1>6, <1>7, CarryKeeps DEF ReadPoints, rep, full

LEMMA GraphKeeps ==
  ASSUME IInv, ReadsInv, NEW r \in Readers, UNCHANGED vars, Watch, GraphFromItems(r)
  PROVE  ReadsInv'
<1> DEFINE page  == reply[r].page
           edges == EdgesWithin({e.id : e \in page})
           stats == IF query[r].op = "portfolio" THEN StatsOrCount(reply[r].stats, page)
                    ELSE reply[r].stats
           rep   == [reply[r] EXCEPT !.status = Ok, !.edges = edges, !.stats = stats]
<1>1. /\ Carry(r, "reply", rep)
      /\ query[r] \in Queries /\ query[r].op \in {"graph", "portfolio"}
      /\ reply[r] \in Reply
      /\ page \subseteq window[r] /\ IsFiniteSet(page)
      /\ \A e \in page : e.item.visibility = "public"
  BY DEF GraphFromItems, ReadsInv, Fits, ReadsTypeOK
<1>2. page \subseteq Entry /\ reply[r].stats \in [Kinds -> Nat]
  BY <1>1 DEF Reply
<1>3. edges \subseteq Relation
  BY DEF EdgesWithin, IInv, TypeOK
<1>4. stats \in [Kinds -> Nat]
  BY <1>1, <1>2, StatsTyped DEF StatsOrCount
<1>5. query[r].op = "portfolio" /\ page # {} => stats # NoStats
  <2> SUFFICES ASSUME query[r].op = "portfolio", NEW e \in page PROVE stats # NoStats
    OBVIOUS
  <2>1. e.item.kind \in Kinds
    BY <1>2 DEF Entry, Item
  <2> QED
    BY <1>1, <2>1, StatsCount DEF StatsOrCount
<1>6. \A edge \in edges : /\ \E e \in page : e.id = edge.source
                          /\ \E e \in page : e.id = edge.target
  BY DEF EdgesWithin
<1>7. /\ rep \in Reply /\ rep.page = page /\ rep.edges = edges /\ rep.stats = stats
  BY <1>1, <1>3, <1>4 DEF Reply, Answers
<1> HIDE DEF rep, edges, stats, page
<1>8. \A edge \in rep.edges : Anchored(edge, query[r], rep, window[r] \cup LiveEntries)
  BY <1>1, <1>6, <1>7 DEF Anchored
<1>9. Fits("reply", query[r], rep, window[r] \cup LiveEntries)
  BY <1>1, <1>5, <1>7, <1>8 DEF Fits
<1> QED
  BY <1>1, <1>7, <1>9, CarryKeeps DEF ReadPoints

LEMMA ReadFaultKeeps ==
  ASSUME IInv, ReadsInv, NEW r \in Readers, UNCHANGED vars, Watch, ReadFault(r)
  PROVE  ReadsInv'
BY FailKeeps DEF ReadFault, Answers

LEMMA WriteReplyKeeps ==
  ASSUME IInv, ReadsInv, NEW r \in Readers, UNCHANGED vars, Watch, WriteReply(r)
  PROVE  ReadsInv'
<1>1. Fits("idle", NoQuery, NoReply, {})
  BY NoReplyTyped DEF Fits
<1> QED
  BY <1>1, NoReplyTyped, ReaderKeeps DEF WriteReply, ReadPoints

\* A writer's step only adds to the windows.
LEMMA WriterKeeps ==
  ASSUME IInv, IInv', ReadsInv, UNCHANGED <<rpc, query, reply>>, Watch
  PROVE  ReadsInv'
<1>1. ReadsTypeOK'
  BY WindowTyped DEF ReadsInv, ReadsTypeOK, IInv
<1>2. ASSUME NEW r \in Readers
      PROVE  /\ Fits(rpc'[r], query'[r], reply'[r], window'[r])
             /\ rpc'[r] # "idle" => LiveEntries' \subseteq window'[r]
  <2>1. Fits(rpc[r], query[r], reply[r], window[r])
    BY DEF ReadsInv
  <2>2. window'[r] = IF rpc[r] = "idle" THEN {} ELSE window[r] \cup LiveEntries'
    BY DEF Watch
  <2>3. CASE rpc[r] = "idle"
    BY <2>1, <2>2, <2>3, NoReplyTyped DEF Fits
  <2>4. CASE rpc[r] # "idle"
    BY <2>1, <2>2, <2>4, FitsLonger
  <2> QED
    BY <2>3, <2>4
<1> QED
  BY <1>1, <1>2 DEF ReadsInv

LEMMA ReadsStutter ==
  ASSUME IInv, ReadsInv, UNCHANGED allVars
  PROVE  ReadsInv'
<1>1. LiveEntries' = LiveEntries
  BY DEF allVars, vars, LiveEntries, EntryOf, LiveIds, Live, Stored
<1> QED
  BY <1>1 DEF allVars, readVars, ReadsInv, ReadsTypeOK

LEMMA ReadsStep == IInv /\ ReadsInv /\ [ReadsNext]_allVars => (IInv /\ ReadsInv)'
<1> SUFFICES ASSUME IInv, ReadsInv, [ReadsNext]_allVars PROVE IInv' /\ ReadsInv'
  OBVIOUS
<1>1. IInv'
  BY NextStep DEF ReadsNext, allVars
<1>2. ASSUME NEW r \in Readers, Read(r), UNCHANGED vars, Watch PROVE ReadsInv'
  BY <1>2, ReadBeginKeeps, GetKeeps, BacklinksTargetKeeps, BacklinksKeeps, StatsKeeps,
     ListKeeps, GraphKeeps, ReadFaultKeeps, WriteReplyKeeps DEF Read
<1>3. CASE Next /\ UNCHANGED <<rpc, query, reply>> /\ Watch
  BY <1>1, <1>3, WriterKeeps
<1> QED
  BY <1>1, <1>2, <1>3, ReadsStutter DEF ReadsNext

-----------------------------------------------------------------------------
(* The theorems *)

\* Readers beside writers: the tables stay sound, and what a reader has put
\* together fits its query and its window.
THEOREM ReadsInvariant == ReadsSpec => [](IInv /\ ReadsInv)
BY ReadsInitInv, ReadsStep, PTL DEF ReadsSpec

\* Replies and statistics keep their types.
THEOREM ReadsTypes == ReadsSpec => []ReadsTypeOK
<1>1. ReadsInv => ReadsTypeOK
  BY DEF ReadsInv
<1> QED
  BY <1>1, ReadsInvariant, PTL

\* FindVisible and the list queries show nothing that was not live, as shown
\* and open to the viewer, at some instant of the request.
THEOREM NothingHiddenIsShown == ReadsSpec => []ShownWasVisible
<1>1. ReadsInv => ShownWasVisible
  BY DEF ReadsInv, Fits, ShownWasVisible
<1> QED
  BY <1>1, ReadsInvariant, PTL

\* Graph, Portfolio and Backlinks read nodes and edges in separate statements:
\* no edge is left without its nodes.
THEOREM EdgesHaveNodes == ReadsSpec => []EdgesAreAnchored
<1>1. ReadsInv => EdgesAreAnchored
  BY DEF ReadsInv, Fits, Anchored, EdgesAreAnchored
<1> QED
  BY <1>1, ReadsInvariant, PTL

\* Service.Portfolio counts its own page when the statistics it read earlier
\* were empty.
THEOREM PortfoliosAreCounted == ReadsSpec => []StatsMatchPage
<1>1. ReadsInv => StatsMatchPage
  BY DEF ReadsInv, Fits, StatsMatchPage
<1> QED
  BY <1>1, ReadsInvariant, PTL
=============================================================================
