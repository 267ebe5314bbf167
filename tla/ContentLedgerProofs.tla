------------------------- MODULE ContentLedgerProofs -------------------------
(***************************************************************************)
(* ContentService implements ContentLedger.  A store call that succeeds    *)
(* maps to one operation of the ledger; a relation between rows of which   *)
(* one is soft-deleted, and every other step, maps to a stutter.           *)
(***************************************************************************)
EXTENDS ContentServiceProofs

USE RulesAssumption, BackendAssumption, ServiceAssumption

garden == [i \in Ids |-> IF Live(i) THEN items[i] ELSE NoItem]
links  == {r \in relations : Live(r.source) /\ Live(r.target)}
past   == {i \in Ids : Used(i)}

-----------------------------------------------------------------------------
(* What a step does to the tables, without who does it *)

Inserts == \E i \in Ids, item \in Item : ~Used(i) /\ Writes(i, item, Ok)

Rewrites ==
  \E i \in Ids, item \in Item :
    /\ Live(i)
    /\ item.owner = items[i].owner
    /\ item.kind = items[i].kind
    /\ Writes(i, item, Ok)

Removes == \E i \in Ids : Live(i) /\ (SoftDeletes(i, Ok) \/ HardDeletes(i, Ok))

Joins == \E r \in Relation : Relates(r, Ok)

\* A step of the service is one table operation or none.
LEMMA TableStep ==
  ASSUME IInv, [Next]_vars
  PROVE  UNCHANGED tables \/ Inserts \/ Rewrites \/ Removes \/ Joins
<1>1. ASSUME NEW p \in Procs, Create(p)
      PROVE  UNCHANGED tables \/ Inserts
  <2> DEFINE item == NewItem(call[p].actor, call[p].input)
  <2>1. call[p] \in Request
    BY <1>1, Serving DEF Create
  <2>2. CASE ~validateItem(item)
    BY <1>1, <2>2 DEF Create, tables
  <2>3. CASE validateItem(item)
    <3>1. PICK i \in Fresh, err \in Answers : StoreCreate(i, item, err)
      BY <1>1, <2>3 DEF Create
    <3>2. item \in Item /\ i \in Ids /\ ~Used(i)
      BY <2>1, <2>3, NewItemTyped DEF Request, Fresh
    <3> HIDE DEF item
    <3> QED
      BY <3>1, <3>2, CreateEffect DEF NoEffect, Inserts, Writes
  <2> QED
    BY <2>2, <2>3
<1>2. ASSUME NEW p \in Procs, Replace(p)
      PROVE  UNCHANGED tables \/ Rewrites
  <2>1. PICK err \in Answers : StoreReplace(call[p].id, draft[p], err)
    BY <1>2 DEF Replace
  <2>2. /\ call[p].id \in Ids
        /\ draft[p] \in Item
        /\ Stored(call[p].id) => /\ draft[p].owner = items[call[p].id].owner
                                 /\ draft[p].kind = items[call[p].id].kind
    BY <1>2 DEF Replace, IInv, CarriedOver, Carried, PastFind, OwnItem
  <2> QED
    BY <2>1, <2>2, ReplaceEffect DEF IInv, NoEffect, Rewrites, Writes, Live
<1>3. ASSUME NEW p \in Procs, Delete(p)
      PROVE  UNCHANGED tables \/ Removes
  <2>1. PICK err \in Answers : StoreDelete(call[p].id, err)
    BY <1>3 DEF Delete
  <2>2. call[p].id \in Ids
    BY <1>3 DEF Delete, IInv, CarriedOver, Carried, PastFind, OwnItem
  <2> QED
    BY <2>1, <2>2, DeleteEffect DEF IInv, NoEffect, Removes, SoftDeletes, HardDeletes
<1>4. ASSUME NEW p \in Procs, AddRelation(p)
      PROVE  UNCHANGED tables \/ Joins
  <2> DEFINE r == [source |-> call[p].id, target |-> call[p].target,
                   type |-> call[p].type]
  <2>1. PICK err \in Answers : StoreAddRelation(r, err)
    BY <1>4 DEF AddRelation
  <2>2. OwnItem(p) /\ SeenTarget(p) /\ call[p].type # Blank /\ call[p] \in Request
    BY <1>4, Serving DEF AddRelation, IInv, CarriedOver, Carried, PastFind
  <2>3. r \in Relation
    BY <2>2 DEF OwnItem, SeenTarget, Relation, Request
  <2> HIDE DEF r
  <2> QED
    BY <2>1, <2>3, AddRelationEffect DEF NoEffect, Joins, Relates
<1>5. ASSUME NEW p \in Procs, Advance(p)
      PROVE  UNCHANGED tables \/ Inserts \/ Rewrites \/ Removes \/ Joins
  BY <1>1, <1>2, <1>3, <1>4, <1>5, LookupBounded DEF Advance
<1>6. ASSUME NEW p \in Procs, NEW req \in Requests, Begin(p, req)
      PROVE  UNCHANGED tables
  BY <1>6 DEF Begin, tables
<1>7. CASE UNCHANGED vars
  BY <1>7 DEF vars, tables
<1> QED
  BY <1>5, <1>6, <1>7 DEF Next

\* A step that makes no unused id live uses up no id.
LEMMA PastStays ==
  ASSUME IInv, Record, NEW S \in SUBSET Ids,
         \A j \in Ids : items'[j] # NoItem /\ j \notin deleted' => Used(j) \/ j \in S
  PROVE  past' \subseteq past \cup S /\ past \subseteq past'
<1>1. \A j \in Ids : Used(j) => Used(j)'
  BY Recorded DEF Used
<1>2. ASSUME NEW j \in Ids, NEW v \in Visibilities, <<j, v>> \in hist'
      PROVE  Used(j) \/ j \in S
  <2>1. CASE <<j, v>> \in hist
    BY <2>1 DEF Used
  <2>2. CASE \E k \in Ids : /\ items'[k] # NoItem
                            /\ k \notin deleted'
                            /\ <<j, v>> = <<k, items'[k].visibility>>
    BY <2>2
  <2> QED
    BY <1>2, <2>1, <2>2, Recorded
<1>3. \A j \in Ids : Used(j)' => Used(j) \/ j \in S
  BY <1>2 DEF Used
<1> QED
  BY <1>1, <1>3 DEF past

-----------------------------------------------------------------------------
(* Every table operation is an operation of the ledger *)

\* Relations join ids, and an item that is live was recorded.
LEMMA Facts ==
  ASSUME IInv
  PROVE  /\ \A r \in relations : r.source \in Ids /\ r.target \in Ids
         /\ \A i \in Ids : Live(i) => Used(i) /\ Stored(i) /\ items[i] \in Item
         /\ \A r \in relations : Stored(r.source) /\ Stored(r.target)
         /\ \A i \in Ids : Stored(i) => Used(i)
         /\ \A i \in deleted : Used(i)
<1>1. \A r \in relations : r.source \in Ids /\ r.target \in Ids
  BY DEF IInv, TypeOK, Relation
<1>2. \A i \in Ids : Stored(i) => Used(i) /\ items[i] \in Item
  BY DEF IInv, TypeOK, Remembered, Stored
<1>3. \A i \in deleted : Used(i)
  BY <1>2 DEF IInv, TypeOK, Remembered
<1> QED
  BY <1>1, <1>2, <1>3 DEF Live, IInv, LinksJustified

\* The ledger names the same sets.
LEMMA SameSets ==
  /\ Ledger!Item = Item
  /\ Ledger!Relation = Relation
  /\ Ledger!Visibilities = Visibilities
BY DEF Ledger!Item, Item, Ledger!Relation, Relation, Ledger!Visibilities, Visibilities,
       Ledger!Kinds, Kinds

\* Empty tables are the empty ledger.
LEMMA LedgerInitially ==
  ASSUME Init
  PROVE  Ledger!LedgerInit
BY DEF Init, Ledger!LedgerInit, Live, Stored, Used

\* An insert plants.
LEMMA InsertPlants ==
  ASSUME IInv, Record, Inserts
  PROVE  Ledger!LedgerNext
<1>1. PICK i \in Ids, item \in Item : ~Used(i) /\ Writes(i, item, Ok)
  BY DEF Inserts
<1>2. /\ items'[i] = item /\ item # NoItem /\ i \notin deleted /\ ~Stored(i)
      /\ \A j \in Ids \ {i} : items'[j] = items[j]
      /\ deleted' = deleted /\ relations' = relations
  <2>1. items \in [Ids -> Item \cup {NoItem}] /\ items' = [items EXCEPT ![i] = item]
    BY <1>1 DEF Writes, IInv, TypeOK
  <2>2. i \notin deleted /\ ~Stored(i)
    BY <1>1, Facts
  <2> QED
    BY <1>1, <2>1, <2>2 DEF Writes
<1>3. \A j \in Ids : Live(j)' <=> Live(j) \/ j = i
  BY <1>2 DEF Live, Stored
<1>4. garden' = [garden EXCEPT ![i] = item]
  BY <1>2, <1>3 DEF garden
<1>5. links' = links
  BY <1>2, <1>3, Facts DEF links
<1>6. past' = past \cup {i}
  <2>1. past' \subseteq past \cup {i} /\ past \subseteq past'
    BY <1>2, PastStays, Facts DEF Stored
  <2>2. Used(i)'
    BY <1>2, Recorded DEF Used, Item
  <2> QED
    BY <2>1, <2>2 DEF past
<1>7. i \notin past /\ \A j \in Ids \ {i} : garden[j] # NoItem => ~SameKey(garden[j], item)
  BY <1>1 DEF past, garden, Writes, KeyIsNew, Live
<1>8. Ledger!Plant(i, item)
  BY <1>4, <1>5, <1>6, <1>7
     DEF Ledger!Plant, Ledger!KeyIsFree, Ledger!Growing, garden, links, past, Ledger!SameKey, SameKey
<1> QED
  BY <1>7, <1>8, SameSets DEF Ledger!LedgerNext, past

\* A rewrite tends.
LEMMA RewriteTends ==
  ASSUME IInv, Record, Rewrites
  PROVE  Ledger!LedgerNext
<1>1. PICK i \in Ids, item \in Item : /\ Live(i)
                                      /\ item.owner = items[i].owner
                                      /\ item.kind = items[i].kind
                                      /\ Writes(i, item, Ok)
  BY DEF Rewrites
<1>2. items \in [Ids -> Item \cup {NoItem}] /\ items' = [items EXCEPT ![i] = item]
  BY <1>1 DEF Writes, IInv, TypeOK
<1>3. \A j \in Ids : Live(j)' <=> Live(j)
  BY <1>1, <1>2 DEF Live, Stored, Writes
<1>4. garden' = [garden EXCEPT ![i] = item]
  BY <1>1, <1>2, <1>3 DEF garden, Live
<1>5. links' = links
  <2>1. relations' = relations
    BY <1>1 DEF Writes
  <2> QED
    BY <2>1, <1>3, Facts DEF links
<1>6. past' = past
  <2>1. past' \subseteq past \cup {} /\ past \subseteq past'
    BY <1>1, <1>2, <1>3, PastStays, Facts DEF Live, Stored
  <2> QED
    BY <2>1
<1>7. item = [garden[i] EXCEPT !.title = item.title, !.slug = item.slug,
                               !.visibility = item.visibility]
  <2>1. garden[i] = items[i] /\ items[i] \in Item
    BY <1>1, <1>2 DEF garden, Live, Stored
  <2> QED
    BY <1>1, <2>1 DEF Item
<1>8. Ledger!KeyIsFree(i, item) /\ garden[i] # NoItem
  BY <1>1 DEF Ledger!KeyIsFree, Ledger!Growing, Ledger!SameKey, SameKey, garden, Writes,
              KeyIsNew, Live, Stored
<1>9. Ledger!Tend(i, item.title, item.slug, item.visibility)
  BY <1>4, <1>5, <1>6, <1>7, <1>8 DEF Ledger!Tend, garden, links, past
<1> QED
  BY <1>8, <1>9, SameSets DEF Ledger!LedgerNext, Ledger!Growing, garden, Item

\* A delete uproots, whether it marks the row or takes it away.
LEMMA RemoveUproots ==
  ASSUME IInv, Record, Removes
  PROVE  Ledger!LedgerNext
<1>1. PICK i \in Ids : Live(i) /\ (SoftDeletes(i, Ok) \/ HardDeletes(i, Ok))
  BY DEF Removes
<1>2. /\ \A j \in Ids \ {i} : items'[j] = items[j]
      /\ items'[i] = NoItem \/ items'[i] = items[i]
      /\ ~Live(i)'
  BY <1>1 DEF SoftDeletes, HardDeletes, Live, Stored, IInv, TypeOK
<1>3. \A j \in Ids \ {i} : Live(j)' <=> Live(j)
  BY <1>1, <1>2 DEF SoftDeletes, HardDeletes, Live, Stored
<1>4. garden' = [garden EXCEPT ![i] = NoItem]
  BY <1>2, <1>3 DEF garden
<1>5. links' = {r \in links : i \notin {r.source, r.target}}
  <2>1. \A r \in relations' : r \in relations
    BY <1>1 DEF SoftDeletes, HardDeletes
  <2>2. \A r \in relations : i \notin {r.source, r.target} => r \in relations'
    BY <1>1 DEF SoftDeletes, HardDeletes
  <2> QED
    BY <1>2, <1>3, <2>1, <2>2, Facts DEF links
<1>6. past' = past
  <2>1. \A j \in Ids : items'[j] # NoItem /\ j \notin deleted' => Used(j) \/ j \in {}
    BY <1>1, <1>2, Facts DEF Live, Stored
  <2>2. past' \subseteq past \cup {} /\ past \subseteq past'
    BY <2>1, PastStays
  <2> QED
    BY <2>2
<1>7. Ledger!Growing(i)
  BY <1>1 DEF Ledger!Growing, Live, Stored
<1>8. Ledger!Uproot(i)
  BY <1>4, <1>5, <1>6 DEF Ledger!Uproot, garden, links, past
<1> QED
  BY <1>7, <1>8 DEF Ledger!LedgerNext

\* A relation between live items is a link; with a deleted one it is nothing.
LEMMA JoinLinks ==
  ASSUME IInv, Record, Joins
  PROVE  Ledger!LedgerNext \/ UNCHANGED <<garden, links, past>>
<1>1. PICK r \in Relation : Relates(r, Ok)
  BY DEF Joins
<1>2. \A j : Live(j)' <=> Live(j)
  BY <1>1 DEF Relates, Live, Stored
<1>3. garden' = garden
  BY <1>1, <1>2 DEF garden, Relates
<1>4. past' = past
  <2>1. \A j \in Ids : items'[j] # NoItem /\ j \notin deleted' => Used(j) \/ j \in {}
    BY <1>1, Facts DEF Relates, Stored
  <2>2. past' \subseteq past \cup {} /\ past \subseteq past'
    BY <2>1, PastStays
  <2> QED
    BY <2>2
<1>5. CASE Live(r.source) /\ Live(r.target)
  <2>1. links' = links \cup {r}
    BY <1>1, <1>2, <1>5 DEF links, Relates
  <2>2. Ledger!Growing(r.source) /\ Ledger!Growing(r.target)
    BY <1>5 DEF Ledger!Growing, Live, Stored
  <2>3. Ledger!Link(r)
    BY <1>3, <1>4, <2>1, <2>2 DEF Ledger!Link, garden, links, past
  <2> QED
    BY <2>3, SameSets DEF Ledger!LedgerNext
<1>6. CASE ~(Live(r.source) /\ Live(r.target))
  BY <1>1, <1>2, <1>3, <1>4, <1>6 DEF links, Relates
<1> QED
  BY <1>5, <1>6

\* A step that leaves the tables alone is none of the ledger's.
LEMMA UntouchedStutters ==
  ASSUME IInv, Record \/ UNCHANGED vars, UNCHANGED tables
  PROVE  UNCHANGED <<garden, links, past>>
<1>1. \A j : Live(j)' <=> Live(j)
  BY DEF tables, Live, Stored
<1>2. garden' = garden /\ links' = links
  BY <1>1 DEF garden, links, tables
<1>3. CASE Record
  <2>1. \A j \in Ids : items'[j] # NoItem /\ j \notin deleted' => Used(j) \/ j \in {}
    BY Facts DEF tables, Stored
  <2>2. past' \subseteq past \cup {} /\ past \subseteq past'
    BY <1>3, <2>1, PastStays
  <2> QED
    BY <1>2, <2>2
<1>4. CASE UNCHANGED vars
  BY <1>2, <1>4 DEF vars, past, Used
<1> QED
  BY <1>3, <1>4

\* For clients the service is the ledger: with either store and however their
\* requests interleave, live items and their links change as if every request
\* were a single step.
THEOREM ServiceImplementsLedger == Spec => ImplementsLedger
<1>1. Init => Ledger!LedgerInit
  BY LedgerInitially
<1>2. IInv /\ [Next]_vars => [Ledger!LedgerNext]_(Ledger!ledger)
  <2> SUFFICES ASSUME IInv, [Next]_vars
               PROVE  Ledger!LedgerNext \/ UNCHANGED <<garden, links, past>>
    BY DEF Ledger!ledger, garden, links, past
  <2>1. Record \/ UNCHANGED vars
    BY DEF Next
  <2>2. CASE UNCHANGED tables
    BY <2>1, <2>2, UntouchedStutters
  <2>3. CASE ~UNCHANGED tables
    <3>1. Record
      BY <2>1, <2>3 DEF vars, tables
    <3> QED
      BY <2>3, <3>1, TableStep, InsertPlants, RewriteTends, RemoveUproots, JoinLinks
  <2> QED
    BY <2>2, <2>3
<1> QED
  BY <1>1, <1>2, Invariance, PTL DEF Spec, ImplementsLedger, Ledger!LedgerSpec
=============================================================================
