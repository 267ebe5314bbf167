------------------------ MODULE ContentServiceProofs ------------------------
(***************************************************************************)
(* Theorems about ContentService, for any sets of users, ids, processes    *)
(* and requests and for both stores.  Everything rests on the inductive    *)
(* invariant IInv; the lemmas before it say what a store call may do to    *)
(* the tables and why no step spoils what another process carries.         *)
(***************************************************************************)
EXTENDS ContentService, TLAPS

USE RulesAssumption, BackendAssumption, ServiceAssumption

-----------------------------------------------------------------------------
(* The pure rules *)

\* A slug is normalized or blank, wherever it comes from.
LEMMA NormalSlug ==
  ASSUME NEW t \in Texts \cup {Blank}
  PROVE  normalizeSlug(t) \in Slugs \cup {Blank, White}
BY DEF normalizeSlug

\* An item that Create has validated is one the table can hold.
LEMMA NewItemTyped ==
  ASSUME NEW user \in Users, NEW input \in Input, validateItem(NewItem(user, input))
  PROVE  /\ NewItem(user, input) \in Item
         /\ NewItem(user, input).owner = user
<1> DEFINE title == Given(input.title, Blank)
           typed == normalizeSlug(Given(input.slug, Blank))
           item  == NewItem(user, input)
<1>1. title \in Texts \cup {Blank} /\ Given(input.slug, Blank) \in Texts \cup {Blank}
  BY DEF Input, Given
<1>2. typed \in Slugs \cup {Blank, White} /\ normalizeSlug(title) \in Slugs \cup {Blank, White}
  BY <1>1, NormalSlug
<1>3. item.slug = SlugOrTitle(typed, title) /\ item.title = title
  BY DEF NewItem
<1>4. item.slug \in Slugs
  BY <1>2, <1>3 DEF SlugOrTitle, validateItem
<1>5. item = [owner |-> user, kind |-> item.kind, title |-> item.title,
              slug |-> item.slug, visibility |-> item.visibility]
  BY DEF NewItem
<1> QED
  BY <1>1, <1>3, <1>4, <1>5 DEF validateItem, Item

\* An edited item keeps owner and kind, and is one the table can hold.
LEMMA EditedItemTyped ==
  ASSUME NEW item \in Item, NEW input \in Input, validateItem(EditedItem(item, input))
  PROVE  /\ EditedItem(item, input) \in Item
         /\ EditedItem(item, input).owner = item.owner
         /\ EditedItem(item, input).kind = item.kind
         /\ EditedItem(item, input).visibility = Given(input.visibility, item.visibility)
<1> DEFINE title  == Given(input.title, item.title)
           typed  == IF input.slug = Unset THEN item.slug ELSE normalizeSlug(input.slug)
           edited == EditedItem(item, input)
<1>1. title \in Texts \cup {Blank}
  BY DEF Input, Given, Item
<1>2. typed \in Slugs \cup {Blank, White} /\ normalizeSlug(title) \in Slugs \cup {Blank, White}
  BY <1>1, NormalSlug DEF Input, Item
<1>3. edited = [owner |-> item.owner, kind |-> item.kind, title |-> title,
                slug |-> SlugOrTitle(typed, title),
                visibility |-> Given(input.visibility, item.visibility)]
  <2>1. item = [owner |-> item.owner, kind |-> item.kind, title |-> item.title,
                slug |-> item.slug, visibility |-> item.visibility]
    BY DEF Item
  <2> HIDE DEF title
  <2>2. edited = [item EXCEPT !.title = title, !.slug = SlugOrTitle(typed, title),
                              !.visibility = Given(input.visibility, item.visibility)]
    BY DEF EditedItem, title
  <2> QED
    BY <2>1, <2>2
<1>4. edited.slug \in Slugs
  BY <1>2, <1>3 DEF SlugOrTitle, validateItem
<1> QED
  BY <1>1, <1>3, <1>4 DEF validateItem, Item

-----------------------------------------------------------------------------
(* What a store call does to the tables *)

KeyIsNew(i, item) == \A j \in Ids \ {i} : Stored(j) => ~SameKey(items[j], item)

NoEffect(err) == err # Ok /\ UNCHANGED tables

Writes(i, item, err) ==
  /\ err = Ok
  /\ KeyIsNew(i, item)
  /\ items' = [items EXCEPT ![i] = item]
  /\ UNCHANGED <<deleted, relations>>

SoftDeletes(i, err) ==
  /\ err = Ok
  /\ Backend = "postgres"
  /\ deleted' = deleted \cup {i}
  /\ UNCHANGED <<items, relations>>

HardDeletes(i, err) ==
  /\ err = Ok
  /\ Backend = "memory"
  /\ items' = [items EXCEPT ![i] = NoItem]
  /\ relations' = {r \in relations : i \notin {r.source, r.target}}
  /\ UNCHANGED deleted

Relates(r, err) ==
  /\ err = Ok
  /\ Stored(r.source)
  /\ Stored(r.target)
  /\ relations' = relations \cup {r}
  /\ UNCHANGED <<items, deleted>>

\* FindByID succeeds on live items alone.
LEMMA FoundIsLive ==
  ASSUME NEW i, FindByID(i) = Ok, Remembered
  PROVE  i \in Ids /\ Live(i)
BY DEF FindByID, PgFindByID, MemFindByID, Live, Remembered, Ok, ErrInternal, ErrNotFound

\* An insert fails without effect or stores an item under a free key.
LEMMA CreateEffect ==
  ASSUME NEW i \in Ids, NEW item \in Item, NEW err, StoreCreate(i, item, err)
  PROVE  NoEffect(err) \/ Writes(i, item, err)
BY DEF StoreCreate, PgCreate, MemCreate, PgTaken, MemTaken, NoEffect, Writes, KeyIsNew,
       tables, Ok, ErrConflict

\* A replace fails without effect or rewrites a live row under a free key.
LEMMA ReplaceEffect ==
  ASSUME NEW i \in Ids, NEW item \in Item, NEW err, StoreReplace(i, item, err),
         TypeOK, Remembered,
         Stored(i) => item.owner = items[i].owner /\ item.kind = items[i].kind
  PROVE  NoEffect(err) \/ (Live(i) /\ Writes(i, item, err))
<1>1. Stored(i) => PgUpdatedRow(i, item) = item
  <2>1. item = [owner |-> item.owner, kind |-> item.kind, title |-> item.title,
                slug |-> item.slug, visibility |-> item.visibility]
    BY DEF Item
  <2> QED
    BY <2>1 DEF PgUpdatedRow
<1>2. CASE Backend = "postgres"
  <2>1. PgReplace(i, item, err)
    BY <1>2 DEF StoreReplace
  <2>2. Live(i) => Stored(i)
    BY DEF Live
  <2>3. CASE ~Live(i)
    BY <2>1, <2>3 DEF PgReplace, NoEffect, Ok, ErrNotFound
  <2>4. CASE Live(i)
    BY <2>1, <2>2, <2>4, <1>1
       DEF PgReplace, PgTaken, NoEffect, Writes, KeyIsNew, Ok, ErrConflict
  <2> QED
    BY <2>3, <2>4
<1>3. CASE Backend = "memory"
  BY <1>3 DEF StoreReplace, MemReplace, MemTaken, NoEffect, Writes, KeyIsNew, Live,
              Remembered, tables, Ok, ErrConflict, ErrNotFound
<1> QED
  BY <1>2, <1>3

\* A delete fails without effect or takes a live item away.
LEMMA DeleteEffect ==
  ASSUME NEW i \in Ids, NEW err, StoreDelete(i, err), Remembered
  PROVE  NoEffect(err) \/ (Live(i) /\ (SoftDeletes(i, err) \/ HardDeletes(i, err)))
BY DEF StoreDelete, PgDelete, MemDelete, NoEffect, SoftDeletes, HardDeletes, Live,
       Remembered, tables, Ok, ErrNotFound

\* A relation is inserted between stored rows or not at all.
LEMMA AddRelationEffect ==
  ASSUME NEW r, NEW err, StoreAddRelation(r, err)
  PROVE  NoEffect(err) \/ Relates(r, err)
BY DEF StoreAddRelation, PgAddRelation, MemAddRelation, NoEffect, Relates, tables,
       Ok, ErrNotFound

-----------------------------------------------------------------------------
(* The tables, whoever changes them *)

TablesTyped ==
  /\ items \in [Ids -> Item \cup {NoItem}]
  /\ deleted \subseteq Ids
  /\ relations \subseteq Relation
  /\ asked \subseteq Ids \X {"public", "unlisted", Gone}
  /\ hist \subseteq Ids \X Visibilities

TablesInv ==
  /\ TablesTyped
  /\ UniqueKeys
  /\ NeverSharedUnasked
  /\ NothingLostUnasked
  /\ LinksJustified
  /\ Remembered

AskedTyped == asked' \subseteq Ids \X {"public", "unlisted", Gone} /\ asked \subseteq asked'

\* A used id keeps the owner and the kind of its item for as long as the item
\* is stored, an unstored one is never stored again, and ghosts only grow.
Evolves ==
  /\ \A i \in Ids : Used(i) /\ items'[i] # NoItem =>
       /\ items[i] # NoItem
       /\ items'[i].owner = items[i].owner
       /\ items'[i].kind = items[i].kind
  /\ asked \subseteq asked'
  /\ hist \subseteq hist'

\* What the ghost hist holds after a step.
LEMMA Recorded ==
  ASSUME Record
  PROVE  /\ hist \subseteq hist'
         /\ \A i \in Ids : items'[i] # NoItem /\ i \notin deleted'
              => <<i, items'[i].visibility>> \in hist'
         /\ \A x \in hist' : \/ x \in hist
                             \/ \E i \in Ids : /\ items'[i] # NoItem
                                               /\ i \notin deleted'
                                               /\ x = <<i, items'[i].visibility>>
BY DEF Record, LivePairs, LiveIds, Live, Stored

\* A step that leaves the tables alone leaves their invariants alone.
LEMMA TablesUntouched ==
  ASSUME TablesInv, Record, AskedTyped, UNCHANGED tables
  PROVE  TablesInv' /\ Evolves
<1>1. hist' = hist
  <2>1. LivePairs' = LivePairs
    BY DEF LivePairs, LiveIds, Live, Stored, tables
  <2> QED
    BY <2>1 DEF Record, TablesInv, Remembered
<1>2. TablesTyped'
  BY <1>1 DEF TablesInv, TablesTyped, AskedTyped, tables
<1>3. UniqueKeys'
  BY DEF TablesInv, UniqueKeys, Stored, SameKey, tables
<1>4. NeverSharedUnasked'
  BY DEF TablesInv, NeverSharedUnasked, Live, Stored, Shared, AskedTyped, tables
<1>5. NothingLostUnasked'
  BY <1>1 DEF TablesInv, NothingLostUnasked, Used, Live, Stored, AskedTyped, tables
<1>6. LinksJustified'
  BY <1>1 DEF TablesInv, LinksJustified, Stored, tables
<1>7. Remembered'
  <2>1. LivePairs' = LivePairs
    BY DEF LivePairs, LiveIds, Live, Stored, tables
  <2> QED
    BY <1>1, <2>1 DEF TablesInv, Remembered, Used, Stored, tables
<1>8. Evolves
  BY <1>1 DEF Evolves, AskedTyped, tables
<1> QED
  BY <1>2, <1>3, <1>4, <1>5, <1>6, <1>7, <1>8 DEF TablesInv

\* So does a write under a free key: of an item with a new id, or over a live
\* row of the same owner and kind, as long as its owner asked for what it shows.
LEMMA TablesWritten ==
  ASSUME TablesInv, Record, AskedTyped, NEW i \in Ids, NEW item \in Item, NEW err,
         Writes(i, item, err),
         ~Used(i) \/ (Live(i) /\ item.owner = items[i].owner /\ item.kind = items[i].kind),
         Shared(item) => <<i, item.visibility>> \in asked'
  PROVE  TablesInv' /\ Evolves
<1> USE DEF Writes
<1>1. items' \in [Ids -> Item \cup {NoItem}] /\ items'[i] = item /\ items'[i] # NoItem
  BY DEF TablesInv, TablesTyped
<1>2. \A j \in Ids \ {i} : items'[j] = items[j]
  BY DEF TablesInv, TablesTyped
<1>3. i \notin deleted
  BY DEF TablesInv, Remembered, Live, Stored, Used, TablesTyped
<1>4. <<i, item.visibility>> \in hist' /\ item.visibility \in Visibilities
  BY <1>1, <1>3, Recorded DEF Item
<1>5. hist' \subseteq Ids \X Visibilities
  <2> SUFFICES ASSUME NEW x \in hist'
               PROVE  x \in Ids \X Visibilities
    OBVIOUS
  <2>1. CASE x \in hist
    BY <2>1 DEF TablesInv, TablesTyped
  <2>2. CASE \E j \in Ids : items'[j] # NoItem /\ x = <<j, items'[j].visibility>>
    BY <2>2, <1>1 DEF Item
  <2> QED
    BY <2>1, <2>2, Recorded
<1>6. \A x \in hist' : x \in hist \/ x = <<i, item.visibility>>
  <2> SUFFICES ASSUME NEW x \in hist', x \notin hist
               PROVE  x = <<i, item.visibility>>
    OBVIOUS
  <2>1. PICK j \in Ids : /\ items'[j] # NoItem
                         /\ j \notin deleted'
                         /\ x = <<j, items'[j].visibility>>
    BY Recorded
  <2>2. j # i => x \in hist
    BY <2>1, <1>2 DEF TablesInv, Remembered, LivePairs, LiveIds, Live, Stored
  <2> QED
    BY <2>1, <2>2, <1>1
<1>7. TablesTyped'
  BY <1>1, <1>5 DEF TablesInv, TablesTyped, AskedTyped
<1>8. UniqueKeys'
  BY <1>1, <1>2 DEF TablesInv, UniqueKeys, Stored, SameKey, KeyIsNew
<1>9. NeverSharedUnasked'
  BY <1>1, <1>2 DEF TablesInv, NeverSharedUnasked, Live, Stored, Shared, AskedTyped
<1>10. NothingLostUnasked'
  BY <1>1, <1>2, <1>3, <1>6 DEF TablesInv, NothingLostUnasked, Used, Live, Stored, AskedTyped
<1>11. LinksJustified'
  <2> SUFFICES ASSUME NEW r \in relations
               PROVE  /\ items'[r.source] # NoItem
                      /\ items'[r.target] # NoItem
                      /\ \/ items'[r.target].owner = items'[r.source].owner
                         \/ \E v \in {"public", "unlisted"} : <<r.target, v>> \in hist'
    BY DEF LinksJustified, Stored
  <2>1. /\ r.source \in Ids /\ Stored(r.source)
        /\ r.target \in Ids /\ Stored(r.target)
        /\ \/ items[r.target].owner = items[r.source].owner
           \/ \E v \in {"public", "unlisted"} : <<r.target, v>> \in hist
    BY DEF TablesInv, TablesTyped, LinksJustified, Relation
  <2>2. Stored(i) => items'[i].owner = items[i].owner
    BY <1>1 DEF TablesInv, Remembered
  <2> QED
    BY <2>1, <2>2, <1>1, <1>2, Recorded DEF Stored
<1>12. Remembered'
  <2>1. (LivePairs \subseteq hist)'
    BY DEF Record
  <2>2. \A j \in Ids : items'[j] # NoItem => \E v \in Visibilities : <<j, v>> \in hist'
    BY <1>2, <1>4, Recorded DEF TablesInv, Remembered, Used, Stored
  <2> QED
    BY <2>1, <2>2, <1>1, <1>2 DEF TablesInv, TablesTyped, Remembered, Used, Stored
<1>13. Evolves
  BY <1>1, <1>2, Recorded DEF Evolves, AskedTyped, Live, Stored
<1> QED
  BY <1>7, <1>8, <1>9, <1>10, <1>11, <1>12, <1>13 DEF TablesInv

\* A delete leaves them alone when the owner of the item asked for it.
LEMMA TablesDeleted ==
  ASSUME TablesInv, Record, AskedTyped, NEW i \in Ids, NEW err,
         Live(i), SoftDeletes(i, err) \/ HardDeletes(i, err),
         <<i, Gone>> \in asked
  PROVE  TablesInv' /\ Evolves
<1>1. \A j \in Ids : items'[j] # NoItem => items[j] # NoItem /\ items'[j] = items[j]
  BY DEF SoftDeletes, HardDeletes, TablesInv, TablesTyped
<1>2. relations' \subseteq relations
  BY DEF SoftDeletes, HardDeletes
<1>3. deleted \subseteq deleted' /\ deleted' \subseteq deleted \cup {i}
  BY DEF SoftDeletes, HardDeletes
<1>4. \A j \in Ids \ {i} : items'[j] = items[j]
  BY DEF SoftDeletes, HardDeletes, TablesInv, TablesTyped
<1>5. hist' = hist
  <2>1. ASSUME NEW j \in Ids, items'[j] # NoItem, j \notin deleted'
        PROVE  <<j, items'[j].visibility>> \in hist
    <3>1. items[j] # NoItem /\ items'[j] = items[j] /\ j \notin deleted
      BY <2>1, <1>1, <1>3
    <3>2. <<j, items[j].visibility>> \in LivePairs
      BY <3>1 DEF LivePairs, LiveIds, Live, Stored
    <3> QED
      BY <3>1, <3>2 DEF TablesInv, Remembered
  <2>2. \A x \in hist' : x \in hist
    BY <2>1, Recorded
  <2> QED
    BY <2>2, Recorded
<1>6. TablesTyped'
  BY <1>2, <1>3, <1>5 DEF SoftDeletes, HardDeletes, TablesInv, TablesTyped, AskedTyped
<1>7. UniqueKeys'
  BY <1>1 DEF TablesInv, UniqueKeys, Stored, SameKey
<1>8. NeverSharedUnasked'
  BY <1>1, <1>3 DEF TablesInv, NeverSharedUnasked, Live, Stored, Shared, AskedTyped
<1>9. NothingLostUnasked'
  BY <1>3, <1>4, <1>5 DEF TablesInv, NothingLostUnasked, Used, Live, Stored, AskedTyped
<1>10. LinksJustified'
  <2> SUFFICES ASSUME NEW r \in relations'
               PROVE  /\ items'[r.source] # NoItem
                      /\ items'[r.target] # NoItem
                      /\ items'[r.source] = items[r.source]
                      /\ items'[r.target] = items[r.target]
    BY <1>2, <1>5 DEF TablesInv, LinksJustified, Stored
  <2>1. r.source \in Ids /\ Stored(r.source) /\ r.target \in Ids /\ Stored(r.target)
    BY <1>2 DEF TablesInv, TablesTyped, LinksJustified, Relation
  <2> QED
    BY <2>1, <1>4 DEF SoftDeletes, HardDeletes, Stored
<1>11. Remembered'
  <2>1. (LivePairs \subseteq hist)'
    BY DEF Record
  <2>2. \A j \in Ids : items'[j] # NoItem => \E v \in Visibilities : <<j, v>> \in hist'
    BY <1>1, <1>5 DEF TablesInv, Remembered, Used, Stored
  <2>3. \A j \in deleted' : items'[j] # NoItem
    BY <1>4 DEF SoftDeletes, HardDeletes, TablesInv, TablesTyped, Remembered, Live, Stored
  <2>4. Backend = "memory" => deleted' = {}
    <3>1. CASE HardDeletes(i, err)
      BY <3>1 DEF HardDeletes, TablesInv, Remembered
    <3>2. CASE SoftDeletes(i, err)
      BY <3>2 DEF SoftDeletes
    <3> QED
      BY <3>1, <3>2
  <2> QED
    BY <2>1, <2>2, <2>3, <2>4 DEF Remembered, Used, Stored
<1>12. Evolves
  BY <1>1, <1>5 DEF Evolves, AskedTyped
<1> QED
  BY <1>6, <1>7, <1>8, <1>9, <1>10, <1>11, <1>12 DEF TablesInv

\* So does a relation whose target its source's owner once could see.
LEMMA TablesRelated ==
  ASSUME TablesInv, Record, AskedTyped, NEW r \in Relation, NEW err, Relates(r, err),
         \/ items[r.target].owner = items[r.source].owner
         \/ \E v \in {"public", "unlisted"} : <<r.target, v>> \in hist
  PROVE  TablesInv' /\ Evolves
<1>1. items' = items /\ deleted' = deleted
  BY DEF Relates
<1>2. hist' = hist
  <2>1. LivePairs' = LivePairs
    BY <1>1 DEF LivePairs, LiveIds, Live, Stored
  <2> QED
    BY <2>1 DEF Record, TablesInv, Remembered
<1>3. TablesTyped'
  BY <1>1, <1>2 DEF TablesInv, TablesTyped, AskedTyped, Relates
<1>4. UniqueKeys'
  BY <1>1 DEF TablesInv, UniqueKeys, Stored, SameKey
<1>5. NeverSharedUnasked'
  BY <1>1 DEF TablesInv, NeverSharedUnasked, Live, Stored, Shared, AskedTyped
<1>6. NothingLostUnasked'
  BY <1>1, <1>2 DEF TablesInv, NothingLostUnasked, Used, Live, Stored, AskedTyped
<1>7. LinksJustified'
  BY <1>1, <1>2 DEF TablesInv, LinksJustified, Stored, Relates
<1>8. Remembered'
  <2>1. LivePairs' = LivePairs
    BY <1>1 DEF LivePairs, LiveIds, Live, Stored
  <2> QED
    BY <1>1, <1>2, <2>1 DEF TablesInv, Remembered, Used, Stored
<1>9. Evolves
  BY <1>1, <1>2 DEF Evolves, AskedTyped
<1> QED
  BY <1>3, <1>4, <1>5, <1>6, <1>7, <1>8, <1>9 DEF TablesInv

-----------------------------------------------------------------------------
(* What processes carry *)

\* No step spoils what a process carries that does not take part in it.
LEMMA CarriedByOthers ==
  ASSUME TablesInv, Evolves, NEW q \in Procs, Carried(q), call[q] \in Requests \cup {NoCall},
         pc'[q] = pc[q], call'[q] = call[q], draft'[q] = draft[q]
  PROVE  Carried(q)'
<1>1. PastFind(q)' = PastFind(q)
  BY DEF PastFind
<1>2. PastFind(q) => OwnItem(q)'
  <2> SUFFICES ASSUME PastFind(q)
               PROVE  OwnItem(q)'
    OBVIOUS
  <2>1. OwnItem(q)
    BY DEF Carried
  <2> QED
    BY <2>1 DEF OwnItem, Used, Stored, Evolves
<1>3. SeenTarget(q) => SeenTarget(q)'
  <2> SUFFICES ASSUME SeenTarget(q)
               PROVE  SeenTarget(q)'
    OBVIOUS
  <2> QED
    BY DEF SeenTarget, Used, Stored, Evolves
<1>4. pc[q] = "write" /\ call[q].op = "update" =>
        (Stored(call[q].id) => draft[q].kind = items[call[q].id].kind)'
  <2> SUFFICES ASSUME pc[q] = "write", call[q].op = "update", items'[call[q].id] # NoItem
               PROVE  draft[q].kind = items'[call[q].id].kind
    BY DEF Stored
  <2>1. OwnItem(q)
    BY DEF Carried, PastFind
  <2> QED
    BY <2>1 DEF Carried, OwnItem, Used, Stored, Evolves
<1> QED
  BY <1>1, <1>2, <1>3, <1>4 DEF Carried, Evolves, Shared

ControlTyped ==
  /\ pc \in [Procs -> Points]
  /\ call \in [Procs -> Requests \cup {NoCall}]
  /\ draft \in [Procs -> Item \cup {NoItem}]
  /\ resp \in [Procs -> Answers \cup {None}]

\* A process that answers is idle again, and the others go on as they were.
LEMMA ControlAnswered ==
  ASSUME ControlTyped, TablesInv, CarriedOver, Evolves, NEW p \in Procs,
         NEW answer \in Answers, Respond(p, answer)
  PROVE  (ControlTyped /\ CarriedOver)'
<1>1. ControlTyped'
  BY DEF ControlTyped, Respond, Points
<1>2. Carried(p)'
  BY DEF ControlTyped, Respond, Carried, PastFind, ServiceAssumption
<1>3. ASSUME NEW q \in Procs \ {p}
      PROVE  Carried(q)'
  BY <1>3, CarriedByOthers DEF ControlTyped, Respond, CarriedOver
<1> QED
  BY <1>1, <1>2, <1>3 DEF CarriedOver

\* A process that proceeds carries what it needs at its next point.
LEMMA ControlProceeded ==
  ASSUME ControlTyped, TablesInv, CarriedOver, Evolves, NEW p \in Procs,
         NEW point \in Points, Proceed(p, point), Carried(p)',
         draft' \in [Procs -> Item \cup {NoItem}],
         \A q \in Procs \ {p} : draft'[q] = draft[q]
  PROVE  (ControlTyped /\ CarriedOver)'
<1>1. ControlTyped'
  BY DEF ControlTyped, Proceed
<1>2. ASSUME NEW q \in Procs \ {p}
      PROVE  Carried(q)'
  BY <1>2, CarriedByOthers DEF ControlTyped, Proceed, CarriedOver
<1> QED
  BY <1>1, <1>2 DEF CarriedOver

-----------------------------------------------------------------------------
(* The steps *)

\* The invariant, split into what concerns the processes and what the tables.
LEMMA InvSplits == IInv <=> ControlTyped /\ TablesInv /\ CarriedOver
BY DEF IInv, TypeOK, ControlTyped, TablesInv, TablesTyped

\* The same in the next state.
LEMMA InvSplitsNext == IInv' <=> (ControlTyped /\ TablesInv /\ CarriedOver)'
BY DEF IInv, TypeOK, ControlTyped, TablesInv, TablesTyped

\* A running process serves a well-formed request.
LEMMA Serving ==
  ASSUME IInv, NEW p \in Procs, pc[p] # "idle"
  PROVE  call[p] \in Request /\ call[p] \in Requests
BY DEF IInv, TypeOK, CarriedOver, Carried, ServiceAssumption

\* The ghosts stay typed whatever a request names.
LEMMA NotedTyped ==
  ASSUME NEW i, NEW wish
  PROVE  /\ Noted(i, wish) \subseteq Ids \X {"public", "unlisted", Gone}
         /\ i \in Ids /\ wish \in {"public", "unlisted", Gone}
              => <<i, wish>> \in Noted(i, wish)
BY DEF Noted

\* A step that only answers.
LEMMA AnswerStep ==
  ASSUME IInv, Record, AskedTyped, NEW p \in Procs, NEW answer \in Answers,
         Respond(p, answer), UNCHANGED tables
  PROVE  IInv'
<1>1. TablesInv' /\ Evolves
  BY InvSplits, TablesUntouched
<1> QED
  BY <1>1, InvSplits, InvSplitsNext, ControlAnswered

\* A request that arrives touches no table and carries nothing yet.
LEMMA BeginStep ==
  ASSUME IInv, Record, NEW p \in Procs, NEW req \in Requests, Begin(p, req)
  PROVE  IInv'
<1>1. AskedTyped /\ UNCHANGED tables
  BY DEF Begin, tables, AskedTyped, IInv, TypeOK
<1>2. TablesInv' /\ Evolves
  BY <1>1, InvSplits, TablesUntouched
<1>3. ControlTyped'
  BY InvSplits DEF Begin, ControlTyped, Points
<1>4. Carried(p)'
  BY InvSplits DEF Begin, ControlTyped, Carried, PastFind, ServiceAssumption, Request
<1>5. ASSUME NEW q \in Procs \ {p}
      PROVE  Carried(q)'
  BY <1>2, <1>5, InvSplits, CarriedByOthers DEF Begin, ControlTyped, CarriedOver
<1> QED
  BY <1>2, <1>3, <1>4, <1>5, InvSplitsNext DEF CarriedOver

\* A failed store call answers and nothing more.
LEMMA FaultStep ==
  ASSUME IInv, Record, NEW p \in Procs, StoreFault(p)
  PROVE  IInv'
<1>1. AskedTyped /\ UNCHANGED tables
  BY DEF StoreFault, tables, AskedTyped, IInv, TypeOK
<1> QED
  BY <1>1, AnswerStep DEF StoreFault, Answers

\* What a handler learns of a store call is an answer.
LEMMA SeenIsAnswer ==
  ASSUME NEW err \in Answers, NEW answer \in Seen(err)
  PROVE  answer \in Answers
BY DEF Seen, Answers

\* An answer right after FindByID.
LEMMA RejectedStep ==
  ASSUME IInv, Record, NEW p \in Procs, Rejected(p)
  PROVE  IInv'
<1>1. AskedTyped /\ UNCHANGED tables
  BY DEF Rejected, tables, AskedTyped, IInv, TypeOK
<1>2. \E answer \in Answers : Respond(p, answer)
  BY DEF Rejected, FindByID, PgFindByID, MemFindByID, Answers
<1> QED
  BY <1>1, <1>2, AnswerStep

\* Create stores a validated item under a new id and a free key, or fails.
LEMMA CreateStep ==
  ASSUME IInv, Record, NEW p \in Procs, Create(p)
  PROVE  IInv'
<1> DEFINE item == NewItem(call[p].actor, call[p].input)
<1>1. call[p] \in Request
  BY Serving DEF Create
<1>2. CASE ~validateItem(item)
  BY <1>2, AnswerStep DEF Create, AskedTyped, IInv, TypeOK, tables, Answers
<1>3. CASE validateItem(item)
  <2>1. PICK i \in Fresh, err \in Answers :
          /\ StoreCreate(i, item, err)
          /\ \E answer \in Seen(err) : Respond(p, answer)
          /\ asked' = IF err = Ok THEN asked \cup Noted(i, call[p].input.visibility)
                      ELSE asked
    BY <1>3 DEF Create
  <2>2. AskedTyped
    BY <2>1, NotedTyped DEF AskedTyped, IInv, TypeOK
  <2>3. PICK answer \in Answers : Respond(p, answer)
    BY <2>1, SeenIsAnswer
  <2>4. item \in Item /\ i \in Ids /\ ~Used(i)
    BY <1>1, <1>3, NewItemTyped DEF Request, Fresh
  <2> HIDE DEF item
  <2>5. CASE NoEffect(err)
    BY <2>2, <2>3, <2>5, AnswerStep DEF NoEffect
  <2>6. CASE Writes(i, item, err)
    <3>1. Shared(item) => item.visibility = call[p].input.visibility
      BY <1>1 DEF Shared, item, NewItem, Given, Request, Input
    <3>2. Shared(item) => <<i, item.visibility>> \in asked'
      BY <2>1, <2>4, <2>6, <3>1, NotedTyped DEF Writes, Shared
    <3>3. TablesInv' /\ Evolves
      BY <2>2, <2>4, <2>6, <3>2, InvSplits, TablesWritten
    <3> QED
      BY <2>3, <3>3, InvSplits, InvSplitsNext, ControlAnswered
  <2> QED
    BY <2>1, <2>4, <2>5, <2>6, CreateEffect
<1> QED
  BY <1>2, <1>3

\* The draft that Update takes along is its owner's, typed, and shows nothing
\* that was not asked for, now or when the row was read.
LEMMA FindForUpdateStep ==
  ASSUME IInv, Record, NEW p \in Procs, FindForUpdate(p)
  PROVE  IInv'
<1> DEFINE i    == call[p].id
           item == EditedItem(items[i], call[p].input)
<1>1. call[p] \in Request
  BY Serving DEF FindForUpdate
<1>2. i \in Ids /\ Live(i) /\ items[i] \in Item /\ Owns(p)
  BY FoundIsLive DEF FindForUpdate, IInv, TypeOK, IsOwner, Live, Stored
<1>3. AskedTyped /\ UNCHANGED tables
  BY NotedTyped DEF FindForUpdate, Wishes, AskedTyped, tables, IInv, TypeOK
<1>4. TablesInv' /\ Evolves
  BY <1>3, InvSplits, TablesUntouched
<1>5. CASE ~validateItem(item)
  BY <1>3, <1>5, AnswerStep DEF FindForUpdate, Answers
<1>6. CASE validateItem(item)
  <2>1. draft' = [draft EXCEPT ![p] = item] /\ Proceed(p, "write")
    BY <1>6 DEF FindForUpdate
  <2>2. /\ item \in Item
        /\ item.owner = items[i].owner
        /\ item.kind = items[i].kind
        /\ item.visibility = Given(call[p].input.visibility, items[i].visibility)
    BY <1>1, <1>2, <1>6, EditedItemTyped DEF Request
  <2> HIDE DEF item
  <2>3. draft'[p] = item /\ pc'[p] = "write" /\ call' = call
    BY <2>1, InvSplits DEF ControlTyped, Proceed
  <2>4. Shared(item) => <<i, item.visibility>> \in asked'
    <3>1. CASE item.visibility = items[i].visibility
      BY <3>1, <1>2, <1>3 DEF IInv, NeverSharedUnasked, Shared, AskedTyped
    <3>2. CASE item.visibility = call[p].input.visibility
      BY <3>2, <1>1, <1>2, NotedTyped DEF FindForUpdate, Wishes, Wish, Shared
    <3> QED
      BY <3>1, <3>2, <2>2 DEF Given
  <2>5. Carried(p)'
    <3>1. call[p].op = "update" /\ call[p] # NoCall
      BY InvSplits DEF FindForUpdate, CarriedOver, Carried
    <3>2. PastFind(p)' /\ OwnItem(p)'
      BY <1>2, <1>4, <2>3, <3>1
         DEF PastFind, OwnItem, Owns, Used, Stored, Evolves, Live, TablesInv, Remembered,
             IInv, AskedTyped
    <3>3. items' = items
      BY <1>3 DEF tables
    <3> QED
      BY <1>2, <2>2, <2>3, <2>4, <3>1, <3>2, <3>3 DEF Carried, Owns, Stored, Shared
  <2>6. /\ draft' \in [Procs -> Item \cup {NoItem}]
        /\ \A q \in Procs \ {p} : draft'[q] = draft[q]
    BY <2>1, <2>2, InvSplits DEF ControlTyped
  <2> QED
    BY <1>4, <2>1, <2>5, <2>6, InvSplits, InvSplitsNext, ControlProceeded DEF Points
<1> QED
  BY <1>5, <1>6

\* Delete goes on with an item whose owner asks to delete it.
LEMMA FindForDeleteStep ==
  ASSUME IInv, Record, NEW p \in Procs, FindForDelete(p)
  PROVE  IInv'
<1>1. call[p] \in Request
  BY Serving DEF FindForDelete
<1>2. call[p].id \in Ids /\ Live(call[p].id) /\ Owns(p)
  BY FoundIsLive DEF FindForDelete, IInv, IsOwner
<1>3. AskedTyped /\ UNCHANGED tables
  BY NotedTyped DEF FindForDelete, Wishes, AskedTyped, tables, IInv, TypeOK
<1>4. TablesInv' /\ Evolves
  BY <1>3, InvSplits, TablesUntouched
<1>5. <<call[p].id, Gone>> \in asked'
  BY <1>2, NotedTyped DEF FindForDelete, Wishes, Wish
<1>6. pc'[p] = "write" /\ call' = call /\ draft' = draft /\ Proceed(p, "write")
  BY InvSplits DEF FindForDelete, Proceed, ControlTyped
<1>7. Carried(p)'
  <2>1. call[p].op = "delete" /\ call[p] # NoCall
    BY InvSplits DEF FindForDelete, CarriedOver, Carried
  <2>2. OwnItem(p)'
    BY <1>2, <1>3, <1>4, <1>6
       DEF OwnItem, Owns, Used, Stored, Evolves, Live, IInv, Remembered, tables
  <2> QED
    BY <1>5, <1>6, <2>1, <2>2 DEF Carried
<1> QED
  BY <1>4, <1>6, <1>7, InvSplits, InvSplitsNext, ControlProceeded DEF Points, ControlTyped

\* AddRelation goes on with a source that is the actor's own.
LEMMA FindForRelateStep ==
  ASSUME IInv, Record, NEW p \in Procs, FindForRelate(p)
  PROVE  IInv'
<1>1. call[p] \in Request
  BY Serving DEF FindForRelate
<1>2. call[p].id \in Ids /\ Live(call[p].id) /\ Owns(p)
  BY FoundIsLive DEF FindForRelate, IInv, IsOwner
<1>3. AskedTyped /\ UNCHANGED tables
  BY DEF FindForRelate, AskedTyped, tables, IInv, TypeOK
<1>4. TablesInv' /\ Evolves
  BY <1>3, InvSplits, TablesUntouched
<1>5. pc'[p] = "target" /\ call' = call /\ draft' = draft /\ Proceed(p, "target")
  BY InvSplits DEF FindForRelate, Proceed, ControlTyped
<1>6. Carried(p)'
  <2>1. call[p].op = "relate" /\ call[p] # NoCall
    BY InvSplits DEF FindForRelate, CarriedOver, Carried
  <2>2. OwnItem(p)'
    BY <1>2, <1>3, <1>4, <1>5
       DEF OwnItem, Owns, Used, Stored, Evolves, Live, IInv, Remembered, tables
  <2> QED
    BY <1>5, <2>1, <2>2 DEF Carried
<1> QED
  BY <1>4, <1>5, <1>6, InvSplits, InvSplitsNext, ControlProceeded DEF Points, ControlTyped

\* AddRelation goes on with a target that the actor can see.
LEMMA FindTargetStep ==
  ASSUME IInv, Record, NEW p \in Procs, FindTarget(p)
  PROVE  IInv'
<1> DEFINE t     == call[p].target
           found == FindVisible(t, call[p].actor)
<1>1. AskedTyped /\ UNCHANGED tables
  BY DEF FindTarget, AskedTyped, tables, IInv, TypeOK
<1>2. TablesInv' /\ Evolves
  BY <1>1, InvSplits, TablesUntouched
<1>3. found \in Answers
  BY DEF FindVisible, FindByID, PgFindByID, MemFindByID, Answers
<1>4. CASE found # Ok \/ call[p].type = Blank
  BY <1>1, <1>3, <1>4, AnswerStep DEF FindTarget, Answers
<1>5. CASE found = Ok /\ call[p].type # Blank
  <2>1. /\ pc[p] = "target" /\ pc'[p] = "write" /\ call' = call /\ draft' = draft
        /\ Proceed(p, "write")
    BY <1>5, InvSplits DEF FindTarget, Proceed, ControlTyped
  <2>2. t \in Ids /\ Live(t) /\ canView(items[t], call[p].actor)
    BY <1>5, FoundIsLive DEF FindVisible, IInv, ErrNotFound, Ok
  <2>3. SeenTarget(p)
    <3>1. <<t, items[t].visibility>> \in hist
      BY <2>2 DEF IInv, Remembered, LivePairs, LiveIds
    <3>2. Used(t)
      BY <2>2 DEF IInv, Remembered, Live
    <3> QED
      BY <2>2, <3>1, <3>2 DEF SeenTarget, canView, Shared
  <2>4. SeenTarget(p)'
    BY <1>1, <1>2, <2>1, <2>3 DEF SeenTarget, Used, Stored, Evolves, tables
  <2>5. Carried(p)'
    <3>1. call[p].op = "relate" /\ call[p] # NoCall /\ OwnItem(p)
      BY <2>1, InvSplits DEF CarriedOver, Carried, PastFind
    <3>2. OwnItem(p)'
      BY <1>1, <1>2, <2>1, <3>1 DEF OwnItem, Used, Stored, Evolves, tables
    <3> QED
      BY <1>5, <2>1, <2>4, <3>1, <3>2 DEF Carried
  <2> QED
    BY <1>2, <2>1, <2>5, InvSplits, InvSplitsNext, ControlProceeded DEF Points, ControlTyped
<1> QED
  BY <1>4, <1>5

\* Update writes what it carried here over a live row, or fails.
LEMMA ReplaceStep ==
  ASSUME IInv, Record, NEW p \in Procs, Replace(p)
  PROVE  IInv'
<1> DEFINE i == call[p].id
<1>1. PICK err \in Answers : /\ StoreReplace(i, draft[p], err)
                             /\ \E answer \in Seen(err) : Respond(p, answer)
  BY DEF Replace
<1>2. PICK answer \in Answers : Respond(p, answer)
  BY <1>1, SeenIsAnswer
<1>3. AskedTyped /\ asked' = asked
  BY DEF Replace, AskedTyped, IInv, TypeOK
<1>4. /\ i \in Ids
      /\ draft[p] \in Item
      /\ Stored(i) => draft[p].owner = items[i].owner /\ draft[p].kind = items[i].kind
      /\ Shared(draft[p]) => <<i, draft[p].visibility>> \in asked'
  BY <1>3 DEF Replace, IInv, CarriedOver, Carried, PastFind, OwnItem
<1>5. CASE NoEffect(err)
  BY <1>2, <1>3, <1>5, AnswerStep DEF NoEffect
<1>6. CASE Live(i) /\ Writes(i, draft[p], err)
  <2>1. TablesInv' /\ Evolves
    BY <1>3, <1>4, <1>6, InvSplits, TablesWritten DEF Live
  <2> QED
    BY <1>2, <2>1, InvSplits, InvSplitsNext, ControlAnswered
<1> QED
  BY <1>1, <1>4, <1>5, <1>6, ReplaceEffect DEF IInv

\* Delete takes away the item it carried here, or fails.
LEMMA DeleteStep ==
  ASSUME IInv, Record, NEW p \in Procs, Delete(p)
  PROVE  IInv'
<1> DEFINE i == call[p].id
<1>1. PICK err \in Answers : /\ StoreDelete(i, err)
                             /\ \E answer \in Seen(err) : Respond(p, answer)
  BY DEF Delete
<1>2. PICK answer \in Answers : Respond(p, answer)
  BY <1>1, SeenIsAnswer
<1>3. AskedTyped
  BY DEF Delete, AskedTyped, IInv, TypeOK
<1>4. i \in Ids /\ <<i, Gone>> \in asked
  BY DEF Delete, IInv, CarriedOver, Carried, PastFind, OwnItem
<1>5. CASE NoEffect(err)
  BY <1>2, <1>3, <1>5, AnswerStep DEF NoEffect
<1>6. CASE Live(i) /\ (SoftDeletes(i, err) \/ HardDeletes(i, err))
  <2>1. TablesInv' /\ Evolves
    BY <1>3, <1>4, <1>6, InvSplits, TablesDeleted
  <2> QED
    BY <1>2, <2>1, InvSplits, InvSplitsNext, ControlAnswered
<1> QED
  BY <1>1, <1>4, <1>5, <1>6, DeleteEffect DEF IInv

\* AddRelation joins the items it carried here, or fails.
LEMMA AddRelationStep ==
  ASSUME IInv, Record, NEW p \in Procs, AddRelation(p)
  PROVE  IInv'
<1> DEFINE r == [source |-> call[p].id, target |-> call[p].target, type |-> call[p].type]
<1>1. PICK err \in Answers : /\ StoreAddRelation(r, err)
                             /\ \E answer \in Seen(err) : Respond(p, answer)
  BY DEF AddRelation
<1>2. PICK answer \in Answers : Respond(p, answer)
  BY <1>1, SeenIsAnswer
<1>3. AskedTyped
  BY DEF AddRelation, AskedTyped, IInv, TypeOK
<1>4. OwnItem(p) /\ SeenTarget(p) /\ call[p].type # Blank /\ call[p] \in Request
  BY Serving DEF AddRelation, IInv, CarriedOver, Carried, PastFind
<1>5. r \in Relation
  BY <1>4 DEF OwnItem, SeenTarget, Relation, Request
<1>6. CASE NoEffect(err)
  BY <1>2, <1>3, <1>6, AnswerStep DEF NoEffect
<1>7. CASE Relates(r, err)
  <2>1. \/ items[r.target].owner = items[r.source].owner
        \/ \E v \in {"public", "unlisted"} : <<r.target, v>> \in hist
    BY <1>4, <1>7 DEF Relates, OwnItem, SeenTarget
  <2>2. TablesInv' /\ Evolves
    BY <1>3, <1>5, <1>7, <2>1, InvSplits, TablesRelated
  <2> QED
    BY <1>2, <2>2, InvSplits, InvSplitsNext, ControlAnswered
<1> QED
  BY <1>1, <1>6, <1>7, AddRelationEffect

-----------------------------------------------------------------------------
(* The inductive invariant *)

\* Before the first request the tables are empty and every process is idle.
LEMMA InitInv ==
  ASSUME Init
  PROVE  IInv
<1>1. TypeOK
  BY DEF Init, TypeOK, Points
<1>2. UniqueKeys /\ NeverSharedUnasked /\ NothingLostUnasked /\ LinksJustified
  BY DEF Init, UniqueKeys, NeverSharedUnasked, NothingLostUnasked, LinksJustified,
         Stored, Live, Used
<1>3. Remembered
  BY DEF Init, Remembered, LivePairs, LiveIds, Live, Stored
<1>4. CarriedOver
  BY DEF Init, CarriedOver, Carried, PastFind
<1> QED
  BY <1>1, <1>2, <1>3, <1>4 DEF IInv

\* A step of the environment leaves everything as it is.
LEMMA StutterStep ==
  ASSUME IInv, UNCHANGED vars
  PROVE  IInv'
<1> USE DEF vars
<1>1. TypeOK' /\ UniqueKeys' /\ LinksJustified'
  BY DEF IInv, TypeOK, UniqueKeys, LinksJustified, Stored, SameKey
<1>2. NeverSharedUnasked' /\ NothingLostUnasked'
  BY DEF IInv, NeverSharedUnasked, NothingLostUnasked, Used, Live, Stored, Shared
<1>3. Remembered'
  <2>1. LivePairs' = LivePairs
    BY DEF LivePairs, LiveIds, Live, Stored
  <2> QED
    BY <2>1 DEF IInv, Remembered, Used, Stored
<1>4. CarriedOver'
  BY DEF IInv, CarriedOver, Carried, PastFind, OwnItem, SeenTarget, Used, Stored, Shared
<1> QED
  BY <1>1, <1>2, <1>3, <1>4 DEF IInv

\* Every step keeps the invariant: one case per action.
LEMMA NextStep ==
  ASSUME IInv, [Next]_vars
  PROVE  IInv'
<1>1. ASSUME NEW p \in Procs, Advance(p), Record
      PROVE  IInv'
  BY <1>1, CreateStep, RejectedStep, FindForUpdateStep, FindForDeleteStep,
     FindForRelateStep, FindTargetStep, ReplaceStep, DeleteStep, AddRelationStep,
     FaultStep DEF Advance
<1>2. ASSUME NEW p \in Procs, NEW req \in Requests, Begin(p, req), Record
      PROVE  IInv'
  BY <1>2, BeginStep
<1>3. CASE UNCHANGED vars
  BY <1>3, StutterStep
<1> QED
  BY <1>1, <1>2, <1>3 DEF Next

\* In every behaviour, with either store and however requests interleave, the
\* tables are sound and what each request carries between its calls is right.
THEOREM Invariance == Spec => []IInv
<1>1. Init => IInv
  BY InitInv
<1>2. IInv /\ [Next]_vars => IInv'
  BY NextStep
<1> QED
  BY <1>1, <1>2, PTL DEF Spec

-----------------------------------------------------------------------------
(* The properties *)

\* Every variable keeps its type: what Create and Update write was validated.
THEOREM TypeCorrect == Spec => []TypeOK
<1>1. IInv => TypeOK
  BY DEF IInv
<1> QED
  BY <1>1, Invariance, PTL

\* No race of creates and updates stores two items under one key.
THEOREM KeysStayUnique == Spec => []UniqueKeys
<1>1. IInv => UniqueKeys
  BY DEF IInv
<1> QED
  BY <1>1, Invariance, PTL

\* No item is ever open to others with a visibility that its owner never named for
\* it; he may have named another one since.
THEOREM SharingIsAsked == Spec => []NeverSharedUnasked
<1>1. IInv => NeverSharedUnasked
  BY DEF IInv
<1> QED
  BY <1>1, Invariance, PTL

\* No item is ever lost without its owner's wish.
THEOREM LossIsAsked == Spec => []NothingLostUnasked
<1>1. IInv => NothingLostUnasked
  BY DEF IInv
<1> QED
  BY <1>1, Invariance, PTL

\* Every relation joins stored rows and was justified when it was checked,
\* although AddRelation checks in two steps and writes in a third.
THEOREM LinksStayJustified == Spec => []LinksJustified
<1>1. IInv => LinksJustified
  BY DEF IInv
<1> QED
  BY <1>1, Invariance, PTL

-----------------------------------------------------------------------------
(* What a single step may do *)

OnlyRow(i) ==
  /\ ~Used(i) \/ Live(i)
  /\ \A j \in Ids \ {i} : items'[j] = items[j] /\ (j \in deleted' <=> j \in deleted)
  /\ relations' \subseteq relations

NewRelation(p) ==
  /\ UNCHANGED <<items, deleted>>
  /\ \E r \in Relation : /\ relations' = relations \cup {r}
                         /\ WritesFor(p, OwnerOf(r.source))

\* An answer tells what became of the tables.
Truthful(p) ==
  /\ resp'[p] = Ok => Achieved(p)
  /\ resp'[p] \notin {Ok, ErrInternal} => UNCHANGED tables

\* What p's step may do: nothing, one row of its actor, or one relation.
Bounded(p) ==
  \/ UNCHANGED tables
  \/ \E i \in Ids : OnlyRow(i) /\ WritesFor(p, OwnerOf(i))
  \/ NewRelation(p)

\* The state of p after it has answered.
LEMMA Responded ==
  ASSUME IInv, NEW p \in Procs, NEW answer, Respond(p, answer)
  PROVE  pc'[p] = "idle" /\ resp'[p] = answer
BY DEF IInv, TypeOK, Respond

\* An answer without a store call that succeeded: no effect, and no success.
LEMMA FailureIsBounded ==
  ASSUME IInv, NEW p \in Procs, NEW answer, Respond(p, answer), answer # Ok,
         UNCHANGED tables
  PROVE  Bounded(p) /\ Truthful(p)
BY Responded DEF Bounded, Truthful

\* A success is seen only of a call that succeeded, an error that is not
\* internal only of one that failed.
LEMMA SeenTells ==
  ASSUME NEW err \in Answers, NEW answer \in Seen(err)
  PROVE  answer = err \/ answer = ErrInternal
BY DEF Seen

\* A store call without effect leaves nothing to answer but its failure.
LEMMA NoEffectIsBounded ==
  ASSUME IInv, NEW p \in Procs, NEW err \in Answers, NEW answer \in Seen(err),
         Respond(p, answer), NoEffect(err)
  PROVE  Bounded(p) /\ Truthful(p)
BY SeenTells, FailureIsBounded DEF NoEffect, Ok, ErrInternal

\* Create touches the one row it inserts, and answers accordingly.
LEMMA CreateBounded ==
  ASSUME IInv, Record, NEW p \in Procs, Create(p)
  PROVE  Bounded(p) /\ Truthful(p)
<1> DEFINE item == NewItem(call[p].actor, call[p].input)
<1>1. call[p] \in Request
  BY Serving DEF Create
<1>2. CASE ~validateItem(item)
  BY <1>2, FailureIsBounded DEF Create, tables, Ok, ErrInvalidInput
<1>3. CASE validateItem(item)
  <2>1. PICK i \in Fresh, err \in Answers : /\ StoreCreate(i, item, err)
                                            /\ \E answer \in Seen(err) : Respond(p, answer)
    BY <1>3 DEF Create
  <2>2. PICK answer \in Seen(err) : Respond(p, answer)
    BY <2>1
  <2>3. item \in Item /\ item.owner = call[p].actor /\ i \in Ids /\ ~Used(i)
    BY <1>1, <1>3, NewItemTyped DEF Request, Fresh
  <2> HIDE DEF item
  <2>4. CASE NoEffect(err)
    BY <2>2, <2>4, NoEffectIsBounded
  <2>5. CASE Writes(i, item, err)
    <3>1. items'[i] = item /\ ~Stored(i) /\ err = Ok
      BY <2>3, <2>5 DEF Writes, IInv, TypeOK, Remembered
    <3>2. pc[p] = "write" /\ call[p].op = "create" /\ pc'[p] = "idle" /\ resp'[p] = answer
      BY <2>2, Responded DEF Create
    <3>3. OnlyRow(i) /\ WritesFor(p, OwnerOf(i))
      BY <2>3, <2>5, <3>1, <3>2 DEF OnlyRow, WritesFor, OwnerOf, Writes, IInv, TypeOK
    <3>4. Truthful(p)
      BY <2>2, <3>1, <3>2, SeenTells DEF Truthful, Achieved, item
    <3> QED
      BY <2>3, <3>3, <3>4 DEF Bounded
  <2> QED
    BY <2>1, <2>3, <2>4, <2>5, CreateEffect
<1> QED
  BY <1>2, <1>3

\* Update touches the one live row its actor owns, and answers accordingly.
LEMMA ReplaceBounded ==
  ASSUME IInv, Record, NEW p \in Procs, Replace(p)
  PROVE  Bounded(p) /\ Truthful(p)
<1> DEFINE i == call[p].id
<1>1. PICK err \in Answers : /\ StoreReplace(i, draft[p], err)
                             /\ \E answer \in Seen(err) : Respond(p, answer)
  BY DEF Replace
<1>2. PICK answer \in Seen(err) : Respond(p, answer)
  BY <1>1
<1>3. /\ i \in Ids
      /\ draft[p] \in Item /\ draft[p] # NoItem
      /\ Stored(i) => items[i].owner = call[p].actor
      /\ Stored(i) => draft[p].owner = items[i].owner /\ draft[p].kind = items[i].kind
  BY DEF Replace, IInv, CarriedOver, Carried, PastFind, OwnItem
<1>4. CASE NoEffect(err)
  BY <1>2, <1>4, NoEffectIsBounded
<1>5. CASE Live(i) /\ Writes(i, draft[p], err)
  <2>1. items'[i] = draft[p] /\ Stored(i) /\ i \notin deleted' /\ err = Ok
    BY <1>3, <1>5 DEF Writes, IInv, TypeOK, Live
  <2>2. pc[p] = "write" /\ call[p].op = "update" /\ pc'[p] = "idle" /\ resp'[p] = answer
    BY <1>2, Responded DEF Replace
  <2>3. OnlyRow(i) /\ WritesFor(p, OwnerOf(i))
    BY <1>3, <1>5, <2>1, <2>2 DEF OnlyRow, WritesFor, OwnerOf, Writes, IInv, TypeOK
  <2>4. Truthful(p)
    BY <1>2, <1>3, <2>1, <2>2, SeenTells DEF Truthful, Achieved, LiveIds, Live, Stored
  <2> QED
    BY <1>3, <2>3, <2>4 DEF Bounded
<1> QED
  BY <1>1, <1>3, <1>4, <1>5, ReplaceEffect DEF IInv

\* Delete touches the one live row its actor owns, and answers accordingly.
LEMMA DeleteBounded ==
  ASSUME IInv, Record, NEW p \in Procs, Delete(p)
  PROVE  Bounded(p) /\ Truthful(p)
<1> DEFINE i == call[p].id
<1>1. PICK err \in Answers : /\ StoreDelete(i, err)
                             /\ \E answer \in Seen(err) : Respond(p, answer)
  BY DEF Delete
<1>2. PICK answer \in Seen(err) : Respond(p, answer)
  BY <1>1
<1>3. i \in Ids /\ (Stored(i) => items[i].owner = call[p].actor)
  BY DEF Delete, IInv, CarriedOver, Carried, PastFind, OwnItem
<1>4. CASE NoEffect(err)
  BY <1>2, <1>4, NoEffectIsBounded
<1>5. CASE Live(i) /\ (SoftDeletes(i, err) \/ HardDeletes(i, err))
  <2>1. err = Ok /\ Stored(i) /\ (items'[i] = NoItem \/ i \in deleted')
    BY <1>3, <1>5 DEF SoftDeletes, HardDeletes, Live, IInv, TypeOK
  <2>2. pc[p] = "write" /\ call[p].op = "delete" /\ pc'[p] = "idle" /\ resp'[p] = answer
    BY <1>2, Responded DEF Delete
  <2>3. OnlyRow(i) /\ WritesFor(p, OwnerOf(i))
    BY <1>3, <1>5, <2>1, <2>2
       DEF OnlyRow, WritesFor, OwnerOf, SoftDeletes, HardDeletes, IInv, TypeOK
  <2>4. Truthful(p)
    BY <1>2, <2>1, <2>2, SeenTells DEF Truthful, Achieved, LiveIds, Live, Stored
  <2> QED
    BY <1>3, <2>3, <2>4 DEF Bounded
<1> QED
  BY <1>1, <1>3, <1>4, <1>5, DeleteEffect DEF IInv

\* AddRelation inserts one relation from its actor's item, and answers so.
LEMMA AddRelationBounded ==
  ASSUME IInv, Record, NEW p \in Procs, AddRelation(p)
  PROVE  Bounded(p) /\ Truthful(p)
<1> DEFINE r == [source |-> call[p].id, target |-> call[p].target, type |-> call[p].type]
<1>1. PICK err \in Answers : /\ StoreAddRelation(r, err)
                             /\ \E answer \in Seen(err) : Respond(p, answer)
  BY DEF AddRelation
<1>2. PICK answer \in Seen(err) : Respond(p, answer)
  BY <1>1
<1>3. OwnItem(p) /\ SeenTarget(p) /\ call[p].type # Blank /\ call[p] \in Request
  BY Serving DEF AddRelation, IInv, CarriedOver, Carried, PastFind
<1>4. CASE NoEffect(err)
  BY <1>2, <1>4, NoEffectIsBounded
<1>5. CASE Relates(r, err)
  <2>1. pc[p] = "write" /\ call[p].op = "relate" /\ pc'[p] = "idle" /\ resp'[p] = answer
    BY <1>2, Responded DEF AddRelation
  <2>2. r \in Relation /\ WritesFor(p, OwnerOf(r.source))
    BY <1>3, <1>5, <2>1
       DEF OwnItem, SeenTarget, Relation, Request, WritesFor, OwnerOf, Relates
  <2>3. NewRelation(p)
    BY <1>5, <2>2 DEF NewRelation, Relates
  <2>4. Truthful(p)
    BY <1>2, <1>5, <2>1, SeenTells DEF Truthful, Achieved, Relates
  <2> QED
    BY <2>3, <2>4 DEF Bounded
<1> QED
  BY <1>1, <1>4, <1>5, AddRelationEffect

Ends(p) == pc[p] # "idle" /\ pc'[p] = "idle"

\* A step before the write leaves the tables alone and answers only failures.
LEMMA LookupBounded ==
  ASSUME IInv, NEW p \in Procs,
         Rejected(p) \/ FindForUpdate(p) \/ FindForDelete(p) \/ FindForRelate(p)
           \/ FindTarget(p) \/ StoreFault(p)
  PROVE  UNCHANGED tables /\ (Ends(p) => Truthful(p))
<1>1. UNCHANGED tables
  BY DEF Rejected, FindForUpdate, FindForDelete, FindForRelate, FindTarget, StoreFault,
         tables
<1>2. ASSUME NEW point \in {"target", "write"}, Proceed(p, point)
      PROVE  ~Ends(p)
  BY <1>2 DEF Proceed, Ends, IInv, TypeOK
<1>3. CASE Rejected(p)
  <2>1. PICK answer : Respond(p, answer) /\ answer # Ok
    BY <1>3 DEF Rejected, Ok, ErrForbidden
  <2> QED
    BY <1>1, <2>1, FailureIsBounded
<1>4. CASE FindForUpdate(p)
  BY <1>1, <1>2, <1>4, FailureIsBounded DEF FindForUpdate, Ok, ErrInvalidInput
<1>5. CASE FindForDelete(p)
  BY <1>1, <1>2, <1>5 DEF FindForDelete
<1>6. CASE FindForRelate(p)
  BY <1>1, <1>2, <1>6 DEF FindForRelate
<1>7. CASE FindTarget(p)
  <2>1. \/ \E answer : Respond(p, answer) /\ answer # Ok
        \/ Proceed(p, "write")
    BY <1>7 DEF FindTarget, Ok, ErrInvalidInput
  <2> QED
    BY <1>1, <1>2, <2>1, FailureIsBounded
<1>8. CASE StoreFault(p)
  BY <1>1, <1>8, FailureIsBounded DEF StoreFault, Ok, ErrInternal
<1> QED
  BY <1>1, <1>3, <1>4, <1>5, <1>6, <1>7, <1>8

\* No step moves two processes.
LEMMA OthersStay ==
  ASSUME IInv, NEW p \in Procs, NEW q \in Procs \ {p}, Advance(p)
  PROVE  pc'[q] = pc[q]
<1>1. (\E answer : Respond(p, answer)) \/ (\E point : Proceed(p, point))
  BY DEF Advance, Create, Rejected, FindForUpdate, FindForDelete, FindForRelate,
         FindTarget, Replace, Delete, AddRelation, StoreFault
<1> QED
  BY <1>1 DEF Respond, Proceed, IInv, TypeOK

\* Every step stays within the bounds of the one process that takes it.
LEMMA StepBounded ==
  ASSUME IInv, [Next]_vars
  PROVE  /\ UNCHANGED tables \/ \E p \in Procs : Bounded(p)
         /\ \A p \in Procs : Ends(p) => Truthful(p)
<1>1. ASSUME NEW p \in Procs, Advance(p), Record
      PROVE  Bounded(p) /\ \A q \in Procs : Ends(q) => Truthful(q)
  <2>1. Bounded(p) /\ (Ends(p) => Truthful(p))
    BY <1>1, CreateBounded, ReplaceBounded, DeleteBounded, AddRelationBounded,
       LookupBounded DEF Advance, Bounded
  <2>2. \A q \in Procs \ {p} : ~Ends(q)
    BY <1>1, OthersStay DEF Ends
  <2> QED
    BY <2>1, <2>2
<1>2. ASSUME NEW p \in Procs, NEW req \in Requests, Begin(p, req)
      PROVE  UNCHANGED tables /\ \A q \in Procs : ~Ends(q)
  BY <1>2 DEF Begin, Ends, tables, IInv, TypeOK
<1>3. CASE UNCHANGED vars
  BY <1>3 DEF vars, tables, Ends
<1> QED
  BY <1>1, <1>2, <1>3 DEF Next

\* A deleted item stays deleted, also under an update that read it before, and
\* its row is never written again.
THEOREM DeletionIsFinal == Spec => DeletedIsFinal
<1>1. ASSUME IInv, [Next]_vars
      PROVE  \A i \in Ids : Used(i) /\ ~Live(i) =>
               items'[i] = items[i] /\ i \notin LiveIds'
  <2> SUFFICES ASSUME NEW i \in Ids, Used(i), ~Live(i)
               PROVE  items'[i] = items[i] /\ (i \in deleted => i \in deleted')
    BY DEF LiveIds, Live, Stored
  <2>1. CASE UNCHANGED tables
    BY <2>1 DEF tables
  <2>2. ASSUME NEW p \in Procs, Bounded(p)
        PROVE  items'[i] = items[i] /\ (i \in deleted => i \in deleted')
    BY <2>2 DEF Bounded, OnlyRow, NewRelation, tables
  <2> QED
    BY <1>1, <2>1, <2>2, StepBounded
<1> QED
  BY <1>1, Invariance, PTL DEF Spec, DeletedIsFinal

\* Only requests of its owner write a row or draw a relation from it, although
\* the owner was compared in an earlier step.
THEOREM OnlyOwnersWrite == Spec => OwnerOnly
<1>1. ASSUME IInv, [Next]_vars
      PROVE  /\ \A i \in Ids : RowWritten(i) => \E p \in Procs : WritesFor(p, OwnerOf(i))
             /\ \A r \in relations' \ relations :
                  \E p \in Procs : WritesFor(p, OwnerOf(r.source))
  <2>1. CASE UNCHANGED tables
    BY <2>1 DEF tables, RowWritten
  <2>2. ASSUME NEW p \in Procs, Bounded(p), ~UNCHANGED tables
        PROVE  /\ \A i \in Ids : RowWritten(i) => WritesFor(p, OwnerOf(i))
               /\ \A r \in relations' \ relations : WritesFor(p, OwnerOf(r.source))
    <3>1. CASE \E i \in Ids : OnlyRow(i) /\ WritesFor(p, OwnerOf(i))
      BY <3>1 DEF OnlyRow, RowWritten
    <3>2. CASE NewRelation(p)
      BY <3>2 DEF NewRelation, RowWritten
    <3> QED
      BY <2>2, <3>1, <3>2 DEF Bounded
  <2> QED
    BY <1>1, <2>1, <2>2, StepBounded
<1> QED
  BY <1>1, Invariance, PTL DEF Spec, OwnerOnly

\* A success is answered only for an effect that is there, a client error only
\* for a request without effect.
THEOREM AnswersStayTruthful == Spec => AnswersAreTruthful
<1>1. ASSUME IInv, [Next]_vars
      PROVE  \A p \in Procs : pc[p] # "idle" /\ pc'[p] = "idle" =>
               /\ resp'[p] = Ok => Achieved(p)
               /\ resp'[p] \notin {Ok, ErrInternal} => UNCHANGED tables
  BY <1>1, StepBounded DEF Ends, Truthful
<1> QED
  BY <1>1, Invariance, PTL DEF Spec, AnswersAreTruthful
=============================================================================
