---------------------------- MODULE ContentStore ----------------------------
(***************************************************************************)
(* The two implementations of content.Store: the Postgres tables the       *)
(* server runs on, and the mutex-guarded maps of MemoryStore.  Each store  *)
(* call is one atomic step: a single SQL statement, or one critical        *)
(* section.  An operator is an action on the tables that also says, in its *)
(* last parameter, which error the call reports.                           *)
(***************************************************************************)
EXTENDS ContentRules

CONSTANT Backend     \* the store the service was built with

ASSUME BackendAssumption == Backend \in {"postgres", "memory"}

VARIABLES
  items,       \* content_items: the item stored under each id, or NoItem
  deleted,     \* the ids whose deleted_at is set (Postgres only)
  relations    \* content_relations

tables == <<items, deleted, relations>>

Ok              == "ok"
ErrForbidden    == "forbidden"
ErrInvalidInput == "invalid"
ErrNotFound     == "not_found"
ErrConflict     == "conflict"
ErrInternal     == "internal"     \* any error contentAppError has no case for

Stored(i) == items[i] # NoItem
Live(i)   == i \in Ids /\ Stored(i) /\ i \notin deleted

-----------------------------------------------------------------------------
(* PostgresContentStore *)

\* A uuid cast that fails is neither "no rows" nor a constraint violation.
PgFindByID(i) ==
  CASE i = BadId                -> ErrInternal
    [] i # BadId /\ Live(i)     -> Ok
    [] i # BadId /\ ~Live(i)    -> ErrNotFound

\* The unique index covers soft-deleted rows too.
PgTaken(i, item) == \E j \in Ids \ {i} : Stored(j) /\ SameKey(items[j], item)

\* Fault: the unique constraint is missing.
PgCreateUnchecked(i, item, err) ==
  /\ err = Ok
  /\ items' = [items EXCEPT ![i] = item]
  /\ UNCHANGED <<deleted, relations>>

PgCreate(i, item, err) ==
  \/ /\ PgTaken(i, item)
     /\ err = ErrConflict
     /\ UNCHANGED tables
  \/ /\ ~PgTaken(i, item)
     /\ err = Ok
     /\ items' = [items EXCEPT ![i] = item]
     /\ UNCHANGED <<deleted, relations>>

\* The row the UPDATE leaves: its SET list names neither owner_id nor kind.
PgUpdatedRow(i, item) ==
  [item EXCEPT !.owner = items[i].owner, !.kind = items[i].kind]

\* Fault: the UPDATE lost its "deleted_at IS NULL".
PgReplaceDeleted(i, item, err) ==
  LET row == PgUpdatedRow(i, item) IN
  \/ /\ PgTaken(i, row)
     /\ err = ErrConflict
     /\ UNCHANGED tables
  \/ /\ ~PgTaken(i, row)
     /\ err = Ok
     /\ items' = [items EXCEPT ![i] = row]
     /\ UNCHANGED <<deleted, relations>>

\* Fault: an UPDATE that matches no row is taken for a success.
PgReplaceUnnoticed(i, item, err) ==
  LET row == PgUpdatedRow(i, item) IN
  \/ /\ Live(i)
     /\ PgTaken(i, row)
     /\ err = ErrConflict
     /\ UNCHANGED tables
  \/ /\ ~PgTaken(i, row)
     /\ err = Ok
     /\ items' = [items EXCEPT ![i] = IF Live(i) THEN row ELSE @]
     /\ UNCHANGED <<deleted, relations>>

PgReplace(i, item, err) ==
  LET row == PgUpdatedRow(i, item) IN
  \/ /\ ~Live(i)
     /\ err = ErrNotFound
     /\ UNCHANGED tables
  \/ /\ Live(i)
     /\ PgTaken(i, row)
     /\ err = ErrConflict
     /\ UNCHANGED tables
  \/ /\ Live(i)
     /\ ~PgTaken(i, row)
     /\ err = Ok
     /\ items' = [items EXCEPT ![i] = row]
     /\ UNCHANGED <<deleted, relations>>

\* A soft delete: the row and every relation that touches it stay.
PgDelete(i, err) ==
  \/ /\ ~Live(i)
     /\ err = ErrNotFound
     /\ UNCHANGED tables
  \/ /\ Live(i)
     /\ err = Ok
     /\ deleted' = deleted \cup {i}
     /\ UNCHANGED <<items, relations>>

\* The foreign keys ask for rows, deleted or not; a repeated insert only
\* refreshes created_at.
PgAddRelation(r, err) ==
  \/ /\ ~(Stored(r.source) /\ Stored(r.target))
     /\ err = ErrNotFound
     /\ UNCHANGED tables
  \/ /\ Stored(r.source) /\ Stored(r.target)
     /\ err = Ok
     /\ relations' = relations \cup {r}
     /\ UNCHANGED <<items, deleted>>

-----------------------------------------------------------------------------
(* MemoryStore *)

MemFindByID(i) == IF i \in Ids /\ Stored(i) THEN Ok ELSE ErrNotFound

\* The scan of the map for another item under the same key.
MemTaken(i, item) == \E j \in Ids \ {i} : Stored(j) /\ SameKey(items[j], item)

\* The id is new, so "another item" is any item.
MemCreate(i, item, err) ==
  \/ /\ MemTaken(i, item)
     /\ err = ErrConflict
     /\ UNCHANGED tables
  \/ /\ ~MemTaken(i, item)
     /\ err = Ok
     /\ items' = [items EXCEPT ![i] = item]
     /\ UNCHANGED <<deleted, relations>>

\* Fault: the map is written without looking whether the id is still there.
MemReplaceUpsert(i, item, err) ==
  \/ /\ MemTaken(i, item)
     /\ err = ErrConflict
     /\ UNCHANGED tables
  \/ /\ ~MemTaken(i, item)
     /\ err = Ok
     /\ items' = [items EXCEPT ![i] = item]
     /\ UNCHANGED <<deleted, relations>>

MemReplace(i, item, err) ==
  \/ /\ ~Stored(i)
     /\ err = ErrNotFound
     /\ UNCHANGED tables
  \/ /\ Stored(i)
     /\ MemTaken(i, item)
     /\ err = ErrConflict
     /\ UNCHANGED tables
  \/ /\ Stored(i)
     /\ ~MemTaken(i, item)
     /\ err = Ok
     /\ items' = [items EXCEPT ![i] = item]
     /\ UNCHANGED <<deleted, relations>>

\* A hard delete that takes the item's relations with it.
MemDelete(i, err) ==
  \/ /\ ~Stored(i)
     /\ err = ErrNotFound
     /\ UNCHANGED tables
  \/ /\ Stored(i)
     /\ err = Ok
     /\ items' = [items EXCEPT ![i] = NoItem]
     /\ relations' = {r \in relations : i \notin {r.source, r.target}}
     /\ UNCHANGED deleted

MemAddRelation(r, err) ==
  \/ /\ ~(Stored(r.source) /\ Stored(r.target))
     /\ err = ErrNotFound
     /\ UNCHANGED tables
  \/ /\ Stored(r.source) /\ Stored(r.target)
     /\ err = Ok
     /\ relations' = relations \cup {r}
     /\ UNCHANGED <<items, deleted>>

-----------------------------------------------------------------------------
(* The content.Store interface, as the service calls it. *)

\* What a handler learns of a call that ended with `err`.  A request context
\* can pass its deadline, or the connection can break, after Postgres has
\* committed; MemoryStore ignores its context.
Seen(err) == IF Backend = "postgres" THEN {err, ErrInternal} ELSE {err}

FindByID(i) == IF Backend = "postgres" THEN PgFindByID(i) ELSE MemFindByID(i)

StoreCreate(i, item, err) ==
  IF Backend = "postgres" THEN PgCreate(i, item, err) ELSE MemCreate(i, item, err)

StoreReplace(i, item, err) ==
  IF Backend = "postgres" THEN PgReplace(i, item, err) ELSE MemReplace(i, item, err)

StoreDelete(i, err) ==
  IF Backend = "postgres" THEN PgDelete(i, err) ELSE MemDelete(i, err)

StoreAddRelation(r, err) ==
  IF Backend = "postgres" THEN PgAddRelation(r, err) ELSE MemAddRelation(r, err)
=============================================================================
