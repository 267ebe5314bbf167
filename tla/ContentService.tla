--------------------------- MODULE ContentService ---------------------------
(***************************************************************************)
(* content.Service and its write handlers: POST, PATCH and DELETE of       *)
(* /api/v1/content and POST of .../relations.  Every handler goroutine is  *)
(* a process that serves one request after another; a step takes it from   *)
(* one store call to the next, so that whatever the service read before a  *)
(* call may be stale after it.                                             *)
(***************************************************************************)
EXTENDS ContentStore, Naturals, FiniteSets

CONSTANTS
  Procs,       \* handler goroutines
  Requests,    \* the authenticated requests that clients may send
  NoCall       \* the absence of a request

\* A decoded write request.  A field its operation does not read is arbitrary.
Request == [op     : {"create", "update", "delete", "relate"},
            actor  : Users,
            id     : Ids \cup {BadId},         \* {id} of the path
            input  : Input,                    \* the body of create and update
            target : Ids \cup {BadId},         \* the body of relate
            type   : RelTypes \cup {Blank}]

ASSUME ServiceAssumption ==
  /\ Requests \subseteq Request
  /\ NoCall \notin Request

VARIABLES
  pc,          \* the store call each process is about to make
  call,        \* the request each process serves, or NoCall
  draft,       \* the item Update is about to write back, or NoItem
  resp,        \* how each process answered its latest request
  asked,       \* ghost: <<id, wish>>, what the owners of items asked for
  hist         \* ghost: <<id, visibility>>, how each item was ever stored live

control == <<pc, call, draft, resp>>
vars == <<items, deleted, relations, pc, call, draft, resp, asked, hist>>

Points  == {"idle", "find", "target", "write"}
Answers == {Ok, ErrForbidden, ErrInvalidInput, ErrNotFound, ErrConflict, ErrInternal}
None    == "none"        \* the process has answered nothing yet
Gone    == "gone"        \* the wish to delete an item

\* An item was stored under the id once.  Never-used ids are what newID yields.
Used(i) == \E v \in Visibilities : <<i, v>> \in hist
Fresh   == {i \in Ids : ~Used(i)}

\* What the ghost notes of an owner's request: wishes to share or to delete.
Noted(i, wish) == {<<i, wish>>} \cap (Ids \X {"public", "unlisted", Gone})

Creating == {p \in Procs : pc[p] = "write" /\ call[p].op = "create"}

Init ==
  /\ items = [i \in Ids |-> NoItem]
  /\ deleted = {}
  /\ relations = {}
  /\ pc = [p \in Procs |-> "idle"]
  /\ call = [p \in Procs |-> NoCall]
  /\ draft = [p \in Procs |-> NoItem]
  /\ resp = [p \in Procs |-> None]
  /\ asked = {}
  /\ hist = {}

-----------------------------------------------------------------------------

\* The handler writes its answer and the goroutine is done.
Respond(p, answer) ==
  /\ pc' = [pc EXCEPT ![p] = "idle"]
  /\ call' = [call EXCEPT ![p] = NoCall]
  /\ draft' = [draft EXCEPT ![p] = NoItem]
  /\ resp' = [resp EXCEPT ![p] = answer]

Proceed(p, point) ==
  /\ pc' = [pc EXCEPT ![p] = point]
  /\ UNCHANGED <<call, resp>>

\* An authenticated request reaches its service method.  Ids bounds the items
\* of a behaviour: no more creates are under way than ids are left.
Begin(p, req) ==
  /\ pc[p] = "idle"
  /\ req.op = "create" => Cardinality(Creating) < Cardinality(Fresh)
  /\ pc' = [pc EXCEPT ![p] = IF req.op = "create" THEN "write" ELSE "find"]
  /\ call' = [call EXCEPT ![p] = req]
  /\ resp' = [resp EXCEPT ![p] = None]
  /\ UNCHANGED <<items, deleted, relations, draft, asked>>

\* Service.Create: no store call precedes the insert.
Create(p) ==
  /\ pc[p] = "write"
  /\ call[p].op = "create"
  /\ LET item == NewItem(call[p].actor, call[p].input) IN
     \/ /\ ~validateItem(item)
        /\ Respond(p, ErrInvalidInput)
        /\ UNCHANGED <<items, deleted, relations, asked>>
     \/ /\ validateItem(item)
        /\ \E i \in Fresh, err \in Answers :
             /\ StoreCreate(i, item, err)
             /\ \E answer \in Seen(err) : Respond(p, answer)
             /\ asked' = IF err = Ok THEN asked \cup Noted(i, call[p].input.visibility)
                         ELSE asked

Owns(p) == items[call[p].id].owner = call[p].actor

\* Fault: the row is not compared with the actor.
OwnsAnything(p) == TRUE

\* The row that FindByID returned belongs to the actor.
IsOwner(p) == Owns(p)

\* Ghost: what this request of an item's owner asks for.
Wish(p) == IF call[p].op = "delete" THEN Gone ELSE call[p].input.visibility
Wishes(p) == IF call[p].op \in {"update", "delete"} /\ Owns(p)
             THEN Noted(call[p].id, Wish(p)) ELSE {}

\* FindByID fails, or finds an item of somebody else.
Rejected(p) ==
  /\ pc[p] = "find"
  /\ \/ /\ FindByID(call[p].id) # Ok
        /\ Respond(p, FindByID(call[p].id))
     \/ /\ FindByID(call[p].id) = Ok
        /\ ~IsOwner(p)
        /\ Respond(p, ErrForbidden)
  /\ UNCHANGED <<items, deleted, relations, asked>>

\* Update reads the row, lays the body over it and validates the outcome.
FindForUpdate(p) ==
  /\ pc[p] = "find"
  /\ call[p].op = "update"
  /\ FindByID(call[p].id) = Ok
  /\ IsOwner(p)
  /\ LET item == EditedItem(items[call[p].id], call[p].input) IN
     \/ /\ ~validateItem(item)
        /\ Respond(p, ErrInvalidInput)
     \/ /\ validateItem(item)
        /\ draft' = [draft EXCEPT ![p] = item]
        /\ Proceed(p, "write")
  /\ asked' = asked \cup Wishes(p)
  /\ UNCHANGED <<items, deleted, relations>>

FindForDelete(p) ==
  /\ pc[p] = "find"
  /\ call[p].op = "delete"
  /\ FindByID(call[p].id) = Ok
  /\ IsOwner(p)
  /\ Proceed(p, "write")
  /\ asked' = asked \cup Wishes(p)
  /\ UNCHANGED <<items, deleted, relations, draft>>

FindForRelate(p) ==
  /\ pc[p] = "find"
  /\ call[p].op = "relate"
  /\ FindByID(call[p].id) = Ok
  /\ IsOwner(p)
  /\ Proceed(p, "target")
  /\ UNCHANGED <<items, deleted, relations, draft, asked>>

\* Fault: the target is looked up, but not asked whether the actor may see it.
FindVisibleUnchecked(i, viewer) == FindByID(i)

\* Service.FindVisible: an item one may not see is answered like none at all.
FindVisible(i, viewer) ==
  IF FindByID(i) = Ok /\ ~canView(items[i], viewer) THEN ErrNotFound ELSE FindByID(i)

\* AddRelation looks at its target, and only then at the relation type.
FindTarget(p) ==
  /\ pc[p] = "target"
  /\ LET found == FindVisible(call[p].target, call[p].actor) IN
     \/ /\ found # Ok
        /\ Respond(p, found)
     \/ /\ found = Ok
        /\ call[p].type = Blank
        /\ Respond(p, ErrInvalidInput)
     \/ /\ found = Ok
        /\ call[p].type # Blank
        /\ Proceed(p, "write")
        /\ UNCHANGED draft
  /\ UNCHANGED <<items, deleted, relations, asked>>

\* Fault: an update that meets a conflict starts over.
ReplaceRetrying(p) ==
  /\ pc[p] = "write"
  /\ call[p].op = "update"
  /\ \E err \in Answers :
       /\ StoreReplace(call[p].id, draft[p], err)
       /\ \/ /\ err = ErrConflict
             /\ Proceed(p, "find")
             /\ UNCHANGED draft
          \/ /\ err # ErrConflict
             /\ Respond(p, err)
  /\ UNCHANGED asked

Replace(p) ==
  /\ pc[p] = "write"
  /\ call[p].op = "update"
  /\ \E err \in Answers :
       /\ StoreReplace(call[p].id, draft[p], err)
       /\ \E answer \in Seen(err) : Respond(p, answer)
  /\ UNCHANGED asked

Delete(p) ==
  /\ pc[p] = "write"
  /\ call[p].op = "delete"
  /\ \E err \in Answers :
       /\ StoreDelete(call[p].id, err)
       /\ \E answer \in Seen(err) : Respond(p, answer)
  /\ UNCHANGED asked

AddRelation(p) ==
  /\ pc[p] = "write"
  /\ call[p].op = "relate"
  /\ \E err \in Answers :
       /\ StoreAddRelation([source |-> call[p].id, target |-> call[p].target,
                            type |-> call[p].type], err)
       /\ \E answer \in Seen(err) : Respond(p, answer)
  /\ UNCHANGED asked

\* A store call fails without effect: the request's deadline, a lost
\* connection, an exhausted pool.  MemoryStore never fails this way.
StoreFault(p) ==
  /\ pc[p] # "idle"
  /\ Backend = "postgres"
  /\ Respond(p, ErrInternal)
  /\ UNCHANGED <<items, deleted, relations, asked>>

-----------------------------------------------------------------------------

Advance(p) ==
  \/ Create(p)
  \/ Rejected(p)
  \/ FindForUpdate(p)
  \/ FindForDelete(p)
  \/ FindForRelate(p)
  \/ FindTarget(p)
  \/ Replace(p)
  \/ Delete(p)
  \/ AddRelation(p)
  \/ StoreFault(p)

LiveIds   == {i \in Ids : Live(i)}
LivePairs == {<<i, items[i].visibility>> : i \in LiveIds}

\* Ghost: every step notes how the items are stored that are live after it.
Record == hist' = hist \cup LivePairs'

Next ==
  \E p \in Procs :
    \/ Advance(p) /\ Record
    \/ (\E req \in Requests : Begin(p, req)) /\ Record

Spec == Init /\ [][Next]_vars

\* A goroutine that serves a request keeps running, and every store call
\* returns: at the latest when the timeout middleware's deadline ends it.
Fairness == \A p \in Procs : WF_vars(Advance(p) /\ Record)

FairSpec == Spec /\ Fairness

-----------------------------------------------------------------------------
(* Correctness *)

\* Every variable has its type.
TypeOK ==
  /\ items \in [Ids -> Item \cup {NoItem}]
  /\ deleted \subseteq Ids
  /\ relations \subseteq Relation
  /\ pc \in [Procs -> Points]
  /\ call \in [Procs -> Requests \cup {NoCall}]
  /\ draft \in [Procs -> Item \cup {NoItem}]
  /\ resp \in [Procs -> Answers \cup {None}]
  /\ asked \subseteq Ids \X {"public", "unlisted", Gone}
  /\ hist \subseteq Ids \X Visibilities

\* No two stored items of an owner share kind and slug, although Create and
\* Update race and neither looks before it writes.
UniqueKeys ==
  \A i, j \in Ids : i # j /\ Stored(i) /\ Stored(j) => ~SameKey(items[i], items[j])

\* An item is open to others only with a visibility that its owner named for it at
\* some time: no default and no other user's request opens it.  He may have
\* withdrawn that wish since: Update writes back the visibility it read, and can
\* so open again what another of his requests has hidden meanwhile.
NeverSharedUnasked ==
  \A i \in Ids : Live(i) /\ Shared(items[i]) => <<i, items[i].visibility>> \in asked

\* An item that was stored once is live until its owner asks to delete it.
NothingLostUnasked ==
  \A i \in Ids : Used(i) => Live(i) \/ <<i, Gone>> \in asked

\* A relation joins stored rows, and its target is an item that the source's
\* owner could see at some time: his own, or one that was shared.  It may be
\* private or deleted by now: AddRelation checks it before it writes.
LinksJustified ==
  \A r \in relations :
    /\ Stored(r.source)
    /\ Stored(r.target)
    /\ \/ items[r.target].owner = items[r.source].owner
       \/ \E v \in {"public", "unlisted"} : <<r.target, v>> \in hist

\* What the ghosts say of the tables.
Remembered ==
  /\ LivePairs \subseteq hist
  /\ \A i \in Ids : Stored(i) => Used(i)
  /\ \A i \in deleted : Stored(i)
  /\ Backend = "memory" => deleted = {}

\* Beyond "find" the request names an item that is, or was, its actor's own.
PastFind(p) == pc[p] = "target" \/ (pc[p] = "write" /\ call[p].op # "create")

OwnItem(p) ==
  /\ call[p].id \in Ids
  /\ Used(call[p].id)
  /\ Stored(call[p].id) => items[call[p].id].owner = call[p].actor

\* The target of a relation was once an item that the actor could see.
SeenTarget(p) ==
  /\ call[p].target \in Ids
  /\ Used(call[p].target)
  /\ Stored(call[p].target) =>
       \/ items[call[p].target].owner = call[p].actor
       \/ \E v \in {"public", "unlisted"} : <<call[p].target, v>> \in hist

\* What a process carries from one store call to the next is still right when
\* it arrives there, whatever the others did meanwhile.
Carried(p) ==
  /\ pc[p] = "idle" <=> call[p] = NoCall
  /\ pc[p] = "find" => call[p].op # "create"
  /\ pc[p] = "target" => call[p].op = "relate"
  /\ PastFind(p) => OwnItem(p)
  /\ pc[p] = "write" /\ call[p].op = "update" =>
       /\ draft[p] \in Item
       /\ draft[p].owner = call[p].actor
       /\ Stored(call[p].id) => draft[p].kind = items[call[p].id].kind
       /\ Shared(draft[p]) => <<call[p].id, draft[p].visibility>> \in asked
  /\ pc[p] = "write" /\ call[p].op = "delete" => <<call[p].id, Gone>> \in asked
  /\ pc[p] = "write" /\ call[p].op = "relate" => SeenTarget(p) /\ call[p].type # Blank

CarriedOver == \A p \in Procs : Carried(p)

\* The inductive invariant.
IInv ==
  /\ TypeOK
  /\ UniqueKeys
  /\ NeverSharedUnasked
  /\ NothingLostUnasked
  /\ LinksJustified
  /\ Remembered
  /\ CarriedOver

\* A deleted item stays deleted and its row is never written again, not even
\* by an update that read the row before the delete.
DeletedIsFinal ==
  [][\A i \in Ids : Used(i) /\ ~Live(i) => items'[i] = items[i] /\ i \notin LiveIds']_vars

RowWritten(i) == items'[i] # items[i] \/ (i \in deleted') # (i \in deleted)

OwnerOf(i) == IF Stored(i) THEN items[i].owner ELSE items'[i].owner

\* p ends a request of `user` with a store call that writes.
WritesFor(p, user) == pc[p] = "write" /\ pc'[p] = "idle" /\ call[p].actor = user

\* A row is written, and a relation drawn from it, only by a request of its
\* owner, although the owner was looked up in an earlier step.
OwnerOnly ==
  [][/\ \A i \in Ids : RowWritten(i) => \E p \in Procs : WritesFor(p, OwnerOf(i))
     /\ \A r \in relations' \ relations :
          \E p \in Procs : WritesFor(p, OwnerOf(r.source))]_vars

\* What p's request was to bring about holds once its last step is taken.
Achieved(p) ==
  LET req == call[p] IN
  /\ req.op = "create" => \E i \in Fresh : items'[i] = NewItem(req.actor, req.input)
  /\ req.op = "update" => req.id \in LiveIds' /\ items'[req.id] = draft[p]
  /\ req.op = "delete" => req.id \notin LiveIds'
  /\ req.op = "relate" => [source |-> req.id, target |-> req.target,
                           type |-> req.type] \in relations'

\* A success is answered only for an effect that is there, whatever happened to
\* the row since it was read; a client error only for a request without effect.
\* An internal error promises neither.
AnswersAreTruthful ==
  [][\A p \in Procs : pc[p] # "idle" /\ pc'[p] = "idle" =>
       /\ resp'[p] = Ok => Achieved(p)
       /\ resp'[p] \notin {Ok, ErrInternal} => UNCHANGED tables]_vars

\* The service implements the ledger: whatever the interleaving and the store,
\* clients see live items and the links between them change atomically.
Ledger == INSTANCE ContentLedger WITH
  garden <- [i \in Ids |-> IF Live(i) THEN items[i] ELSE NoItem],
  links  <- {r \in relations : Live(r.source) /\ Live(r.target)},
  past   <- {i \in Ids : Used(i)}

ImplementsLedger == Ledger!LedgerSpec

\* Every request is answered: no step waits for another request.
Answered == \A p \in Procs : pc[p] # "idle" ~> pc[p] = "idle"
=============================================================================
