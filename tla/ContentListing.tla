--------------------------- MODULE ContentListing ---------------------------
(***************************************************************************)
(* Times and lists.  content.Service stamps an item with its own clock     *)
(* before the statement that stores it; lists come sorted by that stamp    *)
(* and cut at a limit.  Writers race, their requests end at a deadline,    *)
(* and a statement that was given up may still be executed later.          *)
(*                                                                         *)
(* Rows are public items of one owner, told apart by their ids.  Deletes,  *)
(* which only shorten lists, are left out, and so are conflicts.           *)
(***************************************************************************)
EXTENDS Integers, FiniteSets, SequencesExt

CONSTANTS
  Procs,         \* handler goroutines
  Ids,           \* the ids that newID hands out
  TitleRank,     \* where the title of each item stands in the alphabet
  Timeout,       \* the request deadline of requestTimeoutMiddleware
  RawLimits,     \* what clients put into ?limit=: integers or Malformed
  Malformed,     \* no limit, or one that strconv.Atoi rejects
  DefaultLimit, MaxLimit,      \* defaultListLimit and maxListLimit
  FeedDefault, FeedMax,        \* the limits that CommunityFeed checks itself
  RecentLimit,   \* how many items a portfolio calls recent
  MaxTime,       \* bound on the clock
  MaxOrphans,    \* bound on the statements that were given up
  Nothing        \* no row, no statement

ASSUME ListingAssumption ==
  /\ IsFiniteSet(Ids)
  /\ TitleRank \in [Ids -> Nat]
  /\ Malformed \notin Int
  /\ RawLimits \subseteq Int \cup {Malformed}
  /\ {Timeout, MaxTime, MaxOrphans} \subseteq Nat
  /\ {DefaultLimit, MaxLimit, FeedDefault, FeedMax, RecentLimit} \subseteq Nat \ {0}
  /\ DefaultLimit <= MaxLimit
  /\ MaxLimit <= FeedMax

\* An INSERT or UPDATE with the stamp it carries.
Statement == [id : Ids, updated : Nat]
ASSUME StatementAssumption == Nothing \notin Nat \cup Statement

VARIABLES
  rows,        \* content_items: updated_at of the row under each id, or Nothing
  clock,       \* the time that Service.now() reads
  pc,          \* what each process is about to do
  item,        \* the id each process writes, or Nothing
  draft,       \* the statement each process is about to send, or Nothing
  since,       \* when each process began its request
  orphans,     \* statements whose handlers gave them up
  committed,   \* ghost: when each row was last written
  prompt       \* ghost: the ids whose last write came before its deadline

listVars == <<rows, clock, pc, item, draft, since, orphans, committed, prompt>>

Listed == {i \in Ids : rows[i] # Nothing}

ListingInit ==
  /\ rows = [i \in Ids |-> Nothing]
  /\ clock = 0
  /\ pc = [p \in Procs |-> "idle"]
  /\ item = [p \in Procs |-> Nothing]
  /\ draft = [p \in Procs |-> Nothing]
  /\ since = [p \in Procs |-> 0]
  /\ orphans = {}
  /\ committed = [i \in Ids |-> 0]
  /\ prompt = {}

-----------------------------------------------------------------------------
(* Writes *)

\* A new item has an id that nothing else uses.
Begin(p) ==
  /\ pc[p] = "idle"
  /\ \E i \in Ids :
       /\ \/ i \in Listed
          \/ /\ \A q \in Procs : item[q] # i
             /\ \A st \in orphans : st.id # i
       /\ item' = [item EXCEPT ![p] = i]
  /\ pc' = [pc EXCEPT ![p] = "prepare"]
  /\ since' = [since EXCEPT ![p] = clock]
  /\ UNCHANGED <<rows, clock, draft, orphans, committed, prompt>>

\* Fault: the update goes out with the stamp it read.
PrepareWithoutStamp(p) ==
  /\ pc[p] = "prepare"
  /\ pc' = [pc EXCEPT ![p] = "write"]
  /\ LET i == item[p] IN
     draft' = [draft EXCEPT ![p] = [id |-> i,
                                    updated |-> IF i \in Listed THEN rows[i] ELSE clock]]
  /\ UNCHANGED <<rows, clock, item, since, orphans, committed, prompt>>

\* Create, or Update once it has read the row, stamps the item.
Prepare(p) ==
  /\ pc[p] = "prepare"
  /\ pc' = [pc EXCEPT ![p] = "write"]
  /\ draft' = [draft EXCEPT ![p] = [id |-> item[p], updated |-> clock]]
  /\ UNCHANGED <<rows, clock, item, since, orphans, committed, prompt>>

Execute(st) ==
  /\ rows' = [rows EXCEPT ![st.id] = st.updated]
  /\ committed' = [committed EXCEPT ![st.id] = clock]

Respond(p) ==
  /\ pc' = [pc EXCEPT ![p] = "idle"]
  /\ item' = [item EXCEPT ![p] = Nothing]
  /\ draft' = [draft EXCEPT ![p] = Nothing]
  /\ since' = [since EXCEPT ![p] = 0]

Write(p) ==
  /\ pc[p] = "write"
  /\ Execute(draft[p])
  /\ prompt' = prompt \cup {draft[p].id}
  /\ Respond(p)
  /\ UNCHANGED <<clock, orphans>>

\* The call fails, at the latest at the deadline.  Postgres may have the
\* statement all the same.
GiveUp(p) ==
  /\ pc[p] # "idle"
  /\ \/ UNCHANGED orphans
     \/ /\ pc[p] = "write"
        /\ Cardinality(orphans) < MaxOrphans
        /\ orphans' = orphans \cup {draft[p]}
  /\ Respond(p)
  /\ UNCHANGED <<rows, clock, committed, prompt>>

\* Postgres executes a statement nobody waits for, or drops it.
Orphaned(st) ==
  /\ orphans' = orphans \ {st}
  /\ \/ UNCHANGED <<rows, committed, prompt>>
     \/ /\ Execute(st)
        /\ prompt' = prompt \ {st.id}
  /\ UNCHANGED <<clock, pc, item, draft, since>>

\* Time passes only as far as every running request's deadline.
Tick ==
  /\ clock < MaxTime
  /\ \A p \in Procs : pc[p] # "idle" => clock < since[p] + Timeout
  /\ clock' = clock + 1
  /\ UNCHANGED <<rows, pc, item, draft, since, orphans, committed, prompt>>

ListingNext ==
  \/ \E p \in Procs : Begin(p) \/ Prepare(p) \/ Write(p) \/ GiveUp(p)
  \/ \E st \in orphans : Orphaned(st)
  \/ Tick

ListingSpec == ListingInit /\ [][ListingNext]_listVars

-----------------------------------------------------------------------------
(* Lists *)

\* Fault: the cap of the listing is forgotten.
limitQueryUncapped(raw) ==
  IF raw = Malformed \/ raw <= 0 THEN DefaultLimit ELSE raw

limitQuery(raw) ==
  CASE raw = Malformed -> DefaultLimit
    [] raw # Malformed /\ raw <= 0 -> DefaultLimit
    [] raw # Malformed /\ raw > MaxLimit -> MaxLimit
    [] OTHER -> raw

\* CommunityFeed checks the limit once more.
feedLimit(limit) == IF limit <= 0 \/ limit > FeedMax THEN FeedDefault ELSE limit

Newer(i, j) == rows[i] > rows[j]

\* ORDER BY updated_at DESC, title ASC, and sortItems.
Ahead(i, j) == Newer(i, j) \/ (rows[i] = rows[j] /\ TitleRank[i] < TitleRank[j])

\* The orders of `ids` in which nobody stands behind one he is ahead of.
Sorted(ids, ahead(_, _)) ==
  {s \in SetToSeqs(ids) : \A a, b \in DOMAIN s : ahead(s[a], s[b]) => a < b}

Cut(s, limit) == SubSeq(s, 1, IF Len(s) > limit THEN limit ELSE Len(s))

\* Ties may come in any order.
List(limit) == {Cut(s, limit) : s \in Sorted(Listed, Ahead)}

Place(page, i) == CHOOSE a \in DOMAIN page : page[a] = i

\* Fault: sort.Slice, which keeps no order among equals.
feedRowsUnstable(page, limit) == {Cut(s, limit) : s \in Sorted(Range(page), Newer)}

\* feedRowsForItems sorts the page again, stably and by updated_at alone.
feedRowsForItems(page, limit) ==
  LET ahead(i, j) == \/ Newer(i, j)
                     \/ rows[i] = rows[j] /\ Place(page, i) < Place(page, j)
  IN  {Cut(s, limit) : s \in Sorted(Range(page), ahead)}

\* What the routes may answer to ?limit=raw.
listContent(raw) == List(limitQuery(raw))

communityFeed(raw) ==
  LET limit == feedLimit(limitQuery(raw))
  IN  UNION {feedRowsForItems(page, limit) : page \in List(limit)}

recent(page) == feedRowsForItems(page, RecentLimit)

-----------------------------------------------------------------------------
(* Correctness *)

ListingTypeOK ==
  /\ rows \in [Ids -> 0 .. clock \cup {Nothing}]
  /\ clock \in 0 .. MaxTime
  /\ pc \in [Procs -> {"idle", "prepare", "write"}]
  /\ item \in [Procs -> Ids \cup {Nothing}]
  /\ draft \in [Procs -> Statement \cup {Nothing}]
  /\ since \in [Procs -> 0 .. clock]
  /\ orphans \subseteq Statement
  /\ committed \in [Ids -> 0 .. clock]
  /\ prompt \subseteq Listed

\* README: "Recent public content feed".  Stamps are taken before the writes,
\* so that racing updates may leave the older one; but an item that was
\* written in time, more than a deadline after another, stands before it, and
\* no limit cuts it off while the other is shown.
NewerFirst ==
  \A raw \in RawLimits : \A page \in listContent(raw) :
    \A i \in prompt, j \in Listed :
      j \in Range(page) /\ committed[i] > committed[j] + Timeout =>
        i \in Range(page) /\ Place(page, i) < Place(page, j)

\* The feed and the recent items of a portfolio, which sort once more by
\* another key, show what the list shows and in its order.
FeedFollowsList ==
  \A raw \in RawLimits :
    /\ communityFeed(raw) = listContent(raw)
    /\ \A page \in listContent(raw) : recent(page) = {Cut(page, RecentLimit)}

\* Whatever a client asks for, a feed is bounded, is not empty while there are
\* items, and does not shrink when he asks for more, although two layers
\* correct the limit.
MoreIsNeverLess ==
  LET lengths == [raw \in RawLimits |-> {Len(page) : page \in communityFeed(raw)}] IN
  /\ \A raw \in RawLimits, n \in 0 .. Cardinality(Ids) :
       n \in lengths[raw] => n <= MaxLimit /\ (Listed # {} => n > 0)
  /\ \A raw, more \in RawLimits \ {Malformed} :
       0 < raw /\ raw <= more => \A m \in lengths[raw], n \in lengths[more] : m <= n
=============================================================================
