---------------------------- MODULE ContentReads ----------------------------
(***************************************************************************)
(* The read handlers beside the write handlers.  A page of the API is put  *)
(* together from up to three store calls, and the tables may change        *)
(* between them; there is no transaction and no snapshot.                  *)
(*                                                                         *)
(* The ORDER BY of a list is left out: a limited page is any choice of as  *)
(* many matching items as the limit allows.                                *)
(***************************************************************************)
EXTENDS ContentService, FiniteSetsExt

CONSTANTS
  Readers,     \* goroutines that serve GET requests
  Queries,     \* the GET requests that clients may send
  NoQuery      \* the absence of a query

\* A routed GET request; handles are already resolved to the ids of users.
Query == [op     : {"get", "list", "feed", "graph", "backlinks", "profile", "portfolio"},
          viewer : Users \cup {Blank},         \* Blank without a token
          id     : Ids \cup {BadId},
          owner  : Users \cup {Blank},         \* ListFilter: Blank filters nothing
          kind   : Kinds \cup {Blank},
          limit  : Nat \ {0}]                  \* limitQuery's outcome

ASSUME ReadsAssumption ==
  /\ Queries \subseteq Query
  /\ NoQuery \notin Query
  /\ \A q \in Queries : q.op \in {"profile", "portfolio"} => q.owner \in Users
  /\ IsFiniteSet(Ids)

VARIABLES
  rpc,         \* the store call each reader is about to make
  query,       \* the query each reader serves, or NoQuery
  reply,       \* the response each reader has put together so far
  window       \* ghost: every entry that was live since the query began

readVars == <<rpc, query, reply, window>>
allVars == <<vars, readVars>>

ReadPoints == {"idle", "get", "target", "backlinks", "stats", "list", "edges", "reply"}

Entry == [id : Ids, item : Item]

Reply == [status : Answers \cup {None}, page : SUBSET Entry,
          edges : SUBSET Relation, stats : [Kinds -> Nat]]

NoStats == [k \in Kinds |-> 0]
NoReply == [status |-> None, page |-> {}, edges |-> {}, stats |-> NoStats]

EntryOf(i)  == [id |-> i, item |-> items[i]]
LiveEntries == {EntryOf(i) : i \in LiveIds}

ReadsInit ==
  /\ Init
  /\ rpc = [r \in Readers |-> "idle"]
  /\ query = [r \in Readers |-> NoQuery]
  /\ reply = [r \in Readers |-> NoReply]
  /\ window = [r \in Readers |-> {}]

-----------------------------------------------------------------------------

\* Fault: the visibility condition is missing from the WHERE clause.
MatchingUnfiltered(owner, kind) ==
  {e \in LiveEntries : /\ owner = Blank \/ e.item.owner = owner
                       /\ kind = Blank \/ e.item.kind = kind}

\* The items that ListPublic's filter leaves; Backlinks joins the same ones.
Matching(owner, kind) ==
  {e \in LiveEntries : /\ e.item.visibility = "public"
                       /\ owner = Blank \/ e.item.owner = owner
                       /\ kind = Blank \/ e.item.kind = kind}

\* The pages that a LIMIT can leave.
Pages(entries, limit) ==
  IF Cardinality(entries) <= limit THEN {entries} ELSE kSubset(limit, entries)

statsForItems(entries) ==
  [k \in Kinds |-> Cardinality({e \in entries : e.item.kind = k})]

\* Fault: every relation that touches a listed item.
EdgesTouching(ids) == {e \in relations : e.source \in ids \/ e.target \in ids}

\* The relations with both ends among the listed items.
EdgesWithin(ids) == {e \in relations : e.source \in ids /\ e.target \in ids}

\* Fault: the statistics of the profile are taken as they are.
StatsAsRead(stats, page) == stats

\* Portfolio counts its own page when the profile came without statistics.
StatsOrCount(stats, page) == IF stats = NoStats THEN statsForItems(page) ELSE stats

FirstCall(op) ==
  CASE op = "get" -> "get"
    [] op = "backlinks" -> "target"
    [] op \in {"profile", "portfolio"} -> "stats"
    [] op \in {"list", "feed", "graph"} -> "list"

ReadBegin(r, q) ==
  /\ rpc[r] = "idle"
  /\ rpc' = [rpc EXCEPT ![r] = FirstCall(q.op)]
  /\ query' = [query EXCEPT ![r] = q]
  /\ UNCHANGED reply

\* The reader goes on to `point` with what it has put together.
Carry(r, point, rep) ==
  /\ rpc' = [rpc EXCEPT ![r] = point]
  /\ reply' = [reply EXCEPT ![r] = rep]
  /\ UNCHANGED query

Fail(r, err) == Carry(r, "reply", [NoReply EXCEPT !.status = err])

\* One item, to the reader its visibility allows.
Get(r) ==
  /\ rpc[r] = "get"
  /\ LET found == FindVisible(query[r].id, query[r].viewer) IN
     \/ found # Ok /\ Fail(r, found)
     \/ /\ found = Ok
        /\ Carry(r, "reply", [NoReply EXCEPT !.status = Ok,
                                             !.page = {EntryOf(query[r].id)}])

\* Backlinks looks its target up as a reader without a token.
BacklinksTarget(r) ==
  /\ rpc[r] = "target"
  /\ LET found == FindVisible(query[r].id, Blank) IN
     \/ found # Ok /\ Fail(r, found)
     \/ found = Ok /\ Carry(r, "backlinks", NoReply)

Backlinks(r) ==
  /\ rpc[r] = "backlinks"
  /\ LET sources == Matching(Blank, Blank)
         links   == {e \in relations : /\ e.target = query[r].id
                                       /\ e.source \in {s.id : s \in sources}}
     IN  Carry(r, "reply",
               [NoReply EXCEPT
                  !.status = Ok,
                  !.page = {s \in sources : s.id \in {e.source : e \in links}},
                  !.edges = links])

\* Service.Stats lists without a limit.
Stats(r) ==
  /\ rpc[r] = "stats"
  /\ LET rep == [NoReply EXCEPT !.stats = statsForItems(Matching(query[r].owner, Blank))]
     IN  \/ /\ query[r].op = "profile"
            /\ Carry(r, "reply", [rep EXCEPT !.status = Ok])
         \/ /\ query[r].op = "portfolio"
            /\ Carry(r, "list", rep)

List(r) ==
  /\ rpc[r] = "list"
  /\ \E page \in Pages(Matching(query[r].owner, query[r].kind), query[r].limit) :
       \/ /\ query[r].op \in {"list", "feed"}
          /\ Carry(r, "reply", [reply[r] EXCEPT !.status = Ok, !.page = page])
       \/ /\ query[r].op \in {"graph", "portfolio"}
          /\ Carry(r, "edges", [reply[r] EXCEPT !.page = page])

\* GraphFromItems: the nodes are the page as it was listed.  Only a portfolio
\* fills its statistics in.
GraphFromItems(r) ==
  /\ rpc[r] = "edges"
  /\ LET page == reply[r].page IN
     Carry(r, "reply",
           [reply[r] EXCEPT
              !.status = Ok,
              !.edges  = EdgesWithin({e.id : e \in page}),
              !.stats  = IF query[r].op = "portfolio" THEN StatsOrCount(@, page)
                         ELSE @])

\* GraphFromItems makes no query for an empty page.
ReadFault(r) ==
  /\ Backend = "postgres"
  /\ rpc[r] \notin {"idle", "reply"}
  /\ ~(rpc[r] = "edges" /\ reply[r].page = {})
  /\ Fail(r, ErrInternal)

\* The response is written and the goroutine is done.
WriteReply(r) ==
  /\ rpc[r] = "reply"
  /\ rpc' = [rpc EXCEPT ![r] = "idle"]
  /\ query' = [query EXCEPT ![r] = NoQuery]
  /\ reply' = [reply EXCEPT ![r] = NoReply]

Read(r) ==
  \/ \E q \in Queries : ReadBegin(r, q)
  \/ Get(r)
  \/ BacklinksTarget(r)
  \/ Backlinks(r)
  \/ Stats(r)
  \/ List(r)
  \/ GraphFromItems(r)
  \/ ReadFault(r)
  \/ WriteReply(r)

\* Ghost: what is live after the step was live during every running query.
Watch == window' = [r \in Readers |-> IF rpc'[r] = "idle" THEN {}
                                      ELSE window[r] \cup LiveEntries']

ReadsNext ==
  \/ (\E r \in Readers : Read(r)) /\ UNCHANGED vars /\ Watch
  \/ Next /\ UNCHANGED <<rpc, query, reply>> /\ Watch

ReadsSpec == ReadsInit /\ [][ReadsNext]_allVars

-----------------------------------------------------------------------------
(* Correctness *)

ReadsTypeOK ==
  /\ rpc \in [Readers -> ReadPoints]
  /\ query \in [Readers -> Queries \cup {NoQuery}]
  /\ reply \in [Readers -> Reply]
  /\ window \in [Readers -> SUBSET Entry]

\* Whatever is shown was, at one instant of the query, live, with exactly that
\* content, and open to the viewer: only the reader of a single item sees more
\* than public items, and nobody sees what was hidden or deleted throughout.
ShownWasVisible ==
  \A r \in Readers :
    /\ reply[r].page \subseteq window[r]
    /\ \A e \in reply[r].page :
         IF query[r].op = "get" THEN canView(e.item, query[r].viewer)
         ELSE e.item.visibility = "public"

\* An edge of a graph joins two of its nodes, although the nodes were listed
\* before the edges; an edge of a backlink page leads from an item of the page
\* to one that was open to everybody at one instant of the query.
EdgesAreAnchored ==
  \A r \in Readers, edge \in Relation :
    rpc[r] = "reply" /\ edge \in reply[r].edges =>
      /\ \E e \in reply[r].page : e.id = edge.source
      /\ IF query[r].op = "backlinks"
         THEN \E e \in window[r] : e.id = edge.target /\ Shared(e.item)
         ELSE \E e \in reply[r].page : e.id = edge.target

\* No portfolio shows items under statistics that count none, although the
\* statistics were taken before the items were listed.
StatsMatchPage ==
  \A r \in Readers :
    rpc[r] = "reply" /\ query[r].op = "portfolio" /\ reply[r].page # {}
      => reply[r].stats # NoStats
=============================================================================
