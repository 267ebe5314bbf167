---------------------------- MODULE ContentLedger ----------------------------
(***************************************************************************)
(* What the content service promises its clients, whichever store it runs  *)
(* on and however its requests interleave: a garden of live items and the  *)
(* links between them, changed by four atomic operations.                  *)
(***************************************************************************)
EXTENDS ContentRules

VARIABLES
  garden,      \* the live item under each id, or NoItem
  links,       \* the relations between live items
  past         \* every id an item was ever planted under

ledger == <<garden, links, past>>

Growing(i) == garden[i] # NoItem

\* No other live item of the same owner and kind goes by the item's slug.
KeyIsFree(i, item) == \A j \in Ids \ {i} : Growing(j) => ~SameKey(garden[j], item)

LedgerInit ==
  /\ garden = [i \in Ids |-> NoItem]
  /\ links = {}
  /\ past = {}

\* An id names at most one item, for ever.
Plant(i, item) ==
  /\ i \notin past
  /\ KeyIsFree(i, item)
  /\ garden' = [garden EXCEPT ![i] = item]
  /\ past' = past \cup {i}
  /\ UNCHANGED links

\* Neither the owner nor the kind of an item ever changes.
Tend(i, title, slug, visibility) ==
  LET item == [garden[i] EXCEPT !.title = title, !.slug = slug,
                                !.visibility = visibility] IN
  /\ KeyIsFree(i, item)
  /\ garden' = [garden EXCEPT ![i] = item]
  /\ UNCHANGED <<links, past>>

\* An item takes every link that touches it along.
Uproot(i) ==
  /\ garden' = [garden EXCEPT ![i] = NoItem]
  /\ links' = {r \in links : i \notin {r.source, r.target}}
  /\ UNCHANGED past

Link(r) ==
  /\ Growing(r.source)
  /\ Growing(r.target)
  /\ links' = links \cup {r}
  /\ UNCHANGED <<garden, past>>

LedgerNext ==
  \/ \E i \in Ids \ past : \E item \in Item : Plant(i, item)
  \/ \E i \in Ids : /\ Growing(i)
                    /\ \/ \E title \in Texts, slug \in Slugs, visibility \in Visibilities :
                            Tend(i, title, slug, visibility)
                       \/ Uproot(i)
  \/ \E r \in Relation : Link(r)

LedgerSpec == LedgerInit /\ [][LedgerNext]_ledger
=============================================================================
