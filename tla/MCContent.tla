----------------------------- MODULE MCContent -----------------------------
(***************************************************************************)
(* Small instances of ContentService for TLC: two users, and requests that *)
(* meet on the same items.                                                 *)
(***************************************************************************)
EXTENDS ContentService, TLC

CONSTANTS ann, bob, i1, i2, p1, p2

\* Two spellings of one slug, another slug, and two texts of separators only.
MCTexts  == {"Go Notes", "go_notes", "Rust", "--", "-\t-"}
MCSlugs  == {"go-notes", "rust"}
MCSlugOf == [t \in MCTexts |-> CASE t \in {"Go Notes", "go_notes"} -> "go-notes"
                                 [] t = "Rust" -> "rust"
                                 [] t = "--" -> Blank
                                 [] t = "-\t-" -> White]

Symmetry == Permutations({p1, p2})

\* No guard reads resp, so states that differ in it alone behave alike; TLC
\* still checks every step's answer.
ViewWithoutAnswers ==
  <<items, deleted, relations, pc, call, draft, asked, hist>>

\* A body that names nothing.
NoFields == [kind |-> Unset, title |-> Unset, slug |-> Unset, visibility |-> Unset]

Base(op, actor, id) ==
  [op |-> op, actor |-> actor, id |-> id, input |-> NoFields, target |-> BadId,
   type |-> Blank]

CreateReq(actor, title, slug, visibility) ==
  [Base("create", actor, BadId) EXCEPT
     !.input = [kind |-> "note", title |-> title, slug |-> slug,
                visibility |-> visibility]]

UpdateReq(actor, id, title, slug, visibility) ==
  [Base("update", actor, id) EXCEPT
     !.input = [NoFields EXCEPT !.title = title, !.slug = slug,
                                !.visibility = visibility]]

DeleteReq(actor, id) == Base("delete", actor, id)

RelateReq(actor, id, target, type) ==
  [Base("relate", actor, id) EXCEPT !.target = target, !.type = type]

-----------------------------------------------------------------------------
\* Items are created, edited and deleted; keys collide, bodies are invalid.
EditRequests ==
  {CreateReq(ann, "Go Notes", Unset, Unset), CreateReq(ann, "Rust", "go_notes", "public"),
   CreateReq(ann, "--", Unset, "public"), CreateReq(bob, "Rust", Unset, "unlisted"),
   CreateReq(ann, "Rust", "-\t-", Unset)}
  \cup UNION {{UpdateReq(ann, i, "Rust", Blank, Unset),
               UpdateReq(ann, i, Unset, Unset, "private"),
               UpdateReq(ann, i, Unset, "--", "public"),
               UpdateReq(bob, i, Unset, Unset, "public"),
               DeleteReq(ann, i)} : i \in {i1, i2}}
  \cup {UpdateReq(ann, i1, Unset, Unset, Other), UpdateReq(ann, BadId, Unset, Unset, "public"),
        DeleteReq(bob, i1)}

\* Items of two users are related while they are hidden or deleted.
LinkRequests ==
  {CreateReq(ann, "Rust", Unset, "public"), CreateReq(bob, "Rust", Unset, Unset)}
  \cup UNION {{UpdateReq(ann, i, Unset, Unset, "private"),
               UpdateReq(bob, i, Unset, Unset, "unlisted"),
               DeleteReq(ann, i)} : i \in {i1, i2}}
  \cup {UpdateReq(ann, i1, Unset, Unset, "public"),
        RelateReq(ann, i1, i2, "cites"), RelateReq(ann, i2, i1, "cites"),
        RelateReq(bob, i1, i2, "cites"), RelateReq(ann, i1, i2, Blank),
        RelateReq(ann, i1, BadId, "cites"), DeleteReq(bob, i2)}

\* One user's requests for two items under one key.
RetryRequests ==
  {CreateReq(ann, "Rust", Unset, Unset), CreateReq(ann, "Go Notes", Unset, Unset),
   DeleteReq(ann, i2), RelateReq(ann, i1, i2, "cites")}
  \cup {UpdateReq(ann, i, "Rust", Blank, Unset) : i \in {i1, i2}}
=============================================================================
