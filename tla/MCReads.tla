----------------------------- MODULE MCReads -----------------------------
(***************************************************************************)
(* Small instances of ContentReads for TLC: one writer and one reader, and *)
(* items that are published, hidden and related while a page is built.     *)
(***************************************************************************)
EXTENDS ContentReads, TLC

CONSTANTS ann, bob, i1, i2, p1, r1

MCTexts  == {"Go Notes", "Rust"}
MCSlugs  == {"go-notes", "rust"}
MCSlugOf == [t \in MCTexts |-> IF t = "Rust" THEN "rust" ELSE "go-notes"]

NoFields == [kind |-> Unset, title |-> Unset, slug |-> Unset, visibility |-> Unset]

Base(op, actor, id) ==
  [op |-> op, actor |-> actor, id |-> id, input |-> NoFields, target |-> BadId,
   type |-> Blank]

CreateReq(actor, kind, title, visibility) ==
  [Base("create", actor, BadId) EXCEPT
     !.input = [kind |-> kind, title |-> title, slug |-> Unset,
                visibility |-> visibility]]

ShareReq(actor, id, visibility) ==
  [Base("update", actor, id) EXCEPT !.input.visibility = visibility]

RelateReq(actor, id, target) ==
  [Base("relate", actor, id) EXCEPT !.target = target, !.type = "cites"]

WriteRequests ==
  {CreateReq(ann, "note", "Rust", "public"), CreateReq(ann, "track", "Rust", Unset),
   CreateReq(bob, "note", "Go Notes", "unlisted")}
  \cup {ShareReq(ann, i1, "private"), ShareReq(ann, i1, "public"),
        ShareReq(ann, i2, "public"), Base("delete", ann, i1),
        RelateReq(ann, i1, i2), RelateReq(ann, i2, i1)}

\* Answers of writes are not read by anyone; readers' replies are.
ViewWithoutAnswers ==
  <<items, deleted, relations, pc, call, draft, asked, hist, rpc, query, reply, window>>

-----------------------------------------------------------------------------
Ask(op, viewer, id, owner, kind, limit) ==
  [op |-> op, viewer |-> viewer, id |-> id, owner |-> owner, kind |-> kind,
   limit |-> limit]

ReadQueries ==
  {Ask("get", ann, i1, Blank, Blank, 1), Ask("get", Blank, i1, Blank, Blank, 1),
   Ask("get", ann, BadId, Blank, Blank, 1), Ask("backlinks", Blank, i1, Blank, Blank, 1),
   Ask("list", Blank, BadId, Blank, "note", 1), Ask("feed", Blank, BadId, Blank, Blank, 1),
   Ask("graph", Blank, BadId, Blank, Blank, 1), Ask("graph", Blank, BadId, Blank, Blank, 2),
   Ask("profile", Blank, BadId, ann, Blank, 1),
   Ask("portfolio", Blank, BadId, ann, Blank, 2)}
=============================================================================
