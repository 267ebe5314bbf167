---------------------------- MODULE ContentRules ----------------------------
(***************************************************************************)
(* The vocabulary of the content domain and its pure rules: what an item   *)
(* is, how a request body becomes an item, which items are valid, and who  *)
(* may see one.  No state is kept here.                                    *)
(*                                                                         *)
(* Texts stand for the titles and slugs clients type, Slugs for their      *)
(* normal forms.  Item bodies, summaries, status, metadata and timestamps  *)
(* are left out: no rule below reads them.                                 *)
(***************************************************************************)
CONSTANTS
  Users,       \* ids of authenticated users (users.id)
  Ids,         \* the ids newID hands out during one behaviour
  BadId,       \* any path or body id that is not a uuid
  Texts,       \* non-blank titles and slugs as clients type them
  Slugs,       \* normalized, non-blank slugs
  SlugOf,      \* the function that normalizeSlug computes on Texts
  RelTypes,    \* normalized, non-blank relation types
  NoItem       \* the absence of an item

Kinds        == {"track", "note", "paper", "experiment"}
Visibilities == {"private", "public", "unlisted"}

Blank == ""          \* the empty string, Go's zero value of a text field
Unset == "unset"     \* a field that the JSON body does not mention
White == "white"     \* white space that is not the empty string
Other == "other"     \* a kind or visibility outside the enumeration

\* A decoded request body, CreateItemInput or UpdateItemInput.
Input == [kind       : Kinds \cup {Other, Unset},
          title      : Texts \cup {Blank, Unset},
          slug       : Texts \cup {Blank, Unset},
          visibility : Visibilities \cup {Other, Unset}]

\* An item as the service assembles it, before validateItem has seen it.
Candidate == [owner      : Users,
              kind       : Kinds \cup {Other},
              title      : Texts \cup {Blank},
              slug       : Slugs \cup {Blank, White},
              visibility : Visibilities \cup {Other}]

Item == [owner : Users, kind : Kinds, title : Texts, slug : Slugs,
         visibility : Visibilities]

Relation == [source : Ids, target : Ids, type : RelTypes]

ASSUME RulesAssumption ==
  /\ BadId \notin Ids
  /\ Texts \cap {Blank, Unset} = {}
  /\ Slugs \cap {Blank, Unset, White} = {}
  /\ RelTypes \cap {Blank} = {}
  /\ SlugOf \in [Texts -> Slugs \cup {Blank, White}]
  /\ NoItem \notin Item

-----------------------------------------------------------------------------

\* A text whose separators are trimmed away altogether normalizes to Blank, or
\* to the white space that was between them.
normalizeSlug(text) == IF text = Blank THEN Blank ELSE SlugOf[text]

\* The value of a body field, or `default` when the body leaves it out.
Given(field, default) == IF field = Unset THEN default ELSE field

\* An explicit slug wins; without one the title is made into a slug.
SlugOrTitle(slug, title) == IF slug = Blank THEN normalizeSlug(title) ELSE slug

\* Fault: an item that names no visibility starts out public.
NewItemSharedByDefault(user, input) ==
  [owner      |-> user,
   kind       |-> Given(input.kind, Other),
   title      |-> Given(input.title, Blank),
   slug       |-> SlugOrTitle(normalizeSlug(Given(input.slug, Blank)),
                              Given(input.title, Blank)),
   visibility |-> Given(input.visibility, "public")]

\* The item Create assembles from a body; private unless the body says more.
NewItem(user, input) ==
  [owner      |-> user,
   kind       |-> Given(input.kind, Other),
   title      |-> Given(input.title, Blank),
   slug       |-> SlugOrTitle(normalizeSlug(Given(input.slug, Blank)),
                              Given(input.title, Blank)),
   visibility |-> Given(input.visibility, "private")]

\* The item Update writes back: the row as read, with the named fields changed.
\* Owner and kind cannot be named.
EditedItem(item, input) ==
  [item EXCEPT
     !.title      = Given(input.title, @),
     !.slug       = SlugOrTitle(IF input.slug = Unset THEN @
                                ELSE normalizeSlug(input.slug),
                                Given(input.title, item.title)),
     !.visibility = Given(input.visibility, @)]

\* Kind and visibility are in their enumerations, title and slug not blank.
validateItem(item) ==
  /\ item.kind \in Kinds
  /\ item.visibility \in Visibilities
  /\ item.title # Blank
  /\ item.slug \notin {Blank, White}

Shared(item) == item.visibility \in {"public", "unlisted"}

\* Fault: any reader sees any item.
canViewAnything(item, viewer) == TRUE

\* `viewer` is a user, or Blank for a reader without a token.
canView(item, viewer) == Shared(item) \/ (viewer # Blank /\ item.owner = viewer)

\* The columns of UNIQUE (owner_id, kind, slug).
SameKey(a, b) == a.owner = b.owner /\ a.kind = b.kind /\ a.slug = b.slug
=============================================================================
