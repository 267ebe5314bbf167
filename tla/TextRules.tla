----------------------------- MODULE TextRules -----------------------------
(***************************************************************************)
(* normalizeSlug and normalizeRelationType, character by character, on     *)
(* every text up to a length.  ContentRules takes what they compute as     *)
(* given; here it is checked against what the rest of the service needs.   *)
(*                                                                         *)
(* A character stands for its class: a lower or upper case letter, digits  *)
(* included, one of the separators that become hyphens, a space, or any    *)
(* other white space.                                                      *)
(***************************************************************************)
EXTENDS Naturals, SequencesExt

CONSTANT MaxLength     \* bound on the length of a text

ASSUME TextAssumption == MaxLength \in Nat

VARIABLE text          \* what a client has typed so far

Letters    == {"a", "A"}
White      == {" ", "\t"}
Separators == {" ", "_", "/", "-"}       \* "/" stands for the backslash too
Chars      == Letters \cup White \cup Separators

TextInit == text = <<>>

Type(c) == Len(text) < MaxLength /\ text' = Append(text, c)

Rest == Len(text) = MaxLength /\ UNCHANGED text

TextNext == (\E c \in Chars : Type(c)) \/ Rest

TextSpec == TextInit /\ [][TextNext]_text

-----------------------------------------------------------------------------

Each(f, s) == [n \in DOMAIN s |-> f[s[n]]]

\* strings.Trim: what lies between the first and the last character to keep.
Trim(s, cut) ==
  LET kept == {n \in DOMAIN s : s[n] \notin cut}
  IN  IF kept = {} THEN <<>>
      ELSE SubSeq(s, CHOOSE n \in kept : \A m \in kept : n <= m,
                     CHOOSE n \in kept : \A m \in kept : m <= n)

TrimSpace(s) == Trim(s, White)

ToLower(s) == Each([c \in Chars |-> IF c = "A" THEN "a" ELSE c], s)

Hyphenated(s) == Each([c \in Chars |-> IF c \in Separators THEN "-" ELSE c], s)

\* Fault: the text is trimmed before it is hyphenated, and not again.
normalizeSlugTrimFirst(s) == Hyphenated(ToLower(Trim(s, White \cup {"-"})))

\* White space is trimmed before the separators are replaced, hyphens after.
normalizeSlug(s) == Trim(Hyphenated(ToLower(TrimSpace(s))), {"-"})

\* Fault: the type is trimmed after its spaces are replaced.
normalizeRelationTypeTrimLast(s) ==
  TrimSpace(Each([c \in Chars |-> IF c = " " THEN "_" ELSE c], ToLower(s)))

normalizeRelationType(s) ==
  Each([c \in Chars |-> IF c = " " THEN "_" ELSE c], ToLower(TrimSpace(s)))

\* validateItem asks for a slug that is not white space alone.
ValidSlug(s) == TrimSpace(s) # <<>>

-----------------------------------------------------------------------------
(* Correctness *)

HasLetter(s) == \E n \in DOMAIN s : s[n] \in Letters

\* White space other than the space survives between separators: a text of
\* hyphens and tabs alone can make a slug, which is why plain texts are set
\* apart here.
Plain(s) == \A n \in DOMAIN s : s[n] # "\t"

\* Whatever has a letter in it makes a slug that is accepted, and no other
\* plain text does: separators and spaces can never address an item.
SlugsHaveLetters ==
  /\ HasLetter(text) => ValidSlug(normalizeSlug(text))
  /\ Plain(text) /\ ~HasLetter(text) => ~ValidSlug(normalizeSlug(text))

\* A client that sends back the slug it was shown keeps it, so that the unique key
\* of an item does not wander from edit to edit - if the slug came from a plain
\* text.  A tab behind a leading hyphen, slash or underscore, or before a trailing
\* one, ends up at an end of the slug, which validateItem accepts.  Those slugs, and
\* no others, do change when they are sent back: hyphen, tab, "a" makes the slug
\* tab, "a", and that makes "a".
SlugIsStable ==
  LET slug == normalizeSlug(text)
  IN  /\ Plain(text) => normalizeSlug(slug) = slug
      /\ normalizeSlug(slug) = slug <=> TrimSpace(slug) = slug

\* A relation type that is sent back means the same relation, so that the
\* insert meets the primary key of the first; only white space means none.
RelationTypeIsStable ==
  LET type == normalizeRelationType(text)
  IN  /\ normalizeRelationType(type) = type
      /\ type = <<>> <=> \A n \in DOMAIN text : text[n] \in White
=============================================================================
