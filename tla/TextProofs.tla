----------------------------- MODULE TextProofs -----------------------------
(***************************************************************************)
(* Slugs and relation types of texts of any length: what strings.Trim and  *)
(* the replacements keep, and that a normalized text stays what it is.     *)
(***************************************************************************)
EXTENDS TextRules, SequenceTheorems, WellFoundedInduction, TLAPS

(* Trim *)

\* A set of numbers has a least element,
LEMMA LeastExists ==
  ASSUME NEW T \in SUBSET Nat, T # {}
  PROVE  \E n \in T : \A m \in T : n <= m
<1> DEFINE R == OpToRel(<, Nat)
<1>1. IsWellFoundedOn(R, Nat)
  BY NatLessThanWellFounded, Zenon
<1>2. \A m, n \in Nat : m < n => <<m, n>> \in R
  BY DEF OpToRel
<1> HIDE DEF R
<1>3. PICK n \in T : \A m \in T : ~ (<<m, n>> \in R)
  BY <1>1, WFMin
<1>4. n \in Nat
  BY <1>3
<1>5. ASSUME NEW m \in T PROVE n <= m
  <2>1. m \in Nat /\ ~ m < n
    BY <1>2, <1>3, <1>4
  <2> QED
    BY <1>4, <2>1
<1> QED
  BY <1>3, <1>5

\* and, if it is bounded, a greatest one.
LEMMA GreatestExists ==
  ASSUME NEW T \in SUBSET Nat, T # {}, NEW k \in Nat, \A n \in T : n <= k
  PROVE  \E n \in T : \A m \in T : m <= n
<1> DEFINE U == {n \in Nat : k - n \in T}
<1>1. \A n \in T : k - n \in U
  <2> SUFFICES ASSUME NEW n \in T PROVE k - n \in Nat /\ k - (k - n) \in T
    OBVIOUS
  <2>1. n \in Nat /\ n <= k
    OBVIOUS
  <2>2. k - n \in Nat /\ k - (k - n) = n
    BY <2>1
  <2> QED
    BY <2>2
<1>2. PICK u \in U : \A v \in U : u <= v
  <2>1. U \in SUBSET Nat /\ U # {}
    BY <1>1
  <2> HIDE DEF U
  <2> QED
    BY <2>1, LeastExists
<1>3. k - u \in T /\ u \in Nat
  OBVIOUS
<1>4. ASSUME NEW m \in T PROVE m <= k - u
  <2>1. m \in Nat /\ m <= k /\ u <= k - m
    BY <1>1, <1>2
  <2> QED
    BY <1>3, <2>1
<1> QED
  BY <1>3, <1>4

\* t is what lies from lo to hi in s, two characters that are kept, and nothing
\* that is kept lies outside.
Between(s, cut, t, lo, hi) ==
  /\ s[lo] \notin cut /\ s[hi] \notin cut /\ lo <= hi
  /\ \A n \in DOMAIN s : s[n] \notin cut => lo <= n /\ n <= hi
  /\ Len(t) = hi - lo + 1
  /\ \A i \in 1 .. hi - lo + 1 : t[i] = s[lo + i - 1]

\* Either all of a text is cut off, or what is not between two characters.
LEMMA TrimSplits ==
  ASSUME NEW S, NEW s \in Seq(S), NEW cut
  PROVE  /\ Trim(s, cut) \in Seq(S)
         /\ \/ Trim(s, cut) = <<>> /\ \A n \in DOMAIN s : s[n] \in cut
            \/ \E lo, hi \in 1 .. Len(s) : Between(s, cut, Trim(s, cut), lo, hi)
<1> DEFINE kept == {n \in DOMAIN s : s[n] \notin cut}
           lo == CHOOSE n \in kept : \A m \in kept : n <= m
           hi == CHOOSE n \in kept : \A m \in kept : m <= n
<1>1. Len(s) \in Nat /\ DOMAIN s = 1 .. Len(s) /\ \A n \in 1 .. Len(s) : s[n] \in S
  OBVIOUS
<1>2. CASE kept = {}
  BY <1>2 DEF Trim
<1>3. CASE kept # {}
  <2>1. kept \in SUBSET Nat /\ \A n \in kept : n <= Len(s)
    BY <1>1
  <2>2. Trim(s, cut) = SubSeq(s, lo, hi)
    BY <1>3 DEF Trim
  <2>3. lo \in kept /\ \A m \in kept : lo <= m
    <3>1. \E n \in kept : \A m \in kept : n <= m
      <4> HIDE DEF kept
      <4> QED
        BY <1>3, <2>1, LeastExists
    <3> HIDE DEF kept
    <3> QED
      BY <3>1
  <2>4. hi \in kept /\ \A m \in kept : m <= hi
    <3>1. \E n \in kept : \A m \in kept : m <= n
      <4> HIDE DEF kept
      <4> QED
        BY <1>1, <1>3, <2>1, GreatestExists
    <3> HIDE DEF kept
    <3> QED
      BY <3>1
  <2> HIDE DEF lo, hi
  <2>5. lo \in 1 .. Len(s) /\ hi \in 1 .. Len(s) /\ lo <= hi
    BY <1>1, <2>3, <2>4
  <2>6. \A i \in lo .. hi : s[i] \in S
    BY <1>1, <2>5
  <2>7. /\ SubSeq(s, lo, hi) \in Seq(S)
        /\ Len(SubSeq(s, lo, hi)) = IF lo <= hi THEN hi - lo + 1 ELSE 0
        /\ \A i \in 1 .. hi - lo + 1 : SubSeq(s, lo, hi)[i] = s[lo + i - 1]
    BY <2>5, <2>6, SubSeqProperties
  <2>8. \A n \in DOMAIN s : s[n] \notin cut => lo <= n /\ n <= hi
    BY <2>3, <2>4
  <2>9. s[lo] \notin cut /\ s[hi] \notin cut
    BY <2>3, <2>4
  <2> QED
    BY <2>2, <2>5, <2>7, <2>8, <2>9 DEF Between
<1> QED
  BY <1>2, <1>3

\* What a character of the result was in the text, and where a kept character
\* is found again.
LEMMA TrimProperties ==
  ASSUME NEW S, NEW s \in Seq(S), NEW cut
  PROVE  LET t == Trim(s, cut) IN
         /\ t \in Seq(S)
         /\ \A i \in DOMAIN t : \E n \in DOMAIN s : t[i] = s[n]
         /\ \A n \in DOMAIN s : s[n] \notin cut => \E i \in DOMAIN t : t[i] = s[n]
         /\ t # <<>> => t[1] \notin cut /\ t[Len(t)] \notin cut
         /\ t = <<>> <=> \A n \in DOMAIN s : s[n] \in cut
<1> DEFINE t == Trim(s, cut)
<1>1. Len(s) \in Nat /\ DOMAIN s = 1 .. Len(s)
  OBVIOUS
<1>2. CASE t = <<>> /\ \A n \in DOMAIN s : s[n] \in cut
  BY <1>2
<1>3. CASE \E lo, hi \in 1 .. Len(s) : Between(s, cut, t, lo, hi)
  <2> HIDE DEF t
  <2>1. PICK lo, hi \in 1 .. Len(s) : Between(s, cut, t, lo, hi)
    BY <1>3
  <2>2. /\ s[lo] \notin cut /\ s[hi] \notin cut /\ lo <= hi
        /\ \A n \in DOMAIN s : s[n] \notin cut => lo <= n /\ n <= hi
        /\ t \in Seq(S) /\ Len(t) = hi - lo + 1
        /\ \A i \in 1 .. hi - lo + 1 : t[i] = s[lo + i - 1]
    BY <2>1, TrimSplits DEF Between, t
  <2>3. lo \in Nat /\ hi \in Nat /\ DOMAIN t = 1 .. hi - lo + 1
    BY <1>1, <2>2
  <2>4. \A i \in DOMAIN t : lo + i - 1 \in DOMAIN s /\ t[i] = s[lo + i - 1]
    BY <1>1, <2>2, <2>3
  <2>5. ASSUME NEW n \in DOMAIN s, s[n] \notin cut
        PROVE  \E i \in DOMAIN t : t[i] = s[n]
    <3>1. n \in Nat /\ lo <= n /\ n <= hi
      BY <1>1, <2>2, <2>5
    <3>2. n - lo + 1 \in DOMAIN t /\ lo + (n - lo + 1) - 1 = n
      BY <2>3, <3>1
    <3> QED
      BY <2>4, <3>2
  <2>6. t[1] \notin cut /\ t[Len(t)] \notin cut
    <3>1. 1 \in DOMAIN t /\ lo + 1 - 1 = lo
      BY <2>2, <2>3
    <3>2. Len(t) \in DOMAIN t /\ lo + Len(t) - 1 = hi
      BY <2>2, <2>3
    <3> QED
      BY <2>2, <2>4, <3>1, <3>2
  <2>7. t # <<>> /\ lo \in DOMAIN s
    BY <1>1, <2>2, <2>3
  <2> QED
    BY <2>2, <2>4, <2>5, <2>6, <2>7 DEF t
<1> QED
  BY <1>2, <1>3, TrimSplits

\* Nothing is cut off a text whose ends are kept.
LEMMA TrimFixed ==
  ASSUME NEW S, NEW s \in Seq(S), NEW cut,
         s # <<>> => s[1] \notin cut /\ s[Len(s)] \notin cut
  PROVE  Trim(s, cut) = s
<1> DEFINE t == Trim(s, cut)
<1>1. Len(s) \in Nat /\ DOMAIN s = 1 .. Len(s) /\ (s # <<>> => Len(s) \in Nat \ {0})
  BY EmptySeq
<1>2. CASE s = <<>>
  <2>1. \A n \in DOMAIN s : s[n] \in cut
    BY <1>2
  <2> QED
    BY <1>2, <2>1, TrimProperties
<1>3. CASE s # <<>>
  <2>1. 1 \in DOMAIN s /\ Len(s) \in DOMAIN s
    BY <1>1, <1>3
  <2>2. \E lo, hi \in 1 .. Len(s) : Between(s, cut, t, lo, hi)
    BY <1>3, <2>1, TrimSplits
  <2> HIDE DEF t
  <2>3. PICK lo, hi \in 1 .. Len(s) : Between(s, cut, t, lo, hi)
    BY <2>2
  <2>4. lo = 1 /\ hi = Len(s)
    <3>1. lo <= 1 /\ Len(s) <= hi
      BY <1>3, <2>1, <2>3 DEF Between
    <3>2. Len(s) \in Int /\ lo \in Int /\ hi \in Int /\ 1 <= lo /\ hi <= Len(s)
      BY <1>1
    <3> QED
      BY <3>1, <3>2
  <2>5. Len(t) = Len(s) /\ \A i \in 1 .. Len(s) : t[i] = s[i]
    BY <1>1, <2>3, <2>4 DEF Between
  <2>6. t \in Seq(S)
    BY TrimSplits DEF t
  <2> QED
    BY <2>5, <2>6, SeqEqual DEF t
<1> QED
  BY <1>2, <1>3

\* A text gets no longer, and shorter if anything is cut off it.
LEMMA TrimShortens ==
  ASSUME NEW S, NEW s \in Seq(S), NEW cut
  PROVE  LET t == Trim(s, cut) IN
         /\ Len(t) \in Nat /\ Len(t) <= Len(s)
         /\ Len(t) = Len(s) => t = s
<1> DEFINE t == Trim(s, cut)
<1>1. t \in Seq(S) /\ Len(t) \in Nat /\ Len(s) \in Nat
  BY TrimSplits
<1>2. CASE t = <<>>
  <2>1. Len(t) = 0
    BY <1>2
  <2>2. Len(t) = Len(s) => s = <<>>
    BY <2>1, EmptySeq
  <2> QED
    BY <1>1, <1>2, <2>1, <2>2
<1>3. CASE \E lo, hi \in 1 .. Len(s) : Between(s, cut, t, lo, hi)
  <2> HIDE DEF t
  <2>1. PICK lo, hi \in 1 .. Len(s) : Between(s, cut, t, lo, hi)
    BY <1>3
  <2>2. /\ lo \in Nat /\ hi \in Nat /\ 1 <= lo /\ hi <= Len(s)
        /\ Len(t) = hi - lo + 1
        /\ \A i \in 1 .. hi - lo + 1 : t[i] = s[lo + i - 1]
    BY <1>1, <2>1 DEF Between
  <2>3. ASSUME Len(t) = Len(s) PROVE t = s
    <3>1. lo = 1 /\ hi = Len(s)
      BY <1>1, <2>2, <2>3
    <3>2. \A i \in 1 .. Len(s) : t[i] = s[i]
      BY <1>1, <2>2, <3>1
    <3> QED
      BY <1>1, <2>3, <3>2, SeqEqual
  <2>4. Len(t) <= Len(s)
    BY <1>1, <2>2
  <2> QED
    BY <1>1, <2>3, <2>4 DEF t
<1> QED
  BY <1>2, <1>3, TrimSplits

-----------------------------------------------------------------------------
(* Replacements *)

\* A text is replaced character by character.
LEMMA EachProperties ==
  ASSUME NEW S, NEW T, NEW s \in Seq(S), NEW f, \A c \in S : f[c] \in T
  PROVE  LET t == Each(f, s) IN
         /\ t \in Seq(T) /\ Len(t) = Len(s) /\ DOMAIN t = DOMAIN s
         /\ \A n \in DOMAIN s : t[n] = f[s[n]]
<1>1. Len(s) \in Nat /\ DOMAIN s = 1 .. Len(s) /\ \A n \in 1 .. Len(s) : s[n] \in S
  OBVIOUS
<1>2. Each(f, s) = [n \in 1 .. Len(s) |-> f[s[n]]]
  BY <1>1 DEF Each
<1>3. Each(f, s) \in [1 .. Len(s) -> T]
  BY <1>1, <1>2
<1> QED
  BY <1>1, <1>2, <1>3

\* A text without a character that is replaced stays what it is.
LEMMA EachFixed ==
  ASSUME NEW S, NEW s \in Seq(S), NEW f, \A c \in S : f[c] = c
  PROVE  Each(f, s) = s
<1>1. \A c \in S : f[c] \in S
  OBVIOUS
<1>2. LET t == Each(f, s) IN
      /\ t \in Seq(S) /\ Len(t) = Len(s) /\ DOMAIN t = DOMAIN s
      /\ \A n \in DOMAIN s : t[n] = f[s[n]]
  BY <1>1, EachProperties
<1>3. \A n \in DOMAIN s : s[n] \in S
  OBVIOUS
<1>4. Each(f, s) \in Seq(S) /\ Len(s) = Len(Each(f, s))
  BY <1>2
<1>5. \A n \in 1 .. Len(s) : s[n] = Each(f, s)[n]
  BY <1>2, <1>3
<1> QED
  BY <1>4, <1>5, SeqEqual

LowerChars == Chars \ {"A"}
SlugChars  == {"a", "-", "\t"}

\* strings.ToLower.
LEMMA ToLowerProperties ==
  ASSUME NEW s \in Seq(Chars)
  PROVE  LET t == ToLower(s) IN
         /\ t \in Seq(LowerChars) /\ Len(t) = Len(s) /\ DOMAIN t = DOMAIN s
         /\ \A n \in DOMAIN s : t[n] = IF s[n] = "A" THEN "a" ELSE s[n]
<1> DEFINE f == [c \in Chars |-> IF c = "A" THEN "a" ELSE c]
<1>1. \A c \in Chars : f[c] \in LowerChars /\ f[c] = IF c = "A" THEN "a" ELSE c
  BY DEF Chars, LowerChars, Letters
<1>2. ToLower(s) = Each(f, s)
  BY DEF ToLower
<1>3. \A n \in DOMAIN s : s[n] \in Chars
  OBVIOUS
<1> HIDE DEF f
<1>4. \A c \in Chars : f[c] \in LowerChars
  BY <1>1
<1>5. LET t == Each(f, s) IN
      /\ t \in Seq(LowerChars) /\ Len(t) = Len(s) /\ DOMAIN t = DOMAIN s
      /\ \A n \in DOMAIN s : t[n] = f[s[n]]
  BY <1>4, EachProperties
<1> QED
  BY <1>1, <1>2, <1>3, <1>5

\* The separators become hyphens.
LEMMA HyphenatedProperties ==
  ASSUME NEW s \in Seq(LowerChars)
  PROVE  LET t == Hyphenated(s) IN
         /\ t \in Seq(SlugChars) /\ Len(t) = Len(s) /\ DOMAIN t = DOMAIN s
         /\ \A n \in DOMAIN s : t[n] = IF s[n] \in Separators THEN "-" ELSE s[n]
<1> DEFINE f == [c \in Chars |-> IF c \in Separators THEN "-" ELSE c]
<1>1. \A c \in LowerChars : /\ f[c] \in SlugChars
                              /\ f[c] = IF c \in Separators THEN "-" ELSE c
  BY DEF Chars, LowerChars, SlugChars, Letters, Separators, White
<1>2. Hyphenated(s) = Each(f, s)
  BY DEF Hyphenated
<1>3. \A n \in DOMAIN s : s[n] \in LowerChars
  OBVIOUS
<1> HIDE DEF f
<1>4. \A c \in LowerChars : f[c] \in SlugChars
  BY <1>1
<1>5. LET t == Each(f, s) IN
      /\ t \in Seq(SlugChars) /\ Len(t) = Len(s) /\ DOMAIN t = DOMAIN s
      /\ \A n \in DOMAIN s : t[n] = f[s[n]]
  BY <1>4, EachProperties
<1> QED
  BY <1>1, <1>2, <1>3, <1>5

-----------------------------------------------------------------------------
(* Slugs *)

\* The text whose hyphens at both ends a slug loses.
Untrimmed(s) == Hyphenated(ToLower(TrimSpace(s)))

LEMMA UntrimmedProperties ==
  ASSUME NEW s \in Seq(Chars)
  PROVE  /\ Untrimmed(s) \in Seq(SlugChars)
         /\ HasLetter(s) => \E i \in DOMAIN Untrimmed(s) : Untrimmed(s)[i] = "a"
         /\ Plain(s) /\ ~HasLetter(s) =>
              \A i \in DOMAIN Untrimmed(s) : Untrimmed(s)[i] = "-"
         /\ Plain(s) => \A i \in DOMAIN Untrimmed(s) : Untrimmed(s)[i] # "\t"
         /\ Len(Untrimmed(s)) = Len(TrimSpace(s))
<1> DEFINE t == TrimSpace(s)
           l == ToLower(t)
           u == Hyphenated(l)
<1>1. /\ t \in Seq(Chars)
      /\ \A i \in DOMAIN t : \E n \in DOMAIN s : t[i] = s[n]
      /\ \A n \in DOMAIN s : s[n] \notin White => \E i \in DOMAIN t : t[i] = s[n]
  <2> HIDE DEF t
  <2>1. t = Trim(s, White)
    BY DEF t, TrimSpace
  <2>2. LET r == Trim(s, White) IN
        /\ r \in Seq(Chars)
        /\ \A i \in DOMAIN r : \E n \in DOMAIN s : r[i] = s[n]
        /\ \A n \in DOMAIN s : s[n] \notin White => \E i \in DOMAIN r : r[i] = s[n]
        /\ r # <<>> => r[1] \notin White /\ r[Len(r)] \notin White
        /\ r = <<>> <=> \A n \in DOMAIN s : s[n] \in White
    BY TrimProperties
  <2> QED
    BY <2>1, <2>2
<1> HIDE DEF t
<1>2. /\ l \in Seq(LowerChars) /\ DOMAIN l = DOMAIN t /\ Len(l) = Len(t)
      /\ \A i \in DOMAIN t : l[i] = IF t[i] = "A" THEN "a" ELSE t[i]
  BY <1>1, ToLowerProperties
<1> HIDE DEF l
<1>3. /\ u \in Seq(SlugChars) /\ DOMAIN u = DOMAIN l /\ Len(u) = Len(l)
      /\ \A i \in DOMAIN l : u[i] = IF l[i] \in Separators THEN "-" ELSE l[i]
  BY <1>2, HyphenatedProperties
<1> HIDE DEF u
<1>4. ASSUME HasLetter(s) PROVE \E i \in DOMAIN u : u[i] = "a"
  <2>1. PICK n \in DOMAIN s : s[n] \in Letters
    BY <1>4 DEF HasLetter
  <2>2. s[n] \notin White
    BY <2>1 DEF Letters, White
  <2>3. PICK i \in DOMAIN t : t[i] = s[n]
    BY <1>1, <2>2
  <2>4. l[i] = "a" /\ i \in DOMAIN l /\ i \in DOMAIN u
    BY <1>2, <1>3, <2>1, <2>3 DEF Letters
  <2> QED
    BY <1>3, <2>4 DEF Separators
<1>5. ASSUME Plain(s), ~HasLetter(s), NEW i \in DOMAIN u PROVE u[i] = "-"
  <2>1. i \in DOMAIN t /\ i \in DOMAIN l
    BY <1>2, <1>3
  <2>2. PICK n \in DOMAIN s : t[i] = s[n]
    BY <1>1, <2>1
  <2>3. s[n] \in Separators /\ s[n] # "A"
    <3>1. s[n] \in Chars /\ s[n] \notin Letters /\ s[n] # "\t"
      BY <1>5 DEF HasLetter, Plain
    <3> QED
      BY <3>1 DEF Chars, Letters, White, Separators
  <2> QED
    BY <1>2, <1>3, <2>1, <2>2, <2>3
<1>6. ASSUME Plain(s), NEW i \in DOMAIN u PROVE u[i] # "\t"
  <2>1. i \in DOMAIN t /\ i \in DOMAIN l
    BY <1>2, <1>3
  <2>2. PICK n \in DOMAIN s : t[i] = s[n]
    BY <1>1, <2>1
  <2>3. t[i] # "\t" /\ l[i] # "\t"
    BY <1>2, <1>6, <2>1, <2>2 DEF Plain
  <2> QED
    BY <1>3, <2>1, <2>3
<1>7. Len(u) = Len(t)
  BY <1>2, <1>3
<1> QED
  BY <1>3, <1>4, <1>5, <1>6, <1>7 DEF Untrimmed, u, l, t

\* A text has a slug if it has a letter, and then only, if it is plain.
LEMMA SlugOfLetters ==
  ASSUME NEW s \in Seq(Chars)
  PROVE  /\ HasLetter(s) => ValidSlug(normalizeSlug(s))
         /\ Plain(s) /\ ~HasLetter(s) => ~ValidSlug(normalizeSlug(s))
<1> DEFINE u == Untrimmed(s)
           slug == normalizeSlug(s)
<1>1. u \in Seq(SlugChars) /\ slug = Trim(u, {"-"})
  BY UntrimmedProperties DEF Untrimmed, normalizeSlug
<1> HIDE DEF u, slug
<1>2. /\ slug \in Seq(SlugChars)
      /\ \A n \in DOMAIN u : u[n] # "-" => \E i \in DOMAIN slug : slug[i] = u[n]
      /\ slug = <<>> <=> \A n \in DOMAIN u : u[n] = "-"
  <2>1. LET t == Trim(u, {"-"}) IN
        /\ t \in Seq(SlugChars)
        /\ \A n \in DOMAIN u : u[n] \notin {"-"} => \E i \in DOMAIN t : t[i] = u[n]
        /\ t = <<>> <=> \A n \in DOMAIN u : u[n] \in {"-"}
    BY <1>1, TrimProperties
  <2> QED
    BY <1>1, <2>1
<1>3. TrimSpace(slug) = <<>> <=> \A i \in DOMAIN slug : slug[i] \in White
  BY <1>2, TrimProperties DEF TrimSpace
<1>4. ASSUME HasLetter(s) PROVE ValidSlug(slug)
  <2>1. PICK n \in DOMAIN u : u[n] = "a"
    BY <1>4, UntrimmedProperties DEF u
  <2>2. PICK i \in DOMAIN slug : slug[i] = "a"
    BY <1>2, <2>1
  <2> QED
    BY <1>3, <2>2 DEF ValidSlug, White
<1>5. ASSUME Plain(s), ~HasLetter(s) PROVE ~ValidSlug(slug)
  <2>1. slug = <<>>
    BY <1>2, <1>5, UntrimmedProperties DEF u
  <2> QED
    BY <1>3, <2>1 DEF ValidSlug
<1> QED
  BY <1>4, <1>5 DEF slug

\* A slug without white space at its ends is its own slug, and no other is; plain
\* texts make no other.
LEMMA SlugOfSlug ==
  ASSUME NEW s \in Seq(Chars)
  PROVE  LET slug == normalizeSlug(s) IN
         /\ Plain(s) => TrimSpace(slug) = slug
         /\ normalizeSlug(slug) = slug <=> TrimSpace(slug) = slug
<1> DEFINE u == Untrimmed(s)
           slug == normalizeSlug(s)
<1>1. u \in Seq(SlugChars) /\ slug = Trim(u, {"-"})
  BY UntrimmedProperties DEF Untrimmed, normalizeSlug
<1> HIDE DEF u, slug
<1>2. /\ slug \in Seq(SlugChars)
      /\ slug # <<>> => slug[1] \notin {"-"} /\ slug[Len(slug)] \notin {"-"}
  BY <1>1, TrimProperties
<1>3. slug \in Seq(Chars)
  <2>1. SlugChars \subseteq Chars
    BY DEF SlugChars, Chars, Letters, White, Separators
  <2>2. \A n \in 1 .. Len(slug) : slug[n] \in Chars
    BY <1>2, <2>1
  <2> QED
    BY <1>2, <2>2
<1>4. ToLower(slug) = slug
  <2> DEFINE f == [c \in Chars |-> IF c = "A" THEN "a" ELSE c]
  <2>1. \A c \in SlugChars : f[c] = c
    BY DEF Chars, LowerChars, SlugChars, Letters, Separators, White
  <2>2. ToLower(slug) = Each(f, slug)
    BY DEF ToLower
  <2> HIDE DEF f
  <2> QED
    BY <1>2, <2>1, <2>2, EachFixed
<1>5. Hyphenated(slug) = slug
  <2> DEFINE f == [c \in Chars |-> IF c \in Separators THEN "-" ELSE c]
  <2>1. \A c \in SlugChars : f[c] = c
    BY DEF Chars, LowerChars, SlugChars, Letters, Separators, White
  <2>2. Hyphenated(slug) = Each(f, slug)
    BY DEF Hyphenated
  <2> HIDE DEF f
  <2> QED
    BY <1>2, <2>1, <2>2, EachFixed
<1>6. Trim(slug, {"-"}) = slug
  BY <1>2, TrimFixed
<1>7. ASSUME TrimSpace(slug) = slug PROVE normalizeSlug(slug) = slug
  BY <1>4, <1>5, <1>6, <1>7 DEF normalizeSlug
<1>8. ASSUME normalizeSlug(slug) = slug PROVE TrimSpace(slug) = slug
  <2>1. /\ Untrimmed(slug) \in Seq(SlugChars)
        /\ Len(Untrimmed(slug)) = Len(TrimSpace(slug))
    BY <1>3, UntrimmedProperties
  <2>2. Len(Trim(Untrimmed(slug), {"-"})) <= Len(Untrimmed(slug))
    BY <2>1, TrimShortens
  <2>3. /\ Len(TrimSpace(slug)) \in Nat /\ Len(TrimSpace(slug)) <= Len(slug)
        /\ Len(TrimSpace(slug)) = Len(slug) => TrimSpace(slug) = slug
    BY <1>3, TrimShortens DEF TrimSpace
  <2>4. Len(slug) <= Len(TrimSpace(slug)) /\ Len(slug) \in Nat
    BY <1>3, <1>8, <2>1, <2>2 DEF normalizeSlug, Untrimmed
  <2> QED
    BY <2>3, <2>4
<1>9. ASSUME Plain(s) PROVE TrimSpace(slug) = slug
  <2>1. \A i \in DOMAIN u : u[i] # "\t"
    BY <1>9, UntrimmedProperties DEF u
  <2>2. \A i \in DOMAIN slug : \E n \in DOMAIN u : slug[i] = u[n]
    BY <1>1, TrimProperties
  <2>3. \A i \in DOMAIN slug : slug[i] \notin White
    <3> SUFFICES ASSUME NEW i \in DOMAIN slug PROVE slug[i] \notin White
      OBVIOUS
    <3>1. slug[i] \in SlugChars /\ slug[i] # "\t"
      BY <1>2, <2>1, <2>2
    <3> QED
      BY <3>1 DEF SlugChars, White
  <2>4. slug # <<>> => 1 \in DOMAIN slug /\ Len(slug) \in DOMAIN slug
    BY <1>2, EmptySeq
  <2> QED
    BY <1>2, <2>3, <2>4, TrimFixed DEF TrimSpace
<1> QED
  BY <1>7, <1>8, <1>9 DEF slug

-----------------------------------------------------------------------------
(* Relation types *)

TypeChars == {"a", "_", "/", "-", "\t"}

\* White space inside a type becomes an underscore, or stays if it is no space.
LEMMA RelationTypeProperties ==
  ASSUME NEW s \in Seq(Chars)
  PROVE  LET type == normalizeRelationType(s) IN
         /\ type \in Seq(TypeChars)
         /\ type # <<>> => type[1] \notin White /\ type[Len(type)] \notin White
         /\ type = <<>> <=> \A n \in DOMAIN s : s[n] \in White
<1> DEFINE f == [c \in Chars |-> IF c = " " THEN "_" ELSE c]
           t == TrimSpace(s)
           l == ToLower(t)
           r == Each(f, l)
<1>1. \A c \in LowerChars : /\ f[c] \in TypeChars
                            /\ c \notin White => f[c] \notin White
  BY DEF Chars, LowerChars, TypeChars, Letters, Separators, White
<1>2. normalizeRelationType(s) = r
  BY DEF normalizeRelationType
<1> HIDE DEF f
<1>3. /\ t \in Seq(Chars)
      /\ t # <<>> => t[1] \notin White /\ t[Len(t)] \notin White
      /\ t = <<>> <=> \A n \in DOMAIN s : s[n] \in White
  BY TrimProperties DEF TrimSpace
<1> HIDE DEF t
<1>4. /\ l \in Seq(LowerChars) /\ Len(l) = Len(t) /\ DOMAIN l = DOMAIN t
      /\ \A i \in DOMAIN t : l[i] = IF t[i] = "A" THEN "a" ELSE t[i]
  BY <1>3, ToLowerProperties
<1> HIDE DEF l
<1>5. /\ r \in Seq(TypeChars) /\ Len(r) = Len(l) /\ DOMAIN r = DOMAIN l
      /\ \A i \in DOMAIN l : r[i] = f[l[i]]
  <2>1. \A c \in LowerChars : f[c] \in TypeChars
    BY <1>1
  <2>2. LET e == Each(f, l) IN
        /\ e \in Seq(TypeChars) /\ Len(e) = Len(l) /\ DOMAIN e = DOMAIN l
        /\ \A i \in DOMAIN l : e[i] = f[l[i]]
    BY <1>4, <2>1, EachProperties
  <2> QED
    BY <2>2
<1> HIDE DEF r
<1>6. r = <<>> <=> t = <<>>
  BY <1>3, <1>4, <1>5, EmptySeq
<1>7. ASSUME NEW i \in DOMAIN t, t[i] \notin White PROVE r[i] \notin White
  <2>1. i \in DOMAIN l /\ l[i] = IF t[i] = "A" THEN "a" ELSE t[i]
    BY <1>4
  <2>2. l[i] \in LowerChars
    BY <1>4, <2>1
  <2>3. l[i] \notin White
    BY <1>7, <2>1 DEF White
  <2> QED
    BY <1>1, <1>5, <2>1, <2>2, <2>3
<1>8. ASSUME r # <<>> PROVE r[1] \notin White /\ r[Len(r)] \notin White
  <2>1. t # <<>> /\ Len(t) \in Nat \ {0} /\ DOMAIN t = 1 .. Len(t)
    BY <1>3, <1>6, <1>8, EmptySeq
  <2>2. 1 \in DOMAIN t /\ Len(t) \in DOMAIN t /\ Len(r) = Len(t)
    BY <1>4, <1>5, <2>1
  <2> QED
    BY <1>3, <1>7, <2>1, <2>2
<1> QED
  BY <1>2, <1>3, <1>5, <1>6, <1>8

\* A relation type is its own relation type.
LEMMA TypeOfType ==
  ASSUME NEW s \in Seq(Chars)
  PROVE  normalizeRelationType(normalizeRelationType(s)) = normalizeRelationType(s)
<1> DEFINE type == normalizeRelationType(s)
<1> HIDE DEF type
<1>1. /\ type \in Seq(TypeChars)
      /\ type # <<>> => type[1] \notin White /\ type[Len(type)] \notin White
  BY RelationTypeProperties DEF type
<1>2. TrimSpace(type) = type
  BY <1>1, TrimFixed DEF TrimSpace
<1>3. ToLower(type) = type
  <2> DEFINE f == [c \in Chars |-> IF c = "A" THEN "a" ELSE c]
  <2>1. \A c \in TypeChars : f[c] = c
    BY DEF Chars, TypeChars, Letters, Separators, White
  <2>2. ToLower(type) = Each(f, type)
    BY DEF ToLower
  <2> HIDE DEF f
  <2> QED
    BY <1>1, <2>1, <2>2, EachFixed
<1>4. Each([c \in Chars |-> IF c = " " THEN "_" ELSE c], type) = type
  <2> DEFINE f == [c \in Chars |-> IF c = " " THEN "_" ELSE c]
  <2>1. \A c \in TypeChars : f[c] = c
    BY DEF Chars, TypeChars, Letters, Separators, White
  <2> HIDE DEF f
  <2>2. Each(f, type) = type
    BY <1>1, <2>1, EachFixed
  <2> QED
    BY <2>2 DEF f
<1>5. normalizeRelationType(type) = type
  BY <1>2, <1>3, <1>4 DEF normalizeRelationType
<1> QED
  BY <1>5 DEF type

-----------------------------------------------------------------------------
(* Every text that can be typed *)

TextInv == text \in Seq(Chars) /\ Len(text) <= MaxLength

\* Texts are made of the characters that are told apart.
THEOREM TextTypes == TextSpec => []TextInv
<1>1. TextInit => TextInv
  BY TextAssumption DEF TextInit, TextInv
<1>2. TextInv /\ [TextNext]_text => TextInv'
  <2> SUFFICES ASSUME TextInv, [TextNext]_text PROVE TextInv'
    OBVIOUS
  <2>1. ASSUME NEW c \in Chars, Type(c) PROVE TextInv'
    <3>1. text' \in Seq(Chars) /\ Len(text') = Len(text) + 1
      BY <2>1, AppendProperties DEF Type, TextInv
    <3> QED
      BY <2>1, <3>1, TextAssumption DEF Type, TextInv
  <2>2. CASE UNCHANGED text
    BY <2>2 DEF TextInv
  <2> QED
    BY <2>1, <2>2 DEF TextNext, Rest
<1> QED
  BY <1>1, <1>2, PTL DEF TextSpec

\* SlugsHaveLetters: normalizeSlug, followed by the check of validateItem, takes
\* every text that has a letter, and of the others only some with tabs.
THEOREM LettersMakeSlugs == TextSpec => []SlugsHaveLetters
<1>1. TextInv => SlugsHaveLetters
  BY SlugOfLetters DEF TextInv, SlugsHaveLetters
<1> QED
  BY <1>1, TextTypes, PTL

\* SlugIsStable: normalizeSlug maps the slug of a plain text to itself, whatever its
\* length, and of the other slugs those without white space at an end and no more.
THEOREM SlugsStay == TextSpec => []SlugIsStable
<1>1. TextInv => SlugIsStable
  BY SlugOfSlug DEF TextInv, SlugIsStable
<1> QED
  BY <1>1, TextTypes, PTL

\* RelationTypeIsStable: normalizeRelationType maps a type to itself, and only
\* white space to none.
THEOREM RelationTypesStay == TextSpec => []RelationTypeIsStable
<1>1. TextInv => RelationTypeIsStable
  BY TypeOfType, RelationTypeProperties DEF TextInv, RelationTypeIsStable
<1> QED
  BY <1>1, TextTypes, PTL
=============================================================================
