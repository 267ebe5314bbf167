--------------------------- MODULE ListingProofs ---------------------------
(***************************************************************************)
(* For any writers, items, deadline and limits: how far updated_at may be  *)
(* from the time a row was written, and that lists show what was written   *)
(* in time before what was written long before; that the feed and the      *)
(* recent items show the list; and that asking for more never shows less.  *)
(***************************************************************************)
EXTENDS ContentListing, FiniteSetTheorems, SequenceTheorems, TLAPS

LEMMA ListingConstants ==
  /\ Timeout \in Nat /\ MaxTime \in Nat
  /\ DefaultLimit \in Nat \ {0} /\ MaxLimit \in Nat \ {0}
  /\ RawLimits \subseteq Int \cup {Malformed}
  /\ IsFiniteSet(Ids)
  /\ Nothing \notin Nat /\ Nothing \notin Statement
BY ListingAssumption, StatementAssumption

USE ListingConstants

\* A stamp is never ahead of the write, and behind one that came in time by no
\* more than the deadline.
StampsFit ==
  /\ \A i \in Listed : rows[i] <= committed[i]
  /\ \A i \in prompt : committed[i] <= rows[i] + Timeout

\* A statement carries a stamp of its own request.
Drafted(p) ==
  /\ pc[p] # "idle" => item[p] \in Ids /\ clock <= since[p] + Timeout
  /\ pc[p] = "write" => /\ draft[p] \in Statement
                        /\ since[p] <= draft[p].updated
                        /\ draft[p].updated <= clock

ListingInv ==
  /\ ListingTypeOK
  /\ StampsFit
  /\ \A p \in Procs : Drafted(p)
  /\ \A st \in orphans : st.updated <= clock

LEMMA ListingInitInv == ListingInit => ListingInv
<1> SUFFICES ASSUME ListingInit PROVE ListingInv
  OBVIOUS
<1>1. clock = 0 /\ clock \in 0 .. MaxTime /\ 0 \in 0 .. clock
  BY DEF ListingInit
<1>2. ListingTypeOK
  BY <1>1 DEF ListingInit, ListingTypeOK
<1>3. StampsFit /\ (\A p \in Procs : Drafted(p)) /\ \A st \in orphans : st.updated <= clock
  BY DEF ListingInit, StampsFit, Drafted, Listed
<1> QED
  BY <1>2, <1>3 DEF ListingInv

\* A process that does not move keeps its statement.
LEMMA OthersDrafted ==
  ASSUME ListingInv, NEW p \in Procs, clock' = clock,
         pc'[p] = pc[p], item'[p] = item[p], draft'[p] = draft[p], since'[p] = since[p]
  PROVE  Drafted(p)'
BY DEF ListingInv, Drafted

LEMMA BeginListed ==
  ASSUME ListingInv, NEW p \in Procs, Begin(p)
  PROVE  ListingInv'
<1>1. PICK i \in Ids : item' = [item EXCEPT ![p] = i]
  BY DEF Begin
<1>2. clock \in Nat /\ clock \in 0 .. clock /\ clock' = clock
  BY DEF Begin, ListingInv, ListingTypeOK
<1>3. ListingTypeOK'
  BY <1>1, <1>2 DEF Begin, ListingInv, ListingTypeOK, Listed
<1>4. ASSUME NEW q \in Procs PROVE Drafted(q)'
  <2>1. CASE q = p
    BY <1>1, <1>2, <2>1 DEF Begin, Drafted, ListingInv, ListingTypeOK
  <2>2. CASE q # p
    BY <1>1, <1>2, <2>2, OthersDrafted DEF Begin, ListingInv, ListingTypeOK
  <2> QED
    BY <2>1, <2>2
<1>5. StampsFit' /\ \A st \in orphans' : st.updated <= clock'
  BY DEF Begin, ListingInv, StampsFit, Listed
<1> QED
  BY <1>3, <1>4, <1>5 DEF ListingInv

LEMMA PrepareListed ==
  ASSUME ListingInv, NEW p \in Procs, Prepare(p)
  PROVE  ListingInv'
<1> DEFINE st == [id |-> item[p], updated |-> clock]
<1>1. /\ clock \in Nat /\ clock' = clock /\ since[p] \in 0 .. clock
      /\ item[p] \in Ids /\ clock <= since[p] + Timeout
  BY DEF Prepare, ListingInv, ListingTypeOK, Drafted
<1>2. st \in Statement /\ st.updated = clock
  BY <1>1 DEF Statement
<1>3. draft' = [draft EXCEPT ![p] = st]
  BY DEF Prepare
<1> HIDE DEF st
<1>4. ListingTypeOK'
  BY <1>1, <1>2, <1>3 DEF Prepare, ListingInv, ListingTypeOK, Listed
<1>5. ASSUME NEW q \in Procs PROVE Drafted(q)'
  <2>1. CASE q = p
    BY <1>1, <1>2, <1>3, <2>1 DEF Prepare, Drafted, ListingInv, ListingTypeOK
  <2>2. CASE q # p
    BY <1>1, <1>3, <2>2, OthersDrafted DEF Prepare, ListingInv, ListingTypeOK
  <2> QED
    BY <2>1, <2>2
<1>6. StampsFit' /\ \A o \in orphans' : o.updated <= clock'
  BY DEF Prepare, ListingInv, StampsFit, Listed
<1> QED
  BY <1>4, <1>5, <1>6 DEF ListingInv

\* What a statement does to the rows, in time or late.
LEMMA Executed ==
  ASSUME ListingInv, NEW st \in Statement, Execute(st), clock' = clock,
         st.updated <= clock,
         \/ /\ clock <= st.updated + Timeout
            /\ prompt' = prompt \cup {st.id}
         \/ prompt' = prompt \ {st.id}
  PROVE  /\ rows' \in [Ids -> 0 .. clock \cup {Nothing}]
         /\ committed' \in [Ids -> 0 .. clock]
         /\ prompt' \subseteq Listed'
         /\ StampsFit'
<1>1. /\ clock \in Nat /\ st.id \in Ids /\ st.updated \in 0 .. clock
      /\ clock \in 0 .. clock
      /\ rows \in [Ids -> 0 .. clock \cup {Nothing}]
      /\ committed \in [Ids -> 0 .. clock]
      /\ prompt \subseteq Listed
  BY DEF Statement, ListingInv, ListingTypeOK
<1>2. /\ rows' \in [Ids -> 0 .. clock \cup {Nothing}]
      /\ committed' \in [Ids -> 0 .. clock]
      /\ rows'[st.id] = st.updated /\ committed'[st.id] = clock
      /\ \A i \in Ids : i # st.id => rows'[i] = rows[i] /\ committed'[i] = committed[i]
  BY <1>1 DEF Execute
<1>3. prompt' \subseteq Listed'
  BY <1>1, <1>2 DEF Listed
<1>4. StampsFit'
  BY <1>1, <1>2, <1>3 DEF StampsFit, Listed, ListingInv
<1> QED
  BY <1>2, <1>3, <1>4

\* A process that answers holds no statement.
LEMMA Answered ==
  ASSUME ListingInv, NEW p \in Procs, Respond(p), clock' = clock
  PROVE  /\ \A q \in Procs : Drafted(q)'
         /\ pc' \in [Procs -> {"idle", "prepare", "write"}]
         /\ item' \in [Procs -> Ids \cup {Nothing}]
         /\ draft' \in [Procs -> Statement \cup {Nothing}]
         /\ since' \in [Procs -> 0 .. clock']
<1>1. clock \in Nat /\ 0 \in 0 .. clock
  BY DEF ListingInv, ListingTypeOK
<1>2. ASSUME NEW q \in Procs PROVE Drafted(q)'
  <2>1. CASE q = p
    BY <2>1 DEF Respond, Drafted, ListingInv, ListingTypeOK
  <2>2. CASE q # p
    BY <2>2, OthersDrafted DEF Respond, ListingInv, ListingTypeOK
  <2> QED
    BY <2>1, <2>2
<1> QED
  BY <1>1, <1>2 DEF Respond, ListingInv, ListingTypeOK

LEMMA WriteListed ==
  ASSUME ListingInv, NEW p \in Procs, Write(p)
  PROVE  ListingInv'
<1>1. /\ draft[p] \in Statement /\ draft[p].updated <= clock /\ draft[p].updated \in Nat
      /\ since[p] \in Nat /\ since[p] <= draft[p].updated /\ clock <= since[p] + Timeout
      /\ clock \in Nat
  BY DEF Write, ListingInv, ListingTypeOK, Drafted, Statement
<1>2. clock <= draft[p].updated + Timeout
  BY <1>1
<1>3. /\ Execute(draft[p]) /\ Respond(p) /\ clock' = clock /\ orphans' = orphans
      /\ prompt' = prompt \cup {draft[p].id}
  BY DEF Write
<1>4. /\ rows' \in [Ids -> 0 .. clock \cup {Nothing}]
      /\ committed' \in [Ids -> 0 .. clock]
      /\ prompt' \subseteq Listed' /\ StampsFit'
  BY <1>1, <1>2, <1>3, Executed
<1>5. ListingTypeOK'
  BY <1>3, <1>4, Answered DEF ListingTypeOK, ListingInv
<1> QED
  BY <1>3, <1>4, <1>5, Answered DEF ListingInv

LEMMA GiveUpListed ==
  ASSUME ListingInv, NEW p \in Procs, GiveUp(p)
  PROVE  ListingInv'
<1>1. /\ Respond(p) /\ UNCHANGED <<rows, clock, committed, prompt>>
  BY DEF GiveUp
<1>2. orphans' \subseteq Statement /\ \A st \in orphans' : st.updated <= clock
  BY DEF GiveUp, ListingInv, ListingTypeOK, Drafted
<1>3. ListingTypeOK'
  BY <1>1, <1>2, Answered DEF ListingTypeOK, ListingInv, Listed
<1>4. StampsFit'
  BY <1>1 DEF StampsFit, ListingInv, Listed
<1> QED
  BY <1>1, <1>2, <1>3, <1>4, Answered DEF ListingInv

LEMMA OrphanedListed ==
  ASSUME ListingInv, NEW st \in orphans, Orphaned(st)
  PROVE  ListingInv'
<1>1. /\ st \in Statement /\ st.updated <= clock
      /\ orphans' \subseteq Statement /\ (\A o \in orphans' : o.updated <= clock)
      /\ UNCHANGED <<clock, pc, item, draft, since>>
  BY DEF Orphaned, ListingInv, ListingTypeOK
<1>2. \A p \in Procs : Drafted(p)'
  BY <1>1 DEF ListingInv, Drafted
<1>3. CASE UNCHANGED <<rows, committed, prompt>>
  BY <1>1, <1>2, <1>3 DEF ListingInv, ListingTypeOK, StampsFit, Listed
<1>4. CASE Execute(st) /\ prompt' = prompt \ {st.id}
  <2>1. /\ rows' \in [Ids -> 0 .. clock \cup {Nothing}]
        /\ committed' \in [Ids -> 0 .. clock]
        /\ prompt' \subseteq Listed' /\ StampsFit'
    BY <1>1, <1>4, Executed
  <2>2. ListingTypeOK'
    BY <1>1, <2>1 DEF ListingInv, ListingTypeOK
  <2> QED
    BY <1>1, <1>2, <2>1, <2>2 DEF ListingInv
<1> QED
  BY <1>3, <1>4 DEF Orphaned

LEMMA TickListed ==
  ASSUME ListingInv, Tick
  PROVE  ListingInv'
<1>1. clock \in Nat /\ clock' = clock + 1 /\ clock' \in 0 .. MaxTime
  BY DEF Tick, ListingInv, ListingTypeOK
<1>2. 0 .. clock \subseteq 0 .. clock'
  BY <1>1
<1>3. ListingTypeOK'
  BY <1>1, <1>2 DEF Tick, ListingInv, ListingTypeOK, Listed
<1>4. ASSUME NEW p \in Procs PROVE Drafted(p)'
  <2>1. pc[p] = "write" => draft[p].updated <= clock'
    BY <1>1 DEF ListingInv, Drafted, Statement
  <2>2. pc[p] # "idle" => clock' <= since[p] + Timeout
    BY <1>1 DEF Tick, ListingInv, ListingTypeOK
  <2> QED
    BY <2>1, <2>2 DEF Tick, ListingInv, Drafted
<1>5. StampsFit' /\ \A st \in orphans' : st.updated <= clock'
  BY <1>1 DEF Tick, ListingInv, ListingTypeOK, StampsFit, Listed, Statement
<1> QED
  BY <1>3, <1>4, <1>5 DEF ListingInv

LEMMA ListingStep == ListingInv /\ [ListingNext]_listVars => ListingInv'
<1> SUFFICES ASSUME ListingInv, [ListingNext]_listVars PROVE ListingInv'
  OBVIOUS
<1>1. CASE UNCHANGED listVars
  BY <1>1 DEF listVars, ListingInv, ListingTypeOK, StampsFit, Drafted, Listed
<1> QED
  BY <1>1, BeginListed, PrepareListed, WriteListed, GiveUpListed, OrphanedListed,
     TickListed DEF ListingNext

\* The inductive invariant.
THEOREM ListingInvariant == ListingSpec => []ListingInv
BY ListingInitInv, ListingStep, PTL DEF ListingSpec

\* Every variable keeps its type: no stamp is later than the clock.
THEOREM ListingTypes == ListingSpec => []ListingTypeOK
<1>1. ListingInv => ListingTypeOK
  BY DEF ListingInv
<1> QED
  BY <1>1, ListingInvariant, PTL

-----------------------------------------------------------------------------
(* Lists *)

\* More than a deadline between two writes shows in the stamps.
LEMMA LaterIsAhead ==
  ASSUME ListingInv, NEW i \in prompt, NEW j \in Listed,
         committed[i] > committed[j] + Timeout
  PROVE  i \in Listed /\ Ahead(i, j)
<1>1. /\ i \in Listed /\ i \in Ids /\ j \in Ids
      /\ clock \in Nat /\ committed[i] \in Nat /\ committed[j] \in Nat
      /\ rows[i] \in 0 .. clock \cup {Nothing} /\ rows[i] # Nothing
      /\ rows[j] \in 0 .. clock \cup {Nothing} /\ rows[j] # Nothing
  BY DEF ListingInv, ListingTypeOK, Listed
<1>2. rows[i] \in Nat /\ rows[j] \in Nat
  BY <1>1
<1>3. rows[j] <= committed[j] /\ committed[i] <= rows[i] + Timeout
  BY <1>1 DEF ListingInv, StampsFit
<1>4. rows[i] > rows[j]
  BY <1>1, <1>2, <1>3
<1> QED
  BY <1>1, <1>4 DEF Ahead, Newer

\* A sequence of a finite set that SetToSeqs lists holds each element once.
LEMMA EachOnce ==
  ASSUME NEW S, IsFiniteSet(S), NEW s \in SetToSeqs(S)
  PROVE  /\ s \in Seq(S) /\ Len(s) \in Nat /\ DOMAIN s = 1 .. Len(s)
         /\ \A x \in S : \E a \in DOMAIN s : s[a] = x
         /\ \A a, b \in DOMAIN s : s[a] = s[b] => a = b
<1> DEFINE n == Cardinality(S)
<1>1. n \in Nat
  BY FS_CardinalityType
<1> HIDE DEF n
<1>2. s \in [1 .. n -> S] /\ \A a, b \in 1 .. n : a # b => s[a] # s[b]
  BY DEF SetToSeqs, n
<1>3. s \in Injection(1 .. n, S)
  BY <1>2 DEF Injection, IsInjective
<1>4. IsFiniteSet(1 .. n) /\ Cardinality(1 .. n) = n
  BY <1>1, FS_Interval
<1>5. s \in Surjection(1 .. n, S)
  BY <1>3, <1>4, FS_Injection DEF n
<1>6. s \in Seq(S) /\ Len(s) = n
  BY <1>1, <1>2
<1> QED
  BY <1>1, <1>2, <1>5, <1>6 DEF Surjection

\* A page is the beginning of the sequence it was cut from.
LEMMA CutProperties ==
  ASSUME NEW S, NEW s \in Seq(S), NEW limit \in Nat
  PROVE  \E n \in 0 .. Len(s) :
           /\ DOMAIN Cut(s, limit) = 1 .. n
           /\ \A a \in 1 .. n : Cut(s, limit)[a] = s[a]
<1> DEFINE n == IF Len(s) > limit THEN limit ELSE Len(s)
<1>1. n \in 0 .. Len(s) /\ n \in Int
  OBVIOUS
<1>2. \A a \in 1 .. n : s[a] \in S
  BY <1>1
<1>3. Cut(s, limit) = SubSeq(s, 1, n)
  BY DEF Cut
<1> HIDE DEF n
<1>4. /\ SubSeq(s, 1, n) \in Seq(S)
      /\ Len(SubSeq(s, 1, n)) = IF 1 <= n THEN n - 1 + 1 ELSE 0
      /\ \A a \in 1 .. n - 1 + 1 : SubSeq(s, 1, n)[a] = s[1 + a - 1]
  BY <1>1, <1>2, SubSeqProperties
<1>5. DOMAIN SubSeq(s, 1, n) = 1 .. n
  BY <1>1, <1>4
<1>6. \A a \in 1 .. n : SubSeq(s, 1, n)[a] = s[a]
  BY <1>1, <1>4
<1> QED
  BY <1>1, <1>3, <1>5, <1>6

\* Whatever the client asked for, the limit is a number.
LEMMA LimitIsNat == ASSUME NEW raw \in RawLimits PROVE limitQuery(raw) \in Nat
BY DEF limitQuery

\* In time and more than a deadline later means further up the list.
THEOREM RecentComesFirst == ListingSpec => []NewerFirst
<1>1. ListingInv => NewerFirst
  <2> SUFFICES ASSUME ListingInv, NEW raw \in RawLimits,
                      NEW page \in listContent(raw),
                      NEW i \in prompt, NEW j \in Listed,
                      j \in Range(page), committed[i] > committed[j] + Timeout
               PROVE  i \in Range(page) /\ Place(page, i) < Place(page, j)
    BY DEF NewerFirst
  <2>1. i \in Listed /\ Ahead(i, j)
    BY LaterIsAhead
  <2>2. PICK s \in Sorted(Listed, Ahead) : page = Cut(s, limitQuery(raw))
    BY DEF listContent, List
  <2>3. /\ s \in SetToSeqs(Listed)
        /\ \A a, b \in DOMAIN s : Ahead(s[a], s[b]) => a < b
    BY DEF Sorted
  <2>4. IsFiniteSet(Listed)
    BY FS_Subset DEF Listed
  <2>5. /\ s \in Seq(Listed) /\ Len(s) \in Nat /\ DOMAIN s = 1 .. Len(s)
        /\ \A x \in Listed : \E a \in DOMAIN s : s[a] = x
        /\ \A a, b \in DOMAIN s : s[a] = s[b] => a = b
    BY <2>3, <2>4, EachOnce
  <2>6. PICK n \in 0 .. Len(s) : /\ DOMAIN page = 1 .. n
                                 /\ \A a \in 1 .. n : page[a] = s[a]
    <3>1. limitQuery(raw) \in Nat
      BY LimitIsNat
    <3>2. \E n \in 0 .. Len(s) :
            /\ DOMAIN Cut(s, limitQuery(raw)) = 1 .. n
            /\ \A a \in 1 .. n : Cut(s, limitQuery(raw))[a] = s[a]
      BY <2>5, <3>1, CutProperties
    <3> QED
      BY <2>2, <3>2
  <2>7. PICK b \in DOMAIN page : page[b] = j
    BY DEF Range
  <2>8. PICK a \in DOMAIN s : s[a] = i
    BY <2>1, <2>5
  <2>9. a < b
    BY <2>1, <2>3, <2>5, <2>6, <2>7, <2>8
  <2>10. a \in DOMAIN page /\ page[a] = i
    BY <2>5, <2>6, <2>7, <2>8, <2>9
  <2>11. Place(page, i) = a
    BY <2>5, <2>6, <2>8, <2>10 DEF Place
  <2>12. Place(page, j) = b
    BY <2>5, <2>6, <2>7 DEF Place
  <2> QED
    BY <2>9, <2>10, <2>11, <2>12 DEF Range
<1> QED
  BY <1>1, ListingInvariant, PTL

-----------------------------------------------------------------------------
(* Sorting again *)

\* Where order is kept, an element stands no further back in s than in t.
LEMMA NotBehind ==
  ASSUME NEW S, IsFiniteSet(S), NEW s \in SetToSeqs(S), NEW t \in SetToSeqs(S),
         \A a, b \in DOMAIN s : \A c, d \in DOMAIN t :
           s[a] = t[c] /\ s[b] = t[d] /\ a < b => c < d,
         NEW a \in DOMAIN s, NEW c \in DOMAIN t, s[a] = t[c]
  PROVE  a <= c
<1>1. /\ Len(s) \in Nat /\ DOMAIN s = 1 .. Len(s)
      /\ \A x, y \in DOMAIN s : s[x] = s[y] => x = y
      /\ \A x \in DOMAIN s : s[x] \in S
  BY EachOnce
<1>2. /\ Len(t) \in Nat /\ DOMAIN t = 1 .. Len(t)
      /\ \A x \in S : \E y \in DOMAIN t : t[y] = x
  BY EachOnce
<1>3. a \in Nat \ {0} /\ c \in Nat \ {0}
  BY <1>1, <1>2
<1> DEFINE f == [x \in 1 .. a - 1 |-> CHOOSE y \in DOMAIN t : t[y] = s[x]]
<1>4. ASSUME NEW x \in 1 .. a - 1
      PROVE  /\ x \in DOMAIN s
             /\ f[x] \in DOMAIN t /\ t[f[x]] = s[x]
             /\ f[x] \in 1 .. c - 1
  <2>1. x \in DOMAIN s /\ x < a
    BY <1>1, <1>3
  <2>2. \E y \in DOMAIN t : t[y] = s[x]
    BY <1>1, <1>2, <2>1
  <2>3. f[x] \in DOMAIN t /\ t[f[x]] = s[x]
    BY <2>2
  <2> HIDE DEF f
  <2>4. f[x] < c
    BY <2>1, <2>3
  <2> QED
    BY <1>2, <1>3, <2>1, <2>3, <2>4
<1>5. ASSUME NEW x \in 1 .. a - 1, NEW y \in 1 .. a - 1, f[x] = f[y]
      PROVE  x = y
  <2> HIDE DEF f
  <2> QED
    BY <1>1, <1>4, <1>5
<1>6. f \in Injection(1 .. a - 1, 1 .. c - 1)
  <2>1. f \in [1 .. a - 1 -> 1 .. c - 1]
    BY <1>4
  <2> HIDE DEF f
  <2> QED
    BY <1>5, <2>1 DEF Injection, IsInjective
<1> HIDE DEF f
<1>7. /\ IsFiniteSet(1 .. a - 1) /\ Cardinality(1 .. a - 1) = a - 1
      /\ IsFiniteSet(1 .. c - 1) /\ Cardinality(1 .. c - 1) = c - 1
  <2>1. ASSUME NEW n \in Nat \ {0}
        PROVE  IsFiniteSet(1 .. n - 1) /\ Cardinality(1 .. n - 1) = n - 1
    <3>1. n - 1 \in Int
      OBVIOUS
    <3>2. /\ IsFiniteSet(1 .. n - 1)
          /\ Cardinality(1 .. n - 1) = IF 1 > n - 1 THEN 0 ELSE n - 1 - 1 + 1
      BY <3>1, FS_Interval
    <3> QED
      BY <3>2
  <2> QED
    BY <1>3, <2>1
<1>8. a - 1 <= c - 1
  BY <1>6, <1>7, FS_Injection
<1> QED
  BY <1>3, <1>8

\* Two sequences of one set that agree about the order of every two elements
\* are the same.
LEMMA OneOrder ==
  ASSUME NEW S, IsFiniteSet(S), NEW s \in SetToSeqs(S), NEW t \in SetToSeqs(S),
         \A a, b \in DOMAIN s : \A c, d \in DOMAIN t :
           s[a] = t[c] /\ s[b] = t[d] /\ a < b => c < d
  PROVE  s = t
<1>1. /\ s \in Seq(S) /\ Len(s) \in Nat /\ DOMAIN s = 1 .. Len(s)
      /\ \A x, y \in DOMAIN s : s[x] = s[y] => x = y
      /\ \A x \in DOMAIN s : s[x] \in S
  BY EachOnce
<1>2. /\ t \in Seq(S) /\ Len(t) \in Nat /\ DOMAIN t = 1 .. Len(t)
      /\ \A x \in S : \E y \in DOMAIN t : t[y] = x
      /\ \A x, y \in DOMAIN t : t[x] = t[y] => x = y
  BY EachOnce
<1>3. \A c, d \in DOMAIN t : \A a, b \in DOMAIN s :
        t[c] = s[a] /\ t[d] = s[b] /\ c < d => a < b
  <2> SUFFICES ASSUME NEW c \in DOMAIN t, NEW d \in DOMAIN t,
                      NEW a \in DOMAIN s, NEW b \in DOMAIN s,
                      t[c] = s[a], t[d] = s[b], c < d
               PROVE  a < b
    OBVIOUS
  <2>1. a # b
    BY <1>2
  <2>2. ~ b < a
    <3> SUFFICES ASSUME b < a PROVE FALSE
      OBVIOUS
    <3>1. d < c
      OBVIOUS
    <3> QED
      BY <1>2, <3>1
  <2> QED
    BY <1>1, <2>1, <2>2
<1>4. ASSUME NEW a \in DOMAIN s PROVE a \in DOMAIN t /\ s[a] = t[a]
  <2>1. PICK c \in DOMAIN t : t[c] = s[a]
    BY <1>1, <1>2
  <2>2. a <= c
    BY <2>1, NotBehind
  <2>3. c <= a
    BY <1>3, <2>1, NotBehind
  <2> QED
    BY <1>1, <1>2, <2>1, <2>2, <2>3
<1>5. DOMAIN s = DOMAIN t
  BY DEF SetToSeqs
<1>6. Len(s) = Len(t) /\ \A a \in 1 .. Len(s) : s[a] = t[a]
  <2>1. 1 .. Len(s) = 1 .. Len(t)
    BY <1>1, <1>2, <1>5
  <2>2. Len(s) = Len(t)
    <3> DEFINE m == Len(s)
               n == Len(t)
    <3>1. m \in Nat /\ n \in Nat /\ 1 .. m = 1 .. n
      BY <1>1, <1>2, <2>1
    <3> HIDE DEF m, n
    <3>2. m \in 1 .. m \/ m = 0
      BY <3>1
    <3>3. n \in 1 .. n \/ n = 0
      BY <3>1
    <3>4. m <= n
      BY <3>1, <3>2
    <3>5. n <= m
      BY <3>1, <3>3
    <3>6. m = n
      BY <3>1, <3>4, <3>5
    <3> QED
      BY <3>6 DEF m, n
  <2>3. \A a \in 1 .. Len(s) : s[a] = t[a]
    BY <1>1, <1>4
  <2> QED
    BY <2>2, <2>3
<1>7. s \in Seq(S) /\ t \in Seq(S)
  BY <1>1, <1>2
<1> HIDE DEF SetToSeqs
<1> QED
  BY ONLY <1>6, <1>7, SeqEqual

\* A sequence without repetitions is one of those that list its elements.
LEMMA ListsItsRange ==
  ASSUME NEW S, NEW s \in Seq(S), \A a, b \in DOMAIN s : s[a] = s[b] => a = b
  PROVE  /\ IsFiniteSet(Range(s)) /\ Cardinality(Range(s)) = Len(s)
         /\ s \in SetToSeqs(Range(s))
<1>1. Len(s) \in Nat /\ DOMAIN s = 1 .. Len(s)
  BY LenProperties
<1>2. s \in [1 .. Len(s) -> Range(s)]
  BY <1>1 DEF Range
<1>3. s \in Bijection(1 .. Len(s), Range(s))
  BY <1>1, <1>2 DEF Bijection, Injection, Surjection, IsInjective, Range
<1>4. ExistsBijection(1 .. Len(s), Range(s))
  BY <1>3 DEF ExistsBijection
<1>5. IsFiniteSet(1 .. Len(s))
  BY <1>1, FS_Interval
<1>6. IsFiniteSet(Range(s)) /\ Cardinality(Range(s)) = Len(s)
  BY <1>1, <1>4, <1>5, FS_Bijection, FS_CountingElements
<1> QED
  BY <1>1, <1>2, <1>6 DEF SetToSeqs

\* How long a page may be.
Shown(limit) == IF Cardinality(Listed) > limit THEN limit ELSE Cardinality(Listed)

\* What a page of the list looks like.
LEMMA PageProperties ==
  ASSUME NEW limit \in Nat, NEW page \in List(limit)
  PROVE  /\ page \in Seq(Listed)
         /\ Len(page) = Shown(limit)
         /\ DOMAIN page = 1 .. Len(page)
         /\ \A a, b \in DOMAIN page : page[a] = page[b] => a = b
         /\ \A a, b \in DOMAIN page : Ahead(page[a], page[b]) => a < b
<1>1. PICK s \in Sorted(Listed, Ahead) : page = Cut(s, limit)
  BY DEF List
<1>2. /\ s \in SetToSeqs(Listed)
      /\ \A a, b \in DOMAIN s : Ahead(s[a], s[b]) => a < b
  BY DEF Sorted
<1>3. IsFiniteSet(Listed)
  BY FS_Subset DEF Listed
<1>4. Cardinality(Listed) \in Nat
  BY <1>3, FS_CardinalityType
<1>5. /\ s \in Seq(Listed) /\ DOMAIN s = 1 .. Len(s)
      /\ \A a, b \in DOMAIN s : s[a] = s[b] => a = b
  BY <1>2, <1>3, EachOnce
<1>6. Len(s) = Cardinality(Listed)
  <2>1. DOMAIN s = 1 .. Cardinality(Listed)
    BY <1>2 DEF SetToSeqs
  <2> QED
    BY <1>4, <1>5, <2>1
<1> DEFINE n == Shown(limit)
<1>7. n \in 0 .. Len(s) /\ n \in Int
  BY <1>4, <1>6 DEF Shown
<1>8. page = SubSeq(s, 1, n)
  BY <1>1, <1>6 DEF Cut, Shown
<1> HIDE DEF n
<1>9. \A a \in 1 .. n : s[a] \in Listed
  BY <1>5, <1>7
<1>10. /\ page \in Seq(Listed)
       /\ Len(page) = IF 1 <= n THEN n - 1 + 1 ELSE 0
       /\ \A a \in 1 .. n - 1 + 1 : page[a] = s[1 + a - 1]
  BY <1>7, <1>8, <1>9, SubSeqProperties
<1>11. /\ Len(page) = n /\ DOMAIN page = 1 .. n
       /\ \A a \in 1 .. n : page[a] = s[a] /\ a \in DOMAIN s
  BY <1>5, <1>7, <1>10
<1> QED
  BY <1>2, <1>5, <1>10, <1>11 DEF n

\* A page is cut no further at the limit it was cut at, or above it.
LEMMA CutAgain ==
  ASSUME NEW S, NEW s \in Seq(S), NEW limit \in Nat, Len(s) <= limit
  PROVE  Cut(s, limit) = s
<1>1. Len(s) \in Nat /\ ~ Len(s) > limit /\ \A a \in 1 .. Len(s) : s[a] \in S
  OBVIOUS
<1>2. Cut(s, limit) = SubSeq(s, 1, Len(s))
  BY <1>1 DEF Cut
<1>3. /\ SubSeq(s, 1, Len(s)) \in Seq(S)
      /\ Len(SubSeq(s, 1, Len(s))) = IF 1 <= Len(s) THEN Len(s) - 1 + 1 ELSE 0
      /\ \A a \in 1 .. Len(s) - 1 + 1 : SubSeq(s, 1, Len(s))[a] = s[1 + a - 1]
  BY <1>1, SubSeqProperties
<1>4. /\ Len(SubSeq(s, 1, Len(s))) = Len(s)
      /\ \A a \in 1 .. Len(s) : SubSeq(s, 1, Len(s))[a] = s[a]
  BY <1>1, <1>3
<1> QED
  BY <1>2, <1>3, <1>4, SeqEqual

\* A page that is sorted again by updated_at, stably, is the page it was.
LEMMA SortedAgain ==
  ASSUME ListingInv, NEW limit \in Nat, NEW page \in List(limit), NEW cut \in Nat
  PROVE  feedRowsForItems(page, cut) = {Cut(page, cut)}
<1> DEFINE ahead(i, j) == \/ Newer(i, j)
                          \/ rows[i] = rows[j] /\ Place(page, i) < Place(page, j)
           T == Range(page)
           sorted(s) == \A a, b \in DOMAIN s : ahead(s[a], s[b]) => a < b
<1>1. feedRowsForItems(page, cut) = {Cut(s, cut) : s \in {s \in SetToSeqs(T) : sorted(s)}}
  BY DEF feedRowsForItems, Sorted
<1>2. /\ page \in Seq(Listed) /\ Len(page) \in Nat /\ DOMAIN page = 1 .. Len(page)
      /\ \A a, b \in DOMAIN page : page[a] = page[b] => a = b
      /\ \A a, b \in DOMAIN page : Ahead(page[a], page[b]) => a < b
  BY PageProperties, LenProperties
<1>3. IsFiniteSet(T) /\ page \in SetToSeqs(T)
  BY <1>2, ListsItsRange
<1>4. \A a \in DOMAIN page : Place(page, page[a]) = a
  BY <1>2 DEF Place
<1>5. \A a \in DOMAIN page : rows[page[a]] \in Nat
  <2>1. clock \in Nat /\ \A i \in Listed : rows[i] \in 0 .. clock
    BY DEF ListingInv, ListingTypeOK, Listed
  <2> QED
    BY <1>2, <2>1
<1>6. \A a, b \in DOMAIN page : ahead(page[a], page[b]) <=> a < b
  <2> SUFFICES ASSUME NEW a \in DOMAIN page, NEW b \in DOMAIN page
               PROVE  ahead(page[a], page[b]) <=> a < b
    OBVIOUS
  <2>1. a \in Nat /\ b \in Nat /\ rows[page[a]] \in Nat /\ rows[page[b]] \in Nat
    BY <1>2, <1>5
  <2>2. Place(page, page[a]) = a /\ Place(page, page[b]) = b
    BY <1>4
  <2>3. rows[page[a]] > rows[page[b]] => a < b
    BY <1>2 DEF Ahead, Newer
  <2>4. rows[page[b]] > rows[page[a]] => b < a
    BY <1>2 DEF Ahead, Newer
  <2> QED
    BY <2>1, <2>2, <2>3, <2>4 DEF Newer
<1>7. sorted(page)
  BY <1>6
<1>8. ASSUME NEW s \in SetToSeqs(T), sorted(s)
      PROVE  s = page
  <2>1. ASSUME NEW a \in DOMAIN page, NEW b \in DOMAIN page,
               NEW c \in DOMAIN s, NEW d \in DOMAIN s,
               page[a] = s[c], page[b] = s[d], a < b
        PROVE  c < d
    <3>1. ahead(s[c], s[d])
      BY <1>6, <2>1
    <3> QED
      BY <1>8, <3>1
  <2> HIDE DEF T, sorted, ahead
  <2>2. \A a, b \in DOMAIN page : \A c, d \in DOMAIN s :
          page[a] = s[c] /\ page[b] = s[d] /\ a < b => c < d
    BY <2>1
  <2> QED
    BY <1>3, <2>2, OneOrder
<1> HIDE DEF T, sorted
<1>9. {s \in SetToSeqs(T) : sorted(s)} = {page}
  BY <1>3, <1>7, <1>8
<1> QED
  BY <1>1, <1>9

\* The limit of the route is one that CommunityFeed keeps.
LEMMA LimitInRange ==
  ASSUME NEW raw \in RawLimits
  PROVE  /\ limitQuery(raw) \in 1 .. MaxLimit
         /\ feedLimit(limitQuery(raw)) = limitQuery(raw)
<1>1. /\ DefaultLimit \in Nat \ {0} /\ MaxLimit \in Nat \ {0} /\ FeedMax \in Nat \ {0}
      /\ DefaultLimit <= MaxLimit /\ MaxLimit <= FeedMax
      /\ raw \in Int \cup {Malformed} /\ Malformed \notin Int
  BY ListingAssumption
<1>2. limitQuery(raw) \in 1 .. MaxLimit
  <2>1. CASE raw = Malformed
    BY <1>1, <2>1 DEF limitQuery
  <2>2. CASE raw # Malformed /\ raw <= 0
    BY <1>1, <2>2 DEF limitQuery
  <2>3. CASE raw # Malformed /\ raw > MaxLimit
    BY <1>1, <2>3 DEF limitQuery
  <2>4. CASE raw # Malformed /\ ~ raw <= 0 /\ ~ raw > MaxLimit
    BY <1>1, <2>4 DEF limitQuery
  <2> QED
    BY <2>1, <2>2, <2>3, <2>4
<1> QED
  BY <1>1, <1>2 DEF feedLimit

\* The feed of a route shows just what the list of that route shows.
LEMMA FeedIsList ==
  ASSUME ListingInv, NEW raw \in RawLimits
  PROVE  communityFeed(raw) = listContent(raw)
<1> DEFINE limit == limitQuery(raw)
<1>1. limit \in Nat /\ feedLimit(limit) = limit
  BY LimitInRange, LimitIsNat
<1> HIDE DEF limit
<1>2. ASSUME NEW page \in List(limit)
      PROVE  feedRowsForItems(page, limit) = {page}
  <2>1. page \in Seq(Listed) /\ Len(page) = Shown(limit)
    BY <1>1, PageProperties
  <2>2. Shown(limit) <= limit
    <3>1. Cardinality(Listed) \in Nat
      BY FS_Subset, FS_CardinalityType DEF Listed
    <3> QED
      BY <1>1, <3>1 DEF Shown
  <2>3. Cut(page, limit) = page
    BY <1>1, <2>1, <2>2, CutAgain
  <2> QED
    BY <1>1, <2>3, SortedAgain
<1>3. communityFeed(raw) = UNION {feedRowsForItems(page, limit) : page \in List(limit)}
  BY <1>1 DEF communityFeed, limit
<1>4. UNION {feedRowsForItems(page, limit) : page \in List(limit)} = List(limit)
  BY <1>2
<1> QED
  BY <1>3, <1>4 DEF listContent, limit

\* FeedFollowsList: whatever the times and the titles, the second sort of the
\* feed and of the recent items of a portfolio moves nothing.
THEOREM FeedShowsTheList == ListingSpec => []FeedFollowsList
<1>1. ListingInv => FeedFollowsList
  <2> SUFFICES ASSUME ListingInv, NEW raw \in RawLimits
               PROVE  /\ communityFeed(raw) = listContent(raw)
                      /\ \A page \in listContent(raw) :
                           recent(page) = {Cut(page, RecentLimit)}
    BY DEF FeedFollowsList
  <2>1. RecentLimit \in Nat
    BY ListingAssumption
  <2>2. \A page \in listContent(raw) : recent(page) = {Cut(page, RecentLimit)}
    BY <2>1, LimitIsNat, SortedAgain DEF listContent, recent
  <2> QED
    BY <2>2, FeedIsList
<1> QED
  BY <1>1, ListingInvariant, PTL

\* MoreIsNeverLess: a feed has as many items as there are, up to the limit of
\* the route, which lies between 1 and maxListLimit and follows what was asked.
THEOREM FeedsGrow == ListingSpec => []MoreIsNeverLess
<1>1. ListingInv => MoreIsNeverLess
  <2> SUFFICES ASSUME ListingInv PROVE MoreIsNeverLess
    OBVIOUS
  <2> DEFINE lengths == [raw \in RawLimits |-> {Len(page) : page \in communityFeed(raw)}]
  <2>1. Cardinality(Listed) \in Nat /\ (Listed # {} => Cardinality(Listed) > 0)
    <3>1. IsFiniteSet(Listed)
      BY FS_Subset DEF Listed
    <3> QED
      BY <3>1, FS_CardinalityType, FS_EmptySet
  <2>2. ASSUME NEW raw \in RawLimits, NEW n \in lengths[raw]
        PROVE  n = Shown(limitQuery(raw))
    <3>1. PICK page \in listContent(raw) : n = Len(page)
      BY FeedIsList
    <3> QED
      BY <3>1, LimitIsNat, PageProperties DEF listContent
  <2> HIDE DEF lengths
  <2>3. ASSUME NEW raw \in RawLimits, NEW n \in lengths[raw]
        PROVE  n <= MaxLimit /\ (Listed # {} => n > 0)
    BY <2>1, <2>2, LimitInRange DEF Shown
  <2>4. ASSUME NEW raw \in RawLimits \ {Malformed}, NEW more \in RawLimits \ {Malformed},
               0 < raw, raw <= more,
               NEW m \in lengths[raw], NEW n \in lengths[more]
        PROVE  m <= n
    <3>1. raw \in Int /\ more \in Int /\ MaxLimit \in Nat
      BY ListingAssumption
    <3>2. limitQuery(raw) <= limitQuery(more)
      BY <2>4, <3>1 DEF limitQuery
    <3>3. limitQuery(raw) \in Nat /\ limitQuery(more) \in Nat
      BY LimitIsNat
    <3>4. m = Shown(limitQuery(raw)) /\ n = Shown(limitQuery(more))
      BY <2>2
    <3> QED
      BY <2>1, <3>2, <3>3, <3>4 DEF Shown
  <2> QED
    BY <2>3, <2>4 DEF MoreIsNeverLess, lengths
<1> QED
  BY <1>1, ListingInvariant, PTL
=============================================================================
