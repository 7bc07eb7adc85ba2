--------------------------- MODULE RoutePartsProofs ---------------------------
(***************************************************************************)
(* Two parts that routes use.  The feed model, for every source, query,    *)
(* limit and order that a sort may leave: the limit keeps the newest       *)
(* items, the two filters agree, windows err by leaving out, pages fill the *)
(* feed to its limit, and answering requests neither adds an item to the   *)
(* shared slice nor takes one from it.  The date parser, for every phrase  *)
(* and clock: weekdays and periods follow the calendar, and months last as *)
(* long as it has it.                                                      *)
(***************************************************************************)
EXTENDS FeedItems, DateParsing, TLAPS, FiniteSetTheorems

-----------------------------------------------------------------------------
(* Arithmetic.                                                             *)

LEMMA ModSmall == ASSUME NEW a \in Nat, NEW b \in Nat, a < b PROVE a % b = a
OBVIOUS

LEMMA TimesGrows == ASSUME NEW a \in Nat, NEW b \in Nat, NEW s \in Nat, a <= b PROVE a * s <= b * s
OBVIOUS

(* A set of naturals has a least element. *)
LEMMA Least ==
  ASSUME NEW T \in SUBSET Nat, T # {} PROVE \E x \in T : \A y \in T : x <= y
<1> DEFINE R == {ss \in Nat \X Nat : ss[1] < ss[2]}
<1>1. OpToRel(<, Nat) = R
  BY Zenon DEF OpToRel
<1>2. IsWellFoundedOn(R, Nat)
  BY <1>1, NatLessThanWellFounded, Zenon
<1>3. \A x, y \in Nat : y < x => <<y, x>> \in R
  OBVIOUS
<1> HIDE DEF R
<1>4. \E x \in T : \A y \in T : ~(<<y, x>> \in R)
  BY <1>2, WFMin
<1>5. PICK x \in T : \A y \in T : ~(<<y, x>> \in R)
  BY <1>4
<1>6. \A y \in T : x \in Nat /\ y \in Nat /\ ~(y < x)
  BY <1>3, <1>5, Zenon
<1>7. \A y \in T : x <= y
  BY <1>6
<1> QED
  BY <1>7

-----------------------------------------------------------------------------
(* The stages.                                                             *)

(* An order lists the kept places, each once. *)
LEMMA OrdersAre ==
  ASSUME NEW list, NEW N \in Nat, NEW I \in SUBSET (1 .. N), NEW sort, NEW f \in Orders(list, I, sort)
  PROVE  /\ IsFiniteSet(I) /\ Cardinality(I) \in Nat
         /\ f \in [1 .. Cardinality(I) -> I]
         /\ \A m, n \in 1 .. Cardinality(I) : f[m] = f[n] => m = n
         /\ \A i \in I : \E n \in 1 .. Cardinality(I) : f[n] = i
<1>1. IsFiniteSet(I) /\ Cardinality(I) \in Nat
  <2>1. IsFiniteSet(1 .. N)
    BY FS_Interval
  <2> QED
    BY <2>1, FS_Subset, FS_CardinalityType
<1>2. f \in Bijection(1 .. Cardinality(I), I)
  BY DEF Orders
<1>3. f \in [1 .. Cardinality(I) -> I] /\ IsInjective(f) /\ \A i \in I : \E n \in 1 .. Cardinality(I) : f[n] = i
  BY <1>2 DEF Bijection, Injection, Surjection
<1> QED
  BY <1>1, <1>3 DEF IsInjective

(* They come in the order of the slice, or as the sort says. *)
LEMMA InOrder ==
  ASSUME NEW list, NEW I, NEW f \in Orders(list, I, FALSE), NEW m \in DOMAIN f, NEW n \in DOMAIN f, m < n
  PROVE  f[m] < f[n]
BY Zenon DEF Orders

LEMMA InDateOrder ==
  ASSUME NEW list, NEW I, NEW f \in Orders(list, I, TRUE), NEW m \in DOMAIN f, NEW n \in DOMAIN f, m < n
  PROVE  ~Before(list[f[n]], list[f[m]])
BY Zenon DEF Orders

LEMMA PickedIs ==
  ASSUME NEW list \in Seq(Item), NEW I \in SUBSET DOMAIN list, NEW c \in Nat, NEW f \in [1 .. c -> I]
  PROVE  /\ Picked(list, f) \in Seq(Item) /\ Len(Picked(list, f)) = c
         /\ \A n \in 1 .. c : Picked(list, f)[n] = list[f[n]]
<1>1. Picked(list, f) = [n \in 1 .. c |-> list[f[n]]]
  BY DEF Picked
<1>2. \A n \in 1 .. c : f[n] \in DOMAIN list /\ list[f[n]] \in Item
  OBVIOUS
<1>3. Picked(list, f) \in [1 .. c -> Item]
  BY <1>1, <1>2
<1> QED
  BY <1>1, <1>3

LEMMA CappedIs ==
  ASSUME NEW s \in Seq(Item), NEW limit \in Number \cup {Absent}
  PROVE  /\ Capped(s, limit) \in Seq(Item) /\ Len(Capped(s, limit)) <= Len(s)
         /\ \A n \in 1 .. Len(Capped(s, limit)) : Capped(s, limit)[n] = s[n]
         /\ Len(Capped(s, limit)) < Len(s) => Reads(limit) /\ Len(Capped(s, limit)) = limit.num
<1>1. CASE ~Reads(limit) \/ limit.num <= 0 \/ limit.num > Len(s)
  BY <1>1 DEF Capped
<1>2. CASE ~(~Reads(limit) \/ limit.num <= 0 \/ limit.num > Len(s))
  <2> DEFINE k == limit.num
  <2>1. Reads(limit) /\ k \in Int /\ k > 0 /\ k <= Len(s) /\ Capped(s, limit) = SubSeq(s, 1, k)
    BY <1>2 DEF Capped, Reads, Number
  <2> HIDE DEF k
  <2>2. /\ SubSeq(s, 1, k) \in Seq(Item) /\ Len(SubSeq(s, 1, k)) = k
        /\ \A n \in 1 .. k : SubSeq(s, 1, k)[n] = s[n]
    BY <2>1
  <2> QED
    BY <2>1, <2>2 DEF k
<1> QED
  BY <1>1, <1>2

LEMMA BrieflyIs ==
  ASSUME NEW s \in Seq(Item), NEW brief
  PROVE  /\ DOMAIN Briefly(s, brief) = 1 .. Len(s) /\ Len(Briefly(s, brief)) = Len(s)
         /\ \A n \in 1 .. Len(s) : /\ Briefly(s, brief)[n].id = s[n].id
                                   /\ Briefly(s, brief)[n].date = s[n].date
<1>1. CASE brief = Absent
  BY <1>1 DEF Briefly
<1>2. CASE brief # Absent
  <2> DEFINE most == IF Reads(brief) /\ brief.num > 0 THEN brief.num ELSE 100
             b == [n \in DOMAIN s |-> [s[n] EXCEPT !.runes = Truncated(@, most)]]
  <2>1. Briefly(s, brief) = b
    BY <1>2 DEF Briefly
  <2> HIDE DEF most
  <2>2. DOMAIN b = 1 .. Len(s)
    OBVIOUS
  <2>3. \A n \in 1 .. Len(s) : b[n].id = s[n].id /\ b[n].date = s[n].date
    <3> TAKE n \in 1 .. Len(s)
    <3>1. s[n] \in Item
      OBVIOUS
    <3>2. b[n] = [s[n] EXCEPT !.runes = Truncated(@, most)]
      OBVIOUS
    <3> QED
      BY <3>1, <3>2 DEF Item
  <2>4. b \in Seq({b[n] : n \in 1 .. Len(s)}) /\ Len(b) = Len(s)
    <3>1. b \in [1 .. Len(s) -> {b[n] : n \in 1 .. Len(s)}]
      BY <2>2
    <3> HIDE DEF b
    <3> QED
      BY <3>1
  <2> QED
    BY <2>1, <2>2, <2>3, <2>4
<1> QED
  BY <1>1, <1>2

LEMMA KeptPlaces ==
  ASSUME NEW list, NEW query
  PROVE  KeptByProcess(list, query) \in SUBSET DOMAIN list /\ KeptByApply(list, query) \in SUBSET DOMAIN list
BY DEF KeptByProcess, KeptByApply


-----------------------------------------------------------------------------
(* The invariant: how an answer came about.                                *)

SameDates(a, b) ==
  /\ DOMAIN a = 1 .. Len(b) /\ Len(a) = Len(b)
  /\ \A n \in 1 .. Len(b) : a[n].id = b[n].id /\ a[n].date = b[n].date

(* list answers a query if it is the kept places in some order, capped;    *)
(* brief mode changes neither dates nor identities.                        *)
Answered(who, from, query, list) ==
  \E f \in Orders(from, KeptBy(who, from, query), Sorts(query)) :
    SameDates(list, Capped(Picked(from, f), query.limit))

AnswerInv ==
  /\ items \in Seq(Item)
  /\ reply.by \in Answers =>
       /\ reply.from \in Seq(Item) /\ reply.query \in Query
       /\ Answered(reply.by, reply.from, reply.query, reply.items)

LEMMA OrdersPicked ==
  ASSUME NEW list \in Seq(Item), NEW I \in SUBSET DOMAIN list, NEW sort \in BOOLEAN, NEW f \in Orders(list, I, sort)
  PROVE  /\ Picked(list, f) \in Seq(Item) /\ Len(Picked(list, f)) = Cardinality(I)
         /\ \A n \in 1 .. Cardinality(I) : Picked(list, f)[n] = list[f[n]]
<1>1. Len(list) \in Nat /\ DOMAIN list = 1 .. Len(list)
  OBVIOUS
<1>2. Cardinality(I) \in Nat /\ f \in [1 .. Cardinality(I) -> I]
  BY <1>1, OrdersAre
<1> QED
  BY <1>2, PickedIs

LEMMA SortsIs == ASSUME NEW query PROVE Sorts(query) \in BOOLEAN
BY DEF Sorts

LEMMA KeptIs ==
  ASSUME NEW who, NEW list, NEW query PROVE KeptBy(who, list, query) \in SUBSET DOMAIN list
BY KeptPlaces DEF KeptBy

LEMMA ProcessAnswers ==
  ASSUME AnswerInv, NEW query \in Query, Process(query) PROVE AnswerInv'
<1> DEFINE K == KeptByProcess(items, query)
<1> PICK f \in Orders(items, K, Sorts(query)) :
      reply' = [by |-> "process", query |-> query, from |-> items,
                items |-> Briefly(Capped(Picked(items, f), query.limit), query.brief)]
  BY DEF Process
<1> DEFINE c == Capped(Picked(items, f), query.limit)
<1>1. items' = items /\ items \in Seq(Item) /\ query.limit \in Number \cup {Absent}
  BY DEF Process, AnswerInv, Query
<1>2. c \in Seq(Item)
  BY <1>1, SortsIs, KeptPlaces, OrdersPicked, CappedIs
<1>3. SameDates(Briefly(c, query.brief), c)
  BY <1>2, BrieflyIs DEF SameDates
<1>4. reply'.by = "process" /\ reply'.from = items /\ reply'.query = query /\ reply'.items = Briefly(c, query.brief)
  OBVIOUS
<1>5. K = KeptBy("process", items, query)
  BY DEF KeptBy
<1> HIDE DEF K
<1>6. Answered("process", items, query, Briefly(c, query.brief))
  BY <1>3, <1>5 DEF Answered
<1> QED
  BY <1>1, <1>4, <1>6 DEF AnswerInv, Answered

LEMMA ApplyAnswers ==
  ASSUME AnswerInv, NEW query \in Query, Apply(query) PROVE AnswerInv'
<1> DEFINE K == KeptByApply(items, query)
<1> PICK f \in Orders(items, K, Sorts(query)) :
      /\ reply' = [by |-> "apply", query |-> query, from |-> items,
                   items |-> Capped(Picked(items, f), query.limit)]
      /\ items' = IF Aliased(query) THEN Picked(items, f) ELSE items
  BY DEF Apply
<1> DEFINE p == Picked(items, f)
           c == Capped(p, query.limit)
<1>1. items \in Seq(Item) /\ query.limit \in Number \cup {Absent}
  BY DEF AnswerInv, Query
<1>2. p \in Seq(Item)
  BY <1>1, SortsIs, KeptPlaces, OrdersPicked
<1>3. c \in Seq(Item)
  BY <1>1, <1>2, CappedIs
<1>4. SameDates(c, c)
  BY <1>3 DEF SameDates
<1>5. reply'.by = "apply" /\ reply'.from = items /\ reply'.query = query /\ reply'.items = c
  OBVIOUS
<1>6. K = KeptBy("apply", items, query)
  BY DEF KeptBy
<1>7. items' \in Seq(Item)
  BY <1>1, <1>2
<1> HIDE DEF K
<1>8. Answered("apply", items, query, c)
  BY <1>4, <1>6 DEF Answered
<1> QED
  BY <1>5, <1>1, <1>7, <1>8 DEF AnswerInv, Answered

LEMMA AppendedIs ==
  ASSUME FeedAssumption, NEW list \in Seq(Item), NEW entries \in Source, NEW I \in SUBSET Usable(entries),
         NEW f \in Orders(entries, I, FALSE)
  PROVE  /\ Appended(list, entries, f) \in Seq(Item)
         /\ Len(Appended(list, entries, f)) = Len(list) + Cardinality(I)
         /\ Cardinality(I) \in Nat /\ IsFiniteSet(Usable(entries))
<1>1. entries \in Seq(Item \cup {Nothing}) /\ Len(entries) \in Nat /\ DOMAIN entries = 1 .. Len(entries)
  BY DEF FeedAssumption
<1>2. Usable(entries) \in SUBSET (1 .. Len(entries)) /\ \A i \in Usable(entries) : entries[i] \in Item
  BY <1>1 DEF Usable
<1>3. I \in SUBSET (1 .. Len(entries))
  BY <1>2
<1> DEFINE c == Cardinality(I)
<1>4. c \in Nat /\ f \in [1 .. c -> I]
  BY <1>1, <1>3, OrdersAre
<1> HIDE DEF c
<1> DEFINE new == [n \in DOMAIN f |-> [entries[f[n]] EXCEPT !.id = Len(list) + n]]
<1>5. ASSUME NEW n \in 1 .. c PROVE [entries[f[n]] EXCEPT !.id = Len(list) + n] \in Item
  <2>1. entries[f[n]] \in Item /\ Len(list) + n \in Nat
    BY <1>2, <1>4
  <2> QED
    BY <2>1 DEF Item
<1>6. new \in [1 .. c -> Item]
  BY <1>4, <1>5
<1>7. Appended(list, entries, f) = list \o new
  BY DEF Appended
<1> HIDE DEF new
<1>8. new \in Seq(Item) /\ Len(new) = c
  BY <1>4, <1>6
<1>9. list \o new \in Seq(Item) /\ Len(list \o new) = Len(list) + c
  <2>1. list \o new \in Seq(Item)
    BY <1>8
  <2>2. Len(list \o new) = Len(list) + Len(new)
    BY <1>8
  <2> QED
    BY <1>8, <2>1, <2>2
<1>10. IsFiniteSet(Usable(entries))
  <2>1. IsFiniteSet(1 .. Len(entries))
    BY <1>1, FS_Interval
  <2> QED
    BY <1>2, <2>1, FS_Subset, Zenon
<1> QED
  BY <1>4, <1>7, <1>9, <1>10 DEF c

LEMMA CollectKeepsItems ==
  ASSUME FeedAssumption, AnswerInv, NEW entries \in Source, NEW limit \in Limits, Collect(entries, limit)
  PROVE  AnswerInv'
<1>1. PICK f \in Orders(entries, Chosen(items, entries, limit), FALSE) : items' = Appended(items, entries, f)
  BY DEF Collect
<1>2. Chosen(items, entries, limit) \in SUBSET Usable(entries)
  BY DEF Chosen
<1>3. items' \in Seq(Item)
  BY <1>1, <1>2, AppendedIs DEF AnswerInv
<1>4. reply'.by = "collect"
  BY DEF Collect
<1> QED
  BY <1>3, <1>4 DEF AnswerInv, Answers

LEMMA AnswerNext ==
  ASSUME FeedAssumption, AnswerInv, [FeedNext]_feedVars PROVE AnswerInv'
<1>1. ASSUME NEW entries \in Source, NEW limit \in Limits, Collect(entries, limit) PROVE AnswerInv'
  BY <1>1, CollectKeepsItems
<1>2. ASSUME NEW query \in Queries, Process(query) \/ Apply(query) PROVE AnswerInv'
  <2>1. query \in Query
    BY DEF FeedAssumption
  <2> QED
    BY <1>2, <2>1, ProcessAnswers, ApplyAnswers
<1>3. ASSUME NEW query \in Queries, ApplyFails(query) PROVE AnswerInv'
  <2>1. items' = items /\ reply'.by = "error"
    BY <1>3 DEF ApplyFails
  <2> QED
    BY <2>1 DEF AnswerInv, Answers
<1>4. CASE UNCHANGED feedVars
  BY <1>4 DEF feedVars, AnswerInv, Answered
<1> QED
  BY <1>1, <1>2, <1>3, <1>4 DEF FeedNext

(* Every answer is the kept items in an order the sort may leave, capped.  *)
THEOREM AnswersInvariant == FeedSpec => []AnswerInv
<1>1. FeedInit => AnswerInv
  BY DEF FeedInit, NoReply, AnswerInv, Answers
<1>2. AnswerInv /\ [FeedNext]_feedVars => AnswerInv'
  BY FeedAssumption, AnswerNext
<1> QED
  BY <1>1, <1>2, PTL DEF FeedSpec

-----------------------------------------------------------------------------
(* Properties of answers.                                                  *)

(* An answer's n-th item is that of the kept place f[n]; only the limit    *)
(* makes the answer shorter than what is kept.                             *)
LEMMA AnswerIs ==
  ASSUME NEW from \in Seq(Item), NEW query \in Query, NEW who, NEW list, Answered(who, from, query, list)
  PROVE  \E f \in Orders(from, KeptBy(who, from, query), Sorts(query)), c \in Nat :
           /\ f \in [1 .. c -> KeptBy(who, from, query)]
           /\ \A i \in KeptBy(who, from, query) : \E n \in 1 .. c : f[n] = i
           /\ Len(list) \in Nat /\ DOMAIN list = 1 .. Len(list) /\ Len(list) <= c
           /\ \A n \in 1 .. Len(list) : list[n].id = from[f[n]].id /\ list[n].date = from[f[n]].date
           /\ Len(list) < c => Reads(query.limit) /\ Len(list) = query.limit.num
<1> DEFINE K == KeptBy(who, from, query)
           c == Cardinality(K)
<1>1. K \in SUBSET DOMAIN from /\ Len(from) \in Nat /\ DOMAIN from = 1 .. Len(from) /\ query.limit \in Number \cup {Absent}
  BY KeptIs DEF Query
<1> PICK f \in Orders(from, K, Sorts(query)) : SameDates(list, Capped(Picked(from, f), query.limit))
  BY DEF Answered
<1>a. PICK sort : f \in Orders(from, K, sort) /\ sort = Sorts(query) /\ sort \in BOOLEAN
  BY SortsIs
<1>2. /\ c \in Nat /\ f \in [1 .. c -> K]
      /\ \A i \in K : \E n \in 1 .. c : f[n] = i
  <2>1. K \in SUBSET (1 .. Len(from)) /\ DOMAIN from = 1 .. Len(from) /\ Len(from) \in Nat
    BY <1>1
  <2> HIDE DEF K, c
  <2>2. c = Cardinality(K)
    BY DEF c
  <2>3. Cardinality(K) \in Nat
    BY <2>1, <1>a, OrdersAre
  <2>4. f \in [1 .. Cardinality(K) -> K]
    BY <2>1, <1>a, OrdersAre
  <2>5. \A i \in K : \E n \in 1 .. Cardinality(K) : f[n] = i
    BY <1>a, Zenon DEF Orders, Bijection, Surjection
  <2> QED
    BY <2>2, <2>3, <2>4, <2>5
<1> DEFINE p == Picked(from, f)
           s == Capped(p, query.limit)
<1>3. p \in Seq(Item) /\ Len(p) = c /\ \A n \in 1 .. c : p[n] = from[f[n]]
  <2> HIDE DEF K
  <2>1. /\ Picked(from, f) \in Seq(Item) /\ Len(Picked(from, f)) = Cardinality(K)
        /\ \A n \in 1 .. Cardinality(K) : Picked(from, f)[n] = from[f[n]]
    BY <1>1, <1>a, OrdersPicked
  <2> QED
    BY <2>1
<1> HIDE DEF p, c
<1>4. /\ s \in Seq(Item) /\ Len(s) <= c /\ Len(s) \in Nat
      /\ \A n \in 1 .. Len(s) : s[n] = p[n]
      /\ Len(s) < c => Reads(query.limit) /\ Len(s) = query.limit.num
  BY <1>1, <1>3, CappedIs
<1>5. /\ DOMAIN list = 1 .. Len(s) /\ Len(list) = Len(s)
      /\ \A n \in 1 .. Len(s) : list[n].id = s[n].id /\ list[n].date = s[n].date
  BY DEF SameDates, p
<1> HIDE DEF s, K
<1>6. \A n \in 1 .. Len(s) : list[n].id = from[f[n]].id /\ list[n].date = from[f[n]].date
  BY <1>2, <1>3, <1>4, <1>5
<1>7. f \in Orders(from, K, Sorts(query))
  OBVIOUS
<1> QED
  BY <1>2, <1>4, <1>5, <1>6, <1>7 DEF K

LEMMA NewestKept ==
  ASSUME NEW from \in Seq(Item), NEW query \in Query, NEW who, NEW list, Answered(who, from, query, list)
  PROVE  Sorts(query) =>
         /\ \A m, n \in DOMAIN list : m < n => list[m].date >= list[n].date
         /\ \A i \in KeptBy(who, from, query) :
              \/ from[i].id \in Ids(list)
              \/ /\ Reads(query.limit) /\ Len(list) = query.limit.num
                 /\ \A n \in DOMAIN list : list[n].date >= from[i].date
<1> DEFINE K == KeptBy(who, from, query)
<1>a. PICK f \in Orders(from, K, Sorts(query)), c \in Nat :
           /\ f \in [1 .. c -> K]
           /\ \A i \in K : \E n \in 1 .. c : f[n] = i
           /\ Len(list) \in Nat /\ DOMAIN list = 1 .. Len(list) /\ Len(list) <= c
           /\ \A n \in 1 .. Len(list) : list[n].id = from[f[n]].id /\ list[n].date = from[f[n]].date
           /\ Len(list) < c => Reads(query.limit) /\ Len(list) = query.limit.num
  BY AnswerIs
<1> HAVE Sorts(query)
<1>1. K \in SUBSET DOMAIN from
  BY KeptIs
<1>2. f \in Orders(from, K, TRUE)
  <2>1. Sorts(query) = TRUE
    BY DEF Sorts
  <2> QED
    BY <2>1
<1> HIDE DEF K
<1>3. \A n \in 1 .. c : from[f[n]] \in Item /\ from[f[n]].date \in Nat
  <2>1. \A n \in 1 .. c : from[f[n]] \in Item
    BY <1>1, <1>a
  <2> QED
    BY <2>1 DEF Item
<1>4. \A m, n \in 1 .. c : m < n => from[f[m]].date >= from[f[n]].date
  <2>1. ASSUME NEW m \in 1 .. c, NEW n \in 1 .. c, m < n
        PROVE  ~Before(from[f[n]], from[f[m]])
    <3>1. m \in DOMAIN f /\ n \in DOMAIN f
      BY <1>a
    <3> QED
      BY <1>2, <2>1, <3>1, InDateOrder, Zenon
  <2> QED
    BY <1>3, <2>1 DEF Before, Dated
<1>5. \A m, n \in DOMAIN list : m < n => list[m].date >= list[n].date
  BY <1>a, <1>4
<1>6. ASSUME NEW i \in K
      PROVE  \/ from[i].id \in Ids(list)
             \/ /\ Reads(query.limit) /\ Len(list) = query.limit.num
                /\ \A n \in DOMAIN list : list[n].date >= from[i].date
  <2>1. PICK m \in 1 .. c : f[m] = i
    BY <1>a
  <2>2. CASE m <= Len(list)
    <3>1. m \in DOMAIN list /\ list[m].id = from[i].id
      BY <1>a, <2>1, <2>2
    <3> QED
      BY <3>1 DEF Ids
  <2>3. CASE m > Len(list)
    <3>1. Len(list) < c
      BY <1>a, <2>3
    <3>2. \A n \in DOMAIN list : list[n].date >= from[i].date
      BY <1>a, <1>4, <2>1, <2>3
    <3> QED
      BY <1>a, <3>1, <3>2
  <2> QED
    BY <2>2, <2>3
<1> QED
  BY <1>5, <1>6 DEF K

(* A sorted answer is newest first, and the limit cuts nothing newer than  *)
(* what it keeps.                                                          *)
THEOREM NewestAreKept == FeedSpec => []LimitKeepsNewest
<1>1. AnswerInv => LimitKeepsNewest
  BY NewestKept DEF AnswerInv, LimitKeepsNewest
<1> QED
  BY <1>1, AnswersInvariant, PTL

LEMMA FiltersAgree ==
  ASSUME FeedAssumption, NEW from \in Seq(Item), NEW q \in Query,
         \A i \in DOMAIN from : \A p \in {q.filter, q.filterout} \ {Absent} :
           p \in Broken \/ \A field \in Field : from[i].says[p][field] # "otherCase",
         {q.filter, q.filterout} \cap Broken = {},
         Reads(q.filter_time) => q.filter_time.num > 0
  PROVE  KeptByProcess(from, q) = KeptByApply(from, q)
<1>1. Reads(q.filter_time) = Windows(q)
  BY DEF Windows, Reads
<1>2. \A i \in DOMAIN from : \A p \in {q.filter, q.filterout} \ {Absent} :
        (i \in Matching(from, p, FALSE, ServerFields)) = (i \in Matching(from, p, TRUE, RouteFields))
  BY DEF Matching, Matches, ServerFields, RouteFields, Field
<1>3. ASSUME NEW i \in DOMAIN from
      PROVE  i \in KeptByProcess(from, q) <=> i \in KeptByApply(from, q)
  <2> DEFINE W == Windows(q) => i \in InWindow(from, q.filter_time.num)
             F == q.filter # Absent => i \in Matching(from, q.filter, TRUE, RouteFields)
             O == q.filterout # Absent => i \notin Matching(from, q.filterout, TRUE, RouteFields)
  <2>1. (Reads(q.filter_time) => i \in InWindow(from, q.filter_time.num)) <=> W
    BY <1>1
  <2>2. (q.filter \notin Broken \cup {Absent} => i \in Matching(from, q.filter, FALSE, ServerFields)) <=> F
    BY <1>2
  <2>3. (q.filterout \notin Broken \cup {Absent} => i \notin Matching(from, q.filterout, FALSE, ServerFields)) <=> O
    BY <1>2
  <2>4. i \in KeptByApply(from, q) <=> W /\ F /\ O
    BY Zenon DEF KeptByApply
  <2> HIDE DEF W, F, O
  <2>5. i \in KeptByProcess(from, q) <=> W /\ F /\ O
    BY <2>1, <2>2, <2>3, Zenon DEF KeptByProcess
  <2> QED
    BY <2>4, <2>5, Zenon
<1>4. KeptByProcess(from, q) \subseteq DOMAIN from /\ KeptByApply(from, q) \subseteq DOMAIN from
  BY KeptPlaces
<1> QED
  BY <1>3, <1>4

(* The two filters keep the same items, but for case, broken patterns and  *)
(* windows that are not positive.                                          *)
THEOREM FiltersAreOne == FeedSpec => []BothFiltersAgree
<1>1. AnswerInv => BothFiltersAgree
  BY FeedAssumption, FiltersAgree DEF AnswerInv, BothFiltersAgree
<1> QED
  BY <1>1, AnswersInvariant, PTL

(* A length that wraps around never reaches further back for it.           *)
LEMMA WrapsUp ==
  ASSUME FeedAssumption, NEW d \in Nat
  PROVE  Wrapped(-d) \in Int /\ Wrapped(-d) >= -d /\ (d <= Range64 => Wrapped(-d) = -d)
<1>1. Range64 \in Nat /\ Range64 > 0 /\ 2 * Range64 \in Nat /\ 2 * Range64 > 0
  BY DEF FeedAssumption
<1>2. CASE d <= Range64
  <2>1. (-d) + Range64 \in Nat /\ (-d) + Range64 < 2 * Range64
    BY <1>1, <1>2
  <2>2. ((-d) + Range64) % (2 * Range64) = (-d) + Range64
    BY <1>1, <2>1, ModSmall
  <2> QED
    BY <1>1, <1>2, <2>2 DEF Wrapped
<1>3. CASE d > Range64
  <2> DEFINE m == ((-d) + Range64) % (2 * Range64)
  <2>1. m \in Nat
    BY <1>1
  <2>2. Wrapped(-d) = m - Range64
    BY DEF Wrapped
  <2> HIDE DEF m
  <2> QED
    BY <1>1, <1>3, <2>1, <2>2
<1> QED
  BY <1>1, <1>2, <1>3

(* What is newer than the cut-off is newer than the number of seconds      *)
(* allows, and the other way round if the length is a duration.            *)
LEMMA WindowIs ==
  ASSUME FeedAssumption, NEW date \in Nat, NEW n \in Nat
  PROVE  /\ date * Second > Cutoff(n) => date > Now - n
         /\ n * Second <= Range64 /\ date > Now - n => date * Second > Cutoff(n)
<1>1. Second \in Nat /\ Second > 0 /\ Now \in Nat
  BY DEF FeedAssumption
<1> DEFINE d == n * Second
<1>2. d \in Nat /\ (-n) * Second = -d
  BY <1>1
<1>3. /\ Cutoff(n) \in Int /\ Cutoff(n) >= Now * Second - d
      /\ d <= Range64 => Cutoff(n) = Now * Second - d
  <2>1. Cutoff(n) = Now * Second + Wrapped(-d)
    BY <1>2 DEF Cutoff
  <2>2. Now * Second \in Nat
    BY <1>1
  <2> HIDE DEF d
  <2> QED
    BY <1>2, <2>1, <2>2, WrapsUp
<1>4. Now * Second - d = (Now - n) * Second /\ (Now - n) * Second \in Int
  BY <1>1
<1>5. date * Second > (Now - n) * Second <=> date > Now - n
  <2>1. ASSUME NEW a \in Int, NEW b \in Int, a <= b PROVE a * Second <= b * Second
    BY <1>1, <2>1
  <2>2. ASSUME NEW a \in Int, NEW b \in Int, a < b PROVE a * Second < b * Second
    <3>1. (a + 1) * Second <= b * Second
      BY <2>1, <2>2
    <3>2. (a + 1) * Second = a * Second + Second /\ a * Second \in Int /\ b * Second \in Int
      BY <1>1
    <3> QED
      BY <1>1, <3>1, <3>2
  <2> DEFINE x == date * Second
             y == (Now - n) * Second
  <2>3. x \in Int /\ y \in Int /\ date \in Int /\ Now - n \in Int
    BY <1>1
  <2>4. date <= Now - n => x <= y
    BY <2>1, <2>3
  <2>5. Now - n < date => y < x
    BY <2>2, <2>3
  <2> HIDE DEF x, y
  <2>6. x > y <=> date > Now - n
    BY <2>3, <2>4, <2>5
  <2> QED
    BY <2>6 DEF x, y
<1> DEFINE x == date * Second
           y == (Now - n) * Second
<1>6. x \in Int
  BY <1>1
<1> HIDE DEF d, x, y
<1>7. /\ x > Cutoff(n) => x > y
      /\ d <= Range64 /\ x > y => x > Cutoff(n)
  BY <1>3, <1>4, <1>6 DEF y
<1> QED
  BY <1>5, <1>7 DEF d, x, y

LEMMA AtLeastOne ==
  ASSUME NEW n \in Nat, NEW u \in Nat, u >= 1 PROVE n * u \in Nat /\ n <= n * u
<1>1. 1 * n <= u * n
  BY TimesGrows
<1> QED
  BY <1>1

LEMMA WindowKept ==
  ASSUME FeedAssumption, NEW from \in Seq(Item), NEW q \in Query, NEW who \in Answers, NEW list,
         Windows(q), Answered(who, from, q, list)
  PROVE  LET text == q.filter_time IN
         /\ \A n \in DOMAIN list : Dated(list[n]) /\ list[n].date > Now - text.num * text.unit
         /\ (/\ text.unit = 1 /\ text.num * Second <= Range64
             /\ q.filter = Absent /\ q.filterout = Absent /\ ~Reads(q.limit)) =>
              \A i \in DOMAIN from :
                Dated(from[i]) /\ from[i].date > Now - text.num => from[i].id \in Ids(list)
<1> DEFINE K == KeptBy(who, from, q)
           num == q.filter_time.num
           unit == q.filter_time.unit
<1> PICK f \in Orders(from, K, Sorts(q)), c \in Nat :
           /\ f \in [1 .. c -> K]
           /\ \A i \in K : \E n \in 1 .. c : f[n] = i
           /\ Len(list) \in Nat /\ DOMAIN list = 1 .. Len(list) /\ Len(list) <= c
           /\ \A n \in 1 .. Len(list) : list[n].id = from[f[n]].id /\ list[n].date = from[f[n]].date
           /\ Len(list) < c => Reads(q.limit) /\ Len(list) = q.limit.num
  BY AnswerIs
<1>1. num \in Nat /\ unit \in Nat /\ unit >= 1 /\ Reads(q.filter_time) /\ Now \in Nat
  <2>1. q.filter_time \in Number /\ num > 0 /\ Reads(q.filter_time)
    BY DEF Windows, Reads, Query
  <2> QED
    BY <2>1 DEF Number, FeedAssumption
<1>2. K \subseteq InWindow(from, num)
  BY <1>1 DEF KeptBy, KeptByProcess, KeptByApply
<1>3. ASSUME q.filter = Absent, q.filterout = Absent PROVE InWindow(from, num) \subseteq K
  BY <1>3 DEF KeptBy, KeptByProcess, KeptByApply, InWindow
<1> HIDE DEF K
<1>4. num * unit \in Nat /\ num <= num * unit
  <2> HIDE DEF num, unit
  <2> QED
    BY <1>1, AtLeastOne
<1> HIDE DEF num, unit
<1>5. \A i \in DOMAIN from : from[i].date \in Nat
  <2>1. \A i \in DOMAIN from : from[i] \in Item
    OBVIOUS
  <2> QED
    BY <2>1 DEF Item
<1>6. ASSUME NEW n \in DOMAIN list PROVE Dated(list[n]) /\ list[n].date > Now - num * unit
  <2>1. f[n] \in InWindow(from, num) /\ list[n].date = from[f[n]].date
    BY <1>2
  <2>2. f[n] \in DOMAIN from /\ Dated(from[f[n]]) /\ from[f[n]].date * Second > Cutoff(num)
    BY <2>1 DEF InWindow
  <2>3. PICK d \in Nat : d = list[n].date /\ d * Second > Cutoff(num)
    BY <1>5, <2>1, <2>2
  <2>4. d > Now - num
    BY <1>1, <2>3, WindowIs
  <2>5. d > Now - num * unit
    <3>1. PICK x \in Nat : x = num * unit /\ num <= x
      BY <1>4
    <3>2. d \in Nat /\ num \in Nat /\ Now \in Nat
      BY <1>1, <2>3
    <3>3. \A a, b, y, z \in Nat : a > b - y /\ y <= z => a > b - z
      OBVIOUS
    <3>4. d > Now - x
      BY <2>4, <3>1, <3>2, <3>3
    <3> QED
      BY <3>1, <3>4
  <2> QED
    BY <2>1, <2>2, <2>3, <2>5 DEF Dated
<1>7. ASSUME q.filter = Absent, q.filterout = Absent, ~Reads(q.limit), num * Second <= Range64,
             NEW i \in DOMAIN from, Dated(from[i]), from[i].date > Now - num
      PROVE  from[i].id \in Ids(list)
  <2>1. from[i].date * Second > Cutoff(num)
    BY <1>1, <1>5, <1>7, WindowIs
  <2>2. i \in K
    BY <1>3, <1>7, <2>1 DEF InWindow
  <2>3. PICK n \in 1 .. c : f[n] = i
    BY <2>2
  <2>4. n \in DOMAIN list /\ list[n].id = from[i].id
    BY <1>7, <2>3
  <2> QED
    BY <2>4 DEF Ids
<1> QED
  BY <1>6, <1>7 DEF num, unit

(* A time window keeps nothing older than its text names, whatever unit it *)
(* has and however long it is; and all that is newer if it is given in     *)
(* seconds and is a duration.                                              *)
THEOREM WindowsErr == FeedSpec => []WindowsErrByLeavingOut
<1>1. AnswerInv => WindowsErrByLeavingOut
  BY FeedAssumption, WindowKept DEF AnswerInv, WindowsErrByLeavingOut
<1> QED
  BY <1>1, AnswersInvariant, PTL

-----------------------------------------------------------------------------
(* The shared slice.                                                       *)

(* Places listed in order, each once, are the places themselves. *)
LEMMA InOrderIsSame ==
  ASSUME NEW list, NEW N \in Nat, NEW f \in Orders(list, 1 .. N, FALSE)
  PROVE  DOMAIN f = 1 .. N /\ \A n \in 1 .. N : f[n] = n
<1>1. Cardinality(1 .. N) = N
  <2>1. Cardinality(1 .. N) = IF 1 > N THEN 0 ELSE N - 1 + 1
    BY FS_Interval
  <2> QED
    BY <2>1
<1>2. 1 .. N \in SUBSET (1 .. N)
  OBVIOUS
<1>3. f \in [1 .. N -> 1 .. N] /\ \A m, n \in 1 .. N : f[m] = f[n] => m = n
  <2> DEFINE c == Cardinality(1 .. N)
  <2>1. f \in [1 .. c -> 1 .. N] /\ \A m, n \in 1 .. c : f[m] = f[n] => m = n
    <3> DEFINE I == 1 .. N
    <3>1. I \in SUBSET (1 .. N) /\ f \in Orders(list, I, FALSE)
      OBVIOUS
    <3> HIDE DEF I
    <3>2. f \in [1 .. Cardinality(I) -> I] /\ \A m, n \in 1 .. Cardinality(I) : f[m] = f[n] => m = n
      <4>1. f \in Bijection(1 .. Cardinality(I), I)
        BY <3>1 DEF Orders
      <4>2. f \in [1 .. Cardinality(I) -> I] /\ IsInjective(f)
        BY <4>1 DEF Bijection, Injection
      <4> QED
        BY <4>2 DEF IsInjective
    <3> QED
      BY <3>2, Zenon DEF I
  <2>2. c = N
    BY <1>1
  <2> HIDE DEF c
  <2> QED
    BY <2>1, <2>2
<1>4. \A i \in 1 .. N : \E n \in 1 .. N : f[n] = i
  BY <1>1, Zenon DEF Orders, Bijection, Surjection
<1>5. DOMAIN f = 1 .. N
  BY <1>3
<1>6. \A m, n \in 1 .. N : m < n => f[m] < f[n]
  BY <1>5, InOrder, Zenon
<1> DEFINE T == {n \in 1 .. N : f[n] # n}
<1>7. T = {}
  <2> SUFFICES ASSUME T # {} PROVE FALSE
    OBVIOUS
  <2>1. T \in SUBSET Nat
    OBVIOUS
  <2>2. \E x \in T : \A y \in T : x <= y
    <3> HIDE DEF T
    <3> QED
      BY <2>1, Least
  <2>3. PICK x \in T : \A y \in T : x <= y
    BY <2>2
  <2>4. x \in 1 .. N /\ f[x] # x /\ f[x] \in 1 .. N
    BY <1>3
  <2>5. \A k \in 1 .. N : k < x => f[k] = k
    BY <2>3
  <2>6. PICK j \in 1 .. N : f[j] = x
    BY <1>4, <2>4
  <2>7. CASE f[x] < x
    <3>1. f[f[x]] = f[x]
      BY <2>4, <2>5, <2>7
    <3> QED
      BY <1>3, <2>4, <3>1
  <2>8. CASE f[x] > x
    <3>1. ~(j < x)
      BY <2>4, <2>5, <2>6
    <3>2. j # x
      BY <2>4, <2>6
    <3>3. x < j
      BY <2>4, <3>1, <3>2
    <3>4. f[x] < f[j]
      BY <1>6, <2>4, <3>3
    <3> QED
      BY <2>4, <2>6, <2>8, <3>4
  <2> QED
    BY <2>4, <2>7, <2>8
<1> QED
  BY <1>5, <1>7

(* The same places in another order: as many items, and the same ones. *)
LEMMA Reordered ==
  ASSUME NEW list \in Seq(Item), NEW sort \in BOOLEAN, NEW f \in Orders(list, DOMAIN list, sort)
  PROVE  /\ Len(Picked(list, f)) = Len(list) /\ Ids(Picked(list, f)) = Ids(list)
         /\ Picked(list, f) # list => sort
<1> DEFINE N == Len(list)
           p == Picked(list, f)
<1>1. N \in Nat /\ DOMAIN list = 1 .. N /\ DOMAIN list \in SUBSET DOMAIN list
  OBVIOUS
<1>2. Cardinality(DOMAIN list) = N
  <2>1. Cardinality(1 .. N) = IF 1 > N THEN 0 ELSE N - 1 + 1
    BY <1>1, FS_Interval
  <2> QED
    BY <1>1, <2>1
<1>3. p \in Seq(Item) /\ Len(p) = N /\ \A n \in 1 .. N : p[n] = list[f[n]]
  BY <1>1, <1>2, OrdersPicked
<1>4. f \in [1 .. N -> 1 .. N]
  BY <1>1, <1>2, OrdersAre
<1>5. \A i \in 1 .. N : \E n \in 1 .. N : f[n] = i
  <2>1. f \in Bijection(1 .. N, 1 .. N)
    BY <1>1, <1>2, Zenon DEF Orders
  <2> QED
    BY <2>1, Zenon DEF Bijection, Surjection
<1> HIDE DEF p
<1>6. DOMAIN p = 1 .. N
  BY <1>3
<1>7. Ids(p) \subseteq Ids(list)
  BY <1>1, <1>3, <1>4, <1>6 DEF Ids
<1>8. Ids(list) \subseteq Ids(p)
  <2> SUFFICES ASSUME NEW i \in 1 .. N PROVE \E n \in 1 .. N : p[n].id = list[i].id
    BY <1>1, <1>6, Zenon DEF Ids
  <2>1. PICK n \in 1 .. N : f[n] = i
    BY <1>5
  <2> QED
    BY <1>3, <2>1
<1>9. ASSUME sort = FALSE PROVE p = list
  <2>1. f \in Orders(list, 1 .. N, FALSE)
    BY <1>1, <1>9
  <2>2. \A n \in 1 .. N : f[n] = n
    <3>1. f \in Orders(list, 1 .. N, FALSE) /\ N \in Nat
      BY <1>1, <2>1
    <3> QED
      BY <3>1, InOrderIsSame
  <2> QED
    BY <1>1, <1>3, <1>6, <2>2
<1> QED
  BY <1>3, <1>7, <1>8, <1>9 DEF p

LEMMA SliceStep ==
  ASSUME AnswerInv, [FeedNext]_feedVars
  PROVE  [reply'.by # "collect" =>
            /\ Len(items') = Len(items) /\ Ids(items') = Ids(items)
            /\ items' # items => reply'.by = "apply" /\ Sorts(reply'.query)]_feedVars
<1>1. CASE items' = items
  BY <1>1 DEF Ids
<1>2. ASSUME NEW entries \in Source, NEW limit \in Limits, Collect(entries, limit) PROVE reply'.by = "collect"
  BY <1>2 DEF Collect
<1>3. ASSUME NEW query \in Queries, Process(query) \/ ApplyFails(query) PROVE items' = items
  BY <1>3 DEF Process, ApplyFails
<1>4. ASSUME NEW query \in Queries, Apply(query), items' # items
      PROVE  /\ Len(items') = Len(items) /\ Ids(items') = Ids(items)
             /\ reply'.by = "apply" /\ Sorts(reply'.query)
  <2>1. PICK f \in Orders(items, KeptByApply(items, query), Sorts(query)) :
          /\ reply' = [by |-> "apply", query |-> query, from |-> items,
                       items |-> Capped(Picked(items, f), query.limit)]
          /\ items' = IF Aliased(query) THEN Picked(items, f) ELSE items
    BY <1>4 DEF Apply
  <2>2. Aliased(query) /\ items' = Picked(items, f) /\ reply'.by = "apply" /\ reply'.query = query
    BY <1>4, <2>1
  <2>3. KeptByApply(items, query) = DOMAIN items
    BY <2>2 DEF KeptByApply, Aliased
  <2>4. f \in Orders(items, DOMAIN items, Sorts(query)) /\ items \in Seq(Item) /\ Sorts(query) \in BOOLEAN
    BY <2>1, <2>3, SortsIs DEF AnswerInv
  <2>5. Len(items') = Len(items) /\ Ids(items') = Ids(items)
    <3>1. Ids(items') = Ids(Picked(items, f))
      BY <2>2 DEF Ids
    <3> QED
      BY <2>2, <2>4, <3>1, Reordered
  <2>6. Sorts(query)
    BY <1>4, <2>2, <2>4, Reordered
  <2> QED
    BY <2>2, <2>5, <2>6 DEF Sorts
<1>5. CASE UNCHANGED feedVars
  BY <1>5 DEF feedVars
<1>6. CASE FeedNext
  <2>1. CASE \E entries \in Source, limit \in Limits : Collect(entries, limit)
    BY <1>2, <2>1
  <2>2. CASE \E query \in Queries : Process(query) \/ ApplyFails(query)
    BY <1>1, <1>3, <2>2
  <2>3. CASE \E query \in Queries : Apply(query)
    BY <1>1, <1>4, <2>3
  <2> QED
    BY <1>6, <2>1, <2>2, <2>3 DEF FeedNext
<1> QED
  BY <1>5, <1>6

(* Answering requests neither adds an item to the shared slice nor takes   *)
(* one from it; only ApplyParameters reorders it, and only if it sorts.    *)
THEOREM SliceKeepsItems == FeedSpec => SharedSliceKeepsItems
<1>1. AnswerInv /\ [FeedNext]_feedVars =>
        [reply'.by # "collect" =>
            /\ Len(items') = Len(items) /\ Ids(items') = Ids(items)
            /\ items' # items => reply'.by = "apply" /\ Sorts(reply'.query)]_feedVars
  BY SliceStep
<1> QED
  BY <1>1, AnswersInvariant, PTL DEF FeedSpec, SharedSliceKeepsItems

-----------------------------------------------------------------------------
(* Filling a feed.                                                         *)

(* What is left of a page that was collected.                              *)
CollectInv ==
  /\ AnswerInv
  /\ reply.by = "collect" =>
       LET q == reply.query IN
       /\ q.entries \in Source /\ q.limit \in Int /\ reply.from \in Seq(Item)
       /\ \E f \in Orders(q.entries, Chosen(reply.from, q.entries, q.limit), FALSE) :
            reply.items = Appended(reply.from, q.entries, f)

LEMMA CollectNext ==
  ASSUME FeedAssumption, CollectInv, [FeedNext]_feedVars PROVE CollectInv'
<1>1. AnswerInv'
  BY AnswerNext DEF CollectInv
<1>2. ASSUME NEW entries \in Source, NEW limit \in Limits, Collect(entries, limit) PROVE CollectInv'
  <2>1. PICK f \in Orders(entries, Chosen(items, entries, limit), FALSE) : items' = Appended(items, entries, f)
    BY <1>2 DEF Collect
  <2>2. reply' = [by |-> "collect", query |-> [limit |-> limit, entries |-> entries], from |-> items, items |-> items']
    BY <1>2 DEF Collect
  <2>3. /\ reply'.by = "collect" /\ reply'.query.limit = limit /\ reply'.query.entries = entries
        /\ reply'.from = items /\ reply'.items = Appended(items, entries, f)
    BY <2>1, <2>2
  <2>4. limit \in Int /\ items \in Seq(Item)
    BY DEF FeedAssumption, CollectInv, AnswerInv
  <2> QED
    BY <1>1, <2>3, <2>4 DEF CollectInv
<1>3. ASSUME NEW query \in Queries, Process(query) \/ Apply(query) \/ ApplyFails(query) PROVE CollectInv'
  <2>1. reply'.by \in {"process", "apply", "error"}
    BY <1>3 DEF Process, Apply, ApplyFails
  <2> QED
    BY <1>1, <2>1 DEF CollectInv
<1>4. CASE UNCHANGED feedVars
  <2>1. reply' = reply
    BY <1>4 DEF feedVars
  <2> QED
    BY <1>1, <2>1 DEF CollectInv
<1> QED
  BY <1>2, <1>3, <1>4 DEF FeedNext

LEMMA ChosenFits ==
  ASSUME FeedAssumption, NEW list \in Seq(Item), NEW entries \in Source, NEW limit \in Int,
         NEW f \in Orders(entries, Chosen(list, entries, limit), FALSE),
         limit > 0, Cardinality(Chosen(list, entries, limit)) > 0
  PROVE  Len(list) + Cardinality(Chosen(list, entries, limit)) <= limit
<1> DEFINE U == Usable(entries)
           C == Chosen(list, entries, limit)
           c == Cardinality(C)
           i == f[c]
           B == {j \in U : j < i}
           L == Len(list)
<1>1. entries \in Seq(Item \cup {Nothing}) /\ Len(entries) \in Nat /\ DOMAIN entries = 1 .. Len(entries)
  BY DEF FeedAssumption
<1>2. U \in SUBSET (1 .. Len(entries)) /\ C \in SUBSET U
  BY <1>1 DEF Usable, Chosen
<1>3. C \in SUBSET (1 .. Len(entries))
  BY <1>2
<1> HIDE DEF C
<1>4. c \in Nat /\ f \in [1 .. c -> C] /\ f \in Orders(entries, C, FALSE)
  BY <1>1, <1>3, OrdersAre DEF C
<1>5. \A j \in C : \E n \in 1 .. c : f[n] = j
  BY <1>4, Zenon DEF Orders, Bijection, Surjection
<1>6. c > 0
  BY DEF C
<1> HIDE DEF c
<1>7. c \in DOMAIN f /\ i \in C /\ i \in Int
  <2>1. f \in [1 .. c -> C] /\ c \in 1 .. c
    BY <1>4, <1>6
  <2>2. c \in DOMAIN f /\ f[c] \in C
    BY <2>1, Zenon
  <2>3. i \in 1 .. Len(entries)
    BY <1>3, <2>2, Zenon
  <2> QED
    BY <1>1, <2>2, <2>3
<1>8. \A j \in C : j = i \/ j < i
  <2> TAKE j \in C
  <2>1. PICK n \in 1 .. c : f[n] = j
    BY <1>5
  <2>2. n = c \/ n < c
    BY <1>4, <2>1
  <2>3. n \in DOMAIN f
    BY <1>4
  <2>4. n < c => f[n] < f[c]
    BY <1>4, <1>7, <2>3, InOrder
  <2> QED
    BY <2>1, <2>2, <2>4
<1>9. L + Cardinality(B) < limit
  BY <1>7 DEF C, Chosen
<1> HIDE DEF i
<1>10. C \in SUBSET (B \cup {i})
  BY <1>2, <1>8
<1>11. IsFiniteSet(U)
  <2>1. IsFiniteSet(1 .. Len(entries))
    BY <1>1, FS_Interval
  <2> HIDE DEF U
  <2> QED
    BY <1>2, <2>1, FS_Subset
<1>12. IsFiniteSet(B) /\ Cardinality(B) \in Nat
  <2>1. B \in SUBSET U
    OBVIOUS
  <2> HIDE DEF B, U
  <2> QED
    BY <1>11, <2>1, FS_Subset, FS_CardinalityType
<1> HIDE DEF B, U
<1>13. IsFiniteSet(B \cup {i}) /\ Cardinality(B \cup {i}) <= Cardinality(B) + 1 /\ Cardinality(B \cup {i}) \in Nat
  <2>1. /\ IsFiniteSet(B \cup {i})
        /\ Cardinality(B \cup {i}) = IF i \in B THEN Cardinality(B) ELSE Cardinality(B) + 1
    BY <1>12, FS_AddElement
  <2> QED
    BY <1>12, <2>1
<1>14. c <= Cardinality(B \cup {i})
  BY <1>10, <1>13, FS_Subset DEF c
<1>15. L \in Nat
  OBVIOUS
<1> HIDE DEF L
<1>16. L + c <= limit
  BY <1>4, <1>9, <1>12, <1>13, <1>14, <1>15
<1> QED
  BY <1>16 DEF L, c, C

LEMMA ChosenFills ==
  ASSUME FeedAssumption, NEW list \in Seq(Item), NEW entries \in Source, NEW limit \in Int,
         Cardinality(Chosen(list, entries, limit)) < Cardinality(Usable(entries))
  PROVE  limit > 0 /\ Len(list) + Cardinality(Chosen(list, entries, limit)) >= limit
<1> DEFINE U == Usable(entries)
           C == Chosen(list, entries, limit)
           T == U \ C
           L == Len(list)
<1>1. entries \in Seq(Item \cup {Nothing}) /\ Len(entries) \in Nat /\ DOMAIN entries = 1 .. Len(entries)
  BY DEF FeedAssumption
<1>2. U \in SUBSET (1 .. Len(entries)) /\ C \in SUBSET U
  BY <1>1 DEF Usable, Chosen
<1>3. IsFiniteSet(U) /\ IsFiniteSet(C) /\ Cardinality(C) \in Nat /\ Cardinality(U) \in Nat
  <2>1. IsFiniteSet(1 .. Len(entries))
    BY <1>1, FS_Interval
  <2> HIDE DEF U, C
  <2> QED
    BY <1>2, <2>1, FS_Subset, FS_CardinalityType
<1>4. U # C
  BY <1>3
<1>5. T # {} /\ T \in SUBSET Nat
  <2> HIDE DEF U, C
  <2>1. 1 .. Len(entries) \in SUBSET Nat
    BY <1>1
  <2>2. T # {}
    BY <1>2, <1>4
  <2>3. T \in SUBSET U
    OBVIOUS
  <2> HIDE DEF T
  <2> QED
    BY <1>2, <2>1, <2>2, <2>3
<1>6. \E x \in T : \A y \in T : x <= y
  <2> HIDE DEF T
  <2> QED
    BY <1>5, Least
<1>7. PICK x \in T : \A y \in T : x <= y
  BY <1>6
<1> DEFINE B == {j \in U : j < x}
<1>8. x \in U /\ x \notin C
  OBVIOUS
<1>9. ~(limit <= 0 \/ L + Cardinality(B) < limit)
  BY <1>8 DEF Chosen
<1>10. B \in SUBSET C
  <2> HIDE DEF C, U
  <2> SUFFICES ASSUME NEW j \in U, j < x, j \notin C PROVE FALSE
    OBVIOUS
  <2>1. j \in T /\ j \in Nat /\ x \in Nat
    BY <1>2, <1>8
  <2> QED
    BY <1>7, <2>1
<1> HIDE DEF B, C
<1>11. Cardinality(B) <= Cardinality(C) /\ Cardinality(B) \in Nat
  BY <1>3, <1>10, FS_Subset, FS_CardinalityType
<1>12. L \in Nat
  OBVIOUS
<1> HIDE DEF L
<1>13. limit > 0 /\ L + Cardinality(C) >= limit
  BY <1>3, <1>9, <1>11, <1>12
<1> QED
  BY <1>13 DEF L, C

(* A page stops short of its usable entries only where the whole feed has  *)
(* reached the limit, and no page takes the feed past it.                  *)
THEOREM PagesFillToLimit == FeedSpec => []CollectFillsToLimit
<1>1. FeedInit => CollectInv
  BY DEF FeedInit, NoReply, CollectInv, AnswerInv, Answers
<1>2. CollectInv /\ [FeedNext]_feedVars => CollectInv'
  BY FeedAssumption, CollectNext
<1>3. CollectInv => CollectFillsToLimit
  <2> SUFFICES ASSUME CollectInv, reply.by = "collect" PROVE CollectFillsToLimit
    BY DEF CollectFillsToLimit
  <2> DEFINE from == reply.from
             entries == reply.query.entries
             limit == reply.query.limit
             C == Chosen(from, entries, limit)
  <2>1. entries \in Source /\ limit \in Int /\ from \in Seq(Item)
    BY DEF CollectInv
  <2>2. PICK f \in Orders(entries, C, FALSE) : reply.items = Appended(from, entries, f)
    BY DEF CollectInv
  <2>3. C \in SUBSET Usable(entries)
    BY DEF Chosen
  <2>4. Len(reply.items) = Len(from) + Cardinality(C) /\ Cardinality(C) \in Nat /\ Len(from) \in Nat
    <3> HIDE DEF C, from, entries, limit
    <3>1. Len(Appended(from, entries, f)) = Len(from) + Cardinality(C) /\ Cardinality(C) \in Nat
      BY <2>1, <2>3, FeedAssumption, AppendedIs, Zenon
    <3> QED
      BY <2>1, <2>2, <3>1
  <2>5. limit > 0 /\ Cardinality(C) > 0 => Len(from) + Cardinality(C) <= limit
    BY <2>1, <2>2, FeedAssumption, ChosenFits
  <2>6. Cardinality(C) < Cardinality(Usable(entries)) => limit > 0 /\ Len(from) + Cardinality(C) >= limit
    BY <2>1, FeedAssumption, ChosenFills
  <2> HIDE DEF C, from, entries, limit
  <2>7. Len(reply.items) - Len(from) = Cardinality(C)
    BY <2>4
  <2> QED
    BY <2>4, <2>5, <2>6, <2>7 DEF CollectFillsToLimit, from, entries, limit
<1> QED
  BY <1>1, <1>2, <1>3, PTL DEF FeedSpec

-----------------------------------------------------------------------------
(* The calendar of the date parser.                                        *)

(* The days of a year before its first, and those before a month's first.  *)
Start(year) == 365 * year + LeapDays(year)
Days(year, m) == DaysBefore[m] + (IF Leap(year) /\ m > 2 THEN 1 ELSE 0)

LEMMA YearLength ==
  ASSUME NEW y \in Int
  PROVE  Start(y) \in Int /\ Start(y + 1) = Start(y) + 365 + (IF Leap(y) THEN 1 ELSE 0)
<1>1. LeapDays(y) \in Int /\ LeapDays(y + 1) \in Int
  BY DEF LeapDays
<1>2. LeapDays(y + 1) = LeapDays(y) + (IF Leap(y) THEN 1 ELSE 0)
  BY DEF LeapDays, Leap
<1> QED
  BY <1>1, <1>2 DEF Start

LEMMA Division ==
  ASSUME NEW a \in Int, NEW k \in Int
  PROVE  (a + 12 * k) \div 12 = (a \div 12) + k /\ (a + 12 * k) % 12 = a % 12
OBVIOUS

LEMMA Carry ==
  ASSUME NEW y \in Int, NEW m \in Int, NEW k \in Int
  PROVE  FirstOfMonth(y, m + 12 * k) = FirstOfMonth(y + k, m)
<1>1. (m + 12 * k) - 1 = (m - 1) + 12 * k
  OBVIOUS
<1>2. ((m + 12 * k) - 1) \div 12 = ((m - 1) \div 12) + k /\ ((m + 12 * k) - 1) % 12 = (m - 1) % 12
  BY <1>1, Division
<1>3. y + (((m - 1) \div 12) + k) = (y + k) + ((m - 1) \div 12)
  OBVIOUS
<1> QED
  BY <1>2, <1>3 DEF FirstOfMonth

LEMMA Normal ==
  ASSUME NEW y \in Int, NEW m \in 1 .. 12
  PROVE  FirstOfMonth(y, m) = Start(y) + Days(y, m) /\ Days(y, m) \in Int /\ Start(y) \in Int
<1>1. (m - 1) \div 12 = 0 /\ (m - 1) % 12 = m - 1
  OBVIOUS
<1>2. y + 0 = y /\ (m - 1) + 1 = m
  OBVIOUS
<1>3. FirstOfMonth(y, m) = 365 * y + LeapDays(y) + DaysBefore[m] + (IF Leap(y) /\ m > 2 THEN 1 ELSE 0)
  BY <1>1, <1>2 DEF FirstOfMonth
<1>4. DaysBefore[m] \in Int
  BY DEF DaysBefore
<1>5. LeapDays(y) \in Int
  BY DEF LeapDays
<1> QED
  BY <1>3, <1>4, <1>5 DEF Start, Days

(* A span of years has at most one leap day in each of them.               *)
LEMMA LeapDaysSpan ==
  ASSUME NEW a \in Int, NEW b \in Int, a <= b
  PROVE  LeapDays(a) <= LeapDays(b) /\ LeapDays(b) - LeapDays(a) <= b - a
BY DEF LeapDays

Extra(y) == IF Leap(y) THEN 1 ELSE 0

LEMMA YearSpan ==
  ASSUME NEW y \in Int, NEW z \in Int, y < z
  PROVE  /\ 365 * (z - y) + Extra(y) <= Start(z) - Start(y)
         /\ Start(z) - Start(y) <= 366 * (z - y) - (1 - Extra(y))
<1>1. Start(y + 1) = Start(y) + 365 + Extra(y) /\ Start(y) \in Int /\ Extra(y) \in Int
  BY YearLength DEF Extra
<1>2. LeapDays(y + 1) <= LeapDays(z) /\ LeapDays(z) - LeapDays(y + 1) <= z - (y + 1)
  BY LeapDaysSpan
<1>3. LeapDays(z) \in Int /\ LeapDays(y + 1) \in Int
  BY DEF LeapDays
<1>4. Start(z) = 365 * z + LeapDays(z) /\ Start(y + 1) = 365 * (y + 1) + LeapDays(y + 1)
  BY DEF Start
<1> QED
  BY <1>1, <1>2, <1>3, <1>4

LEMMA Table ==
  ASSUME NEW m \in 1 .. 12
  PROVE  \/ m = 1  /\ DaysBefore[m] = 0
         \/ m = 2  /\ DaysBefore[m] = 31
         \/ m = 3  /\ DaysBefore[m] = 59
         \/ m = 4  /\ DaysBefore[m] = 90
         \/ m = 5  /\ DaysBefore[m] = 120
         \/ m = 6  /\ DaysBefore[m] = 151
         \/ m = 7  /\ DaysBefore[m] = 181
         \/ m = 8  /\ DaysBefore[m] = 212
         \/ m = 9  /\ DaysBefore[m] = 243
         \/ m = 10 /\ DaysBefore[m] = 273
         \/ m = 11 /\ DaysBefore[m] = 304
         \/ m = 12 /\ DaysBefore[m] = 334
BY DEF DaysBefore

(* How far the months of a year are from thirty, and from thirty-one, days *)
(* each.                                                                   *)
LEMMA WithinAYear ==
  ASSUME NEW y \in Int, NEW m \in 1 .. 12
  PROVE  /\ -1 + Extra(y) <= Days(y, m) - 30 * (m - 1)
         /\ Days(y, m) - 30 * (m - 1) <= 4 + Extra(y)
         /\ 0 <= 31 * (m - 1) - Days(y, m)
         /\ 31 * (m - 1) - Days(y, m) <= 7 - Extra(y)
BY Table DEF Days, Extra

LEMMA MonthsOfAYear ==
  ASSUME NEW y \in Int, NEW m \in 1 .. 12, NEW n \in 1 .. 12, m <= n
  PROVE  /\ 30 * (n - m) - 2 <= Days(y, n) - Days(y, m)
         /\ Days(y, n) - Days(y, m) <= 31 * (n - m)
<1>1. Days(y, m) = DaysBefore[m] + (IF m > 2 THEN Extra(y) ELSE 0)
  BY DEF Days, Extra
<1>2. Days(y, n) = DaysBefore[n] + (IF n > 2 THEN Extra(y) ELSE 0)
  BY DEF Days, Extra
<1>3. Extra(y) \in 0 .. 1
  BY DEF Extra
<1> QED
  BY <1>1, <1>2, <1>3, Table

-----------------------------------------------------------------------------
(* Months counted from January 1970, which is number 1.                    *)
First(k) == FirstOfMonth(0, k)

LEMMA Counted ==
  ASSUME NEW y \in Int, NEW m \in Int
  PROVE  FirstOfMonth(y, m) = First(m + 12 * y)
<1>1. \A z \in Int : FirstOfMonth(z, m + 12 * y) = FirstOfMonth(z + y, m)
  BY Carry
<1>2. FirstOfMonth(0, m + 12 * y) = FirstOfMonth(0 + y, m)
  BY <1>1
<1> QED
  BY <1>2, 0 + y = y DEF First

LEMMA Split ==
  ASSUME NEW k \in Int
  PROVE  \E y \in Int, m \in 1 .. 12 : k = m + 12 * y
<1> DEFINE y == (k - 1) \div 12  m == ((k - 1) % 12) + 1
<1>1. y \in Int /\ m \in 1 .. 12 /\ k = m + 12 * y
  OBVIOUS
<1> QED
  BY <1>1

LEMMA MonthSpan ==
  ASSUME NEW j \in Int, NEW k \in Int, j <= k
  PROVE  /\ First(j) \in Int /\ First(k) \in Int
         /\ 30 * (k - j) - 2 <= First(k) - First(j)
         /\ First(k) - First(j) <= 31 * (k - j)
<1>1. PICK y \in Int, m \in 1 .. 12 : j = m + 12 * y
  BY Split
<1>2. PICK z \in Int, n \in 1 .. 12 : k = n + 12 * z
  BY Split
<1>3. First(j) = Start(y) + Days(y, m) /\ Days(y, m) \in Int /\ Start(y) \in Int
  <2>1. m \in Int /\ FirstOfMonth(y, m) = First(m + 12 * y)
    BY Counted
  <2> QED
    BY <1>1, <2>1, Normal
<1>4. First(k) = Start(z) + Days(z, n) /\ Days(z, n) \in Int /\ Start(z) \in Int
  <2>1. n \in Int /\ FirstOfMonth(z, n) = First(n + 12 * z)
    BY Counted
  <2> QED
    BY <1>2, <2>1, Normal
<1>5. y < z \/ (y = z /\ m <= n)
  BY <1>1, <1>2
<1>6. CASE y = z /\ m <= n
  BY <1>1, <1>2, <1>3, <1>4, <1>6, MonthsOfAYear
<1>7. CASE y < z
  <2>1. /\ 365 * (z - y) + Extra(y) <= Start(z) - Start(y)
        /\ Start(z) - Start(y) <= 366 * (z - y) - (1 - Extra(y))
    BY <1>7, YearSpan
  <2>2. /\ Extra(y) \in 0 .. 1 /\ Extra(z) \in 0 .. 1
    BY DEF Extra
  <2>3. /\ -1 + Extra(z) <= Days(z, n) - 30 * (n - 1)
        /\ 0 <= 31 * (n - 1) - Days(z, n)
    BY WithinAYear
  <2>4. /\ Days(y, m) - 30 * (m - 1) <= 4 + Extra(y)
        /\ 31 * (m - 1) - Days(y, m) <= 7 - Extra(y)
    BY WithinAYear
  <2>5. k - j = 12 * (z - y) + (n - m) /\ z - y >= 1
    BY <1>1, <1>2, <1>7
  <2> QED
    BY <1>3, <1>4, <2>1, <2>2, <2>3, <2>4, <2>5
<1> QED
  BY <1>5, <1>6, <1>7

LEMMA FirstIsInt ==
  ASSUME NEW k \in Int
  PROVE  First(k) \in Int
BY MonthSpan

(* Months follow each other, and a day lies in one of them.                *)
LEMMA MonthsInOrder ==
  ASSUME NEW j \in Int, NEW k \in Int, j < k
  PROVE  First(j) < First(k) /\ First(j + 1) <= First(k)
<1>1. First(j) \in Int /\ First(k) \in Int /\ 30 * (k - j) - 2 <= First(k) - First(j)
  BY MonthSpan
<1>2. First(j) < First(k)
  BY <1>1
<1>3. CASE j + 1 = k
  BY <1>1, <1>2, <1>3
<1>4. CASE j + 1 < k
  <2>1. j + 1 \in Int /\ j + 1 <= k
    BY <1>4
  <2>2. First(j + 1) \in Int /\ 30 * (k - (j + 1)) - 2 <= First(k) - First(j + 1)
    BY <2>1, MonthSpan
  <2> QED
    BY <1>1, <1>2, <1>4, <2>2
<1> QED
  BY <1>3, <1>4

Holds(k, d) == First(k) <= d /\ d < First(k + 1)

LEMMA OneMonth ==
  ASSUME NEW j \in Int, NEW k \in Int, NEW d \in Int, Holds(j, d), Holds(k, d)
  PROVE  j = k
<1>1. /\ First(j) \in Int /\ First(k) \in Int
      /\ First(j + 1) \in Int /\ First(k + 1) \in Int
  BY FirstIsInt
<1>2. ~ (j < k)
  BY <1>1, MonthsInOrder DEF Holds
<1>3. ~ (k < j)
  BY <1>1, MonthsInOrder DEF Holds
<1> QED
  BY <1>2, <1>3

LEMMA FirstOfJanuary ==
  ASSUME NEW y \in Int
  PROVE  FirstOfMonth(y, 1) = Start(y)
<1>1. FirstOfMonth(y, 1) = Start(y) + Days(y, 1) /\ Days(y, 1) \in Int /\ Start(y) \in Int
  BY Normal
<1>2. Days(y, 1) = 0
  BY DEF Days, DaysBefore
<1> QED
  BY <1>1, <1>2

(* The year a day lies in is within one of the estimate.                   *)
LEMMA Estimate ==
  ASSUME NEW y \in Int
  PROVE  /\ 146097 * y - 407 <= 400 * Start(y)
         /\ 400 * Start(y) <= 146097 * y + 490
BY DEF Start, LeapDays

LEMMA YearFound ==
  ASSUME NEW t \in Int
  PROVE  /\ YearOf(t) \in Int
         /\ FirstOfMonth(YearOf(t), 1) <= DayOf(t)
         /\ DayOf(t) < FirstOfMonth(YearOf(t) + 1, 1)
<1> DEFINE d == DayOf(t)
           a == (400 * d) \div 146097
           In(y) == FirstOfMonth(y, 1) <= d /\ d < FirstOfMonth(y + 1, 1)
<1>1. d \in Int
  BY DEF DayOf, Day
<1>2. a \in Int /\ 146097 * a <= 400 * d /\ 400 * d < 146097 * a + 146097
  BY <1>1
<1>3. a - 1 \in Int /\ a + 2 \in Int
  BY <1>2
<1>4. \A y \in Int : Start(y) \in Int
  BY YearLength
<1>5. 400 * Start(a - 1) <= 146097 * (a - 1) + 490
  BY <1>3, Estimate
<1>6. 146097 * (a + 2) - 407 <= 400 * Start(a + 2)
  BY <1>3, Estimate
<1>7. Start(a - 1) <= d /\ d < Start(a + 2)
  <2> HIDE DEF d, a
  <2> QED
    BY <1>1, <1>2, <1>3, <1>4, <1>5, <1>6
<1>8. \E y \in a - 1 .. a + 1 : In(y)
  <2>1. /\ FirstOfMonth(a - 1, 1) = Start(a - 1) /\ FirstOfMonth(a, 1) = Start(a)
        /\ FirstOfMonth(a + 1, 1) = Start(a + 1) /\ FirstOfMonth(a + 2, 1) = Start(a + 2)
    BY <1>2, FirstOfJanuary
  <2>2. In(a - 1) \/ In(a) \/ In(a + 1)
    <3>1. (a - 1) + 1 = a /\ (a + 1) + 1 = a + 2
      BY <1>2
    <3>2. /\ Start(a - 1) \in Int /\ Start(a) \in Int
          /\ Start(a + 1) \in Int /\ Start(a + 2) \in Int
      BY <1>2, <1>4
    <3> HIDE DEF d, a
    <3> QED
      BY <1>1, <1>7, <2>1, <3>1, <3>2
  <2> QED
    <3> HIDE DEF d, a, In
    <3> QED
      BY <1>2, <2>2
<1>9. YearOf(t) = CHOOSE y \in a - 1 .. a + 1 : In(y)
  BY DEF YearOf
<1>10. YearOf(t) \in a - 1 .. a + 1 /\ In(YearOf(t))
  <2> HIDE DEF d, a, In
  <2> QED
    BY <1>8, <1>9
<1> QED
  BY <1>2, <1>10

LEMMA MonthFound ==
  ASSUME NEW t \in Int
  PROVE  /\ MonthOf(t) \in 1 .. 12
         /\ FirstOfMonth(YearOf(t), MonthOf(t)) <= DayOf(t)
         /\ DayOf(t) < FirstOfMonth(YearOf(t), MonthOf(t) + 1)
<1> DEFINE y == YearOf(t)
           In(m) == FirstOfMonth(y, m) <= DayOf(t) /\ DayOf(t) < FirstOfMonth(y, m + 1)
<1>1. y \in Int /\ FirstOfMonth(y, 1) <= DayOf(t) /\ DayOf(t) < FirstOfMonth(y + 1, 1)
  BY YearFound
<1>2. FirstOfMonth(y + 1, 1) = FirstOfMonth(y, 13)
  <2>1. FirstOfMonth(y, 1 + 12 * 1) = FirstOfMonth(y + 1, 1)
    BY <1>1, Carry
  <2> QED
    BY <2>1
<1>3. DayOf(t) \in Int
  BY DEF DayOf, Day
<1>4. \A m \in Int : FirstOfMonth(y, m) \in Int
  BY <1>1, Counted, FirstIsInt
<1>5. \E m \in 1 .. 12 : In(m)
  <2>1. SUFFICES ASSUME \A m \in 1 .. 12 : ~ In(m) PROVE FALSE
    OBVIOUS
  <2>2. \A m \in 1 .. 12 : FirstOfMonth(y, m) <= DayOf(t) => FirstOfMonth(y, m + 1) <= DayOf(t)
    BY <1>3, <1>4, <2>1
  <2> DEFINE G(m) == FirstOfMonth(y, m) <= DayOf(t)
  <2>3. \A m \in 1 .. 12 : G(m) => G(m + 1)
    BY <2>2
  <2>4. G(1) /\ ~ G(13)
    BY <1>1, <1>2, <1>3, <1>4
  <2> HIDE DEF G
  <2>5. G(2) /\ G(3) /\ G(4) /\ G(5)
    BY <2>3, <2>4
  <2>6. G(6) /\ G(7) /\ G(8) /\ G(9)
    BY <2>3, <2>5
  <2>7. G(10) /\ G(11) /\ G(12) /\ G(13)
    BY <2>3, <2>6
  <2> QED
    BY <2>4, <2>7
<1>6. MonthOf(t) = CHOOSE m \in 1 .. 12 : In(m)
  BY DEF MonthOf
<1> QED
  <2> HIDE DEF In
  <2>1. MonthOf(t) \in 1 .. 12 /\ In(MonthOf(t))
    BY <1>5, <1>6
  <2> QED
    BY <2>1 DEF In

(* The number of the month that a time lies in.                            *)
MonthNumber(t) == MonthOf(t) + 12 * YearOf(t)

LEMMA MonthNumberHolds ==
  ASSUME NEW t \in Int
  PROVE  MonthNumber(t) \in Int /\ DayOf(t) \in Int /\ Holds(MonthNumber(t), DayOf(t))
<1>1. YearOf(t) \in Int /\ MonthOf(t) \in Int /\ MonthOf(t) + 1 \in Int
  BY YearFound, MonthFound
<1>2. FirstOfMonth(YearOf(t), MonthOf(t)) = First(MonthOf(t) + 12 * YearOf(t))
  BY <1>1, Counted
<1>3. FirstOfMonth(YearOf(t), MonthOf(t) + 1) = First((MonthOf(t) + 1) + 12 * YearOf(t))
  BY <1>1, Counted
<1>4. (MonthOf(t) + 1) + 12 * YearOf(t) = MonthNumber(t) + 1 /\ MonthNumber(t) \in Int
  BY <1>1 DEF MonthNumber
<1>5. DayOf(t) \in Int
  BY DEF DayOf, Day
<1> QED
  BY <1>2, <1>3, <1>4, <1>5, MonthFound DEF MonthNumber, Holds

LEMMA NumberIs ==
  ASSUME NEW t \in Int, NEW k \in Int, Holds(k, DayOf(t))
  PROVE  MonthNumber(t) = k
BY MonthNumberHolds, OneMonth

LEMMA DateIs ==
  ASSUME NEW t \in Int, NEW n \in Int, NEW day \in Int, NEW sec \in Int
  PROVE  Date(YearOf(t), MonthOf(t) + n, day, sec) = (First(MonthNumber(t) + n) + day - 1) * Day + sec
<1>1. YearOf(t) \in Int /\ MonthOf(t) \in Int /\ MonthOf(t) + n \in Int
  BY YearFound, MonthFound
<1>2. FirstOfMonth(YearOf(t), MonthOf(t) + n) = First((MonthOf(t) + n) + 12 * YearOf(t))
  BY <1>1, Counted
<1>3. (MonthOf(t) + n) + 12 * YearOf(t) = MonthNumber(t) + n
  BY <1>1 DEF MonthNumber
<1> QED
  BY <1>2, <1>3 DEF Date

-----------------------------------------------------------------------------
(* Times.                                                                  *)
LEMMA Parts ==
  ASSUME NEW t \in Int
  PROVE  /\ DayOf(t) \in Int /\ ClockOf(t) \in Int /\ 0 <= ClockOf(t) /\ ClockOf(t) < 86400
         /\ t = 86400 * DayOf(t) + ClockOf(t)
BY SMT DEF DayOf, ClockOf, Day

LEMMA Compose ==
  ASSUME NEW d \in Int, NEW s \in Int, 0 <= s, s < 86400
  PROVE  /\ d * Day + s \in Int
         /\ DayOf(d * Day + s) = d /\ ClockOf(d * Day + s) = s
<1>1. d * Day + s = 86400 * d + s
  BY SMT DEF Day
<1>2. 86400 * d + s \in Int /\ (86400 * d + s) \div 86400 = d /\ (86400 * d + s) % 86400 = s
  BY SMT
<1> QED
  BY <1>1, <1>2, SMT DEF DayOf, ClockOf, Day

LEMMA Shift ==
  ASSUME NEW t \in Int, NEW n \in Int
  PROVE  /\ t + n * Day \in Int
         /\ DayOf(t + n * Day) = DayOf(t) + n /\ ClockOf(t + n * Day) = ClockOf(t)
<1>1. t + n * Day = (DayOf(t) + n) * Day + ClockOf(t) /\ DayOf(t) + n \in Int
  <2>1. DayOf(t) \in Int /\ ClockOf(t) \in Int /\ t = 86400 * DayOf(t) + ClockOf(t)
    BY Parts
  <2>2. n * Day = 86400 * n /\ (DayOf(t) + n) * Day = 86400 * DayOf(t) + 86400 * n
    BY <2>1, SMT DEF Day
  <2> QED
    BY <2>1, <2>2, SMT
<1> QED
  BY <1>1, Parts, Compose, SMT

LEMMA AddDays ==
  ASSUME NEW t \in Int, NEW n \in Int
  PROVE  AddDate(t, 0, 0, n) = t + n * Day
<1>1. YearOf(t) \in Int /\ MonthOf(t) \in Int
  BY YearFound, MonthFound
<1>2. YearOf(t) + 0 = YearOf(t) /\ MonthOf(t) + 0 = MonthOf(t)
  BY <1>1
<1>3. FirstOfMonth(YearOf(t), MonthOf(t)) \in Int
  <2>1. FirstOfMonth(YearOf(t), MonthOf(t)) = First(MonthOf(t) + 12 * YearOf(t))
    BY <1>1, Counted
  <2> QED
    BY <1>1, <2>1, FirstIsInt
<1>4. AddDate(t, 0, 0, n) = (DayOf(t) + n) * Day + ClockOf(t)
  <2> DEFINE f == FirstOfMonth(YearOf(t), MonthOf(t))
  <2>1. AddDate(t, 0, 0, n) = (f + ((DayOf(t) - f + 1) + n) - 1) * Day + ClockOf(t)
    BY <1>2 DEF AddDate, Date, DayInMonth
  <2>2. f + ((DayOf(t) - f + 1) + n) - 1 = DayOf(t) + n
    BY <1>3, Parts
  <2> QED
    BY <2>1, <2>2
<1> QED
  <2>1. DayOf(t) \in Int /\ ClockOf(t) \in Int /\ t = 86400 * DayOf(t) + ClockOf(t)
    BY Parts
  <2>2. n * Day = 86400 * n /\ (DayOf(t) + n) * Day = 86400 * DayOf(t) + 86400 * n
    BY <2>1, SMT DEF Day
  <2> QED
    BY <1>4, <2>1, <2>2, SMT

LEMMA AddMonths ==
  ASSUME NEW t \in Int, NEW n \in Int
  PROVE  /\ AddDate(t, 0, n, 0) = t + (First(MonthNumber(t) + n) - First(MonthNumber(t))) * Day
         /\ AddDate(t, n, 0, 0) = t + (First(MonthNumber(t) + 12 * n) - First(MonthNumber(t))) * Day
<1>1. YearOf(t) \in Int /\ MonthOf(t) \in Int
  BY YearFound, MonthFound
<1>2. YearOf(t) + 0 = YearOf(t) /\ MonthOf(t) + 0 = MonthOf(t) /\ DayInMonth(t) + 0 = DayInMonth(t)
  <2>1. DayInMonth(t) \in Int
    <3>1. FirstOfMonth(YearOf(t), MonthOf(t)) = First(MonthOf(t) + 12 * YearOf(t))
      BY <1>1, Counted
    <3> QED
      BY <1>1, <3>1, FirstIsInt, Parts DEF DayInMonth
  <2> QED
    BY <1>1, <2>1
<1>3. MonthNumber(t) \in Int /\ MonthNumber(t) + n \in Int /\ MonthNumber(t) + 12 * n \in Int
  BY <1>1 DEF MonthNumber
<1>4. /\ First(MonthNumber(t)) \in Int /\ First(MonthNumber(t) + n) \in Int
      /\ First(MonthNumber(t) + 12 * n) \in Int
  BY <1>3, FirstIsInt
<1>5. FirstOfMonth(YearOf(t), MonthOf(t)) = First(MonthNumber(t))
  BY <1>1, Counted DEF MonthNumber
<1>6. FirstOfMonth(YearOf(t), MonthOf(t) + n) = First(MonthNumber(t) + n)
  <2>1. FirstOfMonth(YearOf(t), MonthOf(t) + n) = First((MonthOf(t) + n) + 12 * YearOf(t))
    BY <1>1, Counted
  <2>2. (MonthOf(t) + n) + 12 * YearOf(t) = MonthNumber(t) + n
    BY <1>1 DEF MonthNumber
  <2> QED
    BY <2>1, <2>2
<1>7. FirstOfMonth(YearOf(t) + n, MonthOf(t)) = First(MonthNumber(t) + 12 * n)
  <2>1. FirstOfMonth(YearOf(t) + n, MonthOf(t)) = First(MonthOf(t) + 12 * (YearOf(t) + n))
    BY <1>1, YearOf(t) + n \in Int, Counted
  <2>2. MonthOf(t) + 12 * (YearOf(t) + n) = MonthNumber(t) + 12 * n
    BY <1>1 DEF MonthNumber
  <2> QED
    BY <2>1, <2>2
<1>8. ASSUME NEW f \in Int
      PROVE  (f + (DayOf(t) - First(MonthNumber(t)) + 1) - 1) * Day + ClockOf(t)
               = t + (f - First(MonthNumber(t))) * Day
  BY <1>4, Parts, SMT DEF Day
<1>9. DayInMonth(t) = DayOf(t) - First(MonthNumber(t)) + 1
  BY <1>5 DEF DayInMonth
<1>10. AddDate(t, 0, n, 0) = (First(MonthNumber(t) + n) + DayInMonth(t) - 1) * Day + ClockOf(t)
  BY <1>2, <1>6 DEF AddDate, Date
<1>11. AddDate(t, n, 0, 0) = (First(MonthNumber(t) + 12 * n) + DayInMonth(t) - 1) * Day + ClockOf(t)
  BY <1>2, <1>7 DEF AddDate, Date
<1> QED
  BY <1>4, <1>8, <1>9, <1>10, <1>11

(* The periods, as months counted through and as whole days.               *)
LEMMA WeekIs ==
  ASSUME NEW t \in Int, NEW shift \in Int
  PROVE  /\ SinceMonday(t) \in 0 .. 6
         /\ Period(t, "week", shift) = t + (7 * shift - SinceMonday(t)) * Day
<1>1. DayOf(t) \in Int
  BY Parts
<1>2. SinceMonday(t) \in 0 .. 6
  BY <1>1 DEF SinceMonday, Weekday, FirstDay
<1>3. Period(t, "week", shift) = t + (7 * shift - SinceMonday(t)) * Day
  BY <1>2, AddDays DEF Period
<1> QED
  BY <1>2, <1>3

LEMMA MonthIs ==
  ASSUME NEW t \in Int, NEW shift \in Int
  PROVE  Period(t, "month", shift) = First(MonthNumber(t) + shift) * Day
<1>1. MonthNumber(t) + shift \in Int
  BY MonthNumberHolds
<1>2. First(MonthNumber(t) + shift) \in Int
  BY <1>1, FirstIsInt
<1>3. Period(t, "month", shift) = (First(MonthNumber(t) + shift) + 1 - 1) * Day + 0
  <2>1. Period(t, "month", shift) = Date(YearOf(t), MonthOf(t) + shift, 1, 0)
    BY DEF Period
  <2>2. 1 \in Int /\ 0 \in Int
    OBVIOUS
  <2>3. \A day, sec \in Int :
          Date(YearOf(t), MonthOf(t) + shift, day, sec) = (First(MonthNumber(t) + shift) + day - 1) * Day + sec
    BY DateIs, Zenon
  <2> QED
    BY <2>1, <2>2, <2>3, Zenon
<1> QED
  BY <1>2, <1>3 DEF Day

LEMMA YearIs ==
  ASSUME NEW t \in Int, NEW shift \in Int
  PROVE  /\ YearOf(t) \in Int
         /\ Period(t, "year", shift) = First(1 + 12 * (YearOf(t) + shift)) * Day
         /\ Period(t, "year", shift) \in Int
         /\ YearOf(Period(t, "year", shift)) = YearOf(t) + shift
<1> DEFINE k == 1 + 12 * (YearOf(t) + shift)
           p == Period(t, "year", shift)
<1>1. YearOf(t) \in Int /\ YearOf(t) + shift \in Int /\ k \in Int
  BY YearFound
<1>2. First(k) \in Int
  BY <1>1, FirstIsInt
<1>3. FirstOfMonth(YearOf(t) + shift, 1) = First(k)
  <2>1. \A y \in Int : FirstOfMonth(y, 1) = First(1 + 12 * y)
    BY Counted
  <2> QED
    BY <1>1, <2>1
<1>4. p = (First(k) + 1 - 1) * Day + 0
  BY <1>3 DEF Period, Date
<1>5. p = First(k) * Day + 0
  BY <1>2, <1>4 DEF Day
<1>6. p \in Int /\ DayOf(p) = First(k)
  BY <1>2, <1>5, Compose
<1>7. Holds(k, First(k))
  BY <1>1, <1>2, MonthsInOrder, FirstIsInt DEF Holds
<1>8. MonthNumber(p) = k
  BY <1>1, <1>6, <1>7, NumberIs
<1>9. YearOf(p) \in Int /\ MonthOf(p) \in 1 .. 12
  BY <1>6, YearFound, MonthFound
<1>10. YearOf(p) = YearOf(t) + shift
  <2>1. MonthOf(p) + 12 * YearOf(p) = 1 + 12 * (YearOf(t) + shift)
    BY <1>8 DEF MonthNumber
  <2>2. ASSUME NEW a \in Int, NEW b \in Int, NEW m \in 1 .. 12, m + 12 * a = 1 + 12 * b
        PROVE  a = b
    BY <2>2
  <2> HIDE DEF p
  <2> QED
    BY <1>1, <1>9, <2>1, <2>2
<1> QED
  BY <1>1, <1>2, <1>5, <1>6, <1>10 DEF Day

-----------------------------------------------------------------------------
(* What was read.                                                          *)
DateInv ==
  /\ clock \in Nows /\ phrase \in Phrases
  /\ parsed = NoDate \/ \E t \in Readings(clock, phrase) : parsed = At(t)

(* The clock and the phrase do not change, and what is parsed was read     *)
(* from them.                                                              *)
THEOREM ParsedWasRead == DateSpec => []DateInv
<1>1. DateInit => DateInv
  BY DEF DateInit, DateInv
<1>2. DateInv /\ [ParseDate]_dateVars => DateInv'
  <2>1. SUFFICES ASSUME DateInv, [ParseDate]_dateVars PROVE DateInv'
    OBVIOUS
  <2>2. clock' = clock /\ phrase' = phrase
    BY <2>1 DEF ParseDate, dateVars
  <2>3. parsed' = parsed \/ \E t \in Readings(clock, phrase) : parsed' = At(t)
    BY <2>1 DEF ParseDate, dateVars
  <2> QED
    BY <2>1, <2>2, <2>3 DEF DateInv
<1> QED
  BY <1>1, <1>2, PTL DEF DateSpec

LEMMA ClockIsInt == DateInv => clock \in Int
BY DateAssumption DEF DateInv

LEMMA PhraseTyped ==
  ASSUME NEW p \in Phrases
  PROVE  /\ p.lang \in {"en", "zh"} /\ p.unit \in Units /\ p.num \in Nat /\ p.shift \in Int
         /\ p.weekday \in 0 .. 6 /\ p.last \in BOOLEAN
         /\ p.kind = "period" => p.unit \in {"week", "month", "year"}
BY DateAssumption

(* Of the kinds below, only what one parser finds counts.                  *)
LEMMA ReadInChinese ==
  ASSUME NEW t, NEW p, p.lang = "zh", p.kind \in {"weekday", "ago", "period"}, NEW r \in Readings(t, p)
  PROVE  r = CASE p.kind = "weekday" -> AddDate(t, 0, 0, UntilNext(t, p.weekday))
               [] p.kind = "ago"     -> Ago(t, p.num, p.unit)
               [] p.kind = "period"  -> Period(t, p.unit, p.shift)
<1>1. FromTimestamp(p) = {} /\ FromStandard(p) = {}
  BY DEF FromTimestamp, FromStandard
<1>2. Spells(p) = {}
  BY DEF Spells
<1>3. FromEnglish(t, p) = {}
  BY <1>2 DEF FromEnglish
<1>4. Readings(t, p) = FromChinese(t, p)
  BY <1>1, <1>3 DEF Readings
<1> QED
  BY <1>4 DEF FromChinese

LEMMA ReadInEnglish ==
  ASSUME NEW t, NEW p, p.lang = "en", p.weekday \in 0 .. 6, p.kind \in {"weekday", "period"},
         NEW r \in Readings(t, p)
  PROVE  /\ p.kind = "weekday"
         /\ r = AddDate(t, 0, 0, UntilNext(t, p.weekday) - (IF p.last THEN 7 ELSE 0))
<1>1. FromTimestamp(p) = {} /\ FromStandard(p) = {}
  BY DEF FromTimestamp, FromStandard
<1>2. CASE p.kind = "weekday"
  <2>1. Spells(p) = {p.weekday}
    BY <1>2 DEF Spells
  <2>2. FromEnglish(t, p) = {AddDate(t, 0, 0, UntilNext(t, p.weekday) - (IF p.last THEN 7 ELSE 0))}
    BY <1>2, <2>1 DEF FromEnglish, SaysLast
  <2>3. Readings(t, p) = FromEnglish(t, p)
    BY <1>1, <2>2 DEF Readings
  <2> QED
    BY <1>2, <2>2, <2>3
<1>3. CASE p.kind = "period"
  <2>1. Spells(p) = {}
    BY <1>3 DEF Spells
  <2>2. FromEnglish(t, p) = {}
    BY <1>3, <2>1 DEF FromEnglish
  <2>3. FromChinese(t, p) = {}
    BY DEF FromChinese
  <2> QED
    BY <1>1, <2>2, <2>3 DEF Readings
<1> QED
  BY <1>2, <1>3

LEMMA FoundIsRead ==
  ASSUME DateInv, NEW kind, Found(kind)
  PROVE  phrase.kind = kind /\ parsed.time \in Readings(clock, phrase)
BY DEF DateInv, Found, NoDate, At

(* Days on to a weekday, counted in weeks from Monday.                     *)
LEMMA UntilNextIs ==
  ASSUME NEW t \in Int, NEW weekday \in 0 .. 6
  PROVE  LET n == UntilNext(t, weekday)
             passed == (DayOf(t) + 3) % 7 > (weekday + 6) % 7
         IN  /\ n \in 0 .. 6
             /\ DayOf(t) + n + 3 = 7 * (WeekNo(t) + (IF passed THEN 1 ELSE 0)) + ((weekday + 6) % 7)
<1>1. DayOf(t) \in Int
  BY Parts
<1> DEFINE m == (DayOf(t) + 3) % 7
           w == (DayOf(t) + 3) \div 7
<1>2. m \in 0 .. 6 /\ w \in Int /\ DayOf(t) + 3 = 7 * w + m
  BY <1>1
<1>3. Weekday(t) = (m + 1) % 7
  BY <1>1 DEF Weekday, FirstDay
<1> HIDE DEF m, w
<1>4. UntilNext(t, weekday) = (weekday - ((m + 1) % 7) + 7) % 7
  BY <1>3 DEF UntilNext
<1> DEFINE n == UntilNext(t, weekday)
           e == (weekday + 6) % 7
           passed == IF m > e THEN 1 ELSE 0
<1>5. \A a \in 0 .. 13 : a % 7 = IF a < 7 THEN a ELSE a - 7
  OBVIOUS
<1>6. (m + 1) % 7 = IF m < 6 THEN m + 1 ELSE 0
  BY <1>2, <1>5, m + 1 \in 0 .. 13
<1>7. e = IF weekday < 1 THEN 6 ELSE weekday - 1
  BY <1>5, weekday + 6 \in 0 .. 13
<1> DEFINE x == (m + 1) % 7
<1>8. n = IF weekday < x THEN weekday - x + 7 ELSE weekday - x
  <2>1. x \in 0 .. 6
    BY <1>2, <1>6
  <2> HIDE DEF x
  <2>2. weekday - x + 7 \in 0 .. 13
    BY <2>1
  <2> QED
    BY <1>4, <1>5, <2>1, <2>2 DEF x
<1> HIDE DEF n, e
<1>9. n \in 0 .. 6 /\ m + n = 7 * passed + e
  BY <1>2, <1>6, <1>7, <1>8
<1>10. DayOf(t) + n + 3 = 7 * (w + passed) + e
  BY <1>1, <1>2, <1>7, <1>9
<1>11. WeekNo(t) = w /\ (DayOf(t) + 3) % 7 = m
  BY DEF WeekNo, m, w
<1> QED
  BY <1>9, <1>10, <1>11, Zenon DEF n, e

(* A day is found from its week and its place in it.                       *)
LEMMA DayInWeek ==
  ASSUME NEW t \in Int, NEW w \in Int, NEW weekday \in 0 .. 6, DayOf(t) + 3 = 7 * w + ((weekday + 6) % 7)
  PROVE  WeekNo(t) = w /\ Weekday(t) = weekday
<1>1. DayOf(t) \in Int
  BY Parts
<1> DEFINE e == (weekday + 6) % 7
<1>2. e \in 0 .. 6 /\ (e + 1) % 7 = weekday
  OBVIOUS
<1> HIDE DEF e
<1>3. (7 * w + e) \div 7 = w /\ (7 * w + e + 1) % 7 = (e + 1) % 7
  BY <1>2
<1>4. DayOf(t) + 3 = 7 * w + e
  BY DEF e
<1>5. DayOf(t) + 4 = 7 * w + e + 1
  BY <1>1, <1>2, <1>4
<1>6. WeekNo(t) = (7 * w + e) \div 7 /\ Weekday(t) = (7 * w + e + 1) % 7
  BY <1>4, <1>5 DEF WeekNo, Weekday, FirstDay
<1> QED
  BY <1>2, <1>3, <1>6

(* A weekday is looked for in this week and in the next, never elsewhere;  *)
(* for every clock and every phrase.                                       *)
THEOREM WeekdaysFollow == DateSpec => []WeekdaysFollowTheCalendar
<1>1. ASSUME DateInv PROVE WeekdaysFollowTheCalendar
  <2>1. SUFFICES ASSUME Found("weekday") PROVE WeekdaysFollowTheCalendar!2
    BY DEF WeekdaysFollowTheCalendar
  <2> DEFINE p == phrase  r == parsed.time
  <2>2. p.kind = "weekday" /\ r \in Readings(clock, p) /\ clock \in Int
    BY <1>1, <2>1, FoundIsRead, ClockIsInt
  <2>3. p.lang \in {"en", "zh"} /\ p.weekday \in 0 .. 6
    BY <1>1, PhraseTyped DEF DateInv
  <2> DEFINE until  == UntilNext(clock, p.weekday)
             passed == IF (DayOf(clock) + 3) % 7 > (p.weekday + 6) % 7 THEN 1 ELSE 0
             back   == p.last /\ p.lang = "en"
             weeks  == IF back THEN 1 ELSE 0
             week   == WeekNo(clock) + passed - weeks
  <2>4. /\ until \in 0 .. 6
        /\ DayOf(clock) + until + 3 = 7 * (WeekNo(clock) + passed) + ((p.weekday + 6) % 7)
    BY <2>2, <2>3, UntilNextIs
  <2>5. r = AddDate(clock, 0, 0, until - 7 * weeks)
    <3>1. CASE p.lang = "en"
      <4>1. r = AddDate(clock, 0, 0, until - (IF p.last THEN 7 ELSE 0))
        BY <2>2, <2>3, <3>1, ReadInEnglish
      <4>2. 7 * weeks = IF p.last THEN 7 ELSE 0
        BY <3>1
      <4> QED
        BY <4>1, <4>2
    <3>2. CASE p.lang = "zh"
      <4>1. r = AddDate(clock, 0, 0, until)
        BY <2>2, <3>2, ReadInChinese
      <4>2. until - 7 * weeks = until
        BY <2>4, <3>2
      <4> QED
        BY <4>1, <4>2
    <3> QED
      BY <2>3, <3>1, <3>2
  <2>6. weeks \in Int /\ passed \in Int /\ WeekNo(clock) \in Int /\ DayOf(clock) \in Int /\ week \in Int
    BY <2>2, Parts DEF WeekNo
  <2> HIDE DEF until, weeks, passed, r
  <2>7. until - 7 * weeks \in Int
    BY <2>4, <2>6
  <2>8. /\ r \in Int /\ DayOf(r) = DayOf(clock) + (until - 7 * weeks) /\ ClockOf(r) = ClockOf(clock)
    BY <2>2, <2>5, <2>7, AddDays, Shift
  <2>9. DayOf(r) + 3 = 7 * week + ((p.weekday + 6) % 7)
    <3> DEFINE e == (p.weekday + 6) % 7
    <3>1. e \in Int
      BY <2>3
    <3>2. DayOf(clock) + until + 3 = 7 * (WeekNo(clock) + passed) + e
      BY <2>4
    <3> HIDE DEF e
    <3>3. DayOf(r) + 3 = 7 * (WeekNo(clock) + passed - weeks) + e
      <4>1. ASSUME NEW a \in Int, NEW u \in Int, NEW b \in Int, NEW v \in Int, NEW k \in Int,
                   NEW x \in Int, NEW f \in Int, a + u + 3 = 7 * (b + v) + f, x = a + (u - 7 * k)
            PROVE  x + 3 = 7 * (b + v - k) + f
        BY <4>1
      <4>2. until \in Int /\ DayOf(r) \in Int /\ DayOf(r) = DayOf(clock) + (until - 7 * weeks)
        BY <2>4, <2>8, Parts
      <4> QED
        BY <2>6, <3>1, <3>2, <4>1, <4>2
    <3> QED
      BY <3>3 DEF e
  <2> HIDE DEF week
  <2>10. WeekNo(r) = week /\ Weekday(r) = p.weekday
    BY <2>3, <2>6, <2>8, <2>9, DayInWeek
  <2> QED
    BY <2>8, <2>10 DEF r, week, weeks, passed
<1> QED
  BY <1>1, ParsedWasRead, PTL

(* The period that is named, its first day and the time of day.            *)
LEMMA WeekStarts ==
  ASSUME NEW t \in Int, NEW shift \in Int
  PROVE  LET r == Period(t, "week", shift)
         IN  /\ WeekNo(r) = WeekNo(t) + shift /\ WeekNo(r - Day) = WeekNo(r) - 1
             /\ ClockOf(r) = ClockOf(t)
<1> DEFINE r == Period(t, "week", shift)
           n == 7 * shift - SinceMonday(t)
           w == WeekNo(t)
<1>1. DayOf(t) \in Int /\ SinceMonday(t) \in 0 .. 6 /\ n \in Int /\ r = t + n * Day
  <2>1. DayOf(t) \in Int
    BY Parts
  <2>2. SinceMonday(t) \in 0 .. 6 /\ r = t + n * Day
    BY WeekIs
  <2> QED
    BY <2>1, <2>2
<1>2. SinceMonday(t) = (DayOf(t) + 3) % 7
  BY <1>1 DEF SinceMonday, Weekday, FirstDay
<1>3. w \in Int /\ DayOf(t) + 3 = 7 * w + SinceMonday(t)
  BY <1>1, <1>2 DEF WeekNo
<1>4. r \in Int /\ DayOf(r) = DayOf(t) + n /\ ClockOf(r) = ClockOf(t)
  BY <1>1, Shift
<1>5. r - Day = r + (-1) * Day
  BY <1>4, SMT DEF Day
<1>6. DayOf(r - Day) = DayOf(r) + (-1)
  BY <1>4, <1>5, -1 \in Int, Shift
<1> HIDE DEF r, w
<1>7. DayOf(r) + 3 = 7 * (w + shift) /\ DayOf(r - Day) + 3 = 7 * (w + shift) - 1
  BY <1>1, <1>3, <1>4, <1>6
<1>8. PICK k \in Int : k = w + shift
  BY <1>3
<1>9. WeekNo(r) = k /\ WeekNo(r - Day) = k - 1
  BY <1>7, <1>8 DEF WeekNo
<1> QED
  BY <1>4, <1>8, <1>9 DEF r, w

LEMMA MonthStarts ==
  ASSUME NEW k \in Int, NEW r, r = First(k) * Day
  PROVE  /\ r \in Int /\ MonthNumber(r) = k /\ ClockOf(r) = 0
         /\ r - Day \in Int /\ MonthNumber(r - Day) = k - 1
<1>1. First(k) \in Int /\ First(k - 1) \in Int /\ First(k - 1) < First(k) /\ First(k) < First(k + 1)
      /\ First(k + 1) \in Int /\ k - 1 \in Int
  <2>1. k - 1 \in Int /\ k + 1 \in Int /\ k - 1 < k /\ k < k + 1
    OBVIOUS
  <2> QED
    BY <2>1, FirstIsInt, MonthsInOrder
<1>2. PICK d \in Int : d = First(k)
  BY <1>1
<1>3. r = d * Day + 0 /\ r - Day = (d - 1) * Day + 0 /\ d - 1 \in Int
  BY <1>2, SMT DEF Day
<1>4. r \in Int /\ DayOf(r) = d /\ ClockOf(r) = 0
  BY <1>3, Compose
<1>5. r - Day \in Int /\ DayOf(r - Day) = d - 1
  BY <1>3, Compose
<1>6. Holds(k, DayOf(r))
  BY <1>1, <1>2, <1>4 DEF Holds
<1>7. Holds(k - 1, DayOf(r - Day))
  <2>1. (k - 1) + 1 = k
    OBVIOUS
  <2> QED
    BY <1>1, <1>2, <1>5, <2>1 DEF Holds
<1> QED
  BY <1>1, <1>4, <1>5, <1>6, <1>7, NumberIs

LEMMA YearStarts ==
  ASSUME NEW t \in Int, NEW shift \in Int
  PROVE  LET r == Period(t, "year", shift)
         IN  YearOf(r) = YearOf(t) + shift /\ YearOf(r - Day) = YearOf(r) - 1 /\ ClockOf(r) = 0
<1> DEFINE r == Period(t, "year", shift)
           y == YearOf(t) + shift
           k == 1 + 12 * y
<1>1. YearOf(t) \in Int /\ r = First(k) * Day /\ YearOf(r) = y
  BY YearIs
<1>2. y \in Int /\ k \in Int
  BY <1>1
<1> HIDE DEF r, k
<1>3. ClockOf(r) = 0 /\ r - Day \in Int /\ MonthNumber(r - Day) = k - 1
  BY <1>1, <1>2, MonthStarts
<1> PICK b \in Int : b = r - Day
  BY <1>3
<1>4. YearOf(b) \in Int /\ MonthOf(b) \in 1 .. 12
  BY YearFound, MonthFound
<1>5. MonthOf(b) + 12 * YearOf(b) = 12 * y
  BY <1>2, <1>3 DEF MonthNumber, k
<1>6. ASSUME NEW a \in Int, NEW c \in Int, NEW m \in 1 .. 12, m + 12 * a = 12 * c PROVE a = c - 1
  BY <1>6
<1>7. YearOf(b) = y - 1
  <2> HIDE DEF y
  <2> QED
    BY <1>2, <1>4, <1>5, <1>6
<1> QED
  BY <1>1, <1>3, <1>7 DEF r

(* Last, this and next week, month and year are the first day of the       *)
(* period before, of and after the clock's, whatever it shows.             *)
THEOREM PeriodsFollow == DateSpec => []PeriodsFollowTheCalendar
<1>1. ASSUME DateInv PROVE PeriodsFollowTheCalendar
  <2>1. SUFFICES ASSUME Found("period") PROVE PeriodsFollowTheCalendar!2
    BY DEF PeriodsFollowTheCalendar
  <2> DEFINE p == phrase  r == parsed.time
  <2>2. p.kind = "period" /\ r \in Readings(clock, p) /\ clock \in Int
    BY <1>1, <2>1, FoundIsRead, ClockIsInt
  <2>3. /\ p.lang \in {"en", "zh"} /\ p.weekday \in 0 .. 6 /\ p.shift \in Int
        /\ p.unit \in {"week", "month", "year"}
    BY <1>1, <2>2, PhraseTyped DEF DateInv
  <2>4. p.lang = "zh"
    BY <2>2, <2>3, ReadInEnglish
  <2>5. r = Period(clock, p.unit, p.shift)
    BY <2>2, <2>4, ReadInChinese
  <2> HIDE DEF r
  <2>6. CASE p.unit = "week"
    <3>1. /\ WeekNo(r) = WeekNo(clock) + p.shift /\ WeekNo(r - Day) = WeekNo(r) - 1
          /\ ClockOf(r) = ClockOf(clock)
      BY <2>2, <2>3, <2>5, <2>6, WeekStarts
    <3> QED
      BY <2>6, <3>1 DEF PeriodNo, r
  <2>7. CASE p.unit = "month"
    <3> DEFINE k == MonthNumber(clock) + p.shift
    <3>1. k \in Int
      BY <2>2, <2>3, MonthNumberHolds
    <3>2. r = First(k) * Day
      BY <2>2, <2>3, <2>5, <2>7, MonthIs
    <3> HIDE DEF k
    <3>3. MonthNumber(r) = k /\ MonthNumber(r - Day) = k - 1 /\ ClockOf(r) = 0
      BY <3>1, <3>2, MonthStarts
    <3> QED
      BY <2>7, <3>3 DEF PeriodNo, MonthNumber, r, k
  <2>8. CASE p.unit = "year"
    <3>1. YearOf(r) = YearOf(clock) + p.shift /\ YearOf(r - Day) = YearOf(r) - 1 /\ ClockOf(r) = 0
      BY <2>2, <2>3, <2>5, <2>8, YearStarts
    <3> QED
      BY <2>8, <3>1 DEF PeriodNo, r
  <2> QED
    BY <2>3, <2>6, <2>7, <2>8
<1> QED
  BY <1>1, ParsedWasRead, PTL

(* However many months or years ago, no month is skipped and none is       *)
(* counted twice: n months are at least 30n - 2 days and at most 31n, at   *)
(* the same time of the day.                                               *)
THEOREM MonthsAgo == DateSpec => []MonthsAgoSpanMonths
<1>1. ASSUME DateInv PROVE MonthsAgoSpanMonths
  <2>1. SUFFICES ASSUME Found("ago"), phrase.lang = "zh", phrase.unit \in {"month", "year"}
                 PROVE  MonthsAgoSpanMonths!2
    BY DEF MonthsAgoSpanMonths
  <2> DEFINE p == phrase  r == parsed.time
             n == p.num * (IF p.unit = "year" THEN 12 ELSE 1)
             k == MonthNumber(clock)
             days == First(k) - First(k - n)
  <2>2. p.kind = "ago" /\ r \in Readings(clock, p) /\ clock \in Int
    BY <1>1, <2>1, FoundIsRead, ClockIsInt
  <2>3. p.num \in Nat
    BY <1>1, PhraseTyped DEF DateInv
  <2>4. r = Ago(clock, p.num, p.unit)
    BY <2>1, <2>2, ReadInChinese
  <2>5. k \in Int
    BY <2>2, MonthNumberHolds
  <2>6. n \in Nat /\ (p.unit = "month" => n = p.num) /\ (p.unit = "year" => n = 12 * p.num)
    BY <2>1, <2>3
  <2>7. r = clock + (First(k - n) - First(k)) * Day
    <3>1. CASE p.unit = "month"
      <4>1. r = AddDate(clock, 0, -p.num, 0)
        BY <2>4, <3>1 DEF Ago
      <4>2. -p.num \in Int /\ k + (-p.num) = k - n
        BY <2>3, <2>5, <2>6, <3>1
      <4> QED
        BY <2>2, <4>1, <4>2, AddMonths
    <3>2. CASE p.unit = "year"
      <4>1. r = AddDate(clock, -p.num, 0, 0)
        BY <2>4, <3>2 DEF Ago
      <4>2. -p.num \in Int /\ k + 12 * (-p.num) = k - n
        BY <2>3, <2>5, <2>6, <3>2
      <4> QED
        BY <2>2, <4>1, <4>2, AddMonths
    <3> QED
      BY <2>1, <3>1, <3>2
  <2>8. /\ days \in Int /\ 30 * n - 2 <= days /\ days <= 31 * n
        /\ First(k - n) \in Int /\ First(k) \in Int
    <3> HIDE DEF k, n
    <3>1. k - n \in Int /\ k - n <= k /\ k - (k - n) = n
      BY <2>5, <2>6
    <3>2. /\ First(k - n) \in Int /\ First(k) \in Int
          /\ 30 * (k - (k - n)) - 2 <= First(k) - First(k - n)
          /\ First(k) - First(k - n) <= 31 * (k - (k - n))
      BY <2>5, <3>1, MonthSpan
    <3> QED
      BY <3>1, <3>2
  <2>9. -days \in Int /\ r = clock + (-days) * Day /\ clock - r = 86400 * days
    <3> DEFINE e == First(k - n) - First(k)
    <3>1. e \in Int /\ e = -days
      BY <2>8
    <3>2. e * Day = 86400 * e
      <4> HIDE DEF e
      <4> QED
        BY <3>1, SMT DEF Day
    <3>3. r = clock + e * Day /\ r = clock + (-days) * Day
      BY <2>7, <3>1
    <3> HIDE DEF e, days
    <3> QED
      BY <2>2, <2>8, <3>1, <3>2, <3>3, SMT
  <2>10. ClockOf(r) = ClockOf(clock)
    BY <2>2, <2>9, Shift
  <2>11. (clock - r) \div Day = days
    <3> HIDE DEF days
    <3>1. (86400 * days) \div 86400 = days
      BY <2>8, SMT
    <3> QED
      BY <2>9, <3>1, SMT DEF Day
  <2> QED
    BY <2>8, <2>10, <2>11
<1> QED
  BY <1>1, ParsedWasRead, PTL
=============================================================================
