------------------------------ MODULE FeedItems ------------------------------
(***************************************************************************)
(* What happens to a feed's items between the route that collects them and *)
(* the reply: AppendMappedItems fills the slice; then ProcessFeed of       *)
(* middleware/parameter.go answers a request from a copy, or a caller of   *)
(* routeutils/filter.go applies ApplyParameters to the slice itself.  The  *)
(* slice is shared, as the cached feed is: each step may meet what earlier *)
(* ones left.                                                              *)
(*                                                                         *)
(* A number in a query is what Sscanf("%d") makes of it: leading digits    *)
(* are read and the rest, say a unit, is ignored.  A pattern is a name;    *)
(* how each field of an item answers to it is part of the item.            *)
(***************************************************************************)
EXTENDS Integers, Sequences, FiniteSets, Functions

CONSTANTS
  Source,     \* the pages a site may offer: items, and Nothing for what is unusable
  Nothing,    \* what a mapper returns for an entry it cannot use
  Queries,    \* the queries requests come with
  Limits,     \* the limits routes pass to AppendMappedItems
  Pattern,    \* what a filter may ask for
  Broken,     \* patterns that regexp.Compile rejects
  Absent,     \* a parameter that is not given
  Now,        \* the clock, in seconds
  Second,     \* duration units in a second
  Range64,    \* durations wrap around outside -Range64 .. Range64 - 1
  MaxItems    \* bound: the slice is not filled further

Field == {"title", "description", "author", "category"}

(* date 0: none; runes: how long the description is *)
Item == [id : Nat, date : Nat, runes : Nat,
         says : [Pattern \ Broken -> [Field -> {"exact", "otherCase", "not"}]]]

(* unit: what the text goes on with, in seconds (168h: num 168, unit 3600) *)
Number == [read : BOOLEAN, num : Int, unit : Nat \ {0}]
Query  == [filter_time : Number \cup {Absent}, filter : Pattern \cup {Absent},
           filterout : Pattern \cup {Absent}, sorted : {"true", "false", Absent},
           limit : Number \cup {Absent}, brief : Number \cup {Absent}]

ASSUME FeedAssumption ==
  /\ Now \in Nat /\ Second \in Nat \ {0} /\ Range64 \in Nat \ {0} /\ MaxItems \in Nat
  /\ Limits \subseteq Int
  /\ Broken \subseteq Pattern /\ Absent \notin Pattern \cup Number /\ Nothing \notin Item
  /\ Source \subseteq Seq(Item \cup {Nothing}) /\ Queries \subseteq Query

VARIABLES
  items,   \* the slice the route built and the cache shares
  reply    \* the latest answer made from it

feedVars == <<items, reply>>

NoReply == [by |-> "none", query |-> Absent, from |-> <<>>, items |-> <<>>]

FeedInit == items = <<>> /\ reply = NoReply

-----------------------------------------------------------------------------
(* Numbers.                                                                *)

Reads(text) == text # Absent /\ text.read
Wrapped(d)  == ((d + Range64) % (2 * Range64)) - Range64

(* mutant: the window is computed in half the width *)
Cutoff_Narrow(seconds) ==
  Now * Second + ((-seconds * Second + (Range64 \div 2)) % Range64) - (Range64 \div 2)

(* time.Now().Add(-time.Duration(seconds) * time.Second), in duration units *)
Cutoff(seconds) == Now * Second + Wrapped(-seconds * Second)

-----------------------------------------------------------------------------
(* The stages.  Each says which places of the slice it keeps.              *)

Dated(item) == item.date # 0

InWindow(list, seconds) ==
  {i \in DOMAIN list : Dated(list[i]) /\ list[i].date * Second > Cutoff(seconds)}

Matches(item, pattern, anyCase, fields) ==
  \E field \in fields :
    item.says[pattern][field] \in (IF anyCase THEN {"exact", "otherCase"} ELSE {"exact"})

Matching(list, pattern, anyCase, fields) ==
  {i \in DOMAIN list : Matches(list[i], pattern, anyCase, fields)}

(* the comparator of both sorts: newest first, undated last *)
Before(a, b) == Dated(a) /\ (~Dated(b) \/ a.date > b.date)

(* sorted is on unless a value other than `true' is given *)
Sorts(query) == query.sorted \in {Absent, "true"}

(* Every order the stage may leave the places I in: sort.Slice promises    *)
(* nothing about items that are equal to it.                               *)
Orders(list, I, sort) ==
  {f \in Bijection(1 .. Cardinality(I), I) :
     \A m, n \in DOMAIN f : m < n =>
       IF sort THEN ~Before(list[f[n]], list[f[m]]) ELSE f[m] < f[n]}

Picked(list, f) == [n \in DOMAIN f |-> list[f[n]]]

Capped(list, limit) ==
  IF ~Reads(limit) \/ limit.num <= 0 \/ limit.num > Len(list)
  THEN list ELSE SubSeq(list, 1, limit.num)

(* truncateRunes appends three dots to what it cuts *)
Truncated(runes, most) == IF runes <= most THEN runes ELSE most + 3

Briefly(list, brief) ==
  LET most == IF Reads(brief) /\ brief.num > 0 THEN brief.num ELSE 100
  IN IF brief = Absent THEN list
     ELSE [n \in DOMAIN list |-> [list[n] EXCEPT !.runes = Truncated(@, most)]]

-----------------------------------------------------------------------------
(* ProcessFeed: case-sensitive, a pattern that does not compile and a      *)
(* number that cannot be read filter nothing.                              *)

(* the fields matchesFilter looks at *)
ServerFields == {"title", "description", "author", "category"}

KeptByProcess(list, query) ==
  {i \in DOMAIN list :
     /\ Reads(query.filter_time) => i \in InWindow(list, query.filter_time.num)
     /\ query.filter \notin Broken \cup {Absent} => i \in Matching(list, query.filter, FALSE, ServerFields)
     /\ query.filterout \notin Broken \cup {Absent} => i \notin Matching(list, query.filterout, FALSE, ServerFields)}

(* mutant: ProcessFeed limits the feed before it sorts it *)
Process_LimitFirst(query) ==
  LET K == KeptByProcess(items, query)
      L == {i \in K : \/ ~Reads(query.limit) \/ query.limit.num <= 0
                      \/ Cardinality({j \in K : j <= i}) <= query.limit.num} IN
  /\ \E f \in Orders(items, L, Sorts(query)) :
       reply' = [by |-> "process", query |-> query, from |-> items,
                 items |-> Briefly(Picked(items, f), query.brief)]
  /\ UNCHANGED items

Process(query) ==
  /\ \E f \in Orders(items, KeptByProcess(items, query), Sorts(query)) :
       reply' = [by |-> "process", query |-> query, from |-> items,
                 items |-> Briefly(Capped(Picked(items, f), query.limit), query.brief)]
  /\ UNCHANGED items

-----------------------------------------------------------------------------
(* ApplyParameters: any case, only a positive window counts, a pattern     *)
(* that does not compile is an error.                                      *)

(* mutant: a filter does not look at the categories *)
RouteFields_NoCategory == {"title", "description", "author"}

(* the fields it passes on, each of which matchesFilterInFields knows *)
RouteFields == {"title", "description", "author", "category"}

Windows(query) == Reads(query.filter_time) /\ query.filter_time.num > 0

(* mutant: the copy that a window makes is taken for the caller's slice *)
Aliased_Window(query) == query.filter = Absent /\ query.filterout = Absent

(* result is still the caller's slice: no filter has made a new one *)
Aliased(query) == ~Windows(query) /\ query.filter = Absent /\ query.filterout = Absent

KeptByApply(list, query) ==
  {i \in DOMAIN list :
     /\ Windows(query) => i \in InWindow(list, query.filter_time.num)
     /\ query.filter # Absent => i \in Matching(list, query.filter, TRUE, RouteFields)
     /\ query.filterout # Absent => i \notin Matching(list, query.filterout, TRUE, RouteFields)}

ApplyFails(query) ==
  /\ {query.filter, query.filterout} \cap Broken # {}
  /\ reply' = [by |-> "error", query |-> query, from |-> items, items |-> <<>>]
  /\ UNCHANGED items

Apply(query) ==
  /\ {query.filter, query.filterout} \cap Broken = {}
  /\ \E f \in Orders(items, KeptByApply(items, query), Sorts(query)) :
       /\ reply' = [by |-> "apply", query |-> query, from |-> items,
                    items |-> Capped(Picked(items, f), query.limit)]
       /\ items' = IF Aliased(query) THEN Picked(items, f) ELSE items

-----------------------------------------------------------------------------
(* AppendMappedItems over the entries of one page: unusable ones are       *)
(* skipped, and it stops once the feed (not the page) has limit items.     *)
Usable(entries) == {i \in DOMAIN entries : entries[i] # Nothing}

(* mutant: the limit is compared with what this page adds *)
Chosen_PerPage(list, entries, limit) ==
  {i \in Usable(entries) : limit <= 0 \/ Cardinality({j \in Usable(entries) : j < i}) < limit}

Chosen(list, entries, limit) ==
  {i \in Usable(entries) :
     limit <= 0 \/ Len(list) + Cardinality({j \in Usable(entries) : j < i}) < limit}

(* Every entry becomes an item of its own: id is its place in the slice. *)
Appended(list, entries, f) ==
  list \o [n \in DOMAIN f |-> [entries[f[n]] EXCEPT !.id = Len(list) + n]]

Collect(entries, limit) ==
  /\ Len(items) < MaxItems
  /\ \E f \in Orders(entries, Chosen(items, entries, limit), FALSE) :
       items' = Appended(items, entries, f)
  /\ reply' = [by |-> "collect", query |-> [limit |-> limit, entries |-> entries],
               from |-> items, items |-> items']

FeedNext ==
  \/ \E entries \in Source, limit \in Limits : Collect(entries, limit)
  \/ \E query \in Queries : Process(query) \/ ApplyFails(query) \/ Apply(query)

FeedSpec == FeedInit /\ [][FeedNext]_feedVars

-----------------------------------------------------------------------------
(* Properties.                                                             *)

Answers == {"process", "apply"}
Ids(list) == {list[i].id : i \in DOMAIN list}

KeptBy(who, list, query) ==
  IF who = "process" THEN KeptByProcess(list, query) ELSE KeptByApply(list, query)

(* A sorted reply runs from the latest date to the earliest, the undated   *)
(* (date 0) at its end, and what a limit cut from it is no later than      *)
(* anything it kept: the limit counts items after the filters and the sort.*)
LimitKeepsNewest ==
  reply.by \in Answers /\ Sorts(reply.query) =>
    /\ \A m, n \in DOMAIN reply.items : m < n => reply.items[m].date >= reply.items[n].date
    /\ \A i \in KeptBy(reply.by, reply.from, reply.query) :
         \/ reply.from[i].id \in Ids(reply.items)
         \/ /\ Reads(reply.query.limit) /\ Len(reply.items) = reply.query.limit.num
            /\ \A n \in DOMAIN reply.items : reply.items[n].date >= reply.from[i].date

(* The server's filter and the routes' filter, written twice, keep the     *)
(* same items of every slice, except where they differ on purpose: case,   *)
(* broken patterns and windows that are not positive.                      *)
BothFiltersAgree ==
  reply.by \in Answers =>
    LET q == reply.query IN
    (/\ \A i \in DOMAIN reply.from : \A p \in {q.filter, q.filterout} \ {Absent} :
          p \in Broken \/ \A field \in Field : reply.from[i].says[p][field] # "otherCase"
     /\ {q.filter, q.filterout} \cap Broken = {}
     /\ Reads(q.filter_time) => q.filter_time.num > 0)
      => KeptByProcess(reply.from, q) = KeptByApply(reply.from, q)

(* Whatever the code makes of a time window - it ignores a unit behind the *)
(* number, and a length past Range64 wraps around - the reply holds no     *)
(* undated item and none older than the window its text names.  And where  *)
(* neither happens and nothing else is asked, none that is newer is lost.  *)
WindowsErrByLeavingOut ==
  reply.by \in Answers /\ Windows(reply.query) =>
    LET q == reply.query
        text == q.filter_time IN
    /\ \A n \in DOMAIN reply.items :
         Dated(reply.items[n]) /\ reply.items[n].date > Now - text.num * text.unit
    /\ (/\ text.unit = 1 /\ text.num * Second <= Range64
        /\ q.filter = Absent /\ q.filterout = Absent /\ ~Reads(q.limit)) =>
         \A i \in DOMAIN reply.from :
           Dated(reply.from[i]) /\ reply.from[i].date > Now - text.num =>
             reply.from[i].id \in Ids(reply.items)

(* Answering requests never adds an item to the shared slice or takes one  *)
(* from it.  ProcessFeed leaves it alone; ApplyParameters may leave it in  *)
(* another order, and only if it sorts and filters nothing.                *)
SharedSliceKeepsItems ==
  [][reply'.by # "collect" =>
       /\ Len(items') = Len(items) /\ Ids(items') = Ids(items)
       /\ items' # items => reply'.by = "apply" /\ Sorts(reply'.query)]_feedVars

(* A page is appended in its order without its unusable entries, and stops *)
(* short of them only where the whole feed, earlier pages included, has    *)
(* reached the limit; no page takes the feed past it.                      *)
CollectFillsToLimit ==
  reply.by = "collect" =>
    LET limit == reply.query.limit
        added == Len(reply.items) - Len(reply.from) IN
    /\ limit > 0 /\ added > 0 => Len(reply.items) <= limit
    /\ added < Cardinality(Usable(reply.query.entries)) =>
         limit > 0 /\ Len(reply.items) >= limit
=============================================================================
