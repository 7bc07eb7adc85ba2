----------------------------- MODULE MCRouteParts -----------------------------
(* Three parts that routes use and that share no state, side by side: a     *)
(* behaviour is about a feed's items, about a date or about a token.        *)
EXTENDS FeedItems, DateParsing, RouteCache, TLC

CONSTANTS Feeds, Tokens, alpha, beta, broken

In(field, how) == [f \in Field |-> IF f = field THEN how ELSE "not"]
Nowhere == [f \in Field |-> "not"]
Entry(date, a, b, runes) ==
  [id |-> 0, date |-> date, runes |-> runes,
   says |-> [x \in {alpha, beta} |-> IF x = alpha THEN a ELSE b]]

Old     == Entry(2, In("category", "exact"), Nowhere, 100)
Middle  == Entry(5, In("title", "otherCase"), In("author", "exact"), 1)
New     == Entry(9, Nowhere, In("description", "exact"), 104)
Undated == Entry(0, In("title", "exact"), In("category", "exact"), 2)

MCSource == {<<Middle, Old, Nothing>>, <<Undated, New>>}

Num(n)  == [read |-> TRUE, num |-> n, unit |-> 1]
Hours(n) == [Num(n) EXCEPT !.unit = 3]
Garbled == [read |-> FALSE, num |-> 0, unit |-> 1]
Plain == [filter_time |-> Absent, filter |-> Absent, filterout |-> Absent,
          sorted |-> Absent, limit |-> Absent, brief |-> Absent]

MCQueries ==
  {[Plain EXCEPT !.filter_time = w, !.filter = f, !.limit = l] :
     w \in {Absent, Num(6), Num(20), Num(30), Num(0), Num(-6), Hours(2), Hours(45)},
     f \in {Absent, alpha}, l \in {Absent, Num(1)}}
  \cup {[Plain EXCEPT !.filter = f, !.filterout = o, !.sorted = s] :
          f \in {Absent, beta}, o \in {Absent, alpha, broken}, s \in {"true", "false"}}
  \cup {[Plain EXCEPT !.limit = l, !.brief = b, !.filter_time = Garbled, !.sorted = "false"] :
          l \in {Garbled, Num(2)}, b \in {Num(50), Garbled}}

MCPattern == {alpha, beta, broken}
MCLimits == {-1, 3}

-----------------------------------------------------------------------------
(* Both sides of the ends of months in a leap year, in the one after it and *)
(* in 2000, and every weekday.                                              *)
MCNows ==
  {Date(y, m, d, 43200) : y \in {2, 3, 30}, m \in {1, 2, 3, 4, 12}, d \in {1, 15, 28, 29, 30, 31}}
  \cup {Date(1, 6, d, 100) : d \in 1 .. 7}

Phrase == [kind |-> "today", lang |-> "en", unit |-> "day", num |-> 0, shift |-> 0,
           weekday |-> 0, last |-> FALSE, year |-> 0, month |-> 1, day |-> 1, sec |-> 0]

Langs == {"en", "zh"}

MCPhrases ==
  {[Phrase EXCEPT !.shift = s] : s \in -1 .. 1}
  \cup {[Phrase EXCEPT !.lang = "zh", !.shift = s] : s \in -2 .. 2}
  \cup {[Phrase EXCEPT !.kind = "weekday", !.lang = l, !.weekday = d, !.last = x] :
          l \in Langs, d \in 0 .. 6, x \in BOOLEAN}
  \cup {[Phrase EXCEPT !.kind = "ago", !.lang = l, !.unit = u, !.num = n] :
          l \in Langs, u \in {"second", "minute", "hour", "day", "week", "month", "year"}, n \in {1, 2, 13}}
  \cup {[Phrase EXCEPT !.kind = "last", !.unit = u] : u \in {"week", "month", "year"}}
  \cup {[Phrase EXCEPT !.kind = "period", !.lang = "zh", !.unit = u, !.shift = s] :
          u \in {"week", "month", "year"}, s \in -1 .. 1}
  \cup {[Phrase EXCEPT !.kind = k, !.lang = l, !.year = 2, !.month = 2, !.day = 29,
                       !.sec = 3661, !.num = 19720229] :
          k \in {"date", "compact", "unix", "unlisted"}, l \in Langs}

-----------------------------------------------------------------------------
CallerSymmetry == Permutations(Caller)

(* The phrase says which part a behaviour is about. *)
Init ==
  /\ FeedInit /\ TokenInit
  /\ DateInit \/ (clock = 0 /\ phrase \in {Feeds, Tokens} /\ parsed = NoDate)

Next ==
  \/ phrase = Feeds /\ FeedNext /\ UNCHANGED <<dateVars, tokenVars>>
  \/ phrase = Tokens /\ TokenNext /\ UNCHANGED <<feedVars, dateVars>>
  \/ phrase \in Phrases /\ ParseDate /\ UNCHANGED <<feedVars, tokenVars>>

Spec == Init /\ [][Next]_<<feedVars, dateVars, tokenVars>>
=============================================================================
