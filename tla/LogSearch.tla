------------------------------ MODULE LogSearch ------------------------------
(***************************************************************************)
(* Historical search in the explorer: the filters in the URL, the hook     *)
(* useLogSearch that collects pages by an opaque cursor, and the calls it  *)
(* has under way through the BFF to GET /v1/search, whose keyset page over *)
(* the stored events is part of the model.  An event is a number, its      *)
(* position in (ts, id) order; of the filters level, from and to are kept, *)
(* the others being conjuncts of the same kind.                            *)
(***************************************************************************)
EXTENDS Integers, Sequences, Functions

CONSTANTS
  None,                \* an empty field, an absent cursor
  Unreadable,          \* a time in the URL that does not parse
  Levels,
  LevelOf,             \* the level of every event
  Bounds,              \* times that from and to may be set to
  SEARCH_PAGE_LIMIT,
  MAX_SEARCH_RESULTS,
  MaxSearches          \* bound on the requests of one mount of the page

ASSUME SearchAssumption ==
  /\ SEARCH_PAGE_LIMIT \in Nat \ {0} /\ MAX_SEARCH_RESULTS \in Nat \ {0}
  /\ MaxSearches \in Nat /\ Bounds \subseteq Nat /\ DOMAIN LevelOf \subseteq Nat
  /\ None \notin Levels \cup Bounds \cup DOMAIN LevelOf \cup {Unreadable}

VARIABLES
  filters,    \* the URL's search filters
  stored,     \* the tenant's events
  shown,      \* the hook's State
  refs,       \* its refs: reqId, lastFilters, cursorRef, inFlight
  requests,   \* calls under way: [id, params, page]
  searching,  \* is the explorer in search mode?
  stranded,   \* history: has a call of this mount been rejected?
  atFirst     \* history: the events stored when the first page was read

searchVars == <<filters, stored, shown, refs, requests, searching, stranded, atFirst>>

Logs == DOMAIN LevelOf
Filters == [level : Levels \cup {None}, from : Bounds \cup {None, Unreadable}, to : Bounds \cup {None}]
EMPTY_SEARCH_FILTERS == [level |-> None, from |-> None, to |-> None]

searchFiltersActive(f) == \E k \in DOMAIN f : f[k] # None

INITIAL == [status |-> "idle", events |-> <<>>, nextCursor |-> None, error |-> FALSE,
            hasSearched |-> FALSE, capped |-> FALSE]
FreshRefs == [reqId |-> 0, lastFilters |-> EMPTY_SEARCH_FILTERS, cursor |-> None, inFlight |-> FALSE]

\* toRfc3339 leaves what it cannot read as it is; a parameter that is None is
\* omitted.
buildSearchParams(f, cursor) ==
  [level |-> f.level, from |-> f.from, to |-> f.to, limit |-> SEARCH_PAGE_LIMIT, cursor |-> cursor]

-----------------------------------------------------------------------------
(* query-service *)

parseSearchQueryOK(p) ==
  p.from # Unreadable /\ ((p.from # None /\ p.to # None) => p.from < p.to)

AfterCursor(p, e) == p.cursor # None => e < p.cursor

Matches(p, e) ==
  /\ p.from # None => e >= p.from
  /\ p.to # None => e < p.to
  /\ p.level # None => LevelOf[e] = p.level

Selected(p) == {e \in stored : Matches(p, e)}

NewestFirst(list) == \A i, j \in 1..Len(list) : i < j => list[i] > list[j]

\* The rows the query reads, of which there is one list: one row more than
\* the limit, to know whether a page follows.
buildSearch(p) ==
  LET found == {e \in Selected(p) : AfterCursor(p, e)}
  IN  {read \in UNION {[1..n -> found] : n \in 0..(p.limit + 1)} :
         /\ NewestFirst(read)
         /\ \A e \in found \ Range(read) :
              Len(read) = p.limit + 1 /\ \A i \in 1..Len(read) : e < read[i]}

paginate(read, limit) ==
  IF Len(read) <= limit
    THEN [ok |-> TRUE, events |-> read, nextCursor |-> None]
    ELSE [ok |-> TRUE, events |-> SubSeq(read, 1, limit), nextCursor |-> read[limit]]

Failure == [ok |-> FALSE, events |-> <<>>, nextCursor |-> None]

\* The call reaches query-service and its page is read; it may fail instead.
searchUpstream(c) ==
  /\ c \in requests /\ c.page = {}
  /\ \E page \in {Failure} \cup
                  (IF parseSearchQueryOK(c.params)
                     THEN {paginate(read, c.params.limit) : read \in buildSearch(c.params)} ELSE {}) :
       requests' = (requests \ {c}) \cup {[c EXCEPT !.page = {page}]}
  /\ atFirst' = IF c.params.cursor # None \/ c.id # refs.reqId THEN atFirst ELSE stored
  /\ UNCHANGED <<filters, stored, shown, refs, searching, stranded>>

\* The pipeline stores another event, in any place of the order.
Stored ==
  /\ \E e \in Logs \ stored : stored' = stored \cup {e}
  /\ UNCHANGED <<filters, shown, refs, requests, searching, stranded, atFirst>>

-----------------------------------------------------------------------------
(* useLogSearch *)

Send(id, f, cursor) ==
  requests' = requests \cup {[id |-> id, params |-> buildSearchParams(f, cursor), page |-> {}]}

Searching(f, r) ==
  /\ r.reqId < MaxSearches
  /\ refs' = [reqId |-> r.reqId + 1, lastFilters |-> f, cursor |-> None, inFlight |-> TRUE]
  /\ shown' = [INITIAL EXCEPT !.status = "loading"]
  /\ Send(r.reqId + 1, f, None)

\* The Search button, Enter and Retry: none of them while a first page loads.
run ==
  /\ searching /\ shown.status # "loading"
  /\ Searching(filters, refs)
  /\ UNCHANGED <<filters, stored, searching, stranded, atFirst>>

loadMore ==
  /\ searching /\ shown.events # <<>> /\ shown.nextCursor # None /\ shown.status # "loadingMore"
  /\ refs.cursor # None /\ ~refs.inFlight /\ refs.reqId < MaxSearches
  /\ refs' = [refs EXCEPT !.reqId = @ + 1, !.inFlight = TRUE]
  /\ shown' = [shown EXCEPT !.status = "loadingMore", !.error = FALSE]
  /\ Send(refs.reqId + 1, refs.lastFilters, refs.cursor)
  /\ UNCHANGED <<filters, stored, searching, stranded, atFirst>>

\* The page is appended to what was shown before and cut at the ceiling.
Collected(page) ==
  LET all == shown.events \o page.events
      capped == Len(all) >= MAX_SEARCH_RESULTS
  IN  [status |-> "success", events |-> SubSeq(all, 1, IF capped THEN MAX_SEARCH_RESULTS ELSE Len(all)),
       nextCursor |-> IF capped THEN None ELSE page.nextCursor,
       error |-> FALSE, hasSearched |-> TRUE, capped |-> capped]

Failed == IF shown.status = "loading"
            THEN [INITIAL EXCEPT !.status = "error", !.error = TRUE, !.hasSearched = TRUE]
            ELSE [shown EXCEPT !.status = "success", !.error = TRUE]

\* Every answer is taken for the latest.
LatestAny(id) == TRUE

Latest(id) == id = refs.reqId

\* A failed page leaves the hook as it was.
settleOnlyPages(page) ==
  IF page.ok
    THEN shown' = Collected(page) /\ refs' = [refs EXCEPT !.inFlight = FALSE, !.cursor = shown'.nextCursor]
    ELSE UNCHANGED <<shown, refs>>

\* A failed first page clears the cursor, which run had cleared already; a
\* failed further page keeps it for another try.
settle(page) ==
  /\ shown' = IF page.ok THEN Collected(page) ELSE Failed
  /\ refs' = [refs EXCEPT !.inFlight = FALSE, !.cursor = shown'.nextCursor]

answered(c) ==
  /\ searching /\ c.page # {}
  /\ requests' = requests \ {c}
  /\ \A page \in c.page : IF Latest(c.id) THEN settle(page) ELSE UNCHANGED <<shown, refs>>
  /\ UNCHANGED <<filters, stored, searching, stranded, atFirst>>

\* The session is gone, which searchFn answers by throwing the redirect, or
\* the BFF is out of reach: then() has no handler for a rejection.
rejected(c) ==
  /\ searching /\ requests' = requests \ {c}
  /\ stranded' = (stranded \/ Latest(c.id))
  /\ UNCHANGED <<filters, stored, shown, refs, searching, atFirst>>

-----------------------------------------------------------------------------
(* The page *)

\* SearchBar changes one field or clears all; it is disabled while loading.
SearchBar ==
  /\ searching /\ shown.status # "loading"
  /\ \/ \E l \in Levels : filters' = [filters EXCEPT !.level = IF @ = l THEN None ELSE l]
     \/ \E t \in Bounds \cup {None} : filters' = [filters EXCEPT !.from = t]
     \/ \E t \in Bounds \cup {None} : filters' = [filters EXCEPT !.to = t]
     \/ filters' = EMPTY_SEARCH_FILTERS
  /\ UNCHANGED <<stored, shown, refs, requests, searching, stranded, atFirst>>

\* Leaving search mode unmounts the hook; nothing reads the answers any more.
ToTail ==
  /\ searching /\ searching' = FALSE
  /\ shown' = INITIAL /\ refs' = FreshRefs /\ requests' = {} /\ stranded' = FALSE
  /\ UNCHANGED <<filters, stored, atFirst>>

\* A shared link, or a return with filters in the URL, searches on mount.
ToSearch ==
  /\ ~searching /\ searching' = TRUE
  /\ IF searchFiltersActive(filters)
       THEN Searching(filters, FreshRefs)
       ELSE UNCHANGED <<shown, refs, requests>>
  /\ UNCHANGED <<filters, stored, stranded, atFirst>>

\* The page is opened with the filters f in its URL.
SearchFrom(f) ==
  /\ filters = f
  /\ stored = {e \in Logs : e % 2 = 1} /\ atFirst = {}
  /\ shown = INITIAL /\ refs = FreshRefs /\ requests = {}
  /\ searching = FALSE /\ stranded = FALSE

SearchInit == \E f \in Filters : SearchFrom(f)

SearchNext ==
  \/ run \/ loadMore \/ SearchBar \/ ToTail \/ ToSearch \/ Stored
  \/ \E c \in requests : searchUpstream(c) \/ answered(c) \/ rejected(c)

\* query-service answers every call, or fetch fails, and the browser runs
\* the handler of an answer that is there.
SearchServed == \E c \in requests : searchUpstream(c)
SearchAnswered == \E c \in requests : answered(c)
SearchFairness == WF_searchVars(SearchServed) /\ WF_searchVars(SearchAnswered)

-----------------------------------------------------------------------------
Page == [ok : BOOLEAN, events : Seq(Logs), nextCursor : Logs \cup {None}]
Params == [level : Levels \cup {None}, from : Bounds \cup {None, Unreadable}, to : Bounds \cup {None},
           limit : {SEARCH_PAGE_LIMIT}, cursor : Logs \cup {None}]

State == [status : {"idle", "loading", "success", "loadingMore", "error"}, events : Seq(Logs),
          nextCursor : Logs \cup {None}, error : BOOLEAN, hasSearched : BOOLEAN, capped : BOOLEAN]
Refs == [reqId : 0..MaxSearches, lastFilters : Filters, cursor : Logs \cup {None}, inFlight : BOOLEAN]
Call == [id : 1..MaxSearches, params : Params, page : SUBSET Page]

SearchTypeOK ==
  /\ filters \in Filters /\ stored \subseteq Logs /\ atFirst \subseteq stored
  /\ shown \in State /\ refs \in Refs /\ requests \subseteq Call
  /\ searching \in BOOLEAN /\ stranded \in BOOLEAN

\* use-log-search.ts:14-18: whatever is searched, paged and answered in which
\* order, and whatever is stored meanwhile, the list is events of the last
\* search only, newest first and none twice; of the events stored when its
\* first page was read none is missing above the last one shown, and none at
\* all once the footer says "end of results".
OneResultSet ==
  LET p == buildSearchParams(refs.lastFilters, None)
      found == IF parseSearchQueryOK(p) THEN Selected(p) ELSE {}
      list == shown.events
      due == {e \in atFirst \cap found :
                \/ list # <<>> /\ e >= list[Len(list)]
                \/ shown.status = "success" /\ shown.nextCursor = None /\ ~shown.capped}
  IN  /\ NewestFirst(list)
      /\ Range(list) \subseteq found
      /\ shown.status \in {"success", "loadingMore"} => due \subseteq Range(list)
      /\ Len(list) <= MAX_SEARCH_RESULTS

\* use-log-search.ts:78-97,112-131: a search or a page under way ends, unless
\* its call is rejected or the mode is left, and leaves the page usable: what
\* "Load more" is shown for can be loaded.
SearchSettles ==
  shown.status \in {"loading", "loadingMore"} ~>
    \/ stranded \/ ~searching
    \/ shown.status \in {"success", "error"} /\ ~refs.inFlight /\ refs.cursor = shown.nextCursor
=============================================================================
