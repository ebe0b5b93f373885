------------------------------ MODULE EventTable ------------------------------
(***************************************************************************)
(* The table of events in the report page.  It shows a window of the       *)
(* events that match the current query (category and search), and fetches  *)
(* the pages of the window from the report server (load_event_page).  The  *)
(* requests are answered in any order, while the window moves and the      *)
(* query changes: a new query is a new generation, and an answer to an     *)
(* older one is dropped.  The pages are cached, the ones that came first   *)
(* are dropped first.                                                      *)
(*                                                                         *)
(* Rows and offsets count from 0, as in the code.  The window contains the *)
(* rows rendered above and below the visible ones.                         *)
(***************************************************************************)
EXTENDS Integers, Sequences, FiniteSetsExt

CONSTANTS
    EventCount,    \* the events of the session are 1 .. EventCount
    Matching,      \* the events that match each query, in order
    PageSize,      \* rows of a page
    CachedPages,   \* pages the table keeps (cachedPageLimit)
    WindowRows,    \* rows of the window (visibleRowCount)
    MaxActions     \* bound: what the reader does

ASSUME TableAssumption ==
    /\ {PageSize, CachedPages, WindowRows} \subseteq Nat \ {0}
    /\ {EventCount, MaxActions} \subseteq Nat
    /\ \A q \in DOMAIN Matching : Matching[q] \in Seq(1 .. EventCount)

VARIABLES
    query,       \* what the reader asked for last
    generation,  \* requestGeneration
    top,         \* the first row of the window
    total,       \* how many rows the table believes to have
    pages,       \* the cached pages in the order they came in
    pending,     \* the offsets of this generation that are under way
    fetches,     \* the requests that are not answered yet
    error,       \* whether the table shows an error
    given_up,    \* visible pages whose request failed or that were evicted
    actions      \* what the reader did so far

tableVars == <<query, generation, top, total, pages, pending, fetches, error,
               given_up, actions>>

\* load_event_page, on the server: an offset past the end is moved to the end.
EventPage(q, offset) ==
    LET rows == Matching[q]
        start == Min({offset, Len(rows)})
    IN  [offset |-> start,
         total |-> Len(rows),
         events |-> SubSeq(rows, start + 1, Min({start + PageSize, Len(rows)}))]

PageOf(row) == (row \div PageSize) * PageSize

\* The pages that hold the rows from first up to but not including last.
PagesOf(first, last) ==
    {PageOf(row) : row \in first .. Max({first, last - 1})}

Offsets(cached) == {cached[i].offset : i \in DOMAIN cached}

\* loadVisible: request the pages that are neither cached nor under way.
Load(wanted, cached, underway, others) ==
    LET missing == wanted \ (Offsets(cached) \cup underway)
    IN  /\ pending' = underway \cup missing
        /\ fetches' = others \cup
               {[generation |-> generation', query |-> query', offset |-> offset] :
                   offset \in missing}
        /\ given_up' = IF generation' = generation THEN given_up \ missing ELSE {}

LastRow(first, rows) == Min({rows, first + WindowRows})

TableInit ==
    /\ query \in DOMAIN Matching
    /\ Len(Matching[query]) = EventCount
    /\ generation = 0
    /\ top = 0
    /\ total = EventCount
    /\ pages = << >>
    /\ pending = PagesOf(0, LastRow(0, EventCount))
    /\ fetches = {[generation |-> 0, query |-> query, offset |-> offset] :
                    offset \in pending}
    /\ error = FALSE
    /\ given_up = {}
    /\ actions = 0

\* resetQuery: another category is chosen, or the search timer goes off.
ResetQuery(q) ==
    /\ actions < MaxActions
    /\ actions' = actions + 1
    /\ query' = q
    /\ generation' = generation + 1
    /\ top' = 0
    /\ total' = EventCount
    /\ pages' = << >>
    /\ error' = FALSE
    /\ Load(PagesOf(0, WindowRows), << >>, {}, fetches)

MoveTo(row) ==
    /\ top' = row
    /\ UNCHANGED <<query, generation, total, pages, error>>
    /\ Load(PagesOf(row, LastRow(row, total)), pages, pending, fetches)

\* scrollEvents
Scroll(row) ==
    /\ actions < MaxActions
    /\ actions' = actions + 1
    /\ row # top
    /\ MoveTo(row)

\* The table became shorter than the window's place: the browser moves it
\* back, which is a scroll event as any other.
Clamp ==
    /\ top > 0
    /\ top >= total
    /\ MoveTo(Max({0, total - 1}))
    /\ UNCHANGED actions

\* Map.set, which leaves a key where it is, and the eviction that follows.
Cached(page) ==
    LET entry == [offset |-> page.offset, events |-> page.events]
        updated == IF page.offset \in Offsets(pages)
                   THEN [i \in DOMAIN pages |->
                           IF pages[i].offset = page.offset THEN entry ELSE pages[i]]
                   ELSE Append(pages, entry)
    IN  IF Len(updated) > CachedPages THEN Tail(updated) ELSE updated

AnyAnswer(fetch) == TRUE  \* Mutant of Current: an old answer is taken as well.
Current(fetch) == fetch.generation = generation

\* loadPage goes on with the answer to its request.
PageArrives(fetch) ==
    /\ fetch \in fetches
    /\ IF Current(fetch)
       THEN LET page == EventPage(fetch.query, fetch.offset)
                visible == PagesOf(top, LastRow(top, page.total))
                evicted == (Offsets(pages) \ Offsets(Cached(page))) \cap visible
            IN  /\ total' = page.total
                /\ pages' = Cached(page)
                /\ error' = FALSE
                /\ UNCHANGED <<query, generation, top>>
                /\ IF LastRow(top, total') # LastRow(top, total)
                   THEN Load(visible, pages', pending \ {fetch.offset},
                             fetches \ {fetch})
                   ELSE /\ pending' = pending \ {fetch.offset}
                        /\ fetches' = fetches \ {fetch}
                        /\ given_up' = (given_up \cup evicted) \ {page.offset}
       ELSE /\ fetches' = fetches \ {fetch}
            /\ UNCHANGED <<query, generation, top, total, pages, pending, error,
                           given_up>>
    /\ UNCHANGED actions

\* The request fails, or is answered with another status than 200.
FetchFails(fetch) ==
    /\ fetch \in fetches
    /\ fetches' = fetches \ {fetch}
    /\ IF Current(fetch)
       THEN /\ error' = TRUE
            /\ pending' = pending \ {fetch.offset}
            /\ given_up' = given_up \cup {fetch.offset}
       ELSE UNCHANGED <<error, pending, given_up>>
    /\ UNCHANGED <<query, generation, top, total, pages, actions>>

-----------------------------------------------------------------------------
\* What row shows: the event, or nothing while its page is not there.
Shown(row) ==
    {pages[i].events[row - pages[i].offset + 1] :
        i \in {j \in DOMAIN pages :
                 /\ pages[j].offset = PageOf(row)
                 /\ row - pages[j].offset < Len(pages[j].events)}}

(***************************************************************************)
(* The table shows the current query, whatever the order in which requests *)
(* of this and of earlier queries are answered and whichever pages were    *)
(* dropped meanwhile: a row shows its own event or nothing, and a row of   *)
(* the window that shows nothing is under way, unless its last request     *)
(* failed or its page was evicted while it was visible.                    *)
(***************************************************************************)
TableShowsTheQuery ==
    \A row \in top .. LastRow(top, total) - 1 :
        /\ \A event \in Shown(row) :
             /\ row < Len(Matching[query])
             /\ event = Matching[query][row + 1]
        /\ \/ Shown(row) # {}
           \/ PageOf(row) \in pending \cup given_up
=============================================================================
