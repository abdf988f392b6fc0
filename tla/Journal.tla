------------------------------ MODULE Journal ------------------------------
(***************************************************************************)
(* The journal: the events of the panel (services/journal.ts), listed by   *)
(* the time they bear, and its page (web/journal.imba), which shows them a *)
(* page of the list after the other.  The page asks anew when a filter     *)
(* changes and does not wait for the answer before; events are recorded    *)
(* all the time, those of a poll with the time the poll began at.          *)
(***************************************************************************)
EXTENDS Naturals, Sequences, FiniteSets, SequencesExt, Lists

CONSTANTS
    EventKinds,     \* what filters and searches tell apart
    Filters,        \* scope, category and search together: the kinds they let through
    Everything,     \* the filter the page begins with
    PageSize,       \* 7 in the page
    Preview,        \* events the dashboard has brought; 8 in the code
    MaxAt,          \* bound: times of events
    MaxEvents,      \* bound
    MaxLoads        \* bound: requests of the page

ASSUME JournalAssumption ==
    /\ Filters \subseteq SUBSET EventKinds
    /\ Everything \in Filters
    /\ PageSize \in Nat \ {0}
    /\ Preview \in Nat
    /\ MaxAt \in Nat
    /\ MaxEvents \in Nat
    /\ MaxLoads \in Nat \ {0}

VARIABLES
    events,         \* the table; the id of an event is its place
    filter,         \* what is chosen
    shown,          \* ids
    next,           \* where the next page begins; 0: there is none
    total,
    stamp,          \* of the latest request
    busy,
    requests,       \* on their way to the server
    answers,        \* on their way back
    of,             \* history: the filter of the first page that is shown
    upTo,           \* history: the events there were when that page was listed
    unsure          \* history: what is shown before a first page, or after one has failed

journalVars == <<events, filter, shown, next, total, stamp, busy, requests, answers, of, upTo,
                 unsure>>

Event == [at : 1..MaxAt, kind : EventKinds]

\* ORDER BY occurred_at DESC, id DESC
Later(a, b) ==
    \/ events[a].at > events[b].at
    \/ events[a].at = events[b].at /\ a > b

Matching(f) == {e \in DOMAIN events : events[e].kind \in f}
Behind(f) == {ab \in Matching(f) \X Matching(f) : Later(ab[1], ab[2])}

\* JournalService.list(): before is an id, and an id that is not listed is none.
List(f, before, limit) ==
    LET searched == Listed(Matching(f), Behind(f))
        from == IF before \in Matching(f) THEN CHOOSE i \in DOMAIN searched : searched[i] = before
                ELSE 0
        available == SubSeq(searched, from + 1, Len(searched))
        more == Len(available) > limit
        page == IF more THEN SubSeq(available, 1, limit) ELSE available
    IN  [events |-> page, total |-> Len(searched), next |-> IF more THEN Last(page) ELSE 0]

\* The page opens with what the dashboard has brought, and asks.
JournalInit ==
    /\ events \in UNION {[1..n -> Event] : n \in 0..1}
    /\ filter = Everything
    /\ shown = List(Everything, 0, Preview).events
    /\ next = 0
    /\ total = Len(shown)
    /\ stamp = 1
    /\ busy = TRUE
    /\ requests = {[stamp |-> 1, filter |-> Everything, first |-> TRUE, before |-> 0]}
    /\ answers = {}
    /\ of = Everything
    /\ upTo = 0
    /\ unsure = TRUE

-----------------------------------------------------------------------------
(* The server *)

\* record(), with the time of now or of the poll.
Record(event) ==
    /\ Len(events) < MaxEvents
    /\ events' = Append(events, event)
    /\ UNCHANGED <<filter, shown, next, total, stamp, busy, requests, answers, of, upTo, unsure>>

\* GET /system/events
Answer(r) ==
    /\ r \in requests
    /\ requests' = requests \ {r}
    /\ answers' = answers \cup
           {[to |-> r, page |-> List(r.filter, r.before, PageSize), upTo |-> Len(events)]}
    /\ UNCHANGED <<events, filter, shown, next, total, stamp, busy, of, upTo, unsure>>

-----------------------------------------------------------------------------
(* The page *)

\* load(), up to its await.
Load(f, first) ==
    /\ stamp < MaxLoads
    /\ stamp' = stamp + 1
    /\ busy' = TRUE
    /\ requests' = requests \cup
           {[stamp |-> stamp + 1, filter |-> f, first |-> first,
             before |-> IF first THEN 0 ELSE next]}
    /\ UNCHANGED <<events, shown, next, total, answers, of, upTo, unsure>>

\* choose, narrow and search, whatever is under way.
Choose(f) ==
    /\ filter' = f
    /\ Load(f, TRUE)

\* The two buttons wait.
Refresh ==
    /\ ~busy
    /\ Load(filter, TRUE)
    /\ UNCHANGED filter

More ==
    /\ ~busy
    /\ shown # <<>> /\ next # 0
    /\ Load(filter, FALSE)
    /\ UNCHANGED filter

Shows(a) ==
    /\ shown' = IF a.to.first THEN a.page.events ELSE shown \o a.page.events
    /\ total' = a.page.total
    /\ next' = a.page.next
    /\ busy' = FALSE
    /\ of' = IF a.to.first THEN a.to.filter ELSE of
    /\ upTo' = IF a.to.first THEN a.upTo ELSE upTo
    /\ unsure' = (unsure /\ ~a.to.first)

Ignored == UNCHANGED <<shown, total, next, busy, of, upTo, unsure>>

\* Every answer is shown.
Bug_ArrivesAnyway(a) ==
    /\ answers' = answers \ {a}
    /\ Shows(a)
    /\ UNCHANGED <<events, filter, stamp, requests>>

\* load(), after its await: only the answer to the latest request is shown.
Arrives(a) ==
    /\ answers' = answers \ {a}
    /\ IF a.to.stamp = stamp THEN Shows(a) ELSE Ignored
    /\ UNCHANGED <<events, filter, stamp, requests>>

\* The list stays as it is, under the filter that was chosen.
Fails(r) ==
    /\ r \in requests
    /\ requests' = requests \ {r}
    /\ IF r.stamp = stamp
       THEN /\ busy' = FALSE
            /\ unsure' = (unsure \/ r.filter # of)
            /\ UNCHANGED <<shown, total, next, of, upTo>>
       ELSE Ignored
    /\ UNCHANGED <<events, filter, stamp, answers>>

JournalNext ==
    \/ \E event \in Event : Record(event)
    \/ \E r \in requests : Answer(r) \/ Fails(r)
    \/ \E f \in Filters : Choose(f)
    \/ Refresh \/ More
    \/ \E a \in answers : Arrives(a)

JournalSpec == JournalInit /\ [][JournalNext]_journalVars

-----------------------------------------------------------------------------
(* Properties *)

\* Whatever is chosen while answers are under way and whatever is recorded between two
\* pages, they join: the list is of the filter that is chosen, in order, without an event
\* twice, and without a gap in what had happened when its first page was listed.  A filter
\* whose first page could not be had is left out: the next page is then one of another
\* list than the first (list, load).
PagesJoin ==
    ~unsure =>
        /\ ~busy => of = filter
        /\ \A i, j \in DOMAIN shown : i < j => Later(shown[i], shown[j])
        /\ Range(shown) \subseteq Matching(of)
        /\ LET Reached(e) == shown # <<>> /\ ~Later(Last(shown), e)
           IN  \A e \in Matching(of) \cap 1..upTo : next = 0 \/ Reached(e) => e \in Range(shown)
        /\ Len(shown) <= total

=============================================================================
