---------------------------- MODULE ForgeChanges ---------------------------
(***************************************************************************)
(* `remogram forge changes --since` of the three providers: a caller polls *)
(* what happened to the pulls (on Gitea, if asked, the issues too) since a *)
(* moment, and pages through the answer with a cursor.  Every call reads   *)
(* the whole feed anew, most recently updated first and request by         *)
(* request, derives the events of each item, and prints the slice behind   *)
(* the cursor's offset.  Whatever is touched meanwhile jumps to the front. *)
(*                                                                         *)
(* Time stands still but for the moment `Since`: what happens in a         *)
(* behaviour happens after it, what had happened before may be of either   *)
(* side of it or of that very moment.                                      *)
(***************************************************************************)
EXTENDS Integers, SequencesExt

CONSTANTS
    Providers,   \* the providers the instance is about
    Limits,      \* values of --limit (DEFAULT_FORGE_CHANGES_PAGE_SIZE)
    PageSize,    \* GITEA_PAGE_SIZE, DEFAULT_CHECK_STATUS_PAGE_SIZE
    MaxPages,    \* MAX_CHECK_PAGES
    MaxEvents,   \* MAX_FORGE_CHANGES_EVENTS
    MaxItems,    \* bound: pulls and issues ever opened
    MaxMoves,    \* bound: changes of the lists
    Null         \* no cursor, no time

ASSUME ProviderAssumption == Providers \subseteq {"gitea", "github", "gitlab"}
ASSUME SizeAssumption ==
    /\ Limits \subseteq Nat \ {0} /\ {PageSize, MaxPages, MaxEvents} \subseteq Nat \ {0}
    /\ {MaxItems, MaxMoves} \subseteq Nat /\ Null \notin Nat

VARIABLES
    (* the forge *)
    provider,
    pulls, issues,  \* most recently updated first
    moves,          \* changes so far
    (* the caller *)
    pc,             \* where the current call is, or the poll between calls
    include,        \* --include-issues
    maxPerPacket,   \* --limit
    cursor, packet,
    (* the current call *)
    page, limit,
    got,            \* items of the list being read
    events,         \* events of the lists read
    truncated,      \* events_truncated
    listTruncated,  \* a list was not read to its end
    (* history of the poll *)
    due,            \* events it has to report
    delivered,      \* events of its packets
    shaken          \* the lists or the page size changed under it

forge   == <<provider, pulls, issues, moves>>
caller  == <<include, maxPerPacket, cursor>>
call    == <<page, limit, got, events, truncated, listTruncated>>
history == <<due, delivered, shaken>>
vars    == <<provider, pulls, issues, moves, pc, include, maxPerPacket, cursor, packet,
             page, limit, got, events, truncated, listTruncated, due, delivered, shaken>>

Since == 1
Times == {Since - 1, Since}
Now == Since + 1

Smaller(a, b) == IF a < b THEN a ELSE b
FirstOf(s, n) == SubSeq(s, 1, Smaller(n, Len(s)))
Numbers(items) == {items[k].n : k \in DOMAIN items}
-----------------------------------------------------------------------------
(* Events                                                                   *)

IsAtOrAfter(t) == t # Null /\ t >= Since
IsBefore(t) == t # Null /\ t < Since

EventKinds == {"pr_opened", "pr_closed", "pr_merged", "head_sha_moved",
               "checks_conclusion_observed", "issue_opened", "issue_closed"}

Event(kind, item) == [kind |-> kind, n |-> item.n]
When(condition, event) == IF condition THEN <<event>> ELSE <<>>

(* The forge may not say when an item was closed; its update has to do.     *)
ClosedInWindow(i) ==
    /\ i.state = "closed"
    /\ IsAtOrAfter(i.closed) \/ (i.closed = Null /\ IsAtOrAfter(i.updated))

PullEvents(p) ==
    When(IsAtOrAfter(p.created), Event("pr_opened", p))
        \o When(IsAtOrAfter(p.merged), Event("pr_merged", p))
        \o When(p.merged = Null /\ ClosedInWindow(p), Event("pr_closed", p))
        \o When(p.state = "open" /\ IsAtOrAfter(p.updated) /\ IsBefore(p.created),
                Event("head_sha_moved", p))

IssueEvents(i) ==
    When(IsAtOrAfter(i.created), Event("issue_opened", i))
        \o When(ClosedInWindow(i), Event("issue_closed", i))

PullListEvents(items) == FlattenSeq([k \in DOMAIN items |-> PullEvents(items[k])])
IssueListEvents(items) == FlattenSeq([k \in DOMAIN items |-> IssueEvents(items[k])])

(* Mutant: only pulls reported as opened have their checks read.            *)
CheckEventsOfOpened(es) ==
    FlattenSeq([k \in DOMAIN es |->
        When(es[k].kind = "pr_opened", Event("checks_conclusion_observed", es[k]))])

(* The checks of every pull reported as opened or moved are read, once.     *)
CheckEvents(es) ==
    LET seen(k) == es[k].kind \in {"pr_opened", "head_sha_moved"}
        first(k) == \A j \in 1..(k - 1) : ~(seen(j) /\ es[j].n = es[k].n)
    IN  FlattenSeq([k \in DOMAIN es |->
            When(seen(k) /\ first(k), Event("checks_conclusion_observed", es[k]))])
-----------------------------------------------------------------------------
(* The forge.                                                               *)

Opened(n) == [n |-> n, state |-> "open", created |-> Now, updated |-> Now,
              closed |-> Null, merged |-> Null]

(* What an item may be when the poll begins, a closed one untouched since;  *)
(* only GitLab may not say when it was closed.                              *)
PastItems(n) ==
    {i \in [n : {n}, state : {"open", "closed"}, created : Times, updated : Times,
            closed : Times \cup {Null}, merged : Times \cup {Null}] :
        /\ i.updated >= i.created
        /\ i.state = "open" => i.closed = Null /\ i.merged = Null
        /\ i.merged \in {Null, i.closed}
        /\ i.state = "closed" /\ i.closed = Null => provider = "gitlab"
        /\ i.closed \in {Null, i.updated}}

(* Lists are ordered by update; numbers are but names.                      *)
PastLists(from, to) ==
    {list \in [1..(to - from) -> UNION {PastItems(n) : n \in (from + 1)..to}] :
        /\ \A k \in DOMAIN list : list[k].n = from + k
        /\ \A k \in DOMAIN list \ {1} : list[k - 1].updated >= list[k].updated}

ListOf(list) == IF list = "issues" THEN issues ELSE pulls

(* The k-th item of a list becomes item and jumps to the front.             *)
ToFront(item, k, list) ==
    [j \in DOMAIN list |-> IF j = 1 THEN item ELSE IF j <= k THEN list[j - 1] ELSE list[j]]

Calling == {"pulls", "issues", "checks"}

EventSet(es) == {es[k] : k \in DOMAIN es}

(* What a caller has to hear of an item as it now is; an open pull of       *)
(* before that was updated since may have a new head.                       *)
DueOf(i, list) ==
    LET closing == IF i.closed = Null THEN i.updated ELSE i.closed
        pull    == list = "pulls"
        kinds   == {k \in EventKinds :
            \/ k = "pr_opened" /\ pull /\ i.created >= Since
            \/ k = "issue_opened" /\ ~pull /\ i.created >= Since
            \/ k = "pr_merged" /\ pull /\ i.merged # Null /\ closing >= Since
            \/ k = "pr_closed" /\ pull /\ i.state = "closed" /\ i.merged = Null /\ closing >= Since
            \/ k = "issue_closed" /\ ~pull /\ i.state = "closed" /\ closing >= Since
            \/ k = "head_sha_moved" /\ pull /\ i.state = "open" /\ i.created < Since
                                    /\ i.updated >= Since}
    IN  {[kind |-> k, n |-> i.n] : k \in kinds}

(* An item that changes before the call has read it is read as it then is,  *)
(* unless the call is past the front of the list already.                   *)
StillDue(item, list) ==
    LET read   == \/ list = "pulls" /\ pc \in {"issues", "checks"}
                  \/ list = "issues" /\ pc = "checks"
                  \/ list = pc /\ item.n \in Numbers(got)
        missed == list = pc /\ page > 1
    IN  {d \in due : d.n # item.n \/ read \/ (~missed /\ d \in DueOf(item, list))}

(* Before the poll the lists are any, after it nobody looks.                *)
Update(list, item, updated) ==
    /\ pc \in Calling \cup {"between"}
    /\ list = "issues" => include
    /\ moves < MaxMoves
    /\ moves' = moves + 1
    /\ pulls' = IF list = "pulls" THEN updated ELSE pulls
    /\ issues' = IF list = "issues" THEN updated ELSE issues
    /\ due' = StillDue(item, list)
    /\ shaken' = TRUE
    /\ UNCHANGED <<provider, pc, caller, packet, call, delivered>>

Open(list) ==
    LET item == Opened(Len(pulls) + Len(issues) + 1)
    IN  /\ Len(pulls) + Len(issues) < MaxItems
        /\ Update(list, item, <<item>> \o ListOf(list))

Become(list, k, item) == Update(list, item, ToFront(item, k, ListOf(list)))

Close(list, k) ==
    LET i == ListOf(list)[k]
    IN  /\ i.state = "open"
        /\ Become(list, k, [i EXCEPT !.state = "closed", !.closed = Now, !.updated = Now])

Merge(k) ==
    /\ pulls[k].state = "open"
    /\ Become("pulls", k, [pulls[k] EXCEPT !.state = "closed", !.closed = Now,
                                           !.merged = Now, !.updated = Now])

Reopen(list, k) ==
    LET i == ListOf(list)[k]
    IN  /\ i.state = "closed" /\ i.merged = Null
        /\ Become(list, k, [i EXCEPT !.state = "open", !.closed = Null, !.updated = Now])

(* A push to a pull, a comment on either. *)
Touch(list, k) == Become(list, k, [ListOf(list)[k] EXCEPT !.updated = Now])

ForgeMoves ==
    \E list \in {"pulls", "issues"} :
        \/ Open(list)
        \/ \E k \in DOMAIN ListOf(list) :
               \/ Close(list, k) \/ Reopen(list, k) \/ Touch(list, k)
               \/ list = "pulls" /\ Merge(k)
-----------------------------------------------------------------------------
(* Packets                                                                  *)

NoPacket == [type |-> "none", events |-> <<>>, truncated |-> FALSE, complete |-> FALSE,
             next |-> Null]
ErrorPacket == [NoPacket EXCEPT !.type = "error"]

Offset == IF cursor = Null THEN 0 ELSE cursor

(* Mutant: the next cursor is the offset this call began with.              *)
PaginateInPlace(es, cut) ==
    LET slice   == SubSeq(es, Offset + 1, Smaller(Offset + maxPerPacket, Len(es)))
        hasMore == Offset + Len(slice) < Len(es) \/ cut
    IN  [type |-> "forge_changes", events |-> slice, truncated |-> cut,
         complete |-> ~hasMore, next |-> IF hasMore THEN Offset ELSE Null]

(* paginateForgeChangesBody *)
Paginate(es, cut) ==
    LET slice       == SubSeq(es, Offset + 1, Smaller(Offset + maxPerPacket, Len(es)))
        observedEnd == Offset + Len(slice)
        hasMore     == observedEnd < Len(es) \/ cut
    IN  [type |-> "forge_changes", events |-> slice, truncated |-> cut,
         complete |-> ~hasMore, next |-> IF hasMore THEN observedEnd ELSE Null]

NoCall == page' = 1 /\ limit' = PageSize /\ got' = <<>> /\ events' = <<>> /\ truncated' = FALSE

Emit(p) ==
    /\ packet' = p
    /\ delivered' = delivered \cup EventSet(p.events)
    /\ pc' = IF p.next = Null THEN "finished" ELSE "between"
    /\ NoCall
    /\ UNCHANGED <<forge, caller, listTruncated, due, shaken>>

(* Issues nobody asks for play no part.                                     *)
Init ==
    /\ provider \in Providers
    /\ include \in (IF provider = "gitea" THEN BOOLEAN ELSE {FALSE})
    /\ \E m \in 0..MaxItems, i \in 0..MaxItems :
           /\ m + i <= MaxItems
           /\ i > 0 => include
           /\ pulls \in PastLists(0, m)
           /\ issues \in {list \in PastLists(m, m + i) :
                             \A k \in DOMAIN list : list[k].merged = Null}
    /\ moves = 0
    /\ pc = "idle"
    /\ maxPerPacket \in Limits
    /\ cursor = Null
    /\ packet = NoPacket
    /\ page = 1 /\ limit = PageSize /\ got = <<>> /\ events = <<>>
    /\ truncated = FALSE /\ listTruncated = FALSE
    /\ due = {} /\ delivered = {} /\ shaken = FALSE
-----------------------------------------------------------------------------
(* A call.                                                                  *)

FirstCall ==
    /\ pc = "idle"
    /\ pc' = "pulls"
    /\ due' = (UNION {DueOf(pulls[k], "pulls") : k \in DOMAIN pulls})
                 \cup (UNION {DueOf(issues[k], "issues") : k \in {j \in DOMAIN issues : include}})
    /\ shaken' = FALSE
    /\ UNCHANGED <<forge, caller, packet, call, delivered>>

(* The caller comes back with next_cursor, unless it is the one it used.    *)
NextCall ==
    /\ pc = "between"
    /\ packet.next # cursor
    /\ pc' = "pulls"
    /\ cursor' = packet.next
    /\ packet' = NoPacket
    /\ listTruncated' = FALSE
    /\ UNCHANGED <<forge, include, maxPerPacket, page, limit, got, events, truncated, history>>

List == ListOf(pc)
Items == SubSeq(List, (page - 1) * limit + 1, Smaller(page * limit, Len(List)))

(* A short page ends the list; on GitHub, a Link header without a next page.*)
NoMore == Len(Items) < limit \/ (provider = "github" /\ Len(List) = page * limit)

(* Mutant: after a back-off the walk returns to the full page size.         *)
ReadOnAtFullSize ==
    /\ pc \in {"pulls", "issues"}
    /\ ~NoMore
    /\ page < MaxPages
    /\ page' = page + 1
    /\ limit' = PageSize
    /\ got' = got \o Items
    /\ UNCHANGED <<forge, pc, caller, packet, events, truncated, listTruncated, history>>

ReadOn ==
    /\ pc \in {"pulls", "issues"}
    /\ ~NoMore
    /\ page < MaxPages
    /\ page' = page + 1
    /\ got' = got \o Items
    /\ UNCHANGED <<forge, pc, caller, packet, limit, events, truncated, listTruncated, history>>

(* fetchPageWithIngestBackoff: an answer with something in it may be over   *)
(* the ingest cap; the smaller size is kept.                                *)
BackOff ==
    /\ pc \in {"pulls", "issues"}
    /\ Items # <<>>
    /\ limit > 1
    /\ limit' = limit \div 2
    /\ shaken' = TRUE
    /\ UNCHANGED <<forge, pc, caller, packet, page, got, events, truncated, listTruncated,
                   due, delivered>>

(* Mutant: the cap is reported but not kept.                                *)
CollectAll(es, cut) ==
    /\ events' = es
    /\ truncated' = (cut \/ Len(es) > MaxEvents)

(* capForgeChangeEvents *)
Collect(es, cut) ==
    /\ events' = FirstOf(es, MaxEvents)
    /\ truncated' = (cut \/ Len(es) > MaxEvents)

EndOfList(list) ==
    /\ pc = list
    /\ NoMore \/ page = MaxPages
    /\ page' = 1 /\ limit' = PageSize /\ got' = <<>>
    /\ listTruncated' = (listTruncated \/ ~NoMore)
    /\ UNCHANGED <<forge, caller, packet, history>>

PullsRead ==
    /\ EndOfList("pulls")
    /\ pc' = IF include THEN "issues" ELSE "checks"
    /\ Collect(PullListEvents(got \o Items), ~NoMore)

(* The body is built anew only if the issues bring any event.               *)
IssuesRead ==
    /\ EndOfList("issues")
    /\ pc' = "checks"
    /\ LET found == IssueListEvents(got \o Items)
       IN  IF found = <<>> THEN UNCHANGED <<events, truncated>>
           ELSE Collect(events \o found, truncated \/ listTruncated')

(* The checks of one pull after the other; only then is the packet printed. *)
ChecksRead ==
    /\ pc = "checks"
    /\ LET found == CheckEvents(events)
           all   == events \o found
       IN  Emit(IF found = <<>> THEN Paginate(events, truncated)
                ELSE Paginate(FirstOf(all, MaxEvents),
                              truncated \/ listTruncated \/ Len(all) > MaxEvents))

(* Any request failing, the checks of a single pull too, fails the call;    *)
(* such a poll has nothing to answer for.                                   *)
CallFails ==
    /\ pc \in Calling
    /\ pc = "checks" => CheckEvents(events) # <<>>
    /\ pc' = "finished"
    /\ packet' = ErrorPacket
    /\ NoCall
    /\ due' = {} /\ delivered' = {} /\ shaken' = FALSE /\ listTruncated' = FALSE
    /\ UNCHANGED <<forge, caller>>
-----------------------------------------------------------------------------
Proceed ==
    \/ ReadOn \/ BackOff \/ PullsRead \/ IssuesRead \/ ChecksRead \/ CallFails

Next == ForgeMoves \/ FirstCall \/ NextCall \/ Proceed

(* No property needs fairness: any request may stay unanswered for ever.    *)
Spec == Init /\ [][Next]_vars
-----------------------------------------------------------------------------
ItemRecord == [n : 1..MaxItems, state : {"open", "closed"}, created : Times \cup {Now},
               updated : Times \cup {Now}, closed : Times \cup {Now, Null},
               merged : Times \cup {Now, Null}]
EventRecord == [kind : EventKinds, n : 1..MaxItems]

(* Types of all the variables; the lists stay ordered by update and a call  *)
(* never collects more than the cap.                                        *)
TypeOK ==
    /\ provider \in Providers
    /\ pulls \in Seq(ItemRecord) /\ issues \in Seq(ItemRecord)
    /\ moves \in 0..MaxMoves
    /\ pc \in {"idle", "between", "finished"} \cup Calling
    /\ include \in BOOLEAN /\ maxPerPacket \in Limits
    /\ cursor \in 0..MaxEvents \cup {Null}
    /\ packet.events \in Seq(EventRecord) /\ Len(packet.events) <= maxPerPacket
    /\ page \in 1..MaxPages /\ limit \in 1..PageSize
    /\ got \in Seq(ItemRecord)
    /\ events \in Seq(EventRecord) /\ Len(events) <= MaxEvents
    /\ {truncated, listTruncated, shaken} \subseteq BOOLEAN
    /\ due \cup delivered \subseteq EventRecord

(* A poll reported complete in its first packet has brought every event     *)
(* that was due when it began, but for those of an item that changed while  *)
(* the call was past the front of its list and had not read it.  One that   *)
(* took several calls has too, if nothing changed and no page was asked for *)
(* again between them.                                                      *)
CompletePollMissesNothing ==
    (packet.complete /\ ~listTruncated /\ (cursor = Null \/ ~shaken)) => due \subseteq delivered

(* Every pull a complete poll reports as opened or moved comes with its      *)
(* checks.                                                                  *)
MovesComeWithChecks ==
    (packet.complete /\ (cursor = Null \/ ~shaken)) =>
        \A e \in delivered : e.kind \in {"pr_opened", "head_sha_moved"} =>
            [kind |-> "checks_conclusion_observed", n |-> e.n] \in delivered

(* A packet that says there is more, of a feed no cap cut short, moves the  *)
(* cursor on, whatever the lists did since the cursor was handed out.       *)
CursorAdvances ==
    (packet.next # Null /\ ~packet.truncated) => packet.next > Offset
-----------------------------------------------------------------------------
(* What the documentation claims and the code does not keep.                *)

(* README: events_truncated when pagination stops before a complete list.   *)
(* So a single packet reported complete, of lists nobody touched meanwhile, *)
(* has every event.                                                         *)
TruncationIsReported ==
    (packet.complete /\ cursor = Null /\ moves = 0) => due \subseteq delivered
=============================================================================
