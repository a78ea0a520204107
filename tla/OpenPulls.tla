----------------------------- MODULE OpenPulls -----------------------------
(***************************************************************************)
(* The forge, the caller and the walk of `remogram cr inventory`: the list *)
(* of open pulls that other people change, the slice behind the cursor     *)
(* that a call prints, and the paged walk that paginateOffsetListPages and *)
(* paginateGitHubLinkPages make of a list.  CrInventory adds the calls.    *)
(*                                                                         *)
(* A pull is its number; numbers count up in order of creation.  On the    *)
(* "provider" gitea_issues the pulls are Gitea's issues, and the commands  *)
(* `remogram issue inventory`.                                             *)
(***************************************************************************)
EXTENDS Integers, SequencesExt

CONSTANTS
    Providers,   \* the forges callers use
    Sorts,       \* values of --sort the callers use
    Limit,       \* --limit (DEFAULT_CR_INVENTORY_SAFE_LIMIT)
    PageSize,    \* DEFAULT_OPEN_PULL_LIST_PAGE_SIZE
    LinkPageSize,\* DEFAULT_CHECK_STATUS_PAGE_SIZE, GitHub's walk from scratch
    MaxPages,    \* MAX_CHECK_STATUS_PAGES
    MaxPulls,    \* bound: pulls ever opened
    MaxMoves,    \* bound: changes of the list
    Null         \* no cursor, no trusted total

ASSUME ProviderAssumption == Providers \subseteq {"gitea", "gitea_issues", "github", "gitlab"}
ASSUME SortAssumption ==
    Sorts \subseteq {"number_asc", "number_desc", "recent_update", "recent_created"}
ASSUME SizeAssumption ==
    /\ {Limit, PageSize, LinkPageSize} \subseteq Nat \ {0}
    /\ LinkPageSize <= PageSize /\ MaxPages \in Nat \ {0, 1}
ASSUME BoundAssumption == {MaxPulls, MaxMoves} \subseteq Nat
ASSUME NullAssumption == Null \notin Nat

VARIABLES
    (* the forge *)
    provider,   \* which one
    order,      \* the open pulls in the order it lists them for `sort`
    made,       \* pulls ever opened
    moves,      \* changes so far
    (* the caller *)
    pc,         \* where the current call is, or the walk between calls
    sort, cursor, packet,
    (* the current call's listing *)
    page, limit, lastPage,
    got,        \* the items kept
    walked,     \* the number of items read
    total,      \* the trusted total of the probe
    tailTries,
    (* history of the walk *)
    shown,      \* pulls in entries or entries_skipped of any of its packets
    steady,     \* pulls open without a break since it began
    disturbed   \* something happened that the walk does not survive

forge   == <<provider, order, made, moves>>
listing == <<page, limit, lastPage, got, walked, total, tailTries>>
history == <<shown, steady, disturbed>>
vars    == <<provider, order, made, moves, pc, sort, cursor, packet, page, limit, lastPage,
             got, walked, total, tailTries, shown, steady, disturbed>>

Open == Range(order)
Calling == {"probe", "tail", "pulls", "page", "link", "confirm"}
OnGitea == provider \in {"gitea", "gitea_issues"}
NumberSort == sort \in {"number_asc", "number_desc"}

Offset == IF cursor = Null THEN 0 ELSE cursor
Window == Offset + Limit
CompliantMax == PageSize * MaxPages
Smaller(a, b) == IF a < b THEN a ELSE b

(* Where a pull is in the list, and the list without it. *)
Place(n) == CHOOSE i \in DOMAIN order : order[i] = n
Without(n) == RemoveAt(order, Place(n))

(* Sorted by number; what occurs twice stays twice. *)
Ascending(items) ==
    [k \in DOMAIN items |-> CHOOSE n \in Range(items) :
        /\ Cardinality({i \in DOMAIN items : items[i] < n}) < k
        /\ Cardinality({i \in DOMAIN items : items[i] <= n}) >= k]
Descending(items) == Reverse(Ascending(items))

PageItems(p, l) == SubSeq(order, (p - 1) * l + 1, Smaller(p * l, Len(order)))

(* prepareGiteaOpenPullPageItems, orderOpenPullNumbers; repeated items stay *)
(* in the list.                                                             *)
Ordered(items) ==
    CASE sort = "recent_update"  -> items
      [] sort = "recent_created" -> IF OnGitea THEN Reverse(items) ELSE items
      [] sort = "number_asc"     -> Ascending(items)
      [] OTHER                   -> Descending(items)

(* The order the forge is asked for: Gitea lists the newest first unless    *)
(* recent_created asks for the oldest, the others sort as the caller does.  *)
OldestFirst == sort = IF OnGitea THEN "recent_created" ELSE "number_asc"

FirstOf(items, n) == SubSeq(items, 1, Smaller(n, Len(items)))
-----------------------------------------------------------------------------
Bare(type) == [type |-> type, numbers |-> <<>>, complete |-> FALSE, next |-> Null]
NoPacket == Bare("none")
ErrorPacket == Bare("error")
IncompletePacket == Bare("inventory_list_incomplete")

(* Mutant: the next cursor is the offset this call began with.              *)
SliceWithStaleCursor(items, truncated, count) ==
    LET numbers  == FirstOf(Ordered(items), Window)
        selected == SubSeq(numbers, Offset + 1, Len(numbers))
        seen     == Offset + Len(selected)
        hasMore  == truncated \/ seen < count
    IN  IF truncated /\ cursor = Null THEN IncompletePacket
        ELSE [type |-> "cr_inventory_slice", numbers |-> selected, complete |-> ~hasMore,
              next |-> IF hasMore THEN Offset ELSE Null]

(* crInventory: the slice behind the cursor.  Each selected pull goes into  *)
(* entries, or into entries_skipped when its own reads fail or it is no     *)
(* longer open.  cli-dispatch refuses a truncated list without a cursor.    *)
Slice(items, truncated, count) ==
    LET numbers  == FirstOf(Ordered(items), Window)
        selected == SubSeq(numbers, Offset + 1, Len(numbers))
        seen     == Offset + Len(selected)
        hasMore  == truncated \/ seen < count
    IN  IF truncated /\ cursor = Null THEN IncompletePacket
        ELSE [type |-> "cr_inventory_slice", numbers |-> selected, complete |-> ~hasMore,
              next |-> IF hasMore THEN seen ELSE Null]

NoListing == /\ page' = 1 /\ limit' = PageSize /\ lastPage' = MaxPages
             /\ got' = <<>> /\ walked' = 0 /\ total' = Null /\ tailTries' = 0

Init ==
    /\ provider \in Providers
    /\ sort \in Sorts
    /\ made \in 0..MaxPulls
    /\ order = [k \in 1..made |-> IF OldestFirst THEN k ELSE made + 1 - k]
    /\ moves = 0
    /\ pc = "idle"
    /\ cursor = Null
    /\ packet = NoPacket
    /\ page = 1 /\ limit = PageSize /\ lastPage = MaxPages
    /\ got = <<>> /\ walked = 0 /\ total = Null /\ tailTries = 0
    /\ shown = {} /\ steady = {} /\ disturbed = FALSE
-----------------------------------------------------------------------------
(* The list changing.                                                       *)

Move == moves < MaxMoves /\ moves' = moves + 1
Read == shown \cup Range(got)

(* A new pull in front of the list moves the others back.  On GitHub the    *)
(* total is an answer of its own (or lost), so the list may outgrow it; of  *)
(* the issues one is then listed twice and moves the others' offsets.       *)
OpenPull ==
    /\ Move
    /\ made < MaxPulls
    /\ made' = made + 1
    /\ order' = IF OldestFirst THEN Append(order, made + 1) ELSE <<made + 1>> \o order
    /\ disturbed' = (disturbed \/ (/\ pc \in Calling /\ ~OldestFirst
                                    /\ \/ provider \in {"github", "gitea_issues"}
                                       \/ provider = "gitea" /\ sort = "number_asc"))
    /\ UNCHANGED <<provider, pc, sort, cursor, packet, listing, shown, steady>>

(* A closed pull leaves a gap that the ones behind it move up into.         *)
ClosePull(n) ==
    /\ Move
    /\ order' = Without(n)
    /\ steady' = steady \ {n}
    /\ disturbed' = (disturbed \/ n \in Read \/ n \notin steady)
    /\ UNCHANGED <<provider, made, pc, sort, cursor, packet, listing, shown>>

(* A push or a comment makes it the most recently updated one, and one that *)
(* this call does not print goes behind the cursor.                         *)
TouchPull(n) ==
    /\ Move
    /\ sort = "recent_update"
    /\ order' = <<n>> \o Without(n)
    /\ disturbed' = (disturbed \/ n \notin shown \cup Range(FirstOf(got, Window)))
    /\ UNCHANGED <<provider, made, pc, sort, cursor, packet, listing, shown, steady>>
-----------------------------------------------------------------------------
(* A call's beginning and end.                                              *)

Answer(p) ==
    /\ packet' = p
    /\ shown' = shown \cup Range(p.numbers)
    /\ pc' = IF p.next = Null THEN "finished" ELSE "between"
    /\ NoListing
    /\ UNCHANGED <<forge, sort, cursor, steady>>

Emit(p) == Answer(p) /\ UNCHANGED disturbed

(* The first call, without a cursor. *)
FirstCall ==
    /\ pc = "idle"
    /\ pc' = "probe"
    /\ steady' = Open
    /\ UNCHANGED <<forge, sort, cursor, packet, listing, shown, disturbed>>

(* The caller comes back with next_cursor. *)
NextCall ==
    /\ pc = "between"
    /\ pc' = "probe"
    /\ cursor' = packet.next
    /\ packet' = NoPacket
    /\ UNCHANGED <<forge, sort, listing, history>>
-----------------------------------------------------------------------------
(* paginateOffsetListPages under paginateGiteaOpenPullList and its twins.   *)

StartWalk(where, items, count, p, l, last) ==
    /\ pc' = where
    /\ got' = items
    /\ walked' = Len(items)
    /\ total' = count
    /\ page' = p /\ limit' = l /\ lastPage' = last
    /\ UNCHANGED <<forge, sort, cursor, packet, tailTries, shown, steady>>

FullCollect == provider = "gitea_issues" \/ (NumberSort /\ total # Null)
TailOnly == sort = "recent_created" /\ total # Null
Items == PageItems(page, limit)
Short == Len(Items) < limit
HasNext == page * limit < Len(order)
Kept == IF FullCollect THEN got \o Items ELSE FirstOf(got \o Items, Window)

(* The outcome of the walk: resolveListTruncatedWithTrustedTotal and        *)
(* resolvePaginatedEntryCount.  Without a total the count is what was read, *)
(* and on GitHub only what was kept.                                        *)
FinishWalk(items, read, truncated) ==
    Emit(IF total # Null THEN Slice(items, truncated \/ read < total, total)
         ELSE IF provider = "github"
              THEN Slice(items, truncated, Smaller(Len(items), Window))
              ELSE Slice(items, truncated, read))

(* Mutant: no bound on the pages. *)
ReadOnForever ==
    /\ pc = "page"
    /\ ~Short
    /\ page' = page + 1
    /\ got' = Kept
    /\ walked' = walked + Len(Items)
    /\ UNCHANGED <<forge, pc, sort, cursor, packet, limit, lastPage, total, tailTries, history>>

ReadOn ==
    /\ pc = "page"
    /\ page < lastPage
    /\ ~Short
    /\ page' = page + 1
    /\ got' = Kept
    /\ walked' = walked + Len(Items)
    /\ UNCHANGED <<forge, pc, sort, cursor, packet, limit, lastPage, total, tailTries, history>>

EndOfList ==
    /\ pc = "page"
    /\ Short
    /\ FinishWalk(Kept, walked + Len(Items), FALSE)

(* A full last page: ask whether there is more. *)
LastPage ==
    /\ pc = "page"
    /\ page = lastPage
    /\ ~Short
    /\ ~TailOnly /\ provider # "gitea_issues"
    /\ pc' = "confirm"
    /\ got' = Kept
    /\ walked' = walked + Len(Items)
    /\ UNCHANGED <<forge, sort, cursor, packet, page, limit, lastPage, total, tailTries, history>>

(* listIssuesWithMeta does not ask.  With a cursor the newest issues are    *)
(* sorted and sliced as if they were all of them.                           *)
LastIssuePage ==
    /\ pc = "page" /\ provider = "gitea_issues"
    /\ page = lastPage
    /\ ~Short
    /\ Answer(Slice(Kept, TRUE, walked + Len(Items)))
    /\ disturbed' = (disturbed \/ (sort = "number_asc" /\ HasNext))

LastTailPage ==
    /\ pc = "page"
    /\ ~Short
    /\ TailOnly
    /\ FinishWalk(Kept, walked + Len(Items), TRUE)

(* probeNextPageHasItems asks for one item of page lastPage + 1 at page     *)
(* size one.                                                                *)
ConfirmEnd ==
    /\ pc = "confirm"
    /\ FinishWalk(got, walked, PageItems(lastPage + 1, 1) # <<>>)

(* paginateGitHubLinkPages: GitHub says whether there is a next page, and   *)
(* the last page asked for may say so too.  Nothing is cut while it reads.  *)
LinkOn ==
    /\ pc = "link"
    /\ page < lastPage
    /\ HasNext
    /\ page' = page + 1
    /\ got' = got \o Items
    /\ walked' = walked + Len(Items)
    /\ UNCHANGED <<forge, pc, sort, cursor, packet, limit, lastPage, total, tailTries, history>>

LinkEnd ==
    /\ pc = "link"
    /\ page = lastPage \/ ~HasNext
    /\ FinishWalk(got \o Items, walked + Len(Items), HasNext)

(* fetchPageWithIngestBackoff: any page with something on it may be over    *)
(* the ingest cap.  Smaller pages may not reach the end of the issues, and  *)
(* with a cursor the numbers of a part of them are sliced.                  *)
BackOff ==
    /\ pc \in {"page", "link"}
    /\ Items # <<>>
    /\ limit > 1
    /\ limit' = limit \div 2
    /\ disturbed' = (disturbed \/ page > 1 \/ (provider = "gitea_issues" /\ sort # "recent_update"))
    /\ UNCHANGED <<forge, pc, sort, cursor, packet, page, lastPage, got, walked, total,
                   tailTries, shown, steady>>

WalkFails ==
    /\ pc \in {"page", "link", "confirm"}
    /\ Emit(ErrorPacket)
===========================================================================
