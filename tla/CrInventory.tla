---------------------------- MODULE CrInventory ----------------------------
(***************************************************************************)
(* `remogram cr inventory` on Gitea, GitLab and GitHub: a caller pages     *)
(* through the open pulls of a repository with a cursor.  Every call is a  *)
(* process of its own that lists a window of the open pulls, request by    *)
(* request, and prints the slice behind the cursor's offset.  Pulls are    *)
(* opened, closed and touched by other people between any two requests and *)
(* between the calls.  `remogram issue inventory` does the same with the   *)
(* issues of a Gitea repository.                                           *)
(***************************************************************************)
EXTENDS OpenPulls
-----------------------------------------------------------------------------
(* Gitea and GitLab: probeGiteaOpenPullPageOne (probeGitlabOpenPullPageOne) *)
(* answers with the page and the total at once, and what                    *)
(* listOpenPullsWithMeta makes of it.                                       *)

AskForge == pc = "probe" /\ provider \in {"gitea", "gitlab"}
ForgeSorts == provider = "gitea" => sort = "recent_update"
FromTheOtherEnd == provider = "gitea" /\ sort \in {"number_asc", "recent_created"}
ProbeLimit == Smaller(Window, PageSize)
Probed == PageItems(1, ProbeLimit)

(* A part of a list the forge serves from the other end stands for it.      *)
WrongEnd == disturbed' = (disturbed \/ (FromTheOtherEnd /\ Probed # order))

(* The request fails, its answer is over the cap, or it brings no trusted   *)
(* total (an empty list has none): walk from page one.                      *)
ProbeUnusable ==
    /\ AskForge
    /\ StartWalk("page", <<>>, Null, 1, PageSize, MaxPages)
    /\ disturbed' = (disturbed \/ (FromTheOtherEnd /\ order # <<>>))

Trusted(n) == n \in 1..(2 * CompliantMax)
TrustedTotal == AskForge /\ Trusted(Len(order))

ProbeTooLong ==
    /\ TrustedTotal
    /\ Len(order) > CompliantMax
    /\ Answer(Slice(Probed, TRUE, Len(order)))
    /\ WrongEnd

(* On Gitea recent_created is served oldest first: go for the last page.    *)
ProbeTail ==
    /\ TrustedTotal
    /\ provider = "gitea"
    /\ Len(order) <= CompliantMax
    /\ sort = "recent_created"
    /\ Len(order) > Window
    /\ pc' = "tail"
    /\ total' = Len(order)
    /\ UNCHANGED <<forge, sort, cursor, packet, page, limit, lastPage, got, walked,
                   tailTries, history>>

(* Mutant: every sort trusts the first page.                                *)
ProbeAlwaysSuffices ==
    /\ TrustedTotal
    /\ Len(order) <= CompliantMax
    /\ (sort = "recent_created" /\ provider = "gitea") => Len(order) <= Window
    /\ Emit(Slice(Probed, FALSE, Len(order)))

(* The fast path: the first page is the answer, and be it the wrong end of  *)
(* a list within the window but longer than a page.                         *)
ProbeSuffices ==
    /\ TrustedTotal
    /\ Len(order) <= CompliantMax
    /\ (ForgeSorts /\ ~NumberSort) \/ Len(order) <= Window
    /\ Answer(Slice(Probed, FALSE, Len(order)))
    /\ WrongEnd

(* isNumberSortFullCollectRequired: collect the whole list, the probe being *)
(* its first page; from page two on, pages are of the full size.            *)
ProbeSeeds ==
    /\ TrustedTotal
    /\ Len(order) <= CompliantMax
    /\ NumberSort
    /\ Len(order) > Window
    /\ StartWalk("page", Probed, Len(order), 2, PageSize, MaxPages)
    /\ UNCHANGED disturbed
-----------------------------------------------------------------------------
(* GitHub: the total is a search of its own (fetchGitHubOpenPullSearchTotal),*)
(* the first page a second request (probeGitHubOpenPullPageOne).            *)

SearchTotal ==
    /\ pc = "probe" /\ provider = "github"
    /\ Trusted(Len(order))
    /\ pc' = "pulls"
    /\ total' = Len(order)
    /\ UNCHANGED <<forge, sort, cursor, packet, page, limit, lastPage, got, walked,
                   tailTries, history>>

(* The search fails or is incomplete, or the page fails: the total is gone. *)
SearchLost ==
    /\ pc \in {"probe", "pulls"} /\ provider = "github"
    /\ StartWalk("link", <<>>, Null, 1, LinkPageSize, MaxPages)
    /\ disturbed' = (disturbed \/ Len(order) > Window)

PullsTooMany ==
    /\ pc = "pulls"
    /\ total > CompliantMax
    /\ Emit(Slice(Probed, TRUE, total))

(* isNumberSortFullCollectRequired; validateFastPathPageLength.             *)
CollectAll == NumberSort /\ total > Window
LengthFits == Len(Probed) = Smaller(total, ProbeLimit)

PullsSuffice ==
    /\ pc = "pulls"
    /\ total <= CompliantMax
    /\ ~CollectAll /\ LengthFits
    /\ Emit(Slice(Probed, FALSE, total))

(* Collect all, or make up for a page the total does not explain.  The next *)
(* page comes from the Link header of the first, at that page's size.       *)
PullsSeedLink ==
    /\ pc = "pulls"
    /\ total <= CompliantMax
    /\ CollectAll \/ ~LengthFits
    /\ Len(order) > ProbeLimit
    /\ StartWalk("link", Probed, total, 2, ProbeLimit, MaxPages)
    /\ UNCHANGED disturbed

(* No Link header: read on by page number, or take the page for the list.   *)
PullsSeedOffset ==
    /\ pc = "pulls"
    /\ total <= CompliantMax
    /\ CollectAll
    /\ Len(order) <= ProbeLimit
    /\ StartWalk("page", Probed, total, 2, PageSize, MaxPages)
    /\ UNCHANGED disturbed

PullsAreAll ==
    /\ pc = "pulls"
    /\ total <= CompliantMax
    /\ ~CollectAll /\ ~LengthFits
    /\ Len(order) <= ProbeLimit
    /\ FinishWalk(Probed, Len(Probed), FALSE)
-----------------------------------------------------------------------------
(* fetchGiteaRecentCreatedTailSlice: two tries, then the walk of that page, *)
(* which keeps the oldest of it.                                            *)

(* Mutant: rounded down.                                                    *)
TailPageDown == IF total < PageSize THEN 1 ELSE total \div PageSize

TailPage == (total + PageSize - 1) \div PageSize

ReadTail ==
    /\ pc = "tail"
    /\ PageItems(TailPage, PageSize) # <<>>
    /\ Emit(Slice(PageItems(TailPage, PageSize), FALSE, total))

TailFails ==
    /\ pc = "tail"
    /\ tailTries = 0
    /\ tailTries' = 1
    /\ UNCHANGED <<forge, pc, sort, cursor, packet, page, limit, lastPage, got, walked,
                   total, history>>

TailFailsAgain ==
    /\ pc = "tail"
    /\ tailTries = 1
    /\ StartWalk("page", <<>>, total, TailPage, PageSize, TailPage)
    /\ disturbed' = (disturbed \/ Window < PageSize)
-----------------------------------------------------------------------------
(* listIssuesWithMeta, without a probe: the whole list is collected.        *)
ListIssues ==
    /\ pc = "probe" /\ provider = "gitea_issues"
    /\ StartWalk("page", <<>>, Null, 1, PageSize, MaxPages)
    /\ UNCHANGED disturbed
-----------------------------------------------------------------------------
Probe == \/ ProbeUnusable \/ ProbeTooLong \/ ProbeTail \/ ProbeSuffices \/ ProbeSeeds
         \/ SearchTotal \/ SearchLost \/ PullsTooMany \/ PullsSuffice
         \/ PullsSeedLink \/ PullsSeedOffset \/ PullsAreAll \/ ListIssues

Walk == \/ ReadTail \/ TailFails \/ TailFailsAgain
        \/ ReadOn \/ EndOfList \/ LastPage \/ LastIssuePage \/ LastTailPage \/ ConfirmEnd
        \/ LinkOn \/ LinkEnd
        \/ BackOff \/ WalkFails

Proceed == Probe \/ Walk

Next ==
    \/ OpenPull
    \/ \E n \in Open : ClosePull(n) \/ TouchPull(n)
    \/ FirstCall \/ NextCall \/ Proceed

(* A call runs to its end and the caller comes back while there is more.    *)
Spec == Init /\ [][Next]_vars /\ WF_vars(Proceed) /\ WF_vars(NextCall)
-----------------------------------------------------------------------------
(* Types of all the variables; no more is kept than the window or the list. *)
TypeOK ==
    /\ order \in Seq(1..made) /\ Cardinality(Open) = Len(order)
    /\ made \in 0..MaxPulls
    /\ moves \in 0..MaxMoves
    /\ pc \in {"idle", "between", "finished"} \cup Calling
    /\ provider \in Providers /\ sort \in Sorts
    /\ cursor \in Nat \cup {Null}
    /\ packet.type \in {"none", "error", "inventory_list_incomplete", "cr_inventory_slice"}
    /\ Len(packet.numbers) <= Limit
    /\ page \in 1..lastPage /\ lastPage \in 1..MaxPages
    /\ limit \in 1..PageSize
    /\ got \in Seq(1..made) /\ Len(got) <= walked
    /\ (total = Null /\ provider \in {"gitea", "gitlab"}) => Len(got) <= Window
    /\ total \in Nat \cup {Null}
    /\ shown \subseteq 1..made /\ steady \subseteq Open

(* The pulls in front of n in the order of the slices. *)
Before(n) ==
    CASE sort = "recent_update" -> {m \in Open : Place(m) < Place(n)}
      [] sort = "number_asc" -> {m \in Open : m < n}
      [] OTHER -> {m \in Open : m > n}

(* A cursor never moves past a pull that was open all along and that no     *)
(* packet has shown, unless                                                 *)
(*   - a pull that was read or shown, or opened meanwhile, is closed, or one *)
(*     that the call will not show is touched under recent_update;          *)
(*   - a page after the first is asked for again at half the size;          *)
(*   - what is sorted or turned round by the code itself is only a part: the *)
(*     probe of a list Gitea serves from the other end is lost or taken for  *)
(*     the list, its last page is cut to the window, or issues are cut at   *)
(*     the page cap or read in pages of half the size;                      *)
(*   - a pull is opened in front while a call reads what it then sorts, or  *)
(*     while GitHub's total is older than the list, or that total is lost.  *)
NextSkipsNothing ==
    (pc = "between" /\ ~disturbed) =>
        \A n \in steady \ shown : packet.next <= Cardinality(Before(n))

(* And then a walk that ends with `complete` has shown every pull that was  *)
(* open all along.                                                          *)
CompleteWalkMissesNothing ==
    (packet.complete /\ ~disturbed) => steady \subseteq shown

(* On a list that fits one page, and the allowed number of pages even at    *)
(* page size one, every walk ends, on every forge.  A full last page of     *)
(* issues is taken for a cut list.                                          *)
ShortWalkEnds ==
    [](/\ Len(order) <= Smaller(PageSize, MaxPages)
       /\ provider = "gitea_issues" => Len(order) < MaxPages)
    => (pc \in Calling ~> pc = "finished")
-----------------------------------------------------------------------------
(* What the documentation claims and the code does not keep.                *)

(* CHANGELOG: opaque cursor pagination with has_more, complete and          *)
(* next_cursor. Following next_cursor ends.                                 *)
WalkEnds == pc \in Calling ~> pc = "finished"

(* Test `number_asc full-collects when total exceeds retain_max`: the first *)
(* call over an unchanged list within the compliant maximum either fails a  *)
(* request or shows the lowest numbers.                                     *)
NumberSortCollectsFully ==
    (sort = "number_asc" /\ moves = 0 /\ cursor = Null /\ Len(order) <= CompliantMax) =>
        \/ packet.type \in {"none", "error"}
        \/ packet.numbers = FirstOf(Ascending(order), Limit)
===========================================================================
