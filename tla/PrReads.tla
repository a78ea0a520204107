------------------------------ MODULE PrReads ------------------------------
(***************************************************************************)
(* The reads of one pull on Gitea, GitHub and GitLab: `pr view`, `pr       *)
(* checks`, `merge plan`, `cr files`, and the comments of a pull or of an  *)
(* issue.  A command is a process that sends one HTTP request after        *)
(* another, two listings of checks at a time on GitHub and GitLab, and     *)
(* walks every listing page by page under an ingest cap and a page cap.    *)
(* Between its requests CI reports, people push, comment and delete        *)
(* comments, and the local clone fetches.                                  *)
(*                                                                         *)
(* Heads are numbered in the order they were pushed, check records and     *)
(* comments in the order they were made, the entries of the forge's list   *)
(* of changed files by their place in it; a renamed file is one entry.     *)
(* Records and comments are listed newest first, the order in which an     *)
(* addition shifts the pages.                                              *)
(***************************************************************************)
EXTENDS CheckFacts, Paging, Sequences

CONSTANTS
    Providers,      \* the forges of the instance
    Commands,       \* the commands of the instance
    Contexts,
    Reports,        \* bound: what CI reports, records of a context and a raw state
    Required,       \* contexts a protected target branch requires
    Histories,      \* what CI has reported of the first head, in each listing
    Views,          \* what a forge says of a pull
    Entries,        \* entries of lists of changed files
    Paths,
    ShownAs,        \* the path `cr files` shows of an entry; Null: it has none to show
    Odd,            \* paths with a `..` segment, or absolute ones
    Allowlists,     \* what the globs of --allowed-path match
    FileLists,      \* bound: the lists a head may have
    PageSize,       \* DEFAULT_CHECK_STATUS_PAGE_SIZE
    MaxPages,       \* MAX_CHECK_STATUS_PAGES
    MaxItems,       \* MAX_CR_FILES_PATHS, MAX_CR_COMMENTS, MAX_ISSUE_COMMENTS
    MaxMoves,       \* bound: changes of the forge and of the clone
    MaxHeads,       \* bound: heads
    Null

ASSUME ProvidersAssumption == Providers \subseteq {"gitea", "github", "gitlab"}
ASSUME CommandsAssumption ==
    Commands \subseteq {"view", "checks", "checks_ref", "plan", "files", "comments"}
ASSUME ChecksAssumption ==
    /\ Reports \subseteq [context : Contexts, state : RawStates] /\ Required \subseteq Contexts
    /\ Histories \subseteq [{"statuses", "runs"} -> Seq([context : Contexts, state : RawStates])]
ASSUME PathsAssumption ==
    /\ Odd \subseteq Paths /\ Allowlists \subseteq SUBSET (Paths \ Odd) /\ Null \notin Paths
    /\ Entries \subseteq Nat /\ ShownAs \in [Entries -> Paths \cup {Null}]
    /\ FileLists \subseteq SUBSET Entries /\ \A list \in FileLists : IsFiniteSet(list)
ASSUME SizesAssumption ==
    /\ PageSize \in Nat \ {0} /\ MaxPages \in Nat \ {0} /\ MaxItems \in Nat
    /\ MaxMoves \in Nat /\ MaxHeads \in Nat \ {0} /\ Null \notin Nat

VARIABLES
    (* the forge *)
    provider, head,
    records,    \* check records of a head, in each listing of checks
    files,      \* the entries of the head's list of changed files
    comments, made,         \* comments there are, and how many were ever made
    (* the clone *)
    local,      \* the head the source branch resolves to; Null: none
    moves,
    (* the command *)
    pc, command,
    allowed,    \* --allowed-path: the paths its globs match; Null: no scope
    viewed,     \* the blockers of what prView read
    sha, required,          \* what prChecks read before it lists
    walks,      \* the listings it walks
    checks,     \* prChecks' body
    packet,
    (* history *)
    due,        \* what a walk has to find: listed since it began, nothing removed since,
                \* and every answer it got a list
    excused     \* heads the clone had since the command began, or that were pushed
                \* after the command had compared the head with the clone's

forge == <<provider, head, records, files, comments, made>>
vars == <<provider, head, records, files, comments, made,
          local, moves, pc, command, allowed, viewed, sha, required, walks, checks,
          packet, due, excused>>
-----------------------------------------------------------------------------
Heads == 1..MaxHeads
Record == [context : Contexts, state : RawStates]

(* "runs" are check runs on GitHub and pipelines on GitLab. *)
Sources == IF provider = "gitea" THEN {"statuses"} ELSE {"statuses", "runs"}
Listings == {"statuses", "runs", "files", "comments"}

Listed(l) ==
    IF l = "files" THEN files
    ELSE IF l = "comments" THEN comments
    ELSE DOMAIN records[sha][l]

Limits == 1..PageSize
FirstPage == [page |-> 1, limit |-> PageSize, got |-> {}, count |-> 0,
              cut |-> FALSE, done |-> FALSE]

(* What a list packet lists is what its walks got; of a changed file, the   *)
(* path it is shown as.                                                     *)
Packet(type, at, truncated, blockers) ==
    [type |-> type, at |-> at, truncated |-> truncated, blockers |-> blockers]
NoPacket == Packet("none", Null, FALSE, {})
ErrorPacket == Packet("error", Null, FALSE, {})
-----------------------------------------------------------------------------
(* Checks                                                                   *)

RecordAt(l, i) == records[sha][l][i]

(* dedupeGiteaStatusRecords: Gitea's listing has every record ever made, of *)
(* which the last of a context counts.  Elsewhere all that is read counts.  *)
Counted(l, got) ==
    IF provider # "gitea" THEN got
    ELSE {i \in got : \A j \in got :
              RecordAt(l, j).context = RecordAt(l, i).context => j <= i}

Mapped == UNION {{RecordAt(l, i) : i \in Counted(l, walks[l].got)} : l \in Sources}

Having(mapped, state) == {r \in mapped : NormalizeStatusState(r.state) = state}

(* summarizeChecks, over the records of every source. *)
Summary(mapped) ==
    IF mapped = {} THEN "missing"
    ELSE IF Having(mapped, "failure") # {} THEN "failure"
    ELSE IF Having(mapped, "pending") # {} THEN "pending"
    ELSE IF Having(mapped, "success") = mapped THEN "success"
    ELSE "unknown"

ContextsOf(mapped) == {r.context : r \in mapped}

(* buildPrChecksBody *)
PrChecksBody(mapped, truncated) ==
    [sha        |-> sha,
     conclusion |-> Summary(mapped),
     truncated  |-> truncated,
     missingReq |-> required \ ContextsOf(mapped),
     pendingReq |-> required \cap ContextsOf(Having(mapped, "pending"))]

DefaultPolicy == [allowMissing |-> FALSE, allowPending |-> FALSE]
-----------------------------------------------------------------------------
(* Path scope                                                               *)

(* sanitizePathList, and its like for GitLab: the new path of an entry, made *)
(* printable and cut to length; an entry that has none is left out.         *)
Nameless == {f \in Entries : ShownAs[f] = Null}
PathsOf(entries) == {ShownAs[f] : f \in entries \ Nameless}

(* normalizeAllowedPaths: a glob with a `..` segment is dropped, and when   *)
(* none is left there is no scope.                                          *)
Scopes == {Null} \cup Allowlists

(* What of a page counts towards the cap.                                   *)
Countable(l, items) == IF l = "files" THEN items \ Nameless ELSE items

(* buildCrFilesFromGiteaFiles caps what it lists, an entry read twice being *)
(* two; buildCrFilesFromGitLabChanges lists a path once.                    *)
Capped(l) ==
    (IF provider = "gitlab" /\ l = "files" THEN Cardinality(PathsOf(walks[l].got))
     ELSE walks[l].count) > MaxItems

Truncated(l) == walks[l].cut \/ Capped(l)

(* normalizeChangedPathList, allPathsAllowed *)
Normalizable(paths) == paths \cap Odd = {}
AllAllowed(paths) == paths \subseteq allowed

(* Mutant: files that could not be listed are no files.                     *)
ChangedPathsOrNone(listed) ==
    IF listed /\ ~Truncated("files") THEN PathsOf(walks["files"].got) ELSE {}

(* isCrFilesScopeComplete: Null unless the list is whole and its paths are  *)
(* ones the allowlist can be matched with.                                  *)
ChangedPaths(listed) ==
    IF listed /\ ~Truncated("files") /\ Normalizable(PathsOf(walks["files"].got))
    THEN PathsOf(walks["files"].got) ELSE Null

ScopeBlockers(listed) ==
    IF allowed = Null THEN {}
    ELSE IF ChangedPaths(listed) = Null THEN {"changed_paths_unavailable"}
    ELSE When(~AllAllowed(ChangedPaths(listed)), "path_scope_violation")

(* mergeBlockersFromFacts *)
PlanBlockers(body, listed) ==
    viewed \cup CheckBlockers(body, DefaultPolicy) \cup ScopeBlockers(listed)
-----------------------------------------------------------------------------
(* What the command at hand does not read is left at rest.                  *)
ReadsChecks == command \in {"checks", "checks_ref", "plan"}
ReadsFiles == command = "files" \/ allowed # Null
ComparesHeads == command \in {"view", "checks", "checks_ref"}

Init ==
    /\ command \in Commands /\ allowed \in Scopes
    /\ allowed # Null => command = "plan"
    /\ provider \in Providers /\ head = 1
    /\ \E before \in Histories :
           records = [h \in Heads |-> [l \in {"statuses", "runs"} |->
               IF ReadsChecks /\ h = head /\ l \in Sources THEN before[l] ELSE <<>>]]
    /\ files \in IF ReadsFiles THEN FileLists ELSE {{}}
    /\ made \in 0..MaxItems /\ (made > 0 => command = "comments") /\ comments = 1..made
    /\ local \in {head, Null} /\ (local = Null => ComparesHeads)
    /\ moves = 0
    /\ pc = "idle"
    /\ viewed = {} /\ sha = Null /\ required = {} /\ checks = Null
    /\ walks = [l \in Listings |-> Null]
    /\ packet = NoPacket
    /\ due = [l \in Listings |-> {}]
    /\ excused = {}
-----------------------------------------------------------------------------
(* The forge and the clone move while the command runs; what it does not   *)
(* read any more moves no more.                                             *)

Move ==
    /\ pc \notin {"idle", "done"} /\ moves < MaxMoves /\ moves' = moves + 1
    /\ UNCHANGED <<provider, pc, command, allowed, viewed, sha, required, walks, checks,
                   packet>>

Report(h, l, r) ==      \* CI
    /\ Move /\ ReadsChecks /\ h <= head /\ l \in Sources
    /\ sha \in {h, Null} /\ checks = Null
    /\ records' = [records EXCEPT ![h][l] = Append(@, r)]
    /\ UNCHANGED <<head, files, comments, made, local, due, excused>>

Push(list) ==
    /\ Move /\ (pc \in {"view", "pull"} \/ ReadsFiles)
    /\ head < MaxHeads /\ head' = head + 1
    /\ files' = IF ReadsFiles THEN list ELSE {}
    /\ due' = [due EXCEPT !["files"] = {}]
    /\ excused' = IF ComparesHeads /\ pc = "pull" THEN excused \cup {head'} ELSE excused
    /\ UNCHANGED <<records, comments, made, local>>

Fetch ==                \* git fetch, or a branch that is not known locally
    /\ Move /\ ComparesHeads /\ pc = "view"
    /\ local' \in {head, Null} \ {local}
    /\ excused' = excused \cup {local'}
    /\ UNCHANGED <<head, records, files, comments, made, due>>

Comment ==
    /\ Move /\ command = "comments"
    /\ made' = made + 1 /\ comments' = comments \cup {made'}
    /\ UNCHANGED <<head, records, files, local, due, excused>>

DeleteComment(i) ==
    /\ Move /\ command = "comments"
    /\ comments' = comments \ {i}
    /\ due' = [due EXCEPT !["comments"] = {}]
    /\ UNCHANGED <<head, records, files, made, local, excused>>
-----------------------------------------------------------------------------
(* The command                                                              *)

Quiet == UNCHANGED <<forge, local, moves, command, allowed>>

Emit(p) == pc' = "done" /\ packet' = p
Go(step) == pc' = step /\ UNCHANGED packet

(* Walks of the listings ls begin; no other walk is kept. *)
Walk(ls) ==
    /\ walks' = [l \in Listings |-> IF l \in ls THEN FirstPage ELSE Null]
    /\ due' = [l \in Listings |->
                  IF l \in ls THEN Listed(l) ELSE IF ls = {} THEN {} ELSE due[l]]

NoWalk == UNCHANGED <<walks, due>>

Start ==
    /\ pc = "idle"
    /\ excused' = {local}
    /\ \/ /\ command = "checks_ref"        \* --ref: git decides, no pull is read
          /\ sha' = local
          /\ IF local = Null THEN Emit(ErrorPacket) ELSE Go("listings")
          /\ NoWalk
       \/ command \in {"files", "comments"} /\ Go("walk") /\ Walk({command}) /\ UNCHANGED sha
       \/ command \in {"view", "checks", "plan"} /\ Go("view") /\ NoWalk /\ UNCHANGED sha
    /\ Quiet /\ UNCHANGED <<viewed, required, checks>>

(* Mutant: only pr view compares.                                           *)
StaleWhenViewed(h) == command = "view" /\ local # Null /\ local # h

(* throwIfStaleHeadByNumber; merge plan does not compare. *)
Stale(h) == command \in {"view", "checks"} /\ local # Null /\ local # h

PrView ==
    /\ pc = "view"
    /\ \E v \in Views : viewed' = IF command = "plan" THEN ViewBlockers(v) ELSE {}
    /\ IF Stale(head) THEN Emit(Packet("stale_head", head, FALSE, {}))
       ELSE IF command = "view" THEN Emit(Packet("pr_status", head, FALSE, {}))
       ELSE Go("pull")
    /\ Quiet /\ NoWalk /\ UNCHANGED <<sha, required, checks, excused>>

(* prChecks reads the pull again. *)
ReadPull ==
    /\ pc = "pull"
    /\ sha' = head
    /\ Go("protection")
    /\ Quiet /\ NoWalk /\ UNCHANGED <<viewed, required, checks, excused>>

(* resolveBranchProtection; GitLab's protection names no contexts. *)
ReadProtection ==
    /\ pc = "protection"
    /\ required' \in {{}} \cup (IF provider = "gitlab" THEN {} ELSE {Required})
    /\ Go("listings")
    /\ Quiet /\ NoWalk /\ UNCHANGED <<viewed, sha, checks, excused>>

(* Promise.all: the listings of checks are walked together. *)
ListChecks ==
    /\ pc = "listings"
    /\ Walk(Sources) /\ Go("walk")
    /\ Quiet /\ UNCHANGED <<viewed, sha, required, checks, excused>>

Walking(l) == pc = "walk" /\ walks[l] # Null /\ ~walks[l].done

(* One request, and no pages, on GitLab. *)
WholeAnswer(l) == provider = "gitlab" /\ l = "files"

PageShown(l) ==
    IF WholeAnswer(l) THEN Listed(l) ELSE PageOf(Listed(l), walks[l].page, walks[l].limit)

(* A page shorter than asked for is the last, or, on GitHub, one without a  *)
(* link to a next.                                                          *)
LastPage(l) ==
    \/ WholeAnswer(l)
    \/ provider # "github" /\ EndsWithin(Listed(l), walks[l].page, walks[l].limit)
    \/ provider = "github" /\ Cardinality(Listed(l)) <= walks[l].page * walks[l].limit

Turn(l, w) == walks' = [walks EXCEPT ![l] = w]
Reading == Quiet /\ UNCHANGED <<viewed, sha, required, checks, due, excused>>

Collected(l) ==
    [walks[l] EXCEPT !.got = @ \cup PageShown(l),
                     !.count = @ + Cardinality(Countable(l, PageShown(l)))]

(* Mutant: the page size is tried afresh on every page.                     *)
NextPageAtFullSize(l) ==
    /\ Walking(l) /\ ~LastPage(l) /\ walks[l].page < MaxPages
    /\ Turn(l, [Collected(l) EXCEPT !.page = @ + 1, !.limit = PageSize])
    /\ Go("walk") /\ Reading

(* Mutant: no page cap.                                                     *)
NextPageUncapped(l) ==
    /\ Walking(l) /\ ~LastPage(l)
    /\ Turn(l, [Collected(l) EXCEPT !.page = @ + 1])
    /\ Go("walk") /\ Reading

NextPage(l) ==
    /\ Walking(l) /\ ~LastPage(l) /\ walks[l].page < MaxPages
    /\ Turn(l, [Collected(l) EXCEPT !.page = @ + 1])
    /\ Go("walk") /\ Reading

EndOfList(l) ==
    /\ Walking(l) /\ LastPage(l)
    /\ Turn(l, [Collected(l) EXCEPT !.done = TRUE])
    /\ Go("walk") /\ Reading

PageCap(l) ==
    /\ Walking(l) /\ ~LastPage(l) /\ walks[l].page = MaxPages
    /\ Turn(l, [Collected(l) EXCEPT !.done = TRUE, !.cut = TRUE])
    /\ Go("walk") /\ Reading

(* resolveGitHubLinkNextPage: a link that leads elsewhere is not followed.  *)
UntrustedLink(l) ==
    /\ Walking(l) /\ provider = "github" /\ ~LastPage(l)
    /\ Turn(l, [Collected(l) EXCEPT !.done = TRUE, !.cut = TRUE])
    /\ Go("walk") /\ Reading

(* Whether a 200 answer that is no list is read as an empty one: everywhere *)
(* on GitHub, the statuses of a commit on Gitea, all but the comments on    *)
(* GitLab; the other listings end the command there, as Fail does.          *)
TakesAnyAnswer(l) ==
    \/ provider = "github"
    \/ provider = "gitea" /\ l = "statuses"
    \/ provider = "gitlab" /\ l # "comments"

(* Such an answer brings nothing and is the last page, unless a link leads  *)
(* on from it on GitHub.                                                    *)
NotAList(l) ==
    /\ Walking(l) /\ TakesAnyAnswer(l)
    /\ \/ Turn(l, [walks[l] EXCEPT !.done = TRUE])
       \/ provider = "github" /\ Turn(l, [walks[l] EXCEPT !.done = TRUE, !.cut = TRUE])
       \/ /\ provider = "github" /\ walks[l].page < MaxPages
          /\ Turn(l, [walks[l] EXCEPT !.page = @ + 1])
    /\ due' = [due EXCEPT ![l] = {}]
    /\ Go("walk") /\ Quiet /\ UNCHANGED <<viewed, sha, required, checks, excused>>

(* Mutant: when the smallest page is too large as well, from the top again. *)
BackOffForEver(l) ==
    /\ Walking(l) /\ ~WholeAnswer(l)
    /\ Turn(l, [walks[l] EXCEPT !.limit = IF @ > 1 THEN Halved(@) ELSE PageSize])
    /\ Go("walk") /\ Reading

(* fetchWithIngestPageBackoff *)
BackOff(l) ==
    /\ Walking(l) /\ ~WholeAnswer(l) /\ walks[l].limit > 1
    /\ Turn(l, [walks[l] EXCEPT !.limit = Halved(@)])
    /\ Go("walk") /\ Reading

(* Every listing is walked to its end: on to the files of a scoped plan, or *)
(* the packet.                                                              *)
Ended(ls) == pc = "walk" /\ \A l \in ls : walks[l] # Null /\ walks[l].done

FinishChecks ==
    /\ Ended(Sources)
    /\ LET body == PrChecksBody(Mapped, \E l \in Sources : walks[l].cut)
       IN  /\ checks' = body
           /\ IF command = "plan" /\ allowed # Null THEN Go("walk") /\ Walk({"files"})
              ELSE /\ NoWalk
                   /\ IF command = "plan"
                      THEN Emit(Packet("merge_plan", sha, body.truncated,
                                        PlanBlockers(body, FALSE)))
                      ELSE Emit(Packet("pr_checks", sha, body.truncated, {}))
    /\ Quiet /\ UNCHANGED <<viewed, sha, required, excused>>

FinishScope ==
    /\ command = "plan" /\ Ended({"files"})
    /\ Emit(Packet("merge_plan", sha, checks.truncated, PlanBlockers(checks, TRUE)))
    /\ Quiet /\ NoWalk /\ UNCHANGED <<viewed, sha, required, checks, excused>>

FinishList(l) ==
    /\ command = l /\ Ended({l})
    /\ Emit(Packet(l, Null, Truncated(l), {}))
    /\ Quiet /\ NoWalk /\ UNCHANGED <<viewed, sha, required, checks, excused>>

(* resolveMergePlanOptsWithForgePaths: an api_error of crFiles is a blocker *)
(* of the plan; everything else ends the command.                           *)
MaskFilesError ==
    /\ command = "plan" /\ Walking("files")
    /\ Emit(Packet("merge_plan", sha, checks.truncated, PlanBlockers(checks, FALSE)))
    /\ Quiet /\ NoWalk /\ UNCHANGED <<viewed, sha, required, checks, excused>>

(* A request fails, or its smallest page is over the ingest cap: nothing    *)
(* that was read is shown.                                                  *)
Fail ==
    /\ pc \in {"view", "pull", "protection", "walk"}
    /\ Emit(ErrorPacket) /\ Walk({})
    /\ viewed' = {} /\ sha' = Null /\ required' = {} /\ checks' = Null
    /\ Quiet /\ UNCHANGED excused
-----------------------------------------------------------------------------
ReadPage(l) ==
    NextPage(l) \/ EndOfList(l) \/ PageCap(l) \/ UntrustedLink(l) \/ NotAList(l) \/ BackOff(l)

Step ==
    \/ Start \/ Fail \/ PrView \/ ReadPull \/ ReadProtection \/ ListChecks
    \/ \E l \in Listings : ReadPage(l)
    \/ FinishChecks \/ FinishScope \/ \E l \in {"files", "comments"} : FinishList(l)
    \/ MaskFilesError

Next ==
    \/ \E h \in Heads, l \in {"statuses", "runs"}, r \in Reports : Report(h, l, r)
    \/ \E list \in FileLists : Push(list)
    \/ Fetch \/ Comment \/ \E i \in comments : DeleteComment(i)
    \/ Step

(* Every request has a time-out, so the process keeps taking steps.         *)
Spec == Init /\ [][Next]_vars /\ WF_vars(Step)
-----------------------------------------------------------------------------
Types == {"none", "error", "stale_head", "pr_status", "pr_checks", "merge_plan", "files",
          "comments"}
WalkRecord == [page : 1..MaxPages, limit : Limits, got : SUBSET Nat, count : Nat,
               cut : BOOLEAN, done : BOOLEAN]

TypeOK ==
    /\ provider \in Providers /\ head \in Heads
    /\ records \in [Heads -> [{"statuses", "runs"} -> Seq(Record)]]
    /\ files \subseteq Entries /\ made \in Nat /\ comments \subseteq 1..made
    /\ local \in Heads \cup {Null} /\ moves \in 0..MaxMoves
    /\ pc \in {"idle", "view", "pull", "protection", "listings", "walk", "done"}
    /\ command \in Commands /\ allowed \in Scopes
    /\ viewed \subseteq {"pr_not_open", "merge_conflict"} /\ sha \in Heads \cup {Null}
    /\ required \in SUBSET Contexts
    /\ walks \in [Listings -> WalkRecord \cup {Null}]
    /\ \A l \in Listings : walks[l] # Null =>
         walks[l].count >= Cardinality(Countable(l, walks[l].got))
    /\ packet.type \in Types /\ (packet.type = "none" <=> pc # "done")
    /\ due \in [Listings -> SUBSET Nat] /\ excused \subseteq Heads \cup {Null}

(* A list that does not say it is cut has everything that was listed when   *)
(* its walk began, whatever was added meanwhile, at whatever page size its  *)
(* pages were read, as long as every answer was a list.                     *)
CompleteListMissesNothing ==
    (packet.type \in {"pr_checks", "files", "comments"} /\ ~packet.truncated) =>
        \A l \in Listings : walks[l] # Null => due[l] \subseteq walks[l].got

(* The last record of a context in a listing, among the records ids. *)
LastOf(l, x, ids) ==
    LET of == {i \in ids : RecordAt(l, i).context = x}
    IN  {i \in of : \A j \in of : j <= i}

Bad(l, i) == NormalizeStatusState(RecordAt(l, i).state) \in {"failure", "pending"}

(* A plan without blockers stands on the forge's facts about one commit: a  *)
(* context that was failing or pending when the checks were listed has been *)
(* reported anew since, each required context has a report, and, for a head *)
(* that stayed, every path the forge's list of changed files shows is one   *)
(* that was allowed.  A listing that was answered with something else than  *)
(* a list is left out; a renamed file is shown by its new path only, and an *)
(* entry without a usable name not at all.                                  *)
ClearPlanIsGrounded ==
    (packet.type = "merge_plan" /\ packet.blockers = {}) =>
        /\ \A l \in Sources, x \in Contexts : \A i \in LastOf(l, x, due[l]) :
             Bad(l, i) => \E j \in DOMAIN records[sha][l] :
                 j > i /\ RecordAt(l, j).context = x /\ ~Bad(l, j)
        /\ required \subseteq
             ContextsOf(UNION {{RecordAt(l, i) : i \in DOMAIN records[sha][l]} : l \in Sources})
        /\ (allowed # Null /\ due["files"] # {}) => PathsOf(files) \subseteq allowed

(* A packet of `pr view` or `pr checks` by number that does not call the    *)
(* head stale is about a head the clone had while the command ran, about a  *)
(* branch it did not know, or about a head that was pushed between the      *)
(* comparison and the second read of the pull.                              *)
StaleHeadIsNamed ==
    packet.type \in {"pr_status", "pr_checks"} => packet.at \in excused \/ Null \in excused

(* A command answers: page numbers and back-offs come to an end.            *)
Answers == (pc # "idle") ~> (pc = "done")
=============================================================================
