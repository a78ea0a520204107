# A TLA+ model of remogram

remogram is a command line program (and an MCP server in front of it) that
answers questions about change requests on a forge (Gitea, GitHub, GitLab) and
performs a small set of guarded writes: it merges change requests, opens change
requests and issues, and sets commit statuses. Every command prints one packet
of facts. The program keeps no state between two commands: everything it knows
it has just read, one HTTP request after another, from a forge that goes on
changing. That is what makes it hard to get right, and what this project models.

## 1. The system

| component | code (under `src/packages`) | state it keeps | operations |
| --- | --- | --- | --- |
| merge execute | `remogram-cli/cli-dispatch.js:449-706`, `provider-gitea-api/index.js` (`prView`, `prChecks`, `mergePlan`, `mergeExecute`), `remogram-core/change-request-merge-execute.js`, `merge-effect-reconciler.js` | locals across the awaits of one command: view, checks, live head, result of the POST | preflight reads, blockers, pinned POST, reconciliation, read-back |
| check facts and blockers | `remogram-core/check-diagnostics.js`, `merge-blockers.js`, `merge-policy.js` | none | conclusion, required contexts, blockers |
| paged reads | `remogram-core/check-pagination.js` | page number, page size, accumulated items | seed, next page, back-off after an oversized answer |
| pr view, pr checks, merge plan | `cli-dispatch.js:387-448`, `merge-plan*.js`, `path-allowlist.js`, `pr-head-reconcile.js`, the three providers | locals across the awaits of one command | compare heads, list checks, conclude, list files, block |
| comments, changed files | `cr-comments.js`, `issue-comments.js`, `cr-files.js`, the three providers | none | walk a list, cap it |
| open pull listing | `provider-*-api/index.js` (`listOpenPullsWithMeta`), `remogram-core/open-pull-list.js` | probe of the total, window | probe, tail page, paged walk, sort, slice |
| cr inventory, issue inventory | `remogram-core/cr-inventory*.js`, `issue-inventory*.js` | none; the cursor is held by the caller | slice, enrich, next cursor |
| idempotent writes | `provider-gitea-api/index.js:922-1223`, `remogram-core/idempotency.js`, `status-set.js` | a per-process map of idempotency keys | scan for an existing record, POST |
| forge changes | `remogram-core/forge-changes.js`, `forge-changes-cursor.js` | none | collect, cap, page |
| write policy, doctor | `effective-write-policy.js`, `write-config.js`, `operator-config.js`, `resolve.js`, `cli-doctor.js`, `write-readiness.js` | none; config, remote and overlays are files people edit | unite the grants of repository and operator, gate a write, foretell the gate |
| MCP server | `remogram-mcp/run-cli.mjs` | one child process per call | spawn, cap the output, time out |
| bundles, reviews, refs, identity, help | the rest of `remogram-core` and `remogram-cli` | none | one or two reads formatted into a packet |
| other providers | `provider-github-api`, `provider-gitlab-api` | none | the same facts from another API; of the writes only `status set` |

How they interact. The MCP server starts one CLI process per call and hands its
output on. The CLI parses the arguments, resolves the configuration and the
provider, checks the write policy, and calls provider operations; a provider
operation is a chain of `fetchJson` requests, each bounded by a time-out and an
ingest cap. Commands share no memory. They interact only through the forge: two
clients merging one change request, a client opening an issue another one
closes, a reader paging a list that a writer shortens.

What is hard:

* *Reading, then acting.* `merge execute` reads the pull, its checks (which reads
  the pull again), the plan (both again) and the head branch before it POSTs.
  Anything can change between two of these. What holds the command together is
  the cross-check of the SHAs and the `head_commit_id` pin of the POST.
* *Ambiguous outcomes.* A POST whose answer is lost may have merged, may not have,
  or may still do so while the client is reconciling.
* *Lists that move.* A cursor is an offset into a list that is fetched anew on
  each call; a page size that changes within one walk changes what page two is.
* *Files that change.* A write is allowed by what a config, a git remote and an
  operator's overlay say, which are read one after the other.
* *Check, then create.* Idempotent writes scan a paged list and create when they
  find nothing. Two of them may scan before either creates.

## 2. Plan

The order was: the most important behaviour first, and every module written so
that it can be proved about as well as checked (parameters as CONSTANTS with
named assumptions, one action per operation, invariants as conjunctions of named
parts, no RECURSIVE operator).

Done:

1. **`CheckFacts`, `MergeExecute`, `PinnedMerge`** with
   `MergeExecuteProofs`: the one operation that cannot be undone.
2. **`Paging`, `IdempotentOpen`** with `PagingProofs` and `IdempotentOpenProofs`:
   look for a record page by page, create it if there is none.
3. **`CrInventory`** with `CrInventoryProofs`: the cursor walk of a caller over the
   open pulls.
4. **`StatusSet`** with `StatusSetProofs`: the same scan over a list that only
   grows, on three forges.
5. **`ForgeChanges`** with `ForgeChangesProofs`: the polled feed of events, on
   three forges.
6. **`OpenPulls`**, split off `CrInventory`, and with it the open pulls of GitLab
   and GitHub (whose total is a search of its own) and the issue inventory.
7. **`WriteGate`** with `WriteGateProofs`: who may write, as seen by the caller
   of the MCP server.
8. **`PrReads`** with `PrReadsProofs`: `pr view`, `pr checks`, `merge plan` with its path scope, the
   stale head, the changed files and the comments, on three forges.

Left, in this order:

9. A caller of `forge changes` that polls again, with the `observed_at` of the
   previous packet as its `--since`.
10. The sync plan of the providers and the bundles, which compose reads that are
    modelled.
12. Merge policies other than the default in `PrReads`.

## 3. Modules and how they correspond to the code

| module | what it is | extends |
| --- | --- | --- |
| `CheckFacts` | pure operators: conclusion, required contexts, blockers of a set of commit statuses | |
| `MergeExecute` | `merge execute` by several clients against a moving forge | `CheckFacts` |
| `PinnedMerge` | abstract specification: what `merge execute` promises | |
| `MergeExecuteProofs` | its invariants, and that it implements `PinnedMerge` | `MergeExecute` |
| `Paging` | pure operators: a page of a listing, its end, the halved page size | |
| `PagingProofs` | what inserting and removing items does to positions in a listing | `Paging` |
| `IdempotentOpen`, `IdempotentOpenProofs` | `cr open`, `issue open` (Gitea) | `Paging` |
| `StatusSet`, `StatusSetProofs` | `status set` (Gitea, GitHub, GitLab) | `Paging` |
| `OpenPulls` | the moving list of open pulls or issues, the slice behind a cursor, the paged walk | |
| `CrInventory`, `CrInventoryProofs` | `cr inventory` (Gitea, GitHub, GitLab) and `issue inventory` (Gitea), call after call | `OpenPulls` |
| `ForgeChanges`, `ForgeChangesProofs` | `forge changes` (Gitea, GitHub, GitLab), call after call | |
| `WriteGate`, `WriteGateProofs` | MCP tool calls, the config, remote and overlay, the gate of the writes, `doctor` | |
| `PrReads`, `PrReadsProofs` | the reads of one pull and its comments (Gitea, GitHub, GitLab) | `CheckFacts`, `Paging` |
| `MC*` | the model values of the instances TLC checks | the module of that name |

Common to all of them:

* **The forge is a set of variables that changes by itself.** Each module has
  actions for what other people and tools do (push, report a status, open, close,
  touch, merge in the forge's interface). They may happen between any two
  requests of a command. This is the whole source of concurrency: commands have
  no shared memory.
* **One request, one step.** A step reads or writes the forge once and does
  everything the code then does until its next `await`. `pc` names the request
  the command is about to make.
* **A command that ends forgets.** `Emit` prints the packet and resets the
  locals, as the end of the process does.
* **Lost requests.** A POST is put into `posts`; the forge may serve it, refuse
  it or never see it, before or after the client gives up. `reply` holds an answer
  that the current invocation can still receive; the answer to an invocation that
  is over reaches nobody.
* **Failures.** Every request may fail (network, status code, time-out, cap,
  unparseable answer): `ReadFails`, `ScanFails`, `WalkFails`, `CallFails`, `Fail`.
* **Sizes.** Page sizes, page caps and event caps are constants; the code has pages
  of 100 or 25 items, at most 50 of them, 256 events, and slices of 64 of these.

### merge execute

`pc` goes through `view`, `pull`, `statuses`, `plan`, `tip`, `await` and then, by
the answer, to `readPull`/`readBase` (a 200 without SHAs is read back) or
`reconcilePull`/`reconcileBase` (time-out or 5xx). `view` and `checks` are the
packets of `prView` and `prChecks`. `prChecks` reads the pull again
(`ReadPullForChecks`), so the checks may be those of another commit than the
view's; `mergePlan` repeats both reads (`RereadPlan`) but its blockers play no
part in the decision. `Decide` is the rest of the turn: live head read, blockers
collected (`ExecuteBlockers` = `collectMergeExecuteBlockers`), and either the
packet or the POST. `pull` is the record the API serves: its SHAs lag behind the
branches `tip` and `baseTip` until `SyncPull`. `ApplyPost` merges only while
`head_commit_id` is the tip, which is what the pin asks of the forge.
`ReconciledPrState` keeps the source's operator precedence.

Abstracted: contexts and heads are model values; base commits are counted;
branch protection is constant (`Required`); a status listing may be truncated,
and then any part of it was seen.

### cr open, issue open

`Bind` is `bindIdempotencyScope`; the page loop of `findOpenPullByHeadBase` and
`findOpenIssueByTitle` is `ReuseMatch`, `NextPage`, `BackOff`, `ScanIncomplete`,
`ScanFails`, `SendPost`. Records are numbered in order of creation and listed
newest first; closing moves the older ones towards the front, opening and
reopening move them back.

### status set

The scan does not stop at a match: it reads to the end and keeps the latest status
of the context (`bestMatch`). The forges differ in how a list ends (GitHub's
`Link` header, which is judged after the page cap), whether an oversized page is
asked for again (not on GitHub), and the words for a state (`ForgeStates`,
`PostState`, `Comparable`). On GitHub the scan also ends where the list does not
(`EndsEarly`): at a next link to another origin, which it does not follow, and at
an answer that is not a list, which it reads as an empty page. `early` remembers
that a scan ended so.

### cr inventory

`order` is the list the forge serves for the chosen sort. On Gitea and GitLab a
call probes page one, which brings the total along (`Probe...`); on GitHub the
total is a search (`SearchTotal`) and the page a second request (`Pulls...`). By
the sort and the total the call takes the fast path, goes for the last page
(`ReadTail`, Gitea), collects everything from a seeded first page (`ProbeSeeds`,
`PullsSeedLink`, `PullsSeedOffset`), or walks, by page numbers (`ReadOn`,
`EndOfList`, `LastPage`, `ConfirmEnd`) or by GitHub's links (`LinkOn`, `LinkEnd`),
with `BackOff` in both. `Slice` is `crInventory` and the refusal of truncated
first calls in `cli-dispatch.js`. Repeated items stay in the list, as in the code.
The reads that enrich each entry only decide between `entries` and
`entries_skipped`; both count as shown. The issue inventory is the forge
`gitea_issues`: no probe, the whole list collected (`ListIssues`), and a full last
page taken for a cut list (`LastIssuePage`).

### forge changes

`pulls` and `issues` are the lists by last update. A call reads pulls, then, on
Gitea with `--include-issues`, the issues (each by `ReadOn`, `BackOff`, and
`PullsRead` or `IssuesRead` on its last page), then the checks of the pulls
reported as opened or moved (`ChecksRead`), and prints the slice behind the
cursor (`Paginate`). `PullEvents` and `IssueEvents` are the builders of
`forge-changes.js`. Time has three values, before, at and after `--since`.
Abstracted: the checks of all the pulls are one step, because what they say is no
part of the properties; issues and pulls share no list, although Gitea's issue
endpoint also lists pulls, whose issue events the code then reports as well.

### the write gate

A process (`Procs`) is one tool call: `Call` spawns it, and `pc` names what it
reads next: `LoadConfig`, `ReadRemote` (with `assertForgeReady`), `Discover` (where
the overlay is), then in one step the overlay and the decision (`PassGate`,
`RefuseAtGate`, or `DoctorReports`), and the request (`Write...`), which the
provider itself still refuses without a token (`TokenMissing`) or for a base URL
it does not take (`BaseRefused`). The field `base` of a config says whether the
provider's `apiBase` takes its `baseUrl`, or the lack of one, for the host of the
repository: it is stricter than `trustedBaseUrl`, by which `assertForgeReady` and
`doctor` judge. Of the checks of `doctor` only the live probe calls it
(`ProbeOk`). `Exit` is the
packet, and `Answer` what `run-cli.mjs` makes of it. A repository stands for the
identity that a config, a remote and an overlay are compared by. `config`,
`remote` and `overlay` are edited between any two reads (`EditConfig`,
`EditRemote`, `EditOverlay`). The gate is a union: a command is allowed if the
config or the overlay grants it, and an overlay that cannot be used blocks all
writes, those the config grants too. What a write does on the forge is left to
the modules above; here it takes effect or not, and is answered or not.
`named`, `pointed`, `granted` and `quiet` remember what the files said while a
process ran.

Abstracted: the single checks of `doctor` that cannot fail, the edits of the
environment (token, `--operator-config`), and which part of the identity differs.

### the reads of a pull

`pc` goes through `view`, `pull`, `protection`, `listings` and `walk`. `PrView`
compares the head with the clone's (`Stale`), `ReadPull` reads the pull again for
its checks, `ListChecks` starts the walks of all the listings at once
(`Promise.all`), and their pages are read in any interleaving (`NextPage`,
`EndOfList`, `PageCap`, `UntrustedLink`, `NotAList`, `BackOff`). `NotAList` is an
answer with status 200 that is no list: where the code takes any answer
(`TakesAnyAnswer`) it is read as an empty page, which ends a listing uncut, or, by
GitHub's links, goes on behind it. `FinishChecks` concludes and
either prints or goes on to the files of a scoped plan; `MaskFilesError` is the
one error that a command survives. The comments and the changed files are walks
of one listing (`FinishList`). CI reports, pushes, fetches, new comments and
deleted ones happen in between. Listings show the newest first, the order in
which an addition shifts the pages.

`files` are the entries of the forge's list of changed files, and `ShownAs` the
path that `cr files` shows of an entry: of a renamed file the new one, of an
entry without a usable name none (`Nameless`).

Abstracted: the path scope is a set of allowed paths (what the globs match), an
entry is its place in the forge's order, the
description of a check is left out, and the merge policy is the default one.

## 4. What the runs show

| run | question | outcome |
| --- | --- | --- |
| `merge_execute` | is what gets merged what was reviewed; are the packets true; does it implement `PinnedMerge` | holds |
| `idempotent_open` | is a record posted only after a scan that would have met a match | holds, unless a record already read past is closed |
| `status_set` | is a reused status the latest one; is a POST called for | holds, unless GitHub's scan ends early without a match |
| `cr_inventory` | does no cursor move past a pull (issue) that stayed open and was never shown, and has a walk that ends as complete shown every one | holds, but for the disturbances below |
| `forge_changes` | has a complete poll brought every event, with its checks; does the cursor move on | holds, but for items that jump over the reader |
| `write_gate` | does a write go only where the files allowed it while it ran; does `doctor` foretell the gate; is the answer true | holds; a refused base URL is foretold by `--live` only |
| `pr_reads` | has a list that is not cut everything; is a plan without blockers grounded; is a stale head named; does every command answer | holds where every answer was a list |
| `merge_blocked_though_merged` | is an ambiguous merge reported as such | no: see below |
| `merge_retry_safe` | is a retry called safe when the pull was read again and nothing had happened | never |
| `cr_inventory_walk_ends` | does following `next_cursor` end | no |
| `cr_inventory_collect` | does the default listing collect everything | no |
| `forge_changes_truncated` | is a truncated list reported | not always |

### Properties that hold

* `MergedHeadWasVetted`: a merge is of the head its own invocation was told to
  expect, and that invocation saw its checks acceptable itself, whatever moved in
  between and however late the forge served the POST. This rests on the SHA
  cross-checks and the pin together: the mutant of this property drops the three
  comparisons that tie view and checks to the expected and the live head, that of
  `ImplementsPinnedMerge` drops the pin.
* `MergedPacketIsTrue`, `NamedBlockHasNoEffect`, `MergedIsNeverRetrySafe`: what
  the three kinds of packet say about the effect is true, also with a second
  client's merge or the forge's interface in between.
* `ImplementsPinnedMerge`: with the requests abstracted away, merging is one
  step, of an approved head that is the tip of an open pull, at most once.
* `PostProvesAbsence`, `ReuseWasLatest`, `PostWasNeeded`: the scans are correct
  for any sequence of back-offs, because the smaller page size is kept: halving it
  repeats items and never skips one. `PostWasNeeded` excepts one case: GitHub's
  scan ended early and had met no status of the context. If it had met one, that
  one is the latest, because GitHub lists the newest first, and the early end
  does no harm.
* `NextSkipsNothing`, `CompleteWalkMissesNothing`: the first is the reason of the
  second, and what breaks it shows long before a walk ends. The carve-outs are in
  `disturbed`. Some are changes of the list: a pull already read is closed, or
  one opened during the walk; a pull the call will not show is touched under
  `--sort recent_update`; on GitHub a pull is opened in front after the search
  for the total; and one opened in front during a call repeats an item, which
  among issues and under Gitea's `number_asc` moves the offsets.
  The others need no change of the list. A page after the first is asked for
  again at half the size: the repeated items make up for unread ones in the
  comparison with the total. GitHub's total is lost: the list is cut to the
  window and what was kept is the count. And wherever a part is sorted or turned
  round as if it were the whole: Gitea's probe under `number_asc` and
  `recent_created` is lost (the walk keeps the window of the other end) or, never
  longer than a page, is taken for a list that is longer but within the window (a
  `--limit` or an offset over 100) or beyond the compliant maximum; the walk of
  the last page keeps its oldest pulls; the issues are
  cut at the page cap, or read in smaller pages that do not reach their end.
  The first two are the reason of a wrong `complete` long after: the offset
  moves past pulls that were never shown.
* `ShortWalkEnds`: on a list within one page, and within the allowed number of
  pages at page size one, every walk ends. Issues that fill the last allowed page
  are taken for a cut list, which a first call refuses and a later one never ends.
* `CompletePollMissesNothing`, `MovesComeWithChecks`, `CursorAdvances`: over a
  feed ordered by update an item that moves while the reader is past the front
  jumps over it; everything else is read, whatever is repeated. Of a poll of
  several calls this is claimed only if nothing changed in between, because the
  offset counts events of a list derived anew.
* `WriteWasGranted`: whatever is edited between its reads, a process writes only
  to a repository that the config named and the remote pointed at while it ran,
  and only a command that this repository's config or an overlay bound to it
  granted while it ran. The grants of two moments can add up, those of two
  repositories cannot; the mutant that ignores the binding lets them.
* `DoctorForeseesGate`: with no edit since `doctor` began, a command it reported
  ready and itself passed is refused neither by the gate nor for want of a token,
  and one it did not report ready writes nothing, although the two decide by
  different code. What the provider makes of the base URL is foretold by a `doctor
  --live` that passed, and by no other; and a probe that failed need not come true.
* `AnswerIsTrue`: a result means the write is in effect, a refusal that nothing was
  written. An error means neither: the process may have been killed, or have
  printed too much, after its request was served.
* `CompleteListMissesNothing`: additions shift the pages backwards and a back-off
  keeps its smaller size, so a list that does not call itself cut has everything
  that was there when its walk began, if every answer it got was a list.
* `ClearPlanIsGrounded`: a plan without blockers rests on the reports of one commit:
  what failed or was pending when the listing began was reported anew, what is
  required was reported, and every path the forge's list of changed files shows is
  allowed. It says nothing of the old path of a renamed file, of an entry
  without a usable name, and of a listing that got an answer that was no list.
* `StaleHeadIsNamed`: a packet about a head the clone never had is about one pushed
  in the window between the comparison and the second read of the pull.
* `Answers`: back-offs and pages come to an end.

### Disagreements between code and documents

Each `violation` run checks one property that a document, comment or test states,
and TLC finds a behaviour of the code that breaks it:

* `AmbiguityIsIndeterminate`: a POST that merged but whose answer broke off, was
  over the cap or not JSON is printed as `cr_merge_blocked`
  (`merge_endpoint_failed`); the CHANGELOG promises `cr_merge_indeterminate`.
* `UnchangedIsRetrySafe`: `pr?.state ?? pr?.merged ? 'closed' : null` makes every
  re-read pull closed, so `retry_safe` is never true of a pull that was read again,
  and can be true only where reading it again failed.
* `WalkEnds`: past the first page of the forge the fast path answers with empty
  slices and the same cursor for ever.
* `NumberSortCollectsFully`: the full collection goes from a probe of `--limit`
  items to page two of full size and skips what lies between.
* `TruncationIsReported`: a truncated issue list that brings no event is dropped
  together with the fact that it was truncated.

Limits of the code that appear in the models as carve-outs of the properties, each
at odds with a sentence of the documents:

* Closing a record of a page already read moves the match onto that page; the scan
  ends without it and a duplicate is posted (`shifted` in `PostProvesAbsence`).
  The comment at `provider-gitea-api/index.js:988` speaks of proof of absence.
* The bindings of idempotency keys die with their process, and every command is a
  process: `Bind` never meets a conflict (CHANGELOG.md:74 announces conflict
  detection).
* `pr checks` reports on the head of a second read of the pull, which nothing
  compares with the clone (`excused` in `StaleHeadIsNamed`; README.md:5).
* When Gitea's last page under `recent_created` fails twice, the walk of that page
  passes `retain_max` on and keeps its first pulls, the oldest: of 50 open pulls
  the packet shows the 3 oldest as the newest and moves the cursor past the rest
  (`TailFailsAgain`; CHANGELOG.md:133 and :136, "globally newest-created slice";
  the mock of `tests/provider/gitea-api.test.mjs:1729` serves just three pulls).
* A probe of one page stands for a longer list within the window, cut at the end
  Gitea serves first (`disturbed` in `ProbeSuffices`; README.md:374).
* When GitHub's search for the total fails, the first call prints `--limit` pulls of
  a longer list as complete (`SearchLost` sets `disturbed`; README.md:374).
* GitHub's scan for a commit status ignores that the list was cut: after a full page
  whose next link leads to another origin, or an answer that is no list, it returns
  what it has, and if that is nothing `status set` posts a status that the rest of
  the list may already hold (`early` in `PostWasNeeded`; README.md:256, "scan
  truncation fails closed with `idempotency_scan_incomplete`"; the consumer skill,
  `SKILL.md:178`, "when absence cannot be proven"; the comment at
  `provider-github-api/index.js:1023`).
* An answer with status 200 that is no list of files reads as a pull that changes
  nothing, on GitHub (`index.js:619`) and GitLab (`index.js:421`, `cr-files.js:43`),
  and such a pull passes the path scope (`NotAList` clears `due`; README.md:250,
  "when a provider cannot supply paths, the command fails closed rather than
  guessing"). The listings of checks do the same (Gitea `index.js:292`, GitHub 568,
  GitLab 216): failing records then go unseen.
* A renamed file is listed by its new path only (`cr-files.js:10` and `:46`), and an
  entry without a usable name not at all (`ShownAs`, `Nameless`): a pull that moves
  a file out of a directory that is not allowed into one that is has no
  `path_scope_violation` (README.md:258, "Out-of-scope paths add blocker"; the
  consumer skill, `SKILL.md:351`, "Changed paths outside configured allowlist").
* `doctor` without `--live` passes `host_binding` and calls a write ready where
  the provider's `apiBase` then refuses it: without a `baseUrl` on a Gitea that is
  not gitea.com, or with a `baseUrl` whose host is only an alias of the remote's
  (`base`, and `live` in `DoctorForeseesGate`; README.md:397, "trusted host
  binding"; CHANGELOG.md:75, "`ready`").

## 5. Bounds, and why they are enough

| run | bounds | what they let happen |
| --- | --- | --- |
| `merge_execute` | 1 client with 2 invocations, 2 heads, 2 contexts (1 required), 4 raw states, 1 change by the forge besides syncing, serving and dropping POSTs | the POST of the first invocation served during the second; a push, a status, a close or a merge elsewhere between any two requests; a lagging pull record. The safety theorems cover any number of everything. |
| `idempotent_open` | 1 client with 2 invocations, 2 targets, 1 key, page size 4, 3 pages, 4 records | two halvings, a page after a back-off, the page cap, a late POST found by the retry. Theorems: any number. |
| `status_set` | 3 forges, 2 contexts, page size 2, 3 pages, 4 statuses, 1 invocation | a second page, the page cap after a back-off, GitHub's full last page and its early end at an untrusted link, a status from elsewhere during the scan. Contexts are symmetric. Theorems: any number. |
| `cr_inventory` | 4 kinds of list, limit 1, page size 2, 2 pages, 5 pulls, 2 changes, 3 sorts | lists within and beyond one page and beyond the compliant maximum, up to five calls, the confirmation at the cap, GitHub's total lost or outgrown. `number_desc` differs from `number_asc` by the direction only. A window shorter than a page by two or more, which the walk of a failed last page needs to go wrong, takes pages of three; `NextSkipsNothing` holds there too (one forge and one sort at a time, 6 to 8 pulls, 4 or 5 changes, limits 1, 2 and 4), in instances too large to keep as runs. Theorems: any number. |
| `forge_changes` | limit 3, page size 2, 2 pages, 4 events kept, 3 items, 1 change | both caps reached, a second page with and without back-off, two calls, an item of each age. Theorems: any number. |
| `write_gate` | 2 calls, 2 repositories, 1 write command, 2 edits | a `doctor` and the write after it, two writes at once, the config and the remote or the overlay edited between the reads, a named and a default overlay, a base URL that the provider refuses, reports with and without a probe. Calls and repositories are symmetric. |
| `pr_reads` | 3 forges, 2 contexts (1 required), 2 heads, page size 2, 2 pages, caps of 3 items, 2 changes, 4 entries (an allowed path, one that is not, an odd one, a nameless entry), one listing of checks longer than a page and one shorter, a view without blockers of its own | a report or a push between any two requests of two interleaved walks, a second page with and without back-off, both caps, an answer that is no list on any page, a fetch before the comparison. Theorems: any number. |

`MaxInvocations`, `MaxMoves`, `MaxRecords`, `MaxStatuses`, `MaxPulls`,
`MaxItems` (of `ForgeChanges`), `MaxEdits` and `MaxHeads` are bounds of the instances and appear only in the guards of the
actions they bound. Deadlock is not checked: commands end, the bounded forge
stops moving, and nothing is left to do. In `ForgeChanges` a closed item is
one that was not touched after its closing when the poll begins.

## 6. Fairness

* `CrInventory`: weak fairness of the call, because a started process runs until
  it prints: `http.js` bounds every request by a time-out, so every step has an
  alternative that fails and needs nothing of the forge. And of the
  caller coming back while there is a `next_cursor`, which is the caller the
  cursor is made for. Refuting `WalkEnds` needs both.
* `PrReads`: weak fairness of the command's own steps, for the same reason; every
  step has an alternative that fails. Nothing is assumed of the forge.
* `WriteGate` states that a process exits; its properties are safety and do not
  use it.
* The other specifications have none; their properties are safety.

## 7. What is proved

Eight proof modules, checked by TLAPS, for every value of the constants that
satisfies the named assumptions (`SizeAssumption`, `PageAssumption`,
`NullAssumption` and so on; they say that sizes are positive, that states are
those of the forge, that the scope rules of `PrReads` are about its paths and
that `Null` is no other value).

* **`MergeExecuteProofs`**: `TypeCorrect`, `MergesAreVetted`,
  `MergedPacketsAreTrue`, `NamedBlocksHaveNoEffect`, `MergedIsNotRetried`.
  `MergedHeadWasVetted` alone
  is not inductive: the merge happens when the forge serves a POST, long after
  the checks were read. The invariant follows the fact along the way: checks
  without blockers were acceptable when read, so the invocation is in `vetted` for
  the commit of its checks (`PassingChecksAreAcceptable` relates the conclusion to
  the forge's statuses, truncation included); the cross-checks identify that
  commit with the expected head, so every POST under way has a vetted head; and the
  forge merges only the head a POST names. For the packets it adds that an
  invocation has at most one POST and no POST before `await`, that an answer
  `ok` means this invocation merged, and that the target branch never shrinks.
  For retries it adds that packets are printed at the end only, so that what a
  packet speaks of is still what was read back.
  `Implements`: `Spec` implies
  `PinnedMerge!Spec` under the refinement mapping of `MergeExecute`: only
  `ReadStatuses` approves, only `ApplyPost` and `MergeInForgeUi` merge, and every
  other step changes the environment or stutters. The invariant supplies that a
  POST under way has its approval.
* **`PagingProofs`**: positions in a listing. An item added never moves another
  one towards the front; removing an item beyond the first `k` moves nothing into
  the first `k` (`PositionAfterRemoval`); halving the page size never raises the
  number of items read past.
* **`IdempotentOpenProofs`**: `TypeCorrect`, `PostsProveAbsence`. The invariant:
  as long as no record read past was closed, a match open since the scan began
  lies beyond the first `(page - 1) * limit` records. It survives opening and
  reopening (which push it back), closing (by `PositionAfterRemoval`), back-off,
  and the next page (it was not on the page just read); and a list that ends
  within the page has no room for it.
* **`StatusSetProofs`**: `TypeCorrect`, `ReusesLatest`, `PostsWhenNeeded`. The
  invariant: some status was the latest of the context when the scan began,
  every later one was the latest at some moment too, and the scan either has met
  one as late or still has it ahead. Where GitHub's scan ends early, what it has
  met is the latest, or it has met nothing.
* **`WriteGateProofs`**: `TypeCorrect`, `WritesAreGranted`, `AnswersAreTrue`. The
  gate decides by values read at different moments, so the invariant says that
  each of them, and what the files say now, is among what they said while the
  process ran; that a write command goes on only with the remote equal to the
  config's repository, which is what keeps a bound overlay's grants with that
  repository; and that a process with an effect has ended, not with a refusal.
  `DoctorForesees`: gate and `doctor` are both compared with what the files, as
  they are now, decide. A report that no edit has outdated foretells that
  (`Foretells`), an undisturbed process was promised such a report and has read
  what the files still say, it is past the gate only if they let it, and the
  provider refuses only the base URL they have.
* **`PrReadsProofs`**: `TypeCorrect`, `CompleteListsMissNothing`,
  `ClearPlansAreGrounded`, `StaleHeadsAreNamed`. `WalksMissNothing` says of each
  listing, the ones read side by side included, that what its walk has to find
  (what was there when it began) it has got, or it is still listed beyond the
  first `(page - 1) * limit`; so a listing that ended uncut has got all of it.
  `ScopedPlanIsGrounded` carries that into the plan: a plan without blockers
  judges the reports the forge had for one commit. `HeadIsExcused`: the head a
  command is about is one the clone had or one pushed in the window between the
  comparison and the second read (`excused`).
* **`ForgeChangesProofs`**: `TypeCorrect`, `CompletePollsMissNothing`,
  `MovesComeWithTheirChecks`, `CursorsAdvance`. `CompletePollMissesNothing` speaks
  of the last packet only; the invariant (`IInv`) follows each event that is due
  through the poll. `CallMissesNothing`: in a first call, while the pulls are
  read, it was found, or its item is behind the position of the reader and was
  not read, or it is an issue's and the issues are still to come; then it is
  among the events collected, if no cap struck. It holds through every change of
  the lists, because what changes goes to the front and nothing else comes
  nearer to it (`Moved`, `PrependMoves`, `ToFrontMoves`), and through a back-off,
  because a smaller page never skips (`HalvedShrinks`). `QuietPoll`: a poll that
  nothing shook reads the same feed in every call, and has delivered exactly the
  part of it before its cursor (`SliceContinues`). `ListsAreGood` adds that a
  number is given once and that what the forge says of an item is consistent,
  without which an event that is due would not be derived (`DueIsDerived`). What
  `FlattenSeq` of the community modules yields is proved too
  (`FlattenSeqFlattens`): the function that its recursion speaks of exists, and has
  the events of each item, by the least length for which it would not.

* **`CrInventoryProofs`**: `TypeCorrect`, with what it rests on: a list names a
  pull once (`Distinct`), whatever is opened, closed or touched (`PrependIs`,
  `AppendIs`, `WithoutIs`, `TouchedIs`); sorting yields one of the items for each
  place (`AscendingSorts`); a page, a slice and what a walk keeps are part of the
  list they are taken from (`PageIs`, `SliceIs`, `KeptTyped`); the total is there
  where the code uses it (`TotalsAreThere`), and the last page it computes from
  the total is one the code allows (`TailPageIs`).
  `CursorSkipsNothing`: `NextSkipsNothing` compares a cursor with the order of the
  slices, in which a pull has a `Rank` (`AheadIsRank`: as many pulls are in front
  of it), and a cursor is known only when a call ends. The invariant follows each
  pull that is due, that is, open since the walk began and shown by no packet.
  Between calls it is behind the cursor (`Owed`). In a call it was still behind
  the offset when the call began (`Owed(Offset)`), and then `Safe` says for each
  way of reading what has been read: where the slices follow the forge's list
  (`DirectCall`), what was read holds each due pull or is a prefix that ends
  before it, aligned with the page asked for next (`Reads`, `Aligned`); where they
  turn the list round (`TurnedCall`), what is read is the whole list from its
  beginning (`WholeWalk`, `IssueWalk`), its last page (`TailWalk`), or a part that is
  known to be one and is answered as cut (`ShortWalk`); `TurnedOrder` says which
  pulls of such a block a window shows. `Listed` adds that the forge lists by number where
  the sort is by number, `Begun` that a first call has no cursor. A pull that is
  opened, closed or touched moves ranks only as `disturbed` allows (`OpenRanks`,
  `CloseRanks`, `TouchRanks`).
  `CompleteWalksMissNothing`: `CompleteWalkMissesNothing` asks for more, since a
  packet without a cursor promises that nothing is behind it. `Done`, a part of
  `Safe`, says that a call that ends complete leaves nothing due, and `Told` that
  only the last packet of a walk says so. A packet is complete when the list was
  not cut and the items seen reach the count, so the count must not fall short
  (`Counts`, `Completes`). `Covered` is what makes it reach: GitHub's total covers
  the rank of every due pull, or the window does once that total is lost; on the
  other forges a walk that has a total has it beyond the window; and a walk
  without one has read every page in front of the one it asks for, so that the
  page that ends it ends the list (`CountedIs`, `CountIs`).

In each, the last theorem combines initial states, one step per action and the
implication from the invariant. TLC checks the properties first, on the instances
above.

## 8. What is only model-checked, and what is not modelled

Only model-checked: the liveness properties (`ShortWalkEnds`, `Answers`; liveness under fairness and ENABLED are out of the prover's reach).

Not modelled, with the reason:

* Reads without state of their own (bundles, reviews, refs, identity, help):
  formatting of one or two answers, or reads that are modelled put together.
* Parsing, sanitizing and packet envelopes, the cap on written fields: no control
  of their own. Of the origin checks of requests and links there is what they do
  to a command: a link that is not followed is a list that is cut, except in
  GitHub's scan for a status, which ends there; a base URL that is not taken
  refuses the write.
* An answer with status 200 that is no list, in `ForgeChanges` and `CrInventory`:
  they take for granted that each answer is one. Where the code does not reject
  such an answer (the feed of GitHub, `index.js:672`, and the walks over open
  pulls: GitHub 805, 828, 855 and 879, GitLab 654, Gitea 1475) it is read as an
  empty page, so a poll or an inventory may call itself complete without what
  that page had. `StatusSet` and `PrReads` have the case.
* The capture tools of the MCP server, which write a packet to a file. The server
  has no time-out of its own; that a child exits rests on the child.
* The sync plans of the providers and their `whoami`.
* Two documented limits are kept as they are: two opens that scan before either
  creates make two issues (the consumer skill says so), and a feed cut by a
  cap always has more (a test says so).
