---------------------------- MODULE MergeExecute --------------------------
(***************************************************************************)
(* `remogram merge execute` (Gitea): every invocation is a process of its  *)
(* own that reads the pull, its checks and the plan one HTTP request after *)
(* another, verifies the live head branch, and then POSTs a merge pinned   *)
(* to the reviewed head.  Between any two of its requests the branch, the  *)
(* base, the checks, the pull and other invocations may all change the     *)
(* forge.  A request can fail, an answer can be lost, and a merge request  *)
(* its client gave up on can still take effect.                            *)
(***************************************************************************)
EXTENDS CheckFacts, FiniteSets

CONSTANTS
    Clients,        \* concurrent users of the CLI or of the MCP server
    Heads,          \* commits the source branch may point at
    Contexts,       \* commit status contexts
    Required,       \* contexts the target branch's protection requires
    CiStates,       \* raw statuses CI reports in the instance
    AllowMissing,   \* merge_policy.allow_missing_checks
    AllowPending,   \* merge_policy.allow_pending_checks
    MaxInvocations, \* bound: invocations per client
    MaxMoves,       \* bound: spontaneous changes of the forge
    Null            \* JavaScript null: nothing known

(* Whoever merges through the forge's own interface. *)
Other == "other"

ASSUME ContextsAssumption == Required \subseteq Contexts
ASSUME CiAssumption == CiStates \subseteq RawStates
ASSUME PolicyAssumption == AllowMissing \in BOOLEAN /\ AllowPending \in BOOLEAN
ASSUME BoundsAssumption == MaxInvocations \in Nat /\ MaxMoves \in Nat
ASSUME NullAssumption == Null \notin Heads \cup Int \cup Clients \cup {Other, "open", "closed"}
ASSUME OtherAssumption == Other \notin Clients

VARIABLES
    (* the forge *)
    tip,        \* live tip of the head branch; Null once it is deleted
    baseTip,    \* live tip of the target branch: number of commits on it
    pull,       \* the pull record the API serves; its SHAs may lag the branches
    statuses,   \* latest raw status of each context on each head
    merged,     \* the merge that happened: who, which head, onto which base
    moves,      \* spontaneous changes so far
    (* the network *)
    posts,      \* merge POSTs the forge may still process
    reply,      \* the forge's answer to a client's current POST
    (* each client's current invocation *)
    pc, inv,    \* where it is, and how many it started
    expected,   \* --expected-base-sha and --expected-head-sha
    view,       \* preflight read of the pull
    checks,     \* preflight read of the checks
    recon,      \* the pull as read after an ambiguous POST
    packet,     \* the packet it printed
    (* history *)
    vetted      \* <<client, invocation, head>>: checks seen acceptable

forge   == <<tip, baseTip, pull, statuses, merged, moves>>
network == <<posts, reply>>
local   == <<pc, inv, expected, view, checks, recon, packet>>
vars    == <<tip, baseTip, pull, statuses, merged, moves, posts, reply, pc, inv,
             expected, view, checks, recon, packet, vetted>>

Policy == [allowMissing |-> AllowMissing, allowPending |-> AllowPending]

Mergeabilities == {"clean", "conflicted", "unknown"}
HeadRefs == {"named", "missing", "unsafe"}
NotMerged == [by |-> Null]
Blockers == {"checks_incomplete", "checks_failed", "checks_missing", "checks_pending",
             "required_checks_missing", "required_checks_pending",
             "merge_conflict", "pr_not_open", "mergeability_not_clean",
             "base_sha_mismatch", "head_sha_mismatch", "checks_head_sha_mismatch",
             "forge_pr_head_mismatch", "checks_forge_head_mismatch", "head_ref_moved",
             "head_ref_unreadable", "head_ref_invalid", "head_ref_missing",
             "merge_endpoint_failed"}
-----------------------------------------------------------------------------
(* Packets                                                                  *)

Blank == [type |-> "none", blockers |-> {}, retrySafe |-> FALSE,
          status |-> "none", base |-> Null]

ErrorPacket == [Blank EXCEPT !.type = "error"]
BlockedPacket(bs) == [Blank EXCEPT !.type = "cr_merge_blocked", !.blockers = bs]
MergedPacket(base, readback) ==
    [Blank EXCEPT !.type = "cr_merged", !.base = base, !.status = readback]

(* prState in the provider: `pr?.state ?? pr?.merged ? 'closed' : null`.    *)
(* The conditional binds last, so any state at all, even open, is `closed`. *)
ReconciledPrState(r) == IF r.state # Null \/ r.merged THEN "closed" ELSE Null

(* Mutant: only a base that advanced past the re-read pull counts.          *)
BranchOnlyReconciliation(r, target) ==
    LET advanced == target # Null /\ r.base # Null /\ target # r.base
    IN  [status |-> IF advanced THEN "target_branch_advanced" ELSE "unchanged",
         retrySafe |-> ~advanced]

(* reconcileMergeEffectAfterError *)
Reconciliation(r, target) ==
    LET advanced == target # Null /\ r.base # Null /\ target # r.base
        terminal == ReconciledPrState(r) = "closed" \/ r.merged
    IN  [status |-> CASE advanced  -> "target_branch_advanced"
                      [] terminal /\ ~advanced -> "pr_state_terminal"
                      [] OTHER     -> "unchanged",
         retrySafe |-> ~(advanced \/ terminal)]

IndeterminatePacket(r, target) ==
    LET rec == Reconciliation(r, target)
    IN  [Blank EXCEPT !.type = "cr_merge_indeterminate",
                      !.status = rec.status, !.retrySafe = rec.retrySafe]
-----------------------------------------------------------------------------
(* Preflight                                                                *)

(* Mutant: the reviewed head is compared with the live branch only, and the *)
(* checks' commit with the pull it was read from.                           *)
ShaBlockersLiveHeadOnly(v, ck, exp, forgeHead) ==
    When(v.base # Null /\ exp.base # v.base, "base_sha_mismatch")
        \cup When(v.head # Null /\ v.head # ck.sha, "checks_head_sha_mismatch")
        \cup When(forgeHead # Null /\ forgeHead # exp.head, "head_ref_moved")

(* The SHA cross-checks of collectMergeExecuteBlockers. *)
ShaBlockers(v, ck, exp, forgeHead) ==
    When(v.base # Null /\ exp.base # v.base, "base_sha_mismatch")
        \cup When(v.head # Null /\ exp.head # v.head, "head_sha_mismatch")
        \cup When(v.head # Null /\ v.head # ck.sha, "checks_head_sha_mismatch")
        \cup When(v.head # Null /\ forgeHead # Null /\ v.head # forgeHead,
                  "forge_pr_head_mismatch")
        \cup When(forgeHead # Null /\ ck.sha # forgeHead, "checks_forge_head_mismatch")
        \cup When(forgeHead # Null /\ forgeHead # exp.head, "head_ref_moved")

(* collectMergeExecuteBlockers: the plan's own blockers play no part. *)
ExecuteBlockers(v, ck, exp, forgeHead) ==
    ShaBlockers(v, ck, exp, forgeHead)
        \cup MergeBlockers(v, ck, Policy)
        \cup When(v.mergeability = "unknown", "mergeability_not_clean")

(* The checks of head h are acceptable on the forge at this moment: nothing *)
(* failed, no required context missing or pending, and the rest within the  *)
(* merge policy.                                                            *)
Acceptable(h) ==
    LET st == statuses[h]
    IN  /\ \A x \in Contexts : st[x] \notin {"failure", "error"}
        /\ \A x \in Required : st[x] \notin {Absent, "pending"}
        /\ (\E x \in Contexts : st[x] = "pending") => AllowPending
        /\ (\A x \in Contexts : st[x] = Absent) => AllowMissing
-----------------------------------------------------------------------------
Statuses == [Contexts -> RawStates \cup {Absent}]

PcStates == {"idle", "view", "pull", "statuses", "plan", "tip",
             "await", "readPull", "readBase",
             "reconcilePull", "reconcileBase", "done"}

Running == PcStates \ {"idle", "done"}

NoChecks == [ChecksBody(Null, [x \in Contexts |-> Absent], {}, FALSE)
                EXCEPT !.conclusion = "none"]
NoView == [state |-> "closed", head |-> Null, base |-> 0, ref |-> "missing",
           mergeability |-> "unknown"]
NoRecon == [state |-> Null, merged |-> FALSE, base |-> Null]

Init ==
    /\ tip \in Heads
    /\ baseTip = 0
    /\ pull \in [state : {"open"}, head : {tip}, base : {0}, ref : HeadRefs,
                 mergeability : {"clean"}]
    /\ statuses \in [Heads -> {[x \in Contexts |-> s] : s \in {Absent, "success"}}]
    /\ merged = NotMerged
    /\ moves = 0
    /\ posts = {}
    /\ reply = [c \in Clients |-> "none"]
    /\ pc = [c \in Clients |-> "idle"]
    /\ inv = [c \in Clients |-> 0]
    /\ expected = [c \in Clients |-> [head |-> Null, base |-> Null]]
    /\ view = [c \in Clients |-> NoView]
    /\ checks = [c \in Clients |-> NoChecks]
    /\ recon = [c \in Clients |-> NoRecon]
    /\ packet = [c \in Clients |-> Blank]
    /\ vetted = {}
-----------------------------------------------------------------------------
(* The forge moving on its own: people, CI and other tools.                 *)

Move == moves < MaxMoves /\ moves' = moves + 1

PushHead ==
    /\ Move
    /\ tip' \in (Heads \cup {Null}) \ {tip}
    /\ UNCHANGED <<baseTip, pull, statuses, merged, network, local, vetted>>

PushBase ==
    /\ Move
    /\ baseTip' = baseTip + 1
    /\ UNCHANGED <<tip, pull, statuses, merged, network, local, vetted>>

(* The pull record catches up with the branches. *)
SyncPull ==
    /\ pull' = [pull EXCEPT !.head = tip, !.base = baseTip]
    /\ UNCHANGED <<tip, baseTip, statuses, merged, moves, network, local, vetted>>

ReportStatus ==
    /\ Move
    /\ \E h \in Heads, x \in Contexts, s \in CiStates :
           statuses' = [statuses EXCEPT ![h][x] = s]
    /\ UNCHANGED <<tip, baseTip, pull, merged, network, local, vetted>>

RecomputeMergeability ==
    /\ Move
    /\ \E m \in Mergeabilities \ {pull.mergeability} :
           pull' = [pull EXCEPT !.mergeability = m]
    /\ UNCHANGED <<tip, baseTip, statuses, merged, network, local, vetted>>

CloseOrReopen ==
    /\ Move
    /\ merged = NotMerged
    /\ pull' = [pull EXCEPT !.state = IF @ = "open" THEN "closed" ELSE "open"]
    /\ UNCHANGED <<tip, baseTip, statuses, merged, network, local, vetted>>

Mergeable == pull.state = "open" /\ tip # Null /\ pull.mergeability # "conflicted"

(* A merge adds one commit to the target branch and closes the pull. *)
ApplyMerge(by, i) ==
    /\ merged' = [by |-> by, inv |-> i, head |-> tip, onto |-> baseTip]
    /\ baseTip' = baseTip + 1
    /\ pull' = [pull EXCEPT !.state = "closed"]
    /\ UNCHANGED <<tip, statuses>>

MergeInForgeUi ==
    /\ Move
    /\ Mergeable
    /\ ApplyMerge(Other, 0)
    /\ UNCHANGED <<network, local, vetted>>
-----------------------------------------------------------------------------
(* The forge serving merge POSTs.                                           *)

Answer(p, a) ==
    reply' = IF inv[p.by] = p.inv /\ pc[p.by] = "await"
             THEN [reply EXCEPT ![p.by] = a] ELSE reply

(* Mutant: the request carries no head_commit_id pin. *)
UnpinnedApplyPost(p) ==
    /\ Mergeable
    /\ ApplyMerge(p.by, p.inv)
    /\ posts' = posts \ {p}
    /\ Answer(p, "ok")
    /\ UNCHANGED <<moves, local, vetted>>

(* `head_commit_id` still is the tip: the forge merges. *)
ApplyPost(p) ==
    /\ Mergeable
    /\ tip = p.head
    /\ ApplyMerge(p.by, p.inv)
    /\ posts' = posts \ {p}
    /\ Answer(p, "ok")
    /\ UNCHANGED <<moves, local, vetted>>

(* 409 head out of date for a moved head, some other 4xx otherwise. *)
RefusePost(p) ==
    /\ ~(Mergeable /\ tip = p.head)
    /\ posts' = posts \ {p}
    /\ Answer(p, IF pull.state = "open" /\ tip # p.head THEN "headMoved" ELSE "refused")
    /\ UNCHANGED <<forge, local, vetted>>

(* The request never reaches the forge. *)
LosePost(p) ==
    /\ posts' = posts \ {p}
    /\ UNCHANGED <<forge, reply, local, vetted>>
-----------------------------------------------------------------------------
(* An invocation: its reads, in the order the command makes them.           *)

Goto(c, from, to) == pc[c] = from /\ pc' = [pc EXCEPT ![c] = to]

(* Print the packet and exit: the process's own memory is gone.             *)
Emit(c, from, p) ==
    /\ Goto(c, from, "done")
    /\ packet' = [packet EXCEPT ![c] = p]
    /\ view' = [view EXCEPT ![c] = NoView]
    /\ checks' = [checks EXCEPT ![c] = NoChecks]

(* merge execute --number N --expected-base-sha b --expected-head-sha h *)
Invoke(c) ==
    /\ pc[c] \in {"idle", "done"}
    /\ inv[c] < MaxInvocations
    /\ pc' = [pc EXCEPT ![c] = "view"]
    /\ inv' = [inv EXCEPT ![c] = @ + 1]
    /\ \E h \in Heads, b \in 0..baseTip :
           expected' = [expected EXCEPT ![c] = [head |-> h, base |-> b]]
    /\ reply' = [reply EXCEPT ![c] = "none"]
    /\ packet' = [packet EXCEPT ![c] = Blank]
    /\ UNCHANGED <<forge, posts, view, checks, recon, vetted>>

(* Invalid arguments or `merge` missing from the effective write_commands.  *)
Reject(c) ==
    /\ pc[c] = "idle"
    /\ Emit(c, "idle", ErrorPacket)
    /\ UNCHANGED <<forge, network, inv, expected, recon, vetted>>

(* prView *)
ReadView(c) ==
    /\ Goto(c, "view", "pull")
    /\ view' = [view EXCEPT ![c] = pull]
    /\ UNCHANGED <<forge, network, inv, expected, checks, recon, packet, vetted>>

(* Mutant: a pull without a head SHA goes on to the status read.            *)
ReadPullUnguarded(c) ==
    /\ Goto(c, "pull", "statuses")
    /\ checks' = [checks EXCEPT ![c].sha = pull.head]
    /\ UNCHANGED <<forge, network, inv, expected, view, recon, packet, vetted>>

(* prChecks reads the pull again: the checks' commit is its own.  The       *)
(* branch protection read here is constant in this model.                   *)
ReadPullForChecks(c) ==
    /\ pull.head # Null
    /\ Goto(c, "pull", "statuses")
    /\ checks' = [checks EXCEPT ![c].sha = pull.head]
    /\ UNCHANGED <<forge, network, inv, expected, view, recon, packet, vetted>>

(* The statuses of that commit; a truncated listing may miss contexts.      *)
SeenStatuses(h, seen) == [x \in Contexts |-> IF x \in seen THEN statuses[h][x] ELSE Absent]

ReadStatuses(c) ==
    /\ Goto(c, "statuses", "plan")
    /\ \E seen \in SUBSET Contexts, truncated \in BOOLEAN :
           /\ seen # Contexts => truncated
           /\ checks' = [checks EXCEPT ![c] =
                  ChecksBody(@.sha, SeenStatuses(@.sha, seen), Required, truncated)]
    /\ vetted' = IF Acceptable(checks[c].sha)
                 THEN vetted \cup {<<c, inv[c], checks[c].sha>>} ELSE vetted
    /\ UNCHANGED <<forge, network, inv, expected, view, recon, packet>>

(* provider.mergePlan repeats view and checks; what it finds only fills the *)
(* `before` facts of the packet.                                            *)
RereadPlan(c) ==
    /\ pull.head # Null
    /\ Goto(c, "plan", "tip")
    /\ UNCHANGED <<forge, network, inv, expected, view, checks, recon, packet, vetted>>

(* Any of these reads failing ends the command with an error packet; so do  *)
(* checks of a pull that reports no head.                                   *)
ReadFails(c) ==
    /\ \E step \in {"view", "pull", "statuses", "plan"} :
           Emit(c, step, ErrorPacket)
    /\ UNCHANGED <<forge, network, inv, expected, recon, vetted>>
-----------------------------------------------------------------------------
(* The decision, taken in the same turn as the last read, and the POST.     *)

Block(c, blockers) ==
    /\ Emit(c, "tip", BlockedPacket(blockers))
    /\ UNCHANGED <<forge, network, inv, expected, recon, vetted>>

SendPost(c) ==
    /\ Goto(c, "tip", "await")
    /\ posts' = posts \cup {[by |-> c, inv |-> inv[c], head |-> expected[c].head]}
    /\ UNCHANGED <<forge, reply, inv, expected, view, checks, recon, packet, vetted>>

Decide(c, forgeHead) ==
    LET blockers == ExecuteBlockers(view[c], checks[c], expected[c], forgeHead)
    IN  IF blockers = {} THEN SendPost(c) ELSE Block(c, blockers)

(* The pull names its head branch: branchHeadSha reads the live tip.        *)
VerifyHead(c) ==
    /\ pc[c] = "tip"
    /\ view[c].ref = "named"
    /\ tip # Null
    /\ Decide(c, tip)

HeadUnreadable(c) ==
    /\ view[c].ref = "named"
    /\ Block(c, {"head_ref_unreadable"})

HeadInvalid(c) ==
    /\ view[c].ref = "unsafe"
    /\ Block(c, {"head_ref_invalid"})

(* Without a head branch an open pull is refused outright; a closed one     *)
(* falls through to the ordinary blockers.                                  *)
HeadMissing(c) ==
    /\ pc[c] = "tip"
    /\ view[c].ref = "missing"
    /\ IF view[c].state = "open" THEN Block(c, {"head_ref_missing"}) ELSE Decide(c, Null)
-----------------------------------------------------------------------------
(* What the client makes of the POST.                                       *)

Finish(c, p) ==
    /\ Emit(c, pc[c], p)
    /\ UNCHANGED <<forge, network, inv, expected, recon, vetted>>

(* 200 with both SHAs in the body: no read-back needed. *)
ReceiveMerged(c) ==
    /\ pc[c] = "await"
    /\ reply[c] = "ok"
    /\ Finish(c, MergedPacket(merged.onto + 1, "proved"))

(* 200 without them (Gitea answers with an empty body): read them back. *)
ReceiveBareOk(c) ==
    /\ reply[c] = "ok"
    /\ Goto(c, "await", "readPull")
    /\ UNCHANGED <<forge, network, inv, expected, view, checks, recon, packet, vetted>>

ReceiveHeadMoved(c) ==
    /\ pc[c] = "await"
    /\ reply[c] = "headMoved"
    /\ Finish(c, BlockedPacket({"head_ref_moved"}))

ReceiveRefused(c) ==
    /\ pc[c] = "await"
    /\ reply[c] = "refused"
    /\ Finish(c, BlockedPacket({"merge_endpoint_failed"}))

(* Mutant: every failed answer is taken for the 409 on a moved head.        *)
AnswerUnusableAsMoved(c) ==
    /\ pc[c] = "await"
    /\ Finish(c, BlockedPacket({"head_ref_moved"}))

(* The connection breaks, or the answer is a redirect, too large or not     *)
(* JSON: neither a 5xx nor a time-out, whatever became of the merge.        *)
AnswerUnusable(c) ==
    /\ pc[c] = "await"
    /\ Finish(c, BlockedPacket({"merge_endpoint_failed"}))

(* Time-out or 5xx, before or after the forge processed the request.        *)
PostTimesOut(c) ==
    /\ Goto(c, "await", "reconcilePull")
    /\ recon' = [recon EXCEPT ![c] = NoRecon]
    /\ UNCHANGED <<forge, network, inv, expected, view, checks, packet, vetted>>

ReconcilePull(c) ==
    /\ Goto(c, "reconcilePull", "reconcileBase")
    /\ recon' = [recon EXCEPT ![c] =
           [state |-> pull.state, merged |-> merged # NotMerged, base |-> pull.base]]
    /\ UNCHANGED <<forge, network, inv, expected, view, checks, packet, vetted>>

(* A failed read ends the reconciliation with what is known so far. *)
ReconcileFails(c) ==
    /\ pc[c] \in {"reconcilePull", "reconcileBase"}
    /\ Finish(c, IndeterminatePacket(recon[c], Null))

ReconcileBase(c) ==
    /\ pc[c] = "reconcileBase"
    /\ Finish(c, IndeterminatePacket(recon[c], baseTip))

ReadBackPull(c) ==
    /\ Goto(c, "readPull", "readBase")
    /\ UNCHANGED <<forge, network, inv, expected, view, checks, recon, packet, vetted>>

(* Mutant: report the base SHA of the pull record, which lags the branch.   *)
ReadBackBaseFromPull(c) ==
    /\ pc[c] = "readBase"
    /\ Finish(c, MergedPacket(pull.base, "proved"))

(* branchHeadSha of the target branch. *)
ReadBackBase(c) ==
    /\ pc[c] = "readBase"
    /\ Finish(c, MergedPacket(baseTip, "proved"))

ReadBackFails(c) ==
    /\ pc[c] \in {"readPull", "readBase"}
    /\ Finish(c, MergedPacket(Null, "failed"))
-----------------------------------------------------------------------------
Preflight(c) ==
    \/ ReadView(c) \/ ReadPullForChecks(c) \/ ReadStatuses(c)
    \/ RereadPlan(c) \/ ReadFails(c)
    \/ VerifyHead(c) \/ HeadUnreadable(c) \/ HeadInvalid(c) \/ HeadMissing(c)

Settle(c) ==
    \/ ReceiveMerged(c) \/ ReceiveBareOk(c) \/ ReceiveHeadMoved(c) \/ ReceiveRefused(c)
    \/ AnswerUnusable(c) \/ PostTimesOut(c)
    \/ ReconcilePull(c) \/ ReconcileBase(c) \/ ReconcileFails(c)
    \/ ReadBackPull(c) \/ ReadBackBase(c) \/ ReadBackFails(c)

(* A step of a started invocation. *)
Proceed(c) == Preflight(c) \/ Settle(c)

ForgeMoves ==
    \/ PushHead \/ PushBase \/ SyncPull \/ ReportStatus
    \/ RecomputeMergeability \/ CloseOrReopen \/ MergeInForgeUi

Delivery == \E p \in posts : ApplyPost(p) \/ RefusePost(p) \/ LosePost(p)

Next ==
    \/ ForgeMoves
    \/ Delivery
    \/ \E c \in Clients : Invoke(c) \/ Reject(c) \/ Proceed(c)

(* No property needs fairness: any request may stay unanswered for ever.    *)
Spec == Init /\ [][Next]_vars
-----------------------------------------------------------------------------
ViewFacts == [state : {"open", "closed"}, head : Heads \cup {Null}, base : Nat,
              ref : HeadRefs, mergeability : Mergeabilities]

CheckedFacts == [sha : Heads \cup {Null},
                 conclusion : {"none", "missing", "failure", "pending", "success", "unknown"},
                 truncated : BOOLEAN,
                 missingReq : SUBSET Contexts, pendingReq : SUBSET Contexts]

ReconFacts == [state : {"open", "closed", Null}, merged : BOOLEAN, base : Nat \cup {Null}]

MergeRecord == [by : Clients \cup {Other}, inv : Nat, head : Heads, onto : Nat]

Packets == [type : {"none", "error", "cr_merge_blocked", "cr_merged",
                    "cr_merge_indeterminate"},
            blockers : SUBSET Blockers, retrySafe : BOOLEAN,
            status : {"none", "proved", "failed", "target_branch_advanced",
                      "pr_state_terminal", "unchanged"},
            base : Nat \cup {Null}]

(* Types of all the variables; an invocation past its pull read knows a     *)
(* commit to ask the statuses of, and one still running a head to expect.   *)
TypeOK ==
    /\ tip \in Heads \cup {Null}
    /\ baseTip \in Nat
    /\ pull \in ViewFacts
    /\ statuses \in [Heads -> Statuses]
    /\ merged = NotMerged \/ merged \in MergeRecord
    /\ moves \in Nat
    /\ posts \subseteq [by : Clients, inv : Nat, head : Heads]
    /\ reply \in [Clients -> {"none", "ok", "headMoved", "refused"}]
    /\ pc \in [Clients -> PcStates]
    /\ inv \in [Clients -> Nat]
    /\ expected \in [Clients -> [head : Heads \cup {Null}, base : Nat \cup {Null}]]
    /\ view \in [Clients -> ViewFacts]
    /\ checks \in [Clients -> CheckedFacts]
    /\ recon \in [Clients -> ReconFacts]
    /\ packet \in [Clients -> Packets]
    /\ vetted \subseteq Clients \X Nat \X Heads
    /\ \A c \in Clients :
           /\ pc[c] \in {"statuses", "plan", "tip"} => checks[c].sha \in Heads
           /\ pc[c] \in Running => expected[c].head \in Heads

MergedBy(c) == merged # NotMerged /\ merged.by = c /\ merged.inv = inv[c]
Outstanding(c) == \E p \in posts : p.by = c /\ p.inv = inv[c]

(* A merge caused by an invocation is of the head that very invocation was  *)
(* told to expect and whose checks it saw acceptable itself, whatever moved *)
(* since and however late the forge processed the POST.                     *)
MergedHeadWasVetted ==
    (merged # NotMerged /\ merged.by # Other) =>
        <<merged.by, merged.inv, merged.head>> \in vetted

(* cr_merged tells the truth: this invocation merged its expected head, and *)
(* the base it reports already contains that merge.                         *)
MergedPacketIsTrue ==
    \A c \in Clients : packet[c].type = "cr_merged" =>
        /\ MergedBy(c)
        /\ merged.head = expected[c].head
        /\ packet[c].base # Null => packet[c].base > merged.onto

(* A cr_merge_blocked packet that names a reason other than the endpoint    *)
(* failing promises there was, and will be, no effect.                      *)
NamedBlockHasNoEffect ==
    \A c \in Clients :
        (/\ packet[c].type = "cr_merge_blocked"
         /\ packet[c].blockers # {"merge_endpoint_failed"}) =>
            ~MergedBy(c) /\ ~Outstanding(c)

(* Reconciling an ambiguous POST never calls a retry safe when the pull it  *)
(* re-read was already merged.                                              *)
MergedIsNeverRetrySafe ==
    \A c \in Clients :
        (packet[c].type = "cr_merge_indeterminate" /\ recon[c].merged) => ~packet[c].retrySafe

(* merge execute implements the promise of PinnedMerge. *)
AbstractMerge ==
    IF merged = NotMerged THEN <<>>
    ELSE IF merged.by = Other THEN <<merged.head>>
    ELSE <<merged.by, merged.inv, merged.head>>

Pinned == INSTANCE PinnedMerge WITH
    Approvals <- Clients \X (1..MaxInvocations) \X Heads,
    NotMerged <- <<>>,
    acceptable <- {h \in Heads : Acceptable(h)},
    open <- pull.state = "open",
    approvals <- vetted,
    merged <- AbstractMerge

ImplementsPinnedMerge == Pinned!Spec
-----------------------------------------------------------------------------
(* What the documentation claims and the code does not keep.                *)

(* CHANGELOG: an ambiguous POST outcome yields cr_merge_indeterminate.  So  *)
(* cr_merge_blocked would mean that this invocation merged nothing.         *)
AmbiguityIsIndeterminate ==
    \A c \in Clients : packet[c].type = "cr_merge_blocked" => ~MergedBy(c)

(* Test `marks retry_safe when branch unchanged`: after reading back an     *)
(* open pull on an unmoved base the packet says retry_safe.                 *)
UnchangedIsRetrySafe ==
    \A c \in Clients :
        (packet[c].type = "cr_merge_indeterminate" /\ recon[c].state = "open"
            /\ packet[c].status # "target_branch_advanced") => packet[c].retrySafe
=============================================================================
