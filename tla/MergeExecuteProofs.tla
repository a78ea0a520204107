------------------------ MODULE MergeExecuteProofs ------------------------
(***************************************************************************)
(* Proofs about MergeExecute for any number of clients, heads, contexts    *)
(* and invocations: types, that every merge an invocation causes is of a   *)
(* head it vetted, that what it prints about its own effect is true, and   *)
(* that it implements PinnedMerge.                                         *)
(***************************************************************************)
EXTENDS MergeExecute, TLAPS

USE DEF forge, network, local

Preflighting == {"view", "pull", "statuses", "plan", "tip"}

(* The inductive invariant.  What is known of an invocation between its     *)
(* status read and its POST: checks that block nothing were vetted.         *)
PassingChecksAreVetted ==
    \A c \in Clients :
        (pc[c] \in {"plan", "tip"} /\ CheckBlockers(checks[c], Policy) = {}) =>
            <<c, inv[c], checks[c].sha>> \in vetted

(* A POST in flight is of a vetted head; one of the current invocation was  *)
(* sent after its preflight, for the head it expects.                       *)
PostsAreVetted == \A p \in posts : <<p.by, p.inv, p.head>> \in vetted

PostsAreCurrent ==
    \A p \in posts :
        /\ p.inv <= inv[p.by]
        /\ p.inv = inv[p.by] => /\ p.head = expected[p.by].head
                               /\ pc[p.by] \notin Preflighting \cup {"idle"}

(* A merge is final, is below the tip of the target branch, and used up the *)
(* POST of the invocation that caused it.                                   *)
MergeIsFinal ==
    merged # NotMerged =>
        /\ pull.state = "closed"
        /\ baseTip > merged.onto
        /\ \A c \in Clients :
               merged.by = c =>
                   /\ merged.inv <= inv[c]
                   /\ merged.inv = inv[c] => /\ merged.head = expected[c].head
                                            /\ pc[c] \notin Preflighting \cup {"idle"}
                                            /\ ~Outstanding(c)

(* An answer the client may still read is the truth about its POST.         *)
AnswersAreTrue ==
    \A c \in Clients :
        /\ reply[c] = "ok" => MergedBy(c)
        /\ reply[c] = "headMoved" => ~MergedBy(c) /\ ~Outstanding(c)
        /\ pc[c] \in Preflighting \cup {"idle"} => reply[c] = "none"
        /\ pc[c] \in {"readPull", "readBase"} => MergedBy(c)

(* Nothing is printed before the end.                                       *)
NothingPrintedYet == \A c \in Clients : pc[c] \in Preflighting => packet[c].type = "none"

IInv ==
    /\ TypeOK
    /\ PassingChecksAreVetted /\ PostsAreVetted /\ MergedHeadWasVetted
    /\ PostsAreCurrent /\ MergeIsFinal /\ AnswersAreTrue /\ NothingPrintedYet
    /\ MergedPacketIsTrue /\ NamedBlockHasNoEffect
-----------------------------------------------------------------------------
(* Checks that block nothing were acceptable on the forge when read, however*)
(* much of the status list a truncated read saw.                            *)
LEMMA PassingChecksAreAcceptable ==
    ASSUME NEW h \in Heads, NEW seen \in SUBSET Contexts, NEW truncated \in BOOLEAN,
           statuses \in [Heads -> Statuses],
           seen # Contexts => truncated,
           CheckBlockers(ChecksBody(h, SeenStatuses(h, seen), Required, truncated), Policy) = {}
    PROVE  Acceptable(h)
<1> DEFINE st == SeenStatuses(h, seen)
           body == ChecksBody(h, st, Required, truncated)
<1>1. /\ ~body.truncated
      /\ body.conclusion # "failure"
      /\ body.conclusion = "missing" => AllowMissing
      /\ body.conclusion = "pending" => AllowPending
      /\ body.missingReq = {} /\ body.pendingReq = {}
  BY DEF CheckBlockers, DiagnosticBlockers, When, Policy
<1>2. seen = Contexts
  BY <1>1 DEF ChecksBody
<1>3. st = statuses[h]
  BY <1>2 DEF SeenStatuses, Statuses
<1>4. DOMAIN st = Contexts
  BY <1>3 DEF Statuses
<1>5. /\ Conclusion(st) # "failure"
      /\ Conclusion(st) = "missing" => AllowMissing
      /\ Conclusion(st) = "pending" => AllowPending
      /\ Required \ Present(st) = {}
      /\ Required \cap ContextsIn(st, "pending") = {}
  BY <1>1 DEF ChecksBody
<1> HIDE DEF st, body
<1>6. \A x \in Contexts : st[x] \notin {"failure", "error"}
  <2> SUFFICES ASSUME NEW x \in Contexts, st[x] \in {"failure", "error"} PROVE FALSE
    OBVIOUS
  <2>1. x \in ContextsIn(st, "failure")
    BY <1>4 DEF ContextsIn, Present, NormalizeStatusState, Absent
  <2>2. Present(st) # {}
    BY <2>1 DEF ContextsIn
  <2>3. Conclusion(st) = "failure"
    BY <2>1, <2>2 DEF Conclusion
  <2> QED BY <1>5, <2>3
<1>7. \A x \in Required : st[x] \notin {Absent, "pending"}
  BY <1>4, <1>5, ContextsAssumption DEF Present, ContextsIn, NormalizeStatusState, Absent
<1>8. ASSUME \E x \in Contexts : st[x] = "pending"  PROVE AllowPending
  <2>1. PICK x \in Contexts : st[x] = "pending"
    BY <1>8
  <2>2. x \in ContextsIn(st, "pending")
    BY <2>1, <1>4 DEF ContextsIn, Present, NormalizeStatusState, Absent
  <2>3. Present(st) # {}
    BY <2>2 DEF ContextsIn
  <2>4. Conclusion(st) = "pending" \/ Conclusion(st) = "failure"
    BY <2>2, <2>3 DEF Conclusion
  <2> QED BY <1>5, <2>4
<1>9. ASSUME \A x \in Contexts : st[x] = Absent  PROVE AllowMissing
  <2>1. Present(st) = {}
    BY <1>9, <1>4 DEF Present
  <2> QED BY <1>5, <2>1 DEF Conclusion
<1> QED BY <1>3, <1>6, <1>7, <1>8, <1>9 DEF Acceptable
-----------------------------------------------------------------------------
(* Packets and checks bodies have their types whatever goes into them.      *)
LEMMA ConclusionType ==
    ASSUME NEW st PROVE Conclusion(st) \in {"missing", "failure", "pending", "success", "unknown"}
BY DEF Conclusion

\* The body of prChecks is one of the checks facts, for any commit and any
\* listing.
LEMMA ChecksBodyType ==
    ASSUME NEW h \in Heads, NEW st, NEW truncated \in BOOLEAN
    PROVE  ChecksBody(h, st, Required, truncated) \in CheckedFacts
<1>1. Required \ Present(st) \in SUBSET Contexts /\ Required \cap ContextsIn(st, "pending") \in SUBSET Contexts
  BY ContextsAssumption
<1> QED BY <1>1, ConclusionType DEF ChecksBody, CheckedFacts

\* Every blocker the plan and the command raise is one of the named ones.
LEMMA BlockersType ==
    ASSUME NEW v, NEW ck, NEW exp, NEW forgeHead
    PROVE  ExecuteBlockers(v, ck, exp, forgeHead) \subseteq Blockers
<1>1. ShaBlockers(v, ck, exp, forgeHead) \subseteq Blockers
  BY DEF ShaBlockers, When, Blockers
<1>2. ViewBlockers(v) \subseteq Blockers
  BY DEF ViewBlockers, When, Blockers
<1>3. CheckBlockers(ck, Policy) \subseteq Blockers
  BY DEF CheckBlockers, DiagnosticBlockers, When, Blockers
<1> QED BY <1>1, <1>2, <1>3 DEF ExecuteBlockers, MergeBlockers, When, Blockers

\* Every packet a command prints is one of the packets.
LEMMA PacketTypes ==
    /\ Blank \in Packets /\ ErrorPacket \in Packets
    /\ \A bs \in SUBSET Blockers : BlockedPacket(bs) \in Packets
    /\ \A b \in Nat \cup {Null} : MergedPacket(b, "proved") \in Packets
                                  /\ MergedPacket(b, "failed") \in Packets
    /\ \A r, t : IndeterminatePacket(r, t) \in Packets
<1>1. Blank \in Packets
  BY DEF Blank, Packets
<1>2. ErrorPacket \in Packets
  BY DEF Blank, Packets, ErrorPacket
<1>3. ASSUME NEW bs \in SUBSET Blockers PROVE BlockedPacket(bs) \in Packets
  BY DEF Blank, Packets, BlockedPacket
<1>4. ASSUME NEW b \in Nat \cup {Null}
      PROVE  MergedPacket(b, "proved") \in Packets /\ MergedPacket(b, "failed") \in Packets
  BY DEF Blank, Packets, MergedPacket
<1>5. ASSUME NEW r, NEW t PROVE IndeterminatePacket(r, t) \in Packets
  <2>1. Reconciliation(r, t).status \in {"target_branch_advanced", "pr_state_terminal", "unchanged"}
        /\ Reconciliation(r, t).retrySafe \in BOOLEAN
    BY DEF Reconciliation
  <2> QED BY <2>1 DEF IndeterminatePacket, Blank, Packets
<1> QED BY <1>1, <1>2, <1>3, <1>4, <1>5
-----------------------------------------------------------------------------
(* A client's step that prints a packet and exits keeps the types.          *)
LEMMA EmitKeepsTypes ==
    ASSUME TypeOK, NEW c \in Clients, NEW from, NEW p \in Packets, Emit(c, from, p),
           UNCHANGED <<forge, network, inv, expected, recon, vetted>>
    PROVE  TypeOK'
<1>1. NoView \in ViewFacts
  BY DEF NoView, ViewFacts, HeadRefs, Mergeabilities
<1>2. NoChecks \in CheckedFacts
  BY DEF NoChecks, CheckedFacts, ChecksBody, Present
<1>3. pc' = [pc EXCEPT ![c] = "done"]
  BY DEF Emit, Goto
<1>4. "done" \in PcStates /\ "done" \notin Running
  BY DEF PcStates, Running
<1>5. \A d \in Clients : d # c => pc'[d] = pc[d] /\ checks'[d] = checks[d]
  BY DEF TypeOK, Emit, Goto
<1>6. pc'[c] = "done"
  BY <1>3 DEF TypeOK
<1>7. \A d \in Clients : /\ pc'[d] \in {"statuses", "plan", "tip"} => checks'[d].sha \in Heads
                         /\ pc'[d] \in Running => expected'[d].head \in Heads
  BY <1>4, <1>5, <1>6 DEF TypeOK
<1> QED BY <1>1, <1>2, <1>3, <1>4, <1>7 DEF TypeOK, Emit

(* Moving on without printing keeps the types of a client's position.       *)
LEMMA GotoKeepsPositions ==
    ASSUME TypeOK, NEW c \in Clients, NEW from \in Running, NEW to \in Running,
           Goto(c, from, to), expected' = expected,
           \A d \in Clients : d # c => checks'[d] = checks[d],
           to \in {"statuses", "plan", "tip"} => checks'[c].sha \in Heads
    PROVE  /\ pc' \in [Clients -> PcStates]
           /\ \A d \in Clients :
                  /\ pc'[d] \in {"statuses", "plan", "tip"} => checks'[d].sha \in Heads
                  /\ pc'[d] \in Running => expected'[d].head \in Heads
<1>1. pc[c] = from /\ pc' = [pc EXCEPT ![c] = to] /\ to \in PcStates
  BY DEF Goto, Running
<1>2. pc'[c] = to /\ \A d \in Clients : d # c => pc'[d] = pc[d]
  BY <1>1 DEF TypeOK
<1>3. expected[c].head \in Heads
  BY <1>1 DEF TypeOK
<1> QED BY <1>1, <1>2, <1>3 DEF TypeOK

\* Recording a merge of a client keeps the types.
LEMMA MergeKeepsTypes ==
    ASSUME TypeOK, NEW by \in Clients \cup {Other}, NEW i \in Nat, Mergeable, ApplyMerge(by, i)
    PROVE  /\ merged' \in MergeRecord
           /\ baseTip' \in Nat
           /\ pull' \in ViewFacts
<1>1. tip \in Heads
  BY DEF TypeOK, Mergeable
<1>2. baseTip \in Nat /\ pull \in ViewFacts
  BY DEF TypeOK
<1>3. merged' = [by |-> by, inv |-> i, head |-> tip, onto |-> baseTip]
  BY DEF ApplyMerge
<1>4. merged' \in MergeRecord
  BY <1>1, <1>2, <1>3 DEF MergeRecord
<1>5. pull' \in ViewFacts
  BY <1>2 DEF ApplyMerge, ViewFacts
<1> QED BY <1>2, <1>4, <1>5 DEF ApplyMerge

\* What the forge does by itself keeps the types.
LEMMA ForgeKeepsTypes ==
    ASSUME TypeOK, ForgeMoves PROVE TypeOK'
<1>1. CASE PushHead
  BY <1>1 DEF PushHead, Move, TypeOK
<1>2. CASE PushBase
  BY <1>2 DEF PushBase, Move, TypeOK
<1>3. CASE SyncPull
  <2>1. pull' \in ViewFacts
    BY <1>3 DEF SyncPull, TypeOK, ViewFacts
  <2> QED BY <1>3, <2>1 DEF SyncPull, TypeOK
<1>4. CASE ReportStatus
  <2>1. PICK h \in Heads, x \in Contexts, s \in CiStates : statuses' = [statuses EXCEPT ![h][x] = s]
    BY <1>4 DEF ReportStatus
  <2>2. [statuses[h] EXCEPT ![x] = s] \in Statuses
    BY CiAssumption DEF TypeOK, Statuses
  <2>3. statuses' \in [Heads -> Statuses]
    BY <2>1, <2>2 DEF TypeOK
  <2> QED BY <1>4, <2>3 DEF ReportStatus, Move, TypeOK
<1>5. CASE RecomputeMergeability
  <2>1. pull' \in ViewFacts
    BY <1>5 DEF RecomputeMergeability, TypeOK, ViewFacts
  <2> QED BY <1>5, <2>1 DEF RecomputeMergeability, Move, TypeOK
<1>6. CASE CloseOrReopen
  <2>1. pull' \in ViewFacts
    BY <1>6 DEF CloseOrReopen, TypeOK, ViewFacts
  <2> QED BY <1>6, <2>1 DEF CloseOrReopen, Move, TypeOK
<1>7. CASE MergeInForgeUi
  <2>1. merged' \in MergeRecord /\ baseTip' \in Nat /\ pull' \in ViewFacts
    BY <1>7, MergeKeepsTypes DEF MergeInForgeUi
  <2> QED BY <1>7, <2>1 DEF MergeInForgeUi, ApplyMerge, Move, TypeOK
<1> QED BY <1>1, <1>2, <1>3, <1>4, <1>5, <1>6, <1>7 DEF ForgeMoves

\* So does a late POST that is applied or lost.
LEMMA DeliveryKeepsTypes ==
    ASSUME TypeOK, Delivery PROVE TypeOK'
<1>1. PICK p \in posts : ApplyPost(p) \/ RefusePost(p) \/ LosePost(p)
  BY DEF Delivery
<1>2. p.by \in Clients /\ p.inv \in Nat /\ p.head \in Heads
  BY DEF TypeOK
<1>3. CASE ApplyPost(p)
  <2>1. merged' \in MergeRecord /\ baseTip' \in Nat /\ pull' \in ViewFacts
    BY <1>2, <1>3, MergeKeepsTypes DEF ApplyPost
  <2> QED BY <1>3, <2>1 DEF ApplyPost, ApplyMerge, Answer, TypeOK
<1>4. CASE RefusePost(p)
  BY <1>4 DEF RefusePost, Answer, TypeOK
<1>5. CASE LosePost(p)
  BY <1>5 DEF LosePost, TypeOK
<1> QED BY <1>1, <1>3, <1>4, <1>5

\* So does a decision, which blocks or goes on to the POST.
LEMMA DecideKeepsTypes ==
    ASSUME TypeOK, NEW c \in Clients, NEW forgeHead, Decide(c, forgeHead) PROVE TypeOK'
<1>1. CASE SendPost(c)
  <2>1. "tip" \in Running /\ "await" \in Running
    BY DEF Running, PcStates
  <2>2. [by |-> c, inv |-> inv[c], head |-> expected[c].head] \in [by : Clients, inv : Nat, head : Heads]
    BY <1>1, <2>1 DEF SendPost, Goto, TypeOK
  <2>3. posts' \subseteq [by : Clients, inv : Nat, head : Heads]
    BY <1>1, <2>2 DEF SendPost, TypeOK
  <2> QED BY <1>1, <2>1, <2>3, GotoKeepsPositions DEF SendPost, TypeOK
<1>2. CASE Block(c, ExecuteBlockers(view[c], checks[c], expected[c], forgeHead))
  BY <1>2, BlockersType, PacketTypes, EmitKeepsTypes DEF Block
<1> QED BY <1>1, <1>2 DEF Decide

\* So does every read before the decision.
LEMMA PreflightKeepsTypes ==
    ASSUME TypeOK, NEW c \in Clients, Preflight(c) PROVE TypeOK'
<1>0. {"view", "pull", "statuses", "plan", "tip"} \subseteq Running
  BY DEF Running, PcStates
<1>1. CASE ReadView(c)
  BY <1>0, <1>1, GotoKeepsPositions DEF ReadView, TypeOK
<1>2. CASE ReadPullForChecks(c)
  <2>1. pull.head \in Heads
    BY <1>2 DEF ReadPullForChecks, TypeOK, ViewFacts
  <2>2. [checks[c] EXCEPT !.sha = pull.head] \in CheckedFacts
    BY <2>1 DEF TypeOK, CheckedFacts
  <2>3. checks' \in [Clients -> CheckedFacts] /\ checks'[c].sha \in Heads
    BY <1>2, <2>1, <2>2 DEF ReadPullForChecks, TypeOK, CheckedFacts
  <2>4. \A d \in Clients : d # c => checks'[d] = checks[d]
    BY <1>2 DEF ReadPullForChecks, TypeOK
  <2> QED BY <1>0, <1>2, <2>3, <2>4, GotoKeepsPositions DEF ReadPullForChecks, TypeOK
<1>3. CASE ReadStatuses(c)
  <2>1. PICK seen \in SUBSET Contexts, truncated \in BOOLEAN :
            checks' = [checks EXCEPT ![c] =
                ChecksBody(@.sha, SeenStatuses(@.sha, seen), Required, truncated)]
    BY <1>3 DEF ReadStatuses
  <2>2. checks[c].sha \in Heads
    BY <1>3 DEF ReadStatuses, Goto, TypeOK
  <2> DEFINE body == ChecksBody(checks[c].sha, SeenStatuses(checks[c].sha, seen), Required, truncated)
  <2>3. body \in CheckedFacts /\ body.sha = checks[c].sha
    BY <2>2, ChecksBodyType DEF ChecksBody
  <2> HIDE DEF body
  <2>4. checks' = [checks EXCEPT ![c] = body]
    BY <2>1 DEF body
  <2>5. checks' \in [Clients -> CheckedFacts] /\ checks'[c].sha \in Heads
        /\ \A d \in Clients : d # c => checks'[d] = checks[d]
    BY <2>2, <2>3, <2>4 DEF TypeOK
  <2>6. vetted' \subseteq Clients \X Nat \X Heads
    BY <1>3, <2>2 DEF ReadStatuses, TypeOK
  <2> QED BY <1>0, <1>3, <2>5, <2>6, GotoKeepsPositions DEF ReadStatuses, TypeOK
<1>4. CASE RereadPlan(c)
  BY <1>0, <1>4, GotoKeepsPositions DEF RereadPlan, TypeOK, Goto
<1>5. CASE ReadFails(c)
  BY <1>5, PacketTypes, EmitKeepsTypes DEF ReadFails
<1>6. CASE VerifyHead(c)
  BY <1>6, DecideKeepsTypes DEF VerifyHead
<1>7. CASE HeadUnreadable(c) \/ HeadInvalid(c)
  <2>1. \A b \in {"head_ref_unreadable", "head_ref_invalid"} : {b} \in SUBSET Blockers
    BY DEF Blockers
  <2> QED BY <1>7, <2>1, PacketTypes, EmitKeepsTypes DEF HeadUnreadable, HeadInvalid, Block
<1>8. CASE HeadMissing(c)
  <2>1. {"head_ref_missing"} \in SUBSET Blockers
    BY DEF Blockers
  <2> QED BY <1>8, <2>1, PacketTypes, EmitKeepsTypes, DecideKeepsTypes DEF HeadMissing, Block
<1> QED BY <1>1, <1>2, <1>3, <1>4, <1>5, <1>6, <1>7, <1>8 DEF Preflight

\* So does every step from the POST to the packet.
LEMMA SettleKeepsTypes ==
    ASSUME TypeOK, AnswersAreTrue, NEW c \in Clients, Settle(c) PROVE TypeOK'
<1>0. {"await", "readPull", "readBase", "reconcilePull", "reconcileBase"} \subseteq Running
  BY DEF Running, PcStates
<1>1. ASSUME NEW p \in Packets, Finish(c, p) PROVE TypeOK'
  BY <1>1, EmitKeepsTypes DEF Finish
<1>2. CASE ReceiveMerged(c)
  <2>1. merged \in MergeRecord
    BY <1>2 DEF ReceiveMerged, AnswersAreTrue, MergedBy, TypeOK
  <2>2. merged.onto + 1 \in Nat \cup {Null}
    BY <2>1 DEF MergeRecord
  <2>3. MergedPacket(merged.onto + 1, "proved") \in Packets
    BY <2>2, PacketTypes
  <2> QED BY <1>1, <1>2, <2>3 DEF ReceiveMerged
<1>3. CASE ReceiveBareOk(c)
  BY <1>0, <1>3, GotoKeepsPositions DEF ReceiveBareOk, TypeOK
<1>4. CASE ReceiveHeadMoved(c) \/ ReceiveRefused(c) \/ AnswerUnusable(c)
  <2>1. {"head_ref_moved"} \in SUBSET Blockers /\ {"merge_endpoint_failed"} \in SUBSET Blockers
    BY DEF Blockers
  <2>2. BlockedPacket({"head_ref_moved"}) \in Packets /\ BlockedPacket({"merge_endpoint_failed"}) \in Packets
    BY <2>1, PacketTypes
  <2> QED BY <1>1, <1>4, <2>2 DEF ReceiveHeadMoved, ReceiveRefused, AnswerUnusable
<1>5. CASE PostTimesOut(c)
  <2>1. NoRecon \in ReconFacts
    BY DEF NoRecon, ReconFacts
  <2> QED BY <1>0, <1>5, <2>1, GotoKeepsPositions DEF PostTimesOut, TypeOK
<1>6. CASE ReconcilePull(c)
  <2>1. [state |-> pull.state, merged |-> merged # NotMerged, base |-> pull.base] \in ReconFacts
    BY DEF ReconFacts, TypeOK, ViewFacts
  <2> QED BY <1>0, <1>6, <2>1, GotoKeepsPositions DEF ReconcilePull, TypeOK
<1>7. CASE ReconcileBase(c) \/ ReconcileFails(c)
  <2>1. \A r, t : IndeterminatePacket(r, t) \in Packets
    BY PacketTypes
  <2> QED BY <1>1, <1>7, <2>1 DEF ReconcileBase, ReconcileFails
<1>8. CASE ReadBackPull(c)
  BY <1>0, <1>8, GotoKeepsPositions DEF ReadBackPull, TypeOK
<1>9. CASE ReadBackBase(c) \/ ReadBackFails(c)
  <2>1. baseTip \in Nat
    BY DEF TypeOK
  <2>2. MergedPacket(baseTip, "proved") \in Packets /\ MergedPacket(Null, "failed") \in Packets
    BY <2>1, PacketTypes
  <2> QED BY <1>1, <1>9, <2>2 DEF ReadBackBase, ReadBackFails
<1> QED BY <1>2, <1>3, <1>4, <1>5, <1>6, <1>7, <1>8, <1>9 DEF Settle

\* So does the start of an invocation.
LEMMA InvokeKeepsTypes ==
    ASSUME TypeOK, NEW c \in Clients, Invoke(c) PROVE TypeOK'
<1>1. PICK h \in Heads, b \in 0..baseTip : expected' = [expected EXCEPT ![c] = [head |-> h, base |-> b]]
  BY DEF Invoke
<1>2. expected' \in [Clients -> [head : Heads \cup {Null}, base : Nat \cup {Null}]]
      /\ expected'[c].head \in Heads
      /\ \A d \in Clients : d # c => expected'[d] = expected[d]
  BY <1>1 DEF TypeOK
<1>3. pc' \in [Clients -> PcStates] /\ pc'[c] = "view" /\ \A d \in Clients : d # c => pc'[d] = pc[d]
  BY DEF Invoke, TypeOK, PcStates
<1>4. inv' \in [Clients -> Nat]
  BY DEF Invoke, TypeOK
<1>5. packet' \in [Clients -> Packets]
  BY PacketTypes DEF Invoke, TypeOK
<1> QED BY <1>2, <1>3, <1>4, <1>5 DEF Invoke, TypeOK

\* Every step keeps the types.
LEMMA NextKeepsTypes ==
    ASSUME TypeOK, AnswersAreTrue, [Next]_vars PROVE TypeOK'
<1>1. ASSUME NEW c \in Clients, Reject(c) PROVE TypeOK'
  BY <1>1, PacketTypes, EmitKeepsTypes DEF Reject
<1>2. CASE UNCHANGED vars
  BY <1>2 DEF vars, TypeOK
<1> QED BY <1>1, <1>2, ForgeKeepsTypes, DeliveryKeepsTypes, InvokeKeepsTypes,
           PreflightKeepsTypes, SettleKeepsTypes DEF Next, Proceed
-----------------------------------------------------------------------------
(* The initial states satisfy the invariant.                                *)
LEMMA InitIInv == Init => IInv
<1> SUFFICES ASSUME Init PROVE IInv
  OBVIOUS
<1>1. TypeOK
  <2>1. NoView \in ViewFacts /\ NoRecon \in ReconFacts
    BY DEF NoView, ViewFacts, HeadRefs, Mergeabilities, NoRecon, ReconFacts
  <2>2. NoChecks \in CheckedFacts
    BY DEF NoChecks, CheckedFacts, ChecksBody, Present
  <2>3. pull \in ViewFacts
    BY DEF Init, ViewFacts, Mergeabilities
  <2>4. statuses \in [Heads -> Statuses]
    <3>1. \A s \in {Absent, "success"} : [x \in Contexts |-> s] \in [Contexts -> RawStates \cup {Absent}]
      BY DEF RawStates
    <3> QED BY <3>1 DEF Init, Statuses
  <2>5. packet \in [Clients -> Packets]
    BY PacketTypes DEF Init
  <2>6. "idle" \in PcStates /\ "idle" \notin Running /\ "idle" \notin {"statuses", "plan", "tip"}
    BY DEF PcStates, Running
  <2> QED BY <2>1, <2>2, <2>3, <2>4, <2>5, <2>6 DEF Init, TypeOK
<1>2. PassingChecksAreVetted /\ PostsAreVetted /\ MergedHeadWasVetted /\ PostsAreCurrent /\ MergeIsFinal
  BY DEF Init, PassingChecksAreVetted, PostsAreVetted, MergedHeadWasVetted, PostsAreCurrent, MergeIsFinal
<1>3. AnswersAreTrue
  BY DEF Init, AnswersAreTrue, Preflighting
<1>4. MergedPacketIsTrue /\ NamedBlockHasNoEffect /\ NothingPrintedYet
  BY DEF Init, MergedPacketIsTrue, NamedBlockHasNoEffect, NothingPrintedYet, Blank
<1> QED BY <1>1, <1>2, <1>3, <1>4 DEF IInv

(* Steps of the forge that merge nothing, do not reopen a merged pull and   *)
(* never take commits off the target branch leave the invariant alone.      *)
LEMMA EnvironmentKeepsIInv ==
    ASSUME IInv, TypeOK', UNCHANGED <<merged, posts, reply, local, vetted>>,
           baseTip' >= baseTip, merged # NotMerged => pull'.state = pull.state
    PROVE  IInv'
<1>1. merged # NotMerged => baseTip' > merged.onto
  BY DEF IInv, MergeIsFinal, TypeOK, MergeRecord
<1>2. MergeIsFinal'
  BY <1>1 DEF IInv, MergeIsFinal, Outstanding
<1>3. PassingChecksAreVetted' /\ PostsAreVetted' /\ MergedHeadWasVetted' /\ PostsAreCurrent'
  BY DEF IInv, PassingChecksAreVetted, PostsAreVetted, MergedHeadWasVetted, PostsAreCurrent
<1>4. AnswersAreTrue' /\ MergedPacketIsTrue' /\ NamedBlockHasNoEffect' /\ NothingPrintedYet'
  BY DEF IInv, AnswersAreTrue, MergedPacketIsTrue, NamedBlockHasNoEffect, NothingPrintedYet,
         MergedBy, Outstanding
<1> QED BY <1>2, <1>3, <1>4 DEF IInv

(* Steps of one client that send nothing and start nothing: what they print *)
(* must be true, and they only move forward.                                *)
LEMMA QuietStepKeepsIInv ==
    ASSUME IInv, TypeOK', NEW c \in Clients,
           UNCHANGED <<forge, network, inv, expected>>,
           vetted \subseteq vetted',
           \A d \in Clients : d # c => /\ pc'[d] = pc[d]
                                      /\ checks'[d] = checks[d]
                                      /\ packet'[d] = packet[d],
           pc'[c] # "idle",
           pc'[c] \in Preflighting => pc[c] \in Preflighting /\ packet'[c] = packet[c],
           pc'[c] \in {"readPull", "readBase"} => MergedBy(c),
           (pc'[c] \in {"plan", "tip"} /\ CheckBlockers(checks'[c], Policy) = {}) =>
               <<c, inv[c], checks'[c].sha>> \in vetted',
           packet'[c].type = "cr_merged" =>
               /\ MergedBy(c)
               /\ packet'[c].base # Null => packet'[c].base > merged.onto,
           (/\ packet'[c].type = "cr_merge_blocked"
            /\ packet'[c].blockers # {"merge_endpoint_failed"}) => ~MergedBy(c) /\ ~Outstanding(c)
    PROVE  IInv'
<1>1. PassingChecksAreVetted'
  BY DEF IInv, PassingChecksAreVetted
<1>2. PostsAreVetted' /\ MergedHeadWasVetted'
  BY DEF IInv, PostsAreVetted, MergedHeadWasVetted
<1>3. PostsAreCurrent'
  <2> SUFFICES ASSUME NEW p \in posts, p.inv = inv[p.by]
               PROVE  pc'[p.by] \notin Preflighting \cup {"idle"}
    BY DEF IInv, PostsAreCurrent
  <2>1. p.by \in Clients
    BY DEF IInv, TypeOK
  <2>2. pc[p.by] \notin Preflighting \cup {"idle"}
    BY DEF IInv, PostsAreCurrent
  <2> QED BY <2>1, <2>2
<1>4. MergeIsFinal'
  BY DEF IInv, MergeIsFinal, Outstanding
<1>5. AnswersAreTrue'
  BY DEF IInv, AnswersAreTrue, MergedBy, Outstanding
<1>6. MergedPacketIsTrue'
  <2>1. MergedBy(c) => merged.head = expected[c].head
    BY DEF IInv, MergeIsFinal, MergedBy
  <2> QED BY <2>1 DEF IInv, MergedPacketIsTrue, MergedBy
<1>7. NamedBlockHasNoEffect'
  BY DEF IInv, NamedBlockHasNoEffect, MergedBy, Outstanding
<1>8. NothingPrintedYet'
  BY DEF IInv, NothingPrintedYet
<1> QED BY <1>1, <1>2, <1>3, <1>4, <1>5, <1>6, <1>7, <1>8 DEF IInv

(* Printing a packet that is true keeps the invariant.                      *)
LEMMA EmitKeepsIInv ==
    ASSUME IInv, TypeOK', NEW c \in Clients, NEW from, NEW p, Emit(c, from, p),
           UNCHANGED <<forge, network, inv, expected, vetted>>,
           p.type = "cr_merged" => MergedBy(c) /\ (p.base # Null => p.base > merged.onto),
           (p.type = "cr_merge_blocked" /\ p.blockers # {"merge_endpoint_failed"}) =>
               ~MergedBy(c) /\ ~Outstanding(c)
    PROVE  IInv'
<1>1. pc'[c] = "done" /\ packet'[c] = p
      /\ \A d \in Clients : d # c => /\ pc'[d] = pc[d]
                                    /\ checks'[d] = checks[d]
                                    /\ packet'[d] = packet[d]
  BY DEF Emit, Goto, IInv, TypeOK
<1>2. "done" \notin Preflighting /\ "done" \notin {"readPull", "readBase"} /\ "done" \notin {"plan", "tip"}
  BY DEF Preflighting
<1> QED BY <1>1, <1>2, QuietStepKeepsIInv

(* An invocation that has not posted yet has had no effect.                 *)
LEMMA NoEffectBeforePost ==
    ASSUME IInv, NEW c \in Clients, pc[c] \in Preflighting
    PROVE  ~MergedBy(c) /\ ~Outstanding(c)
BY DEF IInv, MergeIsFinal, PostsAreCurrent, MergedBy, Outstanding

(* No blockers against a forge head: the checks were those of that head.    *)
LEMMA UnblockedIsPinned ==
    ASSUME NEW v, NEW ck, NEW exp, NEW forgeHead,
           ExecuteBlockers(v, ck, exp, forgeHead) = {}
    PROVE  /\ CheckBlockers(ck, Policy) = {}
           /\ v.state = "open"
           /\ forgeHead # Null => ck.sha = exp.head
<1>1. /\ ShaBlockers(v, ck, exp, forgeHead) = {}
      /\ ViewBlockers(v) = {} /\ CheckBlockers(ck, Policy) = {}
  BY DEF ExecuteBlockers, MergeBlockers
<1>2. v.state = "open"
  BY <1>1 DEF ViewBlockers, When
<1>3. ASSUME forgeHead # Null PROVE ck.sha = forgeHead /\ forgeHead = exp.head
  BY <1>1, <1>3 DEF ShaBlockers, When
<1> QED BY <1>1, <1>2, <1>3

\* The POST and every outcome of it keep the inductive invariant: it merges
\* the pinned, vetted head or nothing.
LEMMA SendPostKeepsIInv ==
    ASSUME IInv, TypeOK', NEW c \in Clients, SendPost(c),
           <<c, inv[c], expected[c].head>> \in vetted
    PROVE  IInv'
<1>1. pc[c] = "tip" /\ pc'[c] = "await" /\ \A d \in Clients : d # c => pc'[d] = pc[d]
  BY DEF SendPost, Goto, IInv, TypeOK
<1>2. "tip" \in Preflighting /\ "await" \notin Preflighting
  BY DEF Preflighting
<1> DEFINE new == [by |-> c, inv |-> inv[c], head |-> expected[c].head]
<1>3. posts' = posts \cup {new} /\ new.by = c /\ new.inv = inv[c] /\ new.head = expected[c].head
  BY DEF SendPost
<1> HIDE DEF new
<1>4. UNCHANGED <<forge, reply, inv, expected, view, checks, recon, packet, vetted>>
  BY DEF SendPost
<1>5. ~MergedBy(c) /\ ~Outstanding(c)
  BY <1>1, <1>2, NoEffectBeforePost
<1>6. \A d \in Clients : d # c => (Outstanding(d)' <=> Outstanding(d))
  BY <1>3, <1>4 DEF Outstanding
<1>7. PassingChecksAreVetted'
  BY <1>1, <1>4 DEF IInv, PassingChecksAreVetted
<1>8. PostsAreVetted' /\ MergedHeadWasVetted'
  BY <1>3, <1>4 DEF IInv, PostsAreVetted, MergedHeadWasVetted
<1>9. PostsAreCurrent'
  <2> SUFFICES ASSUME NEW p \in posts'
               PROVE  /\ p.inv <= inv[p.by]
                      /\ p.inv = inv[p.by] => /\ p.head = expected[p.by].head
                                             /\ pc'[p.by] \notin Preflighting \cup {"idle"}
    BY <1>4 DEF PostsAreCurrent
  <2>1. CASE p = new
    BY <2>1, <1>1, <1>2, <1>3 DEF IInv, TypeOK
  <2>2. CASE p \in posts
    <3>1. p.by \in Clients
      BY <2>2 DEF IInv, TypeOK
    <3> QED BY <2>2, <3>1, <1>1, <1>2 DEF IInv, PostsAreCurrent
  <2> QED BY <2>1, <2>2, <1>3
<1>10. MergeIsFinal'
  <2>1. merged # NotMerged /\ merged.by = c => merged.inv # inv[c]
    BY <1>5 DEF MergedBy
  <2> QED BY <2>1, <1>1, <1>2, <1>4, <1>6 DEF IInv, MergeIsFinal
<1>11. AnswersAreTrue'
  BY <1>1, <1>2, <1>4, <1>6 DEF IInv, AnswersAreTrue, MergedBy
<1>12. MergedPacketIsTrue'
  BY <1>4 DEF IInv, MergedPacketIsTrue, MergedBy
<1>13. NamedBlockHasNoEffect'
  <2>1. packet[c].type = "none"
    BY <1>1, <1>2 DEF IInv, NothingPrintedYet
  <2> QED BY <2>1, <1>4, <1>6 DEF IInv, NamedBlockHasNoEffect, MergedBy
<1>14. NothingPrintedYet'
  BY <1>1, <1>2, <1>4 DEF IInv, NothingPrintedYet
<1> QED BY <1>7, <1>8, <1>9, <1>10, <1>11, <1>12, <1>13, <1>14 DEF IInv

\* A decision keeps it: who goes on to the POST has a vetted head.
LEMMA DecideKeepsIInv ==
    ASSUME IInv, TypeOK', NEW c \in Clients, NEW forgeHead, Decide(c, forgeHead),
           pc[c] = "tip", forgeHead = Null => view[c].state # "open"
    PROVE  IInv'
<1>1. ~MergedBy(c) /\ ~Outstanding(c)
  BY NoEffectBeforePost DEF Preflighting
<1> DEFINE bs == ExecuteBlockers(view[c], checks[c], expected[c], forgeHead)
<1>2. CASE bs = {}
  <2>1. CheckBlockers(checks[c], Policy) = {} /\ checks[c].sha = expected[c].head
    BY <1>2, UnblockedIsPinned
  <2>2. <<c, inv[c], expected[c].head>> \in vetted
    BY <2>1 DEF IInv, PassingChecksAreVetted
  <2> QED BY <1>2, <2>2, SendPostKeepsIInv DEF Decide
<1>3. CASE bs # {}
  <2>1. Block(c, bs)
    BY <1>3 DEF Decide
  <2> HIDE DEF bs
  <2>2. BlockedPacket(bs).type = "cr_merge_blocked"
    BY DEF BlockedPacket, Blank
  <2> QED BY <1>1, <2>1, <2>2, EmitKeepsIInv DEF Block
<1> QED BY <1>2, <1>3

\* The reads before the decision keep it.
LEMMA PreflightKeepsIInv ==
    ASSUME IInv, TypeOK', NEW c \in Clients, Preflight(c) PROVE IInv'
<1>0. {"view", "pull", "statuses", "plan", "tip"} = Preflighting
  BY DEF Preflighting
<1>1. pc[c] \in Preflighting => packet[c].type = "none"
  BY DEF IInv, NothingPrintedYet
<1>2. ASSUME NEW from \in Preflighting, NEW to \in Preflighting, Goto(c, from, to),
             UNCHANGED <<forge, network, inv, expected, packet>>, vetted \subseteq vetted',
             \A d \in Clients : d # c => checks'[d] = checks[d],
             (to \in {"plan", "tip"} /\ CheckBlockers(checks'[c], Policy) = {}) =>
                 <<c, inv[c], checks'[c].sha>> \in vetted'
      PROVE  IInv'
  <2>1. pc'[c] = to /\ pc[c] = from /\ \A d \in Clients : d # c => pc'[d] = pc[d]
    BY <1>2 DEF Goto, IInv, TypeOK
  <2>2. packet'[c].type = "none"
    BY <1>1, <1>2, <2>1
  <2>3. to \notin {"readPull", "readBase"} /\ to # "idle"
    BY <1>0
  <2> QED BY <1>2, <2>1, <2>2, <2>3, QuietStepKeepsIInv
<1>3. CASE ReadView(c)
  BY <1>0, <1>2, <1>3 DEF ReadView
<1>4. CASE ReadPullForChecks(c)
  <2>1. \A d \in Clients : d # c => checks'[d] = checks[d]
    BY <1>4 DEF ReadPullForChecks, IInv, TypeOK
  <2> QED BY <1>0, <1>2, <1>4, <2>1 DEF ReadPullForChecks
<1>5. CASE ReadStatuses(c)
  <2>1. PICK seen \in SUBSET Contexts, truncated \in BOOLEAN :
            /\ seen # Contexts => truncated
            /\ checks' = [checks EXCEPT ![c] =
                   ChecksBody(@.sha, SeenStatuses(@.sha, seen), Required, truncated)]
    BY <1>5 DEF ReadStatuses
  <2> DEFINE h == checks[c].sha
             body == ChecksBody(h, SeenStatuses(h, seen), Required, truncated)
  <2>2. h \in Heads
    BY <1>5 DEF ReadStatuses, Goto, IInv, TypeOK
  <2>3. CheckBlockers(body, Policy) = {} => Acceptable(h)
    BY <2>1, <2>2, PassingChecksAreAcceptable DEF IInv, TypeOK
  <2>4. body.sha = h
    BY DEF ChecksBody
  <2> HIDE DEF body
  <2>5. checks'[c] = body /\ \A d \in Clients : d # c => checks'[d] = checks[d]
    BY <2>1 DEF IInv, TypeOK, body
  <2>6. Acceptable(h) => <<c, inv[c], h>> \in vetted'
    BY <1>5 DEF ReadStatuses
  <2>7. vetted \subseteq vetted'
    BY <1>5 DEF ReadStatuses
  <2> QED BY <1>0, <1>2, <1>5, <2>3, <2>4, <2>5, <2>6, <2>7 DEF ReadStatuses
<1>6. CASE RereadPlan(c)
  <2>1. CheckBlockers(checks[c], Policy) = {} => <<c, inv[c], checks[c].sha>> \in vetted
    BY <1>6 DEF RereadPlan, Goto, IInv, PassingChecksAreVetted
  <2> QED BY <1>0, <1>2, <1>6, <2>1 DEF RereadPlan
<1>7. CASE ReadFails(c)
  <2>1. ErrorPacket.type = "error"
    BY DEF ErrorPacket, Blank
  <2> QED BY <1>7, <2>1, EmitKeepsIInv DEF ReadFails
<1>8. CASE VerifyHead(c)
  BY <1>8, DecideKeepsIInv DEF VerifyHead
<1>9. CASE HeadUnreadable(c) \/ HeadInvalid(c) \/ HeadMissing(c)
  <2>1. CASE pc[c] = "tip"
    <3>1. ~MergedBy(c) /\ ~Outstanding(c)
      BY <1>0, <2>1, NoEffectBeforePost
    <3>2. ASSUME NEW bs, Block(c, bs) PROVE IInv'
      <4>1. BlockedPacket(bs).type = "cr_merge_blocked"
        BY DEF BlockedPacket, Blank
      <4> QED BY <3>1, <3>2, <4>1, EmitKeepsIInv DEF Block
    <3>3. CASE HeadUnreadable(c) \/ HeadInvalid(c)
      BY <3>2, <3>3 DEF HeadUnreadable, HeadInvalid
    <3>4. CASE HeadMissing(c)
      BY <2>1, <3>2, <3>4, DecideKeepsIInv DEF HeadMissing
    <3> QED BY <1>9, <3>3, <3>4
  <2> QED BY <1>9, <2>1 DEF HeadUnreadable, HeadInvalid, HeadMissing, Block, Emit, Goto
<1> QED BY <1>3, <1>4, <1>5, <1>6, <1>7, <1>8, <1>9 DEF Preflight

\* Reconciliation and read-back keep it: a merged packet follows the
\* client's own merge.
LEMMA SettleKeepsIInv ==
    ASSUME IInv, TypeOK', NEW c \in Clients, Settle(c) PROVE IInv'
<1>1. ASSUME NEW p, Finish(c, p),
             p.type = "cr_merged" => MergedBy(c) /\ (p.base # Null => p.base > merged.onto),
             (p.type = "cr_merge_blocked" /\ p.blockers # {"merge_endpoint_failed"}) =>
                 ~MergedBy(c) /\ ~Outstanding(c)
      PROVE  IInv'
  BY <1>1, EmitKeepsIInv DEF Finish
<1>2. ASSUME NEW from, NEW to \in {"readPull", "readBase", "reconcilePull", "reconcileBase"},
             Goto(c, from, to), UNCHANGED <<forge, network, inv, expected, checks, packet, vetted>>,
             to \in {"readPull", "readBase"} => MergedBy(c)
      PROVE  IInv'
  <2>1. pc'[c] = to /\ \A d \in Clients : d # c => pc'[d] = pc[d]
    BY <1>2 DEF Goto, IInv, TypeOK
  <2>2. to \notin Preflighting /\ to \notin {"plan", "tip"} /\ to # "idle"
    BY DEF Preflighting
  <2>3. packet'[c].type = "cr_merged" =>
            MergedBy(c) /\ (packet'[c].base # Null => packet'[c].base > merged.onto)
    BY <1>2 DEF IInv, MergedPacketIsTrue
  <2>4. (packet'[c].type = "cr_merge_blocked" /\ packet'[c].blockers # {"merge_endpoint_failed"}) =>
            ~MergedBy(c) /\ ~Outstanding(c)
    BY <1>2 DEF IInv, NamedBlockHasNoEffect
  <2> QED BY <1>2, <2>1, <2>2, <2>3, <2>4, QuietStepKeepsIInv
<1>3. \A b, r : MergedPacket(b, r).type = "cr_merged" /\ MergedPacket(b, r).base = b
  BY DEF MergedPacket, Blank
<1>4. \A bs : BlockedPacket(bs).type = "cr_merge_blocked" /\ BlockedPacket(bs).blockers = bs
  BY DEF BlockedPacket, Blank
<1>5. \A r, t : IndeterminatePacket(r, t).type = "cr_merge_indeterminate"
  BY DEF IndeterminatePacket, Blank
<1>6. MergedBy(c) => merged.onto \in Nat /\ baseTip > merged.onto
  BY DEF IInv, TypeOK, MergeIsFinal, MergedBy, MergeRecord
<1>7. CASE ReceiveMerged(c)
  <2>1. MergedBy(c)
    BY <1>7 DEF ReceiveMerged, IInv, AnswersAreTrue
  <2>2. merged.onto + 1 > merged.onto
    BY <1>6, <2>1
  <2> QED BY <1>1, <1>3, <1>7, <2>1, <2>2 DEF ReceiveMerged
<1>8. CASE ReceiveBareOk(c)
  BY <1>2, <1>8 DEF ReceiveBareOk, IInv, AnswersAreTrue
<1>9. CASE ReceiveHeadMoved(c)
  <2>1. ~MergedBy(c) /\ ~Outstanding(c)
    BY <1>9 DEF ReceiveHeadMoved, IInv, AnswersAreTrue
  <2> QED BY <1>1, <1>4, <1>9, <2>1 DEF ReceiveHeadMoved
<1>10. CASE ReceiveRefused(c) \/ AnswerUnusable(c)
  BY <1>1, <1>4, <1>10 DEF ReceiveRefused, AnswerUnusable
<1>11. CASE PostTimesOut(c) \/ ReconcilePull(c)
  BY <1>2, <1>11 DEF PostTimesOut, ReconcilePull
<1>12. CASE ReconcileBase(c) \/ ReconcileFails(c)
  BY <1>1, <1>5, <1>12 DEF ReconcileBase, ReconcileFails
<1>13. CASE ReadBackPull(c)
  BY <1>2, <1>13 DEF ReadBackPull, Goto, IInv, AnswersAreTrue
<1>14. CASE ReadBackBase(c) \/ ReadBackFails(c)
  <2>1. MergedBy(c)
    BY <1>14 DEF ReadBackBase, ReadBackFails, IInv, AnswersAreTrue
  <2> QED BY <1>1, <1>3, <1>6, <1>14, <2>1 DEF ReadBackBase, ReadBackFails
<1> QED BY <1>7, <1>8, <1>9, <1>10, <1>11, <1>12, <1>13, <1>14 DEF Settle

\* The start of an invocation keeps it.
LEMMA InvokeKeepsIInv ==
    ASSUME IInv, TypeOK', NEW c \in Clients, Invoke(c) PROVE IInv'
<1>1. /\ pc'[c] = "view" /\ inv'[c] = inv[c] + 1 /\ reply'[c] = "none" /\ packet'[c] = Blank
      /\ \A d \in Clients : d # c => /\ pc'[d] = pc[d] /\ inv'[d] = inv[d]
                                    /\ expected'[d] = expected[d]
                                    /\ reply'[d] = reply[d] /\ packet'[d] = packet[d]
  BY DEF Invoke, IInv, TypeOK
<1>2. UNCHANGED <<forge, posts, checks, vetted>>
  BY DEF Invoke
<1>3. \A d \in Clients : inv[d] \in Nat
  BY DEF IInv, TypeOK
<1>4. \A p \in posts : p.by \in Clients /\ p.inv \in Nat /\ p.inv <= inv[p.by]
  BY DEF IInv, TypeOK, PostsAreCurrent
<1>5. \A d \in Clients : d # c => (Outstanding(d)' <=> Outstanding(d)) /\ (MergedBy(d)' <=> MergedBy(d))
  BY <1>1, <1>2 DEF Outstanding, MergedBy
<1>6. PassingChecksAreVetted'
  BY <1>1, <1>2 DEF IInv, PassingChecksAreVetted
<1>7. PostsAreVetted' /\ MergedHeadWasVetted'
  BY <1>2 DEF IInv, PostsAreVetted, MergedHeadWasVetted
<1>8. PostsAreCurrent'
  <2> SUFFICES ASSUME NEW p \in posts
               PROVE  /\ p.inv <= inv'[p.by]
                      /\ p.inv = inv'[p.by] => /\ p.head = expected'[p.by].head
                                              /\ pc'[p.by] \notin Preflighting \cup {"idle"}
    BY <1>2 DEF PostsAreCurrent
  <2>1. CASE p.by = c
    BY <2>1, <1>1, <1>3, <1>4
  <2>2. CASE p.by # c
    BY <2>2, <1>1, <1>4 DEF IInv, PostsAreCurrent
  <2> QED BY <2>1, <2>2
<1>9. MergeIsFinal'
  <2> SUFFICES ASSUME merged # NotMerged, NEW d \in Clients, merged.by = d
               PROVE  /\ merged.inv <= inv'[d]
                      /\ merged.inv = inv'[d] => /\ merged.head = expected'[d].head
                                                /\ pc'[d] \notin Preflighting \cup {"idle"}
                                                /\ ~Outstanding(d)'
    BY <1>2 DEF IInv, MergeIsFinal
  <2>1. merged.inv \in Nat /\ merged.inv <= inv[d]
    BY DEF IInv, TypeOK, MergeRecord, MergeIsFinal
  <2>2. CASE d = c
    BY <2>1, <2>2, <1>1, <1>3
  <2>3. CASE d # c
    BY <2>3, <1>1, <1>5 DEF IInv, MergeIsFinal
  <2> QED BY <2>2, <2>3
<1>10. AnswersAreTrue'
  BY <1>1, <1>5 DEF IInv, AnswersAreTrue
<1>11. MergedPacketIsTrue' /\ NamedBlockHasNoEffect' /\ NothingPrintedYet'
  <2>1. Blank.type = "none"
    BY DEF Blank
  <2> QED BY <2>1, <1>1, <1>2, <1>5 DEF IInv, MergedPacketIsTrue, NamedBlockHasNoEffect, NothingPrintedYet
<1> QED BY <1>6, <1>7, <1>8, <1>9, <1>10, <1>11 DEF IInv

(* An open pull has not been merged.                                        *)
LEMMA MergeableIsUnmerged ==
    ASSUME IInv, Mergeable PROVE merged = NotMerged /\ (\A c \in Clients : ~MergedBy(c))
BY DEF IInv, MergeIsFinal, Mergeable, MergedBy

(* The current invocation of a client has at most one POST in flight.       *)
LEMMA PostIsUnique ==
    ASSUME IInv, NEW p \in posts, NEW q \in posts, p.by = q.by, p.inv = q.inv, p.inv = inv[p.by]
    PROVE  p = q
<1>1. p.head = q.head
  BY DEF IInv, PostsAreCurrent
<1>2. p \in [by : Clients, inv : Nat, head : Heads] /\ q \in [by : Clients, inv : Nat, head : Heads]
  BY DEF IInv, TypeOK
<1>3. /\ p = [by |-> p.by, inv |-> p.inv, head |-> p.head]
      /\ q = [by |-> q.by, inv |-> q.inv, head |-> q.head]
  BY <1>2
<1> QED BY <1>1, <1>3

\* A late POST that the forge serves at last keeps it.
LEMMA ApplyPostKeepsIInv ==
    ASSUME IInv, TypeOK', NEW p \in posts, ApplyPost(p) PROVE IInv'
<1>1. p.by \in Clients /\ p.inv \in Nat /\ p.head \in Heads /\ p.by # Other
  BY OtherAssumption DEF IInv, TypeOK
<1>2. merged = NotMerged /\ \A c \in Clients : ~MergedBy(c)
  BY MergeableIsUnmerged DEF ApplyPost
<1>3. /\ merged'.by = p.by /\ merged'.inv = p.inv /\ merged'.head = p.head
      /\ merged'.onto = baseTip /\ merged' # NotMerged
      /\ baseTip' = baseTip + 1 /\ pull'.state = "closed"
  <2>1. merged' = [by |-> p.by, inv |-> p.inv, head |-> tip, onto |-> baseTip]
    BY DEF ApplyPost, ApplyMerge
  <2>2. merged'.by \in Clients
    BY <1>1, <2>1
  <2>3. Null \notin Clients
    BY NullAssumption
  <2> QED BY <2>1, <2>2, <2>3 DEF ApplyPost, ApplyMerge, NotMerged, IInv, TypeOK, ViewFacts
<1>4. UNCHANGED <<local, vetted>> /\ posts' = posts \ {p}
  BY DEF ApplyPost
<1>5. \A c \in Clients : Outstanding(c)' => Outstanding(c)
  BY <1>4 DEF Outstanding
<1>6. p.inv = inv[p.by] => Outstanding(p.by) /\ ~Outstanding(p.by)'
  BY <1>4, PostIsUnique DEF Outstanding
<1>7. \A c \in Clients : MergedBy(c)' => c = p.by /\ p.inv = inv[c] /\ Outstanding(c)
  BY <1>3, <1>4, <1>6 DEF MergedBy
<1>8. PassingChecksAreVetted' /\ PostsAreVetted' /\ PostsAreCurrent' /\ NothingPrintedYet'
  BY <1>4 DEF IInv, PassingChecksAreVetted, PostsAreVetted, PostsAreCurrent, NothingPrintedYet
<1>9. MergedHeadWasVetted'
  BY <1>3, <1>4 DEF IInv, PostsAreVetted, MergedHeadWasVetted
<1>10. MergeIsFinal'
  <2>1. baseTip + 1 > baseTip
    BY DEF IInv, TypeOK
  <2>2. /\ p.inv <= inv[p.by]
        /\ p.inv = inv[p.by] => /\ p.head = expected[p.by].head
                               /\ pc[p.by] \notin Preflighting \cup {"idle"}
    BY DEF IInv, PostsAreCurrent
  <2> QED BY <2>1, <2>2, <1>3, <1>4, <1>6 DEF MergeIsFinal
<1>11. AnswersAreTrue'
  <2> SUFFICES ASSUME NEW c \in Clients
               PROVE  /\ reply'[c] = "ok" => MergedBy(c)'
                      /\ reply'[c] = "headMoved" => ~MergedBy(c)' /\ ~Outstanding(c)'
                      /\ pc[c] \in Preflighting \cup {"idle"} => reply'[c] = "none"
                      /\ pc[c] \in {"readPull", "readBase"} => MergedBy(c)'
    BY <1>4 DEF AnswersAreTrue
  <2>1. \/ reply'[c] = reply[c]
        \/ c = p.by /\ inv[c] = p.inv /\ pc[c] = "await" /\ reply'[c] = "ok"
    BY DEF ApplyPost, Answer, IInv, TypeOK
  <2>2. CASE reply'[c] = reply[c]
    BY <2>2, <1>2, <1>5, <1>7 DEF IInv, AnswersAreTrue
  <2>3. CASE c = p.by /\ inv[c] = p.inv /\ pc[c] = "await" /\ reply'[c] = "ok"
    <3>1. MergedBy(c)'
      BY <2>3, <1>3, <1>4 DEF MergedBy
    <3>2. pc[c] \notin Preflighting \cup {"idle"}
      BY <2>3 DEF Preflighting
    <3> QED BY <2>3, <3>1, <3>2
  <2> QED BY <2>1, <2>2, <2>3
<1>12. MergedPacketIsTrue' /\ NamedBlockHasNoEffect'
  BY <1>2, <1>4, <1>5, <1>7 DEF IInv, MergedPacketIsTrue, NamedBlockHasNoEffect
<1> QED BY <1>8, <1>9, <1>10, <1>11, <1>12 DEF IInv

(* A POST the forge refuses or never sees.                                  *)
LEMMA DropPostKeepsIInv ==
    ASSUME IInv, TypeOK', NEW p \in posts, RefusePost(p) \/ LosePost(p) PROVE IInv'
<1>1. UNCHANGED <<forge, local, vetted>> /\ posts' = posts \ {p}
  BY DEF RefusePost, LosePost
<1>2. p.by \in Clients
  BY DEF IInv, TypeOK
<1>3. \A c \in Clients : (MergedBy(c)' <=> MergedBy(c)) /\ (Outstanding(c)' => Outstanding(c))
  BY <1>1 DEF MergedBy, Outstanding
<1>4. \A c \in Clients :
          \/ reply'[c] = reply[c]
          \/ /\ c = p.by /\ inv[c] = p.inv /\ pc[c] = "await"
             /\ reply'[c] \in {"headMoved", "refused"}
  BY DEF RefusePost, LosePost, Answer, IInv, TypeOK
<1>5. p.inv = inv[p.by] => ~Outstanding(p.by)' /\ ~MergedBy(p.by)
  <2>1. p.inv = inv[p.by] => Outstanding(p.by) /\ ~Outstanding(p.by)'
    BY <1>1, PostIsUnique DEF Outstanding
  <2> QED BY <1>2, <2>1 DEF IInv, MergeIsFinal, MergedBy
<1>6. PassingChecksAreVetted' /\ PostsAreVetted' /\ PostsAreCurrent' /\ NothingPrintedYet'
  BY <1>1 DEF IInv, PassingChecksAreVetted, PostsAreVetted, PostsAreCurrent, NothingPrintedYet
<1>7. MergedHeadWasVetted'
  BY <1>1 DEF IInv, MergedHeadWasVetted
<1>8. MergeIsFinal'
  BY <1>1, <1>3 DEF IInv, MergeIsFinal
<1>9. AnswersAreTrue'
  <2> SUFFICES ASSUME NEW c \in Clients
               PROVE  /\ reply'[c] = "ok" => MergedBy(c)
                      /\ reply'[c] = "headMoved" => ~MergedBy(c) /\ ~Outstanding(c)'
                      /\ pc[c] \in Preflighting \cup {"idle"} => reply'[c] = "none"
                      /\ pc[c] \in {"readPull", "readBase"} => MergedBy(c)
    BY <1>1, <1>3 DEF AnswersAreTrue
  <2>1. CASE reply'[c] = reply[c]
    BY <2>1, <1>3 DEF IInv, AnswersAreTrue
  <2>2. CASE /\ c = p.by /\ inv[c] = p.inv /\ pc[c] = "await"
             /\ reply'[c] \in {"headMoved", "refused"}
    BY <2>2, <1>5 DEF Preflighting
  <2> QED BY <1>4, <2>1, <2>2
<1>10. MergedPacketIsTrue' /\ NamedBlockHasNoEffect'
  BY <1>1, <1>3 DEF IInv, MergedPacketIsTrue, NamedBlockHasNoEffect
<1> QED BY <1>6, <1>7, <1>8, <1>9, <1>10 DEF IInv

\* Pushes, new statuses and the other moves of the forge keep it.
LEMMA ForgeKeepsIInv ==
    ASSUME IInv, TypeOK', ForgeMoves PROVE IInv'
<1>1. CASE MergeInForgeUi
  <2>1. merged = NotMerged /\ \A c \in Clients : ~MergedBy(c)
    BY <1>1, MergeableIsUnmerged DEF MergeInForgeUi
  <2>2. /\ merged'.by = Other /\ merged'.onto = baseTip /\ baseTip' = baseTip + 1
        /\ pull'.state = "closed"
    BY <1>1 DEF MergeInForgeUi, ApplyMerge, IInv, TypeOK, ViewFacts
  <2>3. UNCHANGED <<network, local, vetted>>
    BY <1>1 DEF MergeInForgeUi
  <2>4. \A c \in Clients : ~MergedBy(c)' /\ (Outstanding(c)' <=> Outstanding(c))
    BY <2>2, <2>3, OtherAssumption DEF MergedBy, Outstanding
  <2>5. PassingChecksAreVetted' /\ PostsAreVetted' /\ PostsAreCurrent' /\ NothingPrintedYet'
    BY <2>3 DEF IInv, PassingChecksAreVetted, PostsAreVetted, PostsAreCurrent, NothingPrintedYet
  <2>6. MergedHeadWasVetted'
    BY <2>2 DEF MergedHeadWasVetted
  <2>7. MergeIsFinal'
    <3>1. baseTip + 1 > baseTip
      BY DEF IInv, TypeOK
    <3> QED BY <3>1, <2>2, OtherAssumption DEF MergeIsFinal
  <2>8. AnswersAreTrue' /\ MergedPacketIsTrue' /\ NamedBlockHasNoEffect'
    BY <2>1, <2>3, <2>4 DEF IInv, AnswersAreTrue, MergedPacketIsTrue, NamedBlockHasNoEffect
  <2> QED BY <2>5, <2>6, <2>7, <2>8 DEF IInv
<1>2. CASE PushHead \/ ReportStatus
  BY <1>2, EnvironmentKeepsIInv DEF PushHead, ReportStatus, IInv, TypeOK
<1>3. CASE PushBase
  <2>1. baseTip + 1 >= baseTip
    BY DEF IInv, TypeOK
  <2> QED BY <1>3, <2>1, EnvironmentKeepsIInv DEF PushBase
<1>4. CASE SyncPull \/ RecomputeMergeability \/ CloseOrReopen
  <2>1. merged # NotMerged => pull'.state = pull.state
    BY <1>4 DEF SyncPull, RecomputeMergeability, CloseOrReopen, IInv, TypeOK, ViewFacts
  <2>2. baseTip' >= baseTip
    BY <1>4 DEF SyncPull, RecomputeMergeability, CloseOrReopen, IInv, TypeOK
  <2> QED BY <1>4, <2>1, <2>2, EnvironmentKeepsIInv DEF SyncPull, RecomputeMergeability, CloseOrReopen
<1> QED BY <1>1, <1>2, <1>3, <1>4 DEF ForgeMoves

\* Every step keeps the inductive invariant.
LEMMA NextKeepsIInv == ASSUME IInv, [Next]_vars PROVE IInv'
<1>1. TypeOK'
  BY NextKeepsTypes DEF IInv
<1>2. CASE ForgeMoves
  BY <1>1, <1>2, ForgeKeepsIInv
<1>3. CASE Delivery
  BY <1>1, <1>3, ApplyPostKeepsIInv, DropPostKeepsIInv DEF Delivery
<1>4. ASSUME NEW c \in Clients, Invoke(c) \/ Reject(c) \/ Proceed(c) PROVE IInv'
  <2>1. CASE Reject(c)
    <3>1. ErrorPacket.type = "error"
      BY DEF ErrorPacket, Blank
    <3> QED BY <1>1, <2>1, <3>1, EmitKeepsIInv DEF Reject
  <2> QED BY <1>1, <1>4, <2>1, InvokeKeepsIInv, PreflightKeepsIInv, SettleKeepsIInv DEF Proceed
<1>5. CASE UNCHANGED vars
  BY <1>1, <1>5, EnvironmentKeepsIInv DEF vars, IInv, TypeOK
<1> QED BY <1>2, <1>3, <1>4, <1>5 DEF Next
-----------------------------------------------------------------------------
(* Every behaviour of merge execute, whatever the clients, heads, contexts  *)
(* and bounds, keeps the invariant.                                         *)
THEOREM Invariant == Spec => []IInv
<1>1. IInv /\ [Next]_vars => IInv'
  BY NextKeepsIInv
<1> QED BY InitIInv, <1>1, PTL DEF Spec

(* The variables always have their types.                                   *)
THEOREM TypeCorrect == Spec => []TypeOK
<1>1. IInv => TypeOK
  BY DEF IInv
<1> QED BY Invariant, <1>1, PTL

(* A merge an invocation causes is of the head it was told to expect and    *)
(* whose checks it saw acceptable, however late the POST is processed and   *)
(* whatever the forge did in between.                                       *)
THEOREM MergesAreVetted == Spec => []MergedHeadWasVetted
<1>1. IInv => MergedHeadWasVetted
  BY DEF IInv
<1> QED BY Invariant, <1>1, PTL

(* cr_merged is only ever printed for this invocation's own merge of its    *)
(* expected head, with a base SHA that contains it.                         *)
THEOREM MergedPacketsAreTrue == Spec => []MergedPacketIsTrue
<1>1. IInv => MergedPacketIsTrue
  BY DEF IInv
<1> QED BY Invariant, <1>1, PTL

(* cr_merge_blocked for any reason but the endpoint failing means that the  *)
(* invocation merged nothing and has no POST left that could.               *)
THEOREM NamedBlocksHaveNoEffect == Spec => []NamedBlockHasNoEffect
<1>1. IInv => NamedBlockHasNoEffect
  BY DEF IInv
<1> QED BY Invariant, <1>1, PTL
-----------------------------------------------------------------------------
(* Retries.  Packets are printed at the end only, so that what was read     *)
(* back stays what the packet speaks of.                                    *)
PrintsAtEnd == \A c \in Clients : pc[c] # "done" => packet[c].type = "none"

RetryInv == IInv /\ PrintsAtEnd /\ MergedIsNeverRetrySafe

(* The three kinds of steps of an invocation: on to the next request, an    *)
(* end without ambiguity, and the end of a reconciliation.                  *)
GoesOn(c) == pc[c] # "done" /\ packet'[c] = packet[c]
EndsClearly(c) == pc'[c] = "done" /\ packet'[c].type # "cr_merge_indeterminate"
EndsReconciled(c) ==
    /\ pc'[c] = "done"
    /\ recon'[c] = recon[c]
    /\ \E target : packet'[c] = IndeterminatePacket(recon[c], target)

(* An invocation's own steps are of these kinds.                            *)
LEMMA StepsOfAnInvocation ==
    ASSUME TypeOK, NEW c \in Clients, Reject(c) \/ Proceed(c)
    PROVE  /\ GoesOn(c) \/ EndsClearly(c) \/ EndsReconciled(c)
           /\ \A d \in Clients : d # c => /\ pc'[d] = pc[d]
                                         /\ packet'[d] = packet[d]
                                         /\ recon'[d] = recon[d]
<1> DEFINE Others == \A d \in Clients : d # c => /\ pc'[d] = pc[d]
                                               /\ packet'[d] = packet[d]
                                               /\ recon'[d] = recon[d]
<1>1. ASSUME NEW from, NEW p, Emit(c, from, p), UNCHANGED recon
      PROVE  pc'[c] = "done" /\ packet'[c] = p /\ Others
  BY <1>1 DEF Emit, Goto, TypeOK
<1>2. ASSUME NEW from, NEW to, Goto(c, from, to), from # "done", UNCHANGED packet,
             \A d \in Clients : d # c => recon'[d] = recon[d]
      PROVE  GoesOn(c) /\ Others
  BY <1>2 DEF Goto, GoesOn, TypeOK
<1>3. /\ ErrorPacket.type # "cr_merge_indeterminate"
      /\ \A bs : BlockedPacket(bs).type # "cr_merge_indeterminate"
      /\ \A base, readback : MergedPacket(base, readback).type # "cr_merge_indeterminate"
  BY DEF ErrorPacket, BlockedPacket, MergedPacket, Blank
<1> DEFINE Goal == (GoesOn(c) \/ EndsClearly(c) \/ EndsReconciled(c)) /\ Others
<1>4. ASSUME NEW from, NEW p, Emit(c, from, p), UNCHANGED recon,
             p.type # "cr_merge_indeterminate"
      PROVE  Goal
  BY <1>1, <1>4 DEF EndsClearly
<1>5. CASE Reject(c) \/ ReadFails(c)
  BY <1>3, <1>4, <1>5 DEF Reject, ReadFails
<1>6. CASE ReadView(c) \/ ReadPullForChecks(c) \/ ReadStatuses(c) \/ RereadPlan(c)
  BY <1>2, <1>6 DEF ReadView, ReadPullForChecks, ReadStatuses, RereadPlan
<1>7. ASSUME NEW bs, Block(c, bs) PROVE Goal
  BY <1>3, <1>4, <1>7 DEF Block
<1>8. ASSUME NEW h, Decide(c, h) PROVE Goal
  <2>1. CASE SendPost(c)
    BY <1>2, <2>1 DEF SendPost
  <2> QED  BY <1>7, <1>8, <2>1 DEF Decide
<1>9. CASE VerifyHead(c) \/ HeadUnreadable(c) \/ HeadInvalid(c) \/ HeadMissing(c)
  <2> QED  BY <1>7, <1>8, <1>9 DEF VerifyHead, HeadUnreadable, HeadInvalid, HeadMissing
<1>10. ASSUME NEW p, Finish(c, p), p.type # "cr_merge_indeterminate" PROVE Goal
  BY <1>4, <1>10 DEF Finish
<1>11. CASE ReceiveMerged(c) \/ ReceiveHeadMoved(c) \/ ReceiveRefused(c)
            \/ AnswerUnusable(c) \/ ReadBackBase(c) \/ ReadBackFails(c)
  <2> QED  BY <1>3, <1>10, <1>11 DEF ReceiveMerged, ReceiveHeadMoved, ReceiveRefused,
              AnswerUnusable, ReadBackBase, ReadBackFails
<1>12. CASE ReceiveBareOk(c) \/ PostTimesOut(c) \/ ReconcilePull(c) \/ ReadBackPull(c)
  <2>1. \A d \in Clients : d # c => recon'[d] = recon[d]
    BY <1>12 DEF ReceiveBareOk, PostTimesOut, ReconcilePull, ReadBackPull, TypeOK
  <2> QED  BY <1>2, <1>12, <2>1 DEF ReceiveBareOk, PostTimesOut, ReconcilePull, ReadBackPull
<1>13. CASE ReconcileBase(c) \/ ReconcileFails(c)
  <2>1. PICK target : Finish(c, IndeterminatePacket(recon[c], target))
    BY <1>13 DEF ReconcileBase, ReconcileFails
  <2>2. /\ pc'[c] = "done" /\ packet'[c] = IndeterminatePacket(recon[c], target)
        /\ UNCHANGED recon /\ Others
    BY <1>1, <2>1 DEF Finish
  <2> QED  BY <2>2 DEF EndsReconciled
<1> QED  BY <1>5, <1>6, <1>9, <1>11, <1>12, <1>13 DEF Proceed, Preflight, Settle

(* A reconciliation that found the pull merged never calls a retry safe.    *)
LEMMA MergedMeansNotRetrySafe ==
    ASSUME NEW r, NEW target, r.merged = TRUE
    PROVE  IndeterminatePacket(r, target).retrySafe = FALSE
BY DEF IndeterminatePacket, Reconciliation, Blank

(* After an ambiguous POST a retry is never called safe when the pull that  *)
(* was read back was merged, however its state and base were read.          *)
THEOREM MergedIsNotRetried == Spec => []MergedIsNeverRetrySafe
<1>1. Init => RetryInv
  <2> SUFFICES ASSUME Init PROVE RetryInv
    OBVIOUS
  <2>1. IInv
    BY InitIInv
  <2>2. \A c \in Clients : packet[c].type = "none"
    BY DEF Init, Blank
  <2> QED  BY <2>1, <2>2 DEF RetryInv, PrintsAtEnd, MergedIsNeverRetrySafe
<1>2. RetryInv /\ [Next]_vars => RetryInv'
  <2> SUFFICES ASSUME RetryInv, [Next]_vars PROVE RetryInv'
    OBVIOUS
  <2>1. TypeOK /\ IInv'
    BY NextKeepsIInv DEF RetryInv, IInv
  <2>2. CASE UNCHANGED <<pc, packet, recon>>
    BY <2>1, <2>2 DEF RetryInv, PrintsAtEnd, MergedIsNeverRetrySafe
  <2>3. ASSUME NEW c \in Clients, Invoke(c) PROVE RetryInv'
    <3>1. /\ packet'[c].type = "none" /\ UNCHANGED recon
          /\ \A d \in Clients : d # c => pc'[d] = pc[d] /\ packet'[d] = packet[d]
      BY <2>1, <2>3 DEF Invoke, Blank, TypeOK
    <3> QED  BY <2>1, <3>1 DEF RetryInv, PrintsAtEnd, MergedIsNeverRetrySafe
  <2>4. ASSUME NEW c \in Clients, Reject(c) \/ Proceed(c) PROVE RetryInv'
    <3>1. /\ GoesOn(c) \/ EndsClearly(c) \/ EndsReconciled(c)
          /\ \A d \in Clients : d # c => /\ pc'[d] = pc[d]
                                        /\ packet'[d] = packet[d]
                                        /\ recon'[d] = recon[d]
      BY <2>1, <2>4, StepsOfAnInvocation
    <3>2. PrintsAtEnd'
      BY <3>1 DEF RetryInv, PrintsAtEnd, GoesOn, EndsClearly, EndsReconciled
    <3>3. (packet'[c].type = "cr_merge_indeterminate" /\ recon'[c].merged) => ~packet'[c].retrySafe
      <4>1. CASE GoesOn(c)
        BY <4>1 DEF GoesOn, RetryInv, PrintsAtEnd
      <4>2. CASE EndsClearly(c)
        BY <4>2 DEF EndsClearly
      <4>3. CASE EndsReconciled(c)
        <5>1. recon[c].merged \in BOOLEAN
          BY <2>1 DEF TypeOK, ReconFacts
        <5> QED  BY <4>3, <5>1, MergedMeansNotRetrySafe DEF EndsReconciled
      <4> QED  BY <3>1, <4>1, <4>2, <4>3
    <3>4. MergedIsNeverRetrySafe'
      BY <3>1, <3>3 DEF RetryInv, MergedIsNeverRetrySafe
    <3> QED  BY <2>1, <3>2, <3>4 DEF RetryInv
  <2>5. CASE ForgeMoves \/ Delivery
    BY <2>2, <2>5 DEF ForgeMoves, Delivery, PushHead, PushBase, SyncPull, ReportStatus,
       RecomputeMergeability, CloseOrReopen, MergeInForgeUi, ApplyPost, RefusePost, LosePost
  <2>6. CASE UNCHANGED vars
    BY <2>2, <2>6 DEF vars
  <2> QED  BY <2>3, <2>4, <2>5, <2>6 DEF Next
<1>3. RetryInv => MergedIsNeverRetrySafe
  BY DEF RetryInv
<1> QED  BY <1>1, <1>2, <1>3, PTL DEF Spec
-----------------------------------------------------------------------------
(* MergeExecute implements PinnedMerge, for any number of clients, heads,   *)
(* contexts and invocations: a status read whose checks are acceptable is   *)
(* an approval, a merge POST the forge applies is the merge of an approved  *)
(* head, and every other step leaves approvals and merge alone.             *)

(* The approvals of PinnedMerge are bounded by the invocations a client may *)
(* make; a running invocation has been counted.                             *)
InvocationsCounted ==
    \A c \in Clients : /\ inv[c] <= MaxInvocations
                       /\ pc[c] \in Running => inv[c] >= 1
ApprovalsCounted == vetted \subseteq Clients \X (1..MaxInvocations) \X Heads

(* At first nothing has been started or approved.                           *)
LEMMA InitCounted == Init => InvocationsCounted
BY BoundsAssumption DEF Init, InvocationsCounted, Running

(* Invocations are counted when they start.                                 *)
LEMMA NextCounted ==
    ASSUME TypeOK, InvocationsCounted, [Next]_vars
    PROVE  InvocationsCounted'
<1>1. ASSUME NEW c \in Clients, NEW from, NEW to, Goto(c, from, to), UNCHANGED inv,
             from \in Running \/ to = "done"
      PROVE  InvocationsCounted'
  BY <1>1 DEF Goto, TypeOK, InvocationsCounted, Running
<1>2. CASE UNCHANGED <<pc, inv>>
  BY <1>2 DEF InvocationsCounted
<1>3. CASE ForgeMoves \/ Delivery
  BY <1>2, <1>3 DEF ForgeMoves, PushHead, PushBase, SyncPull, ReportStatus,
       RecomputeMergeability, CloseOrReopen, MergeInForgeUi,
       Delivery, ApplyPost, RefusePost, LosePost
<1>4. ASSUME NEW c \in Clients, Invoke(c)
      PROVE  InvocationsCounted'
  <2>1. inv[c] \in Nat /\ inv[c] + 1 <= MaxInvocations /\ inv[c] + 1 >= 1
    BY <1>4, BoundsAssumption DEF Invoke, TypeOK
  <2>2. /\ inv'[c] = inv[c] + 1
        /\ \A d \in Clients \ {c} : inv'[d] = inv[d] /\ pc'[d] = pc[d]
    BY <1>4 DEF Invoke, TypeOK
  <2> QED  BY <2>1, <2>2 DEF InvocationsCounted
<1>5. ASSUME NEW c \in Clients, Reject(c)
      PROVE  InvocationsCounted'
  BY <1>1, <1>5 DEF Reject, Emit
<1>6. ASSUME NEW c \in Clients, Preflight(c)
      PROVE  InvocationsCounted'
  BY <1>1, <1>6 DEF Preflight, ReadView, ReadPullForChecks, ReadStatuses, RereadPlan, ReadFails,
       VerifyHead, HeadUnreadable, HeadInvalid, HeadMissing, Decide, Block, SendPost, Emit,
       Running, PcStates
<1>7. ASSUME NEW c \in Clients, Settle(c)
      PROVE  InvocationsCounted'
  BY <1>1, <1>7 DEF Settle, ReceiveMerged, ReceiveBareOk, ReceiveHeadMoved, ReceiveRefused,
       AnswerUnusable, PostTimesOut, ReconcilePull, ReconcileBase, ReconcileFails,
       ReadBackPull, ReadBackBase, ReadBackFails, Finish, Emit, Running, PcStates
<1> QED  BY <1>2, <1>3, <1>4, <1>5, <1>6, <1>7 DEF Next, Proceed, vars

(* Only a status read of a running invocation approves.                     *)
LEMMA NextApprovalsCounted ==
    ASSUME IInv, InvocationsCounted, ApprovalsCounted, [Next]_vars
    PROVE  ApprovalsCounted'
<1>1. ASSUME NEW c \in Clients, ReadStatuses(c)
      PROVE  ApprovalsCounted'
  <2>1. pc[c] = "statuses"
    BY <1>1 DEF ReadStatuses, Goto
  <2>2. checks[c].sha \in Heads /\ inv[c] \in 1..MaxInvocations
    BY <2>1, BoundsAssumption DEF IInv, TypeOK, InvocationsCounted, Running, PcStates
  <2> QED  BY <1>1, <2>2 DEF ReadStatuses, ApprovalsCounted
<1>2. CASE UNCHANGED vetted
  BY <1>2 DEF ApprovalsCounted
<1>3. CASE ForgeMoves \/ Delivery
  BY <1>2, <1>3 DEF ForgeMoves, PushHead, PushBase, SyncPull, ReportStatus,
       RecomputeMergeability, CloseOrReopen, MergeInForgeUi,
       Delivery, ApplyPost, RefusePost, LosePost
<1>4. ASSUME NEW c \in Clients, Invoke(c) \/ Reject(c) \/ Proceed(c), ~ReadStatuses(c)
      PROVE  UNCHANGED vetted
  BY <1>4 DEF Invoke, Reject, Proceed, Preflight, Settle,
       ReadView, ReadPullForChecks, RereadPlan, ReadFails,
       VerifyHead, HeadUnreadable, HeadInvalid, HeadMissing, Decide, Block, SendPost,
       ReceiveMerged, ReceiveBareOk, ReceiveHeadMoved, ReceiveRefused,
       AnswerUnusable, PostTimesOut, ReconcilePull, ReconcileBase, ReconcileFails,
       ReadBackPull, ReadBackBase, ReadBackFails, Finish
<1> QED  BY <1>1, <1>2, <1>3, <1>4 DEF Next, vars

-----------------------------------------------------------------------------
(* Whatever neither approves nor merges, nor closes or reopens a merged     *)
(* pull, is a change of the environment.                                    *)
LEMMA QuietStepIsEnvironment ==
    ASSUME UNCHANGED <<vetted, merged>>,
           pull'.state = pull.state \/ merged = NotMerged
    PROVE  Pinned!Environment
<1>1. AbstractMerge' = AbstractMerge
  BY DEF AbstractMerge
<1>2. merged = NotMerged => AbstractMerge = <<>>
  BY DEF AbstractMerge
<1> QED  BY <1>1, <1>2 DEF Pinned!Environment

(* The steps of the forge on its own.                                       *)
LEMMA ForgeMovesRefine ==
    ASSUME IInv, ForgeMoves
    PROVE  Pinned!Next
<1>1. CASE MergeInForgeUi
  <2>1. tip \in Heads /\ pull.state = "open" /\ merged = NotMerged
    BY <1>1 DEF MergeInForgeUi, Mergeable, IInv, TypeOK, MergeIsFinal
  <2>2. merged' = [by |-> Other, inv |-> 0, head |-> tip, onto |-> baseTip]
    BY <1>1 DEF MergeInForgeUi, ApplyMerge
  <2>3. AbstractMerge = <<>> /\ AbstractMerge' = <<tip>>
    BY <2>1, <2>2, NullAssumption DEF AbstractMerge, NotMerged
  <2>4. pull'.state = "closed" /\ UNCHANGED <<tip, statuses, vetted>>
    BY <1>1 DEF MergeInForgeUi, ApplyMerge, IInv, TypeOK, ViewFacts
  <2>5. Pinned!MergeElsewhere(tip)
    BY <2>1, <2>3, <2>4 DEF Pinned!MergeElsewhere, Pinned!Close, Acceptable
  <2> QED  BY <2>1, <2>5 DEF Pinned!Next
<1>2. CASE ~MergeInForgeUi
  <2>1. UNCHANGED <<vetted, merged>> /\ (pull'.state = pull.state \/ merged = NotMerged)
    BY <1>2 DEF ForgeMoves, PushHead, PushBase, SyncPull, ReportStatus,
         RecomputeMergeability, CloseOrReopen, IInv, TypeOK, ViewFacts
  <2> QED  BY <2>1, QuietStepIsEnvironment DEF Pinned!Next
<1> QED  BY <1>1, <1>2

(* A POST the forge applies merges a head its invocation approved.          *)
LEMMA DeliveryRefines ==
    ASSUME IInv, ApprovalsCounted, Delivery
    PROVE  Pinned!Next
<1>1. PICK p \in posts : ApplyPost(p) \/ RefusePost(p) \/ LosePost(p)
  BY DEF Delivery
<1>2. CASE ApplyPost(p)
  <2> DEFINE a == <<p.by, p.inv, p.head>>
  <2>1. a \in vetted /\ p.by \in Clients /\ p.head \in Heads
    BY DEF IInv, PostsAreVetted, TypeOK
  <2>2. tip = p.head /\ pull.state = "open" /\ merged = NotMerged
    BY <1>2 DEF ApplyPost, Mergeable, IInv, MergeIsFinal
  <2>3. merged' = [by |-> p.by, inv |-> p.inv, head |-> tip, onto |-> baseTip]
    BY <1>2 DEF ApplyPost, ApplyMerge
  <2>4. AbstractMerge = <<>> /\ AbstractMerge' = a
    BY <2>1, <2>2, <2>3, NullAssumption, OtherAssumption DEF AbstractMerge, NotMerged
  <2>5. pull'.state = "closed" /\ UNCHANGED <<tip, statuses, vetted>>
    BY <1>2 DEF ApplyPost, ApplyMerge, IInv, TypeOK, ViewFacts
  <2>6. Pinned!Merge(a)
    BY <2>1, <2>2, <2>4, <2>5 DEF Pinned!Merge, Pinned!Close, Acceptable
  <2>7. a \in Clients \X (1..MaxInvocations) \X Heads
    BY <2>1 DEF ApprovalsCounted
  <2> QED  BY <2>6, <2>7 DEF Pinned!Next
<1>3. CASE RefusePost(p) \/ LosePost(p)
  BY <1>3, QuietStepIsEnvironment DEF RefusePost, LosePost, Pinned!Next
<1> QED  BY <1>1, <1>2, <1>3

(* A read of acceptable checks is an approval; the invocation's other steps *)
(* change nothing the promise speaks of.                                    *)
LEMMA InvocationRefines ==
    ASSUME IInv, InvocationsCounted, NEW c \in Clients, Invoke(c) \/ Reject(c) \/ Proceed(c)
    PROVE  Pinned!Next
<1>1. CASE ReadStatuses(c)
  <2>1. pc[c] = "statuses" /\ UNCHANGED forge
    BY <1>1 DEF ReadStatuses, Goto
  <2>2. checks[c].sha \in Heads /\ inv[c] \in 1..MaxInvocations
    BY <2>1, BoundsAssumption DEF IInv, TypeOK, InvocationsCounted, Running, PcStates
  <2> DEFINE a == <<c, inv[c], checks[c].sha>>
  <2>3. CASE Acceptable(checks[c].sha)
    <3>1. vetted' = vetted \cup {a}
      BY <1>1, <2>3 DEF ReadStatuses
    <3>2. AbstractMerge' = AbstractMerge
      BY <2>1 DEF AbstractMerge
    <3>3. Pinned!Approve(a)
      BY <2>1, <2>2, <2>3, <3>1, <3>2 DEF Pinned!Approve, Acceptable
    <3>4. a \in Clients \X (1..MaxInvocations) \X Heads
      BY <2>2
    <3> QED  BY <3>3, <3>4 DEF Pinned!Next
  <2>4. CASE ~Acceptable(checks[c].sha)
    BY <1>1, <2>1, <2>4, QuietStepIsEnvironment DEF ReadStatuses, Pinned!Next
  <2> QED  BY <2>3, <2>4
<1>2. CASE ~ReadStatuses(c)
  <2>1. UNCHANGED <<vetted, merged, pull>>
    BY <1>2 DEF Invoke, Reject, Proceed, Preflight, Settle,
         ReadView, ReadPullForChecks, RereadPlan, ReadFails,
         VerifyHead, HeadUnreadable, HeadInvalid, HeadMissing, Decide, Block, SendPost,
         ReceiveMerged, ReceiveBareOk, ReceiveHeadMoved, ReceiveRefused,
         AnswerUnusable, PostTimesOut, ReconcilePull, ReconcileBase, ReconcileFails,
         ReadBackPull, ReadBackBase, ReadBackFails, Finish
  <2> QED  BY <2>1, QuietStepIsEnvironment DEF Pinned!Next
<1> QED  BY <1>1, <1>2
-----------------------------------------------------------------------------
(* Every behaviour of merge execute is, seen through the mapping, one of    *)
(* PinnedMerge: a change request is merged by an invocation at most once,   *)
(* at a head that invocation saw acceptable and while it is the tip.        *)
THEOREM Implements == Spec => ImplementsPinnedMerge
<1>1. Init => Pinned!Init
  BY DEF Init, Pinned!Init, AbstractMerge
<1>2. Init => InvocationsCounted /\ ApprovalsCounted
  BY InitCounted DEF Init, ApprovalsCounted
<1>3. IInv /\ InvocationsCounted /\ ApprovalsCounted /\ [Next]_vars
        => InvocationsCounted' /\ ApprovalsCounted'
  BY NextCounted, NextApprovalsCounted DEF IInv
<1>4. IInv /\ InvocationsCounted /\ ApprovalsCounted /\ [Next]_vars => Pinned!Next
  <2> SUFFICES ASSUME IInv, InvocationsCounted, ApprovalsCounted, [Next]_vars
               PROVE  Pinned!Next
    OBVIOUS
  <2>1. CASE UNCHANGED vars
    BY <2>1, QuietStepIsEnvironment DEF vars, Pinned!Next
  <2> QED  BY <2>1, ForgeMovesRefine, DeliveryRefines, InvocationRefines DEF Next
<1> QED  BY <1>1, <1>2, <1>3, <1>4, Invariant, PTL
         DEF Spec, ImplementsPinnedMerge, Pinned!Spec
=============================================================================
