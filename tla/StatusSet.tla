----------------------------- MODULE StatusSet -----------------------------
(***************************************************************************)
(* `remogram status set` of the three providers: walk the paged list of    *)
(* the statuses of a commit, pick the latest one of the context, reuse it  *)
(* if it already says what was asked for, and POST a status if not.  CI    *)
(* and other clients post statuses of the same commit between any two      *)
(* requests; a status is never taken back, so the list only grows.         *)
(***************************************************************************)
EXTENDS Paging, Sequences

CONSTANTS
    Clients,        \* concurrent users of the CLI or of the MCP server
    Providers,      \* the providers the instance is about
    Contexts,       \* status contexts of the commit
    Requested,      \* values of --state the clients use
    CiStates,       \* bound: states the forge's other users post
    PageSize,       \* GITEA_PAGE_SIZE, DEFAULT_CHECK_STATUS_PAGE_SIZE
    MaxPages,       \* MAX_OPEN_PULL_IDEMPOTENCY_PAGES
    MaxStatuses,    \* bound: statuses of the commit
    MaxInvocations, \* bound: invocations per client
    Null            \* no context, no status

ASSUME ProviderAssumption == Providers \subseteq {"gitea", "github", "gitlab"}
ASSUME StateAssumption == Requested \subseteq {"pending", "success", "failure", "error"}
ASSUME PageAssumption == PageSize \in Nat \ {0} /\ MaxPages \in Nat \ {0}
ASSUME BoundsAssumption == MaxStatuses \in Nat /\ MaxInvocations \in Nat
ASSUME NullAssumption == Null \notin Contexts

VARIABLES
    provider,
    statuses,  \* the commit's statuses, oldest first; a status's id is its index
    posts,     \* POSTs the forge may still process
    reply,     \* id of the status the client's current POST made, or 0
    (* each client's current invocation *)
    pc, inv,
    context, state,     \* --context, --state
    page, limit,
    bestMatch,          \* id of the latest status of the context read so far, or 0
    packet,
    was,       \* history: ids, 0 for none, that were the latest of the
               \* context at some moment of the invocation's scan
    early      \* history: the scan ended before it saw the end of the list

request == <<inv, context, state>>
history == <<was, early>>
vars    == <<provider, statuses, posts, reply, pc, inv, context, state, page, limit,
             bestMatch, packet, history>>

Ids == 1..Len(statuses)
Of(x) == {i \in Ids : statuses[i].context = x}
IsLatest(i, x) ==
    \/ i \in Of(x) /\ \A j \in Of(x) : j <= i
    \/ i = 0 /\ Of(x) = {}

(* What the forges call the states of a status. *)
ForgeStates ==
    CASE provider = "gitea"  -> {"pending", "success", "failure", "error", "warning"}
      [] provider = "github" -> {"pending", "success", "failure", "error"}
      [] provider = "gitlab" -> {"pending", "running", "success", "failed", "skipped"}

(* remogramStateToGitlabPostState; the others post the state as it is. *)
PostState(s) == IF provider = "gitlab" /\ s \in {"failure", "error"} THEN "failed" ELSE s

(* normalizeStatusSetState throws on any other one; GitLab's is not asked. *)
Comparable(s) == provider = "gitlab" \/ s \in {"pending", "success", "failure", "error"}

NoPacket == [type |-> "none", id |-> 0]
ErrorPacket == [type |-> "error", id |-> 0]
InvalidPacket == [type |-> "invalid_args", id |-> 0]
ScanIncompletePacket == [type |-> "idempotency_scan_incomplete", id |-> 0]
SetPacket(created, id) == [type |-> IF created THEN "created" ELSE "reused", id |-> id]

Status(x, s) == [context |-> x, state |-> s]

Init ==
    /\ provider \in Providers
    /\ statuses \in UNION {[1..n -> [context : Contexts, state : ForgeStates \cap CiStates]] :
                              n \in 0..(MaxStatuses - 1)}
    /\ posts = {}
    /\ reply = [c \in Clients |-> 0]
    /\ pc = [c \in Clients |-> "idle"]
    /\ inv = [c \in Clients |-> 0]
    /\ context = [c \in Clients |-> Null]
    /\ state = [c \in Clients |-> Null]
    /\ page = [c \in Clients |-> 1]
    /\ limit = [c \in Clients |-> PageSize]
    /\ bestMatch = [c \in Clients |-> 0]
    /\ packet = [c \in Clients |-> NoPacket]
    /\ was = [c \in Clients |-> {}]
    /\ early = [c \in Clients |-> FALSE]
-----------------------------------------------------------------------------
(* The forge.                                                               *)

Post(status) ==
    /\ Len(statuses) < MaxStatuses
    /\ statuses' = Append(statuses, status)
    /\ was' = [c \in Clients |->
                  IF pc[c] = "scan" /\ context[c] = status.context
                  THEN was[c] \cup {Len(statuses) + 1} ELSE was[c]]

PostElsewhere ==
    /\ \E x \in Contexts, s \in ForgeStates \cap CiStates : Post(Status(x, s))
    /\ UNCHANGED <<provider, posts, reply, pc, request, page, limit, bestMatch, packet, early>>

(* The answer reaches a client that still waits. *)
ServePost(p) ==
    /\ Post(Status(p.context, p.state))
    /\ posts' = posts \ {p}
    /\ reply' = IF inv[p.by] = p.inv /\ pc[p.by] = "await"
                THEN [reply EXCEPT ![p.by] = Len(statuses) + 1] ELSE reply
    /\ UNCHANGED <<provider, pc, request, page, limit, bestMatch, packet, early>>

DropPost(p) ==
    /\ posts' = posts \ {p}
    /\ UNCHANGED <<provider, statuses, reply, pc, request, page, limit, bestMatch, packet,
                   history>>
-----------------------------------------------------------------------------
(* An invocation.                                                           *)

Emit(c, from, p) ==
    /\ pc[c] = from
    /\ pc' = [pc EXCEPT ![c] = "done"]
    /\ packet' = [packet EXCEPT ![c] = p]
    /\ UNCHANGED <<provider, statuses, posts, reply, request, page, limit, bestMatch, history>>

(* Arguments parsed, write policy passed; the scan begins.                  *)
Invoke(c) ==
    /\ pc[c] \in {"idle", "done"}
    /\ inv[c] < MaxInvocations
    /\ pc' = [pc EXCEPT ![c] = "scan"]
    /\ inv' = [inv EXCEPT ![c] = @ + 1]
    /\ \E s \in Requested : state' = [state EXCEPT ![c] = s]
    /\ \E x \in Contexts :
           /\ context' = [context EXCEPT ![c] = x]
           /\ was' = [was EXCEPT ![c] = {i \in {0} \cup Ids : IsLatest(i, x)}]
    /\ page' = [page EXCEPT ![c] = 1]
    /\ limit' = [limit EXCEPT ![c] = PageSize]
    /\ bestMatch' = [bestMatch EXCEPT ![c] = 0]
    /\ reply' = [reply EXCEPT ![c] = 0]
    /\ packet' = [packet EXCEPT ![c] = NoPacket]
    /\ early' = [early EXCEPT ![c] = FALSE]
    /\ UNCHANGED <<provider, statuses, posts>>

(* Mutant: the comparison of two records has the wrong sign. *)
OldestOf(c) ==
    LET found == Of(context[c]) \cap (PageOf(Ids, page[c], limit[c]) \cup {bestMatch[c]})
    IN  IF found = {} THEN 0 ELSE CHOOSE i \in found : \A j \in found : j >= i

(* The records of the page, each compared with the best one so far by       *)
(* updated_at and then by id: by age.                                       *)
Best(c) ==
    LET found == Of(context[c]) \cap (PageOf(Ids, page[c], limit[c]) \cup {bestMatch[c]})
    IN  IF found = {} THEN 0 ELSE CHOOSE i \in found : \A j \in found : j <= i

(* A short page ends the list; GitHub's Link header also says so of a full  *)
(* page, unless it is the last one allowed.                                 *)
EndOfScan(c) ==
    \/ EndsWithin(Ids, page[c], limit[c])
    \/ provider = "github" /\ page[c] < MaxPages /\ Len(statuses) = page[c] * limit[c]

(* GitHub's scan also ends where the list does not.  After a full page with *)
(* more pages behind it a next link to another origin is not followed, and  *)
(* that this cut the list is ignored; an answer that is not a list is read  *)
(* as an empty page, which is a short one.                                  *)
UntrustedLink(c) ==
    provider = "github" /\ page[c] < MaxPages /\ Len(statuses) > page[c] * limit[c]

EndsWhole(c, id) == EndOfScan(c) /\ id = Best(c)
EndsEarly(c, id) ==
    \/ UntrustedLink(c) /\ id = Best(c)
    \/ provider = "github" /\ id = bestMatch[c]

(* The scan ends and returns this status, or none. *)
Ends(c, id) == EndsWhole(c, id) \/ EndsEarly(c, id)

(* Mutant: after a back-off the walk returns to the full page size. *)
NextPageAtFullSize(c) ==
    /\ pc[c] = "scan"
    /\ ~EndOfScan(c)
    /\ page[c] < MaxPages
    /\ page' = [page EXCEPT ![c] = @ + 1]
    /\ limit' = [limit EXCEPT ![c] = PageSize]
    /\ bestMatch' = [bestMatch EXCEPT ![c] = Best(c)]
    /\ UNCHANGED <<provider, statuses, posts, reply, pc, request, packet, history>>

(* Mutant: the loop has no bound on its pages. *)
NextPageUnbounded(c) ==
    /\ pc[c] = "scan"
    /\ ~EndOfScan(c)
    /\ page' = [page EXCEPT ![c] = @ + 1]
    /\ bestMatch' = [bestMatch EXCEPT ![c] = Best(c)]
    /\ UNCHANGED <<provider, statuses, posts, reply, pc, request, limit, packet, history>>

NextPage(c) ==
    /\ pc[c] = "scan"
    /\ ~EndOfScan(c)
    /\ page[c] < MaxPages
    /\ page' = [page EXCEPT ![c] = @ + 1]
    /\ bestMatch' = [bestMatch EXCEPT ![c] = Best(c)]
    /\ UNCHANGED <<provider, statuses, posts, reply, pc, request, limit, packet, history>>

(* GitHub's pages are of one size: an answer over the cap is an error.      *)
BackOff(c) ==
    /\ pc[c] = "scan"
    /\ provider # "github"
    /\ PageOf(Ids, page[c], limit[c]) # {}
    /\ limit[c] > 1
    /\ limit' = [limit EXCEPT ![c] = Halved(@)]
    /\ UNCHANGED <<provider, statuses, posts, reply, pc, request, page, bestMatch, packet, history>>

ScanIncomplete(c) ==
    /\ ~EndOfScan(c)
    /\ page[c] = MaxPages
    /\ Emit(c, "scan", ScanIncompletePacket)

ScanFails(c) == Emit(c, "scan", ErrorPacket)

Says(id, s) == id # 0 /\ statuses[id].state = PostState(s)

(* The latest status already says so. *)
Reuse(c) ==
    \E id \in {0} \cup Ids :
        /\ Ends(c, id)
        /\ Says(id, state[c])
        /\ Emit(c, "scan", SetPacket(FALSE, id))

(* Its state is not one of --state's: Gitea's `warning`. *)
Unusable(id) == id # 0 /\ ~Comparable(statuses[id].state)

RejectState(c) ==
    \E id \in {0} \cup Ids :
        /\ Ends(c, id)
        /\ Unusable(id)
        /\ Emit(c, "scan", InvalidPacket)

SendPost(c) ==
    /\ pc[c] = "scan"
    /\ \E id \in {0} \cup Ids :
           /\ Ends(c, id)
           /\ ~Unusable(id)
           /\ ~Says(id, state[c])
           /\ bestMatch' = [bestMatch EXCEPT ![c] = id]
           /\ early' = [early EXCEPT ![c] = ~EndsWhole(c, id)]
    /\ pc' = [pc EXCEPT ![c] = "await"]
    /\ posts' = posts \cup {[by |-> c, inv |-> inv[c], context |-> context[c],
                             state |-> PostState(state[c])]}
    /\ UNCHANGED <<provider, statuses, reply, request, page, limit, packet, was>>

ReceiveCreated(c) ==
    /\ reply[c] # 0
    /\ Emit(c, "await", SetPacket(TRUE, reply[c]))

PostFails(c) == Emit(c, "await", ErrorPacket)
-----------------------------------------------------------------------------
Proceed(c) ==
    \/ NextPage(c) \/ BackOff(c) \/ ScanIncomplete(c) \/ ScanFails(c)
    \/ Reuse(c) \/ RejectState(c) \/ SendPost(c)
    \/ ReceiveCreated(c) \/ PostFails(c)

Next ==
    \/ PostElsewhere
    \/ \E p \in posts : ServePost(p) \/ DropPost(p)
    \/ \E c \in Clients : Invoke(c) \/ Proceed(c)

(* No property needs fairness: any request may stay unanswered for ever.    *)
Spec == Init /\ [][Next]_vars
-----------------------------------------------------------------------------
PcStates == {"idle", "scan", "await", "done"}
PacketTypes == {"none", "error", "invalid_args", "idempotency_scan_incomplete",
                "created", "reused"}

(* Types of all the variables; a walk never passes its last page and its    *)
(* page size never falls to zero; every status is in the forge's own terms. *)
TypeOK ==
    /\ provider \in Providers
    /\ statuses \in Seq([context : Contexts, state : ForgeStates])
    /\ posts \subseteq [by : Clients, inv : 1..MaxInvocations, context : Contexts,
                        state : ForgeStates]
    /\ reply \in [Clients -> {0} \cup Ids]
    /\ pc \in [Clients -> PcStates]
    /\ inv \in [Clients -> 0..MaxInvocations]
    /\ context \in [Clients -> Contexts \cup {Null}]
    /\ state \in [Clients -> Requested \cup {Null}]
    /\ page \in [Clients -> 1..MaxPages]
    /\ limit \in [Clients -> 1..PageSize]
    /\ bestMatch \in [Clients -> {0} \cup Ids]
    /\ packet \in [Clients -> [type : PacketTypes, id : {0} \cup Ids]]
    /\ was \in [Clients -> SUBSET ({0} \cup Ids)]
    /\ early \in [Clients -> BOOLEAN]

(* What a packet calls reused was the context's latest status at some       *)
(* moment of the command, and said what was asked for; never a status that  *)
(* had been superseded before the command began.                            *)
ReuseWasLatest ==
    \A c \in Clients : packet[c].type = "reused" =>
        /\ packet[c].id \in was[c]
        /\ Says(packet[c].id, state[c])

(* A POST is sent only if at some moment of the scan the context's latest   *)
(* status said something else, or there was none.  The one exception is     *)
(* GitHub's: a scan that ended before the list did and had met no status of *)
(* the context posts one, whatever the rest of the list says.  One that had *)
(* met some is right even so: its best one is the latest.                   *)
PostWasNeeded ==
    \A c \in Clients : pc[c] = "await" =>
        \/ early[c] /\ bestMatch[c] = 0
        \/ \E i \in was[c] : ~Says(i, state[c])
=============================================================================
