-------------------------- MODULE IdempotentOpen --------------------------
(***************************************************************************)
(* `remogram cr open` and `remogram issue open` (Gitea): look for an open  *)
(* record of the same target (head and base of a pull, title of an issue)  *)
(* by walking the paged list of open records, reuse it if there is one,    *)
(* and POST a new record if the walk reaches the end of the list without   *)
(* one.  Every page is a request of its own, and records are opened,       *)
(* closed and reopened by others between any two of them.                  *)
(***************************************************************************)
EXTENDS Paging, Sequences

CONSTANTS
    Clients,        \* concurrent users of the CLI or of the MCP server
    Targets,        \* what a record is for: <head, base>, or a title
    Keys,           \* values of --idempotency-key
    PageSize,       \* DEFAULT_OPEN_PULL_LIST_PAGE_SIZE
    MaxPages,       \* MAX_OPEN_PULL_IDEMPOTENCY_PAGES
    MaxRecords,     \* bound: records ever made
    MaxInvocations, \* bound: invocations per client
    Null            \* no target bound, no key given

ASSUME PageAssumption == PageSize \in Nat \ {0} /\ MaxPages \in Nat \ {0}
ASSUME BoundsAssumption == MaxRecords \in Nat /\ MaxInvocations \in Nat
ASSUME NullAssumption == Null \notin Targets \cup Keys

VARIABLES
    (* the forge *)
    records,   \* target of every record ever made; ids count from 1
    open,      \* ids of the open ones
    (* the network *)
    posts,     \* POSTs the forge may still process
    reply,     \* id of the record the client's current POST made, or Null
    (* each client's current invocation *)
    pc, inv,   \* where it is, and how many it started
    want, key, \* --head/--base or --title, and --idempotency-key
    page, limit,
    bound,     \* scopeBindings: target of each key, of this one process
    packet,    \* the packet it printed
    (* history *)
    steady,    \* ids open without a break since the invocation began
    shifted    \* a record on a page already read was closed meanwhile

forge   == <<records, open>>
network == <<posts, reply>>
request == <<inv, want, key>>
cursor  == <<page, limit>>
history == <<steady, shifted>>
vars    == <<records, open, posts, reply, pc, inv, want, key, page, limit,
             bound, packet, steady, shifted>>

Unbound == [k \in Keys |-> Null]
Ids == DOMAIN records
Matches(c) == {i \in open : records[i] = want[c]}
Page(c) == PageOf(open, page[c], limit[c])
Outstanding(c) == \E p \in posts : p.by = c /\ p.inv = inv[c]

NoPacket == [type |-> "none", id |-> Null]
ErrorPacket == [type |-> "error", id |-> Null]
ConflictPacket == [type |-> "idempotency_conflict", id |-> Null]
ScanIncompletePacket == [type |-> "idempotency_scan_incomplete", id |-> Null]
OpenedPacket(created, id) == [type |-> IF created THEN "created" ELSE "reused", id |-> id]

Init ==
    /\ records \in UNION {[1..n -> Targets] : n \in 0..(MaxRecords - 1)}
    /\ open \in SUBSET DOMAIN records
    /\ posts = {}
    /\ reply = [c \in Clients |-> Null]
    /\ pc = [c \in Clients |-> "idle"]
    /\ inv = [c \in Clients |-> 0]
    /\ want = [c \in Clients |-> Null]
    /\ key = [c \in Clients |-> Null]
    /\ page = [c \in Clients |-> 1]
    /\ limit = [c \in Clients |-> PageSize]
    /\ bound = [c \in Clients |-> Unbound]
    /\ packet = [c \in Clients |-> NoPacket]
    /\ steady = [c \in Clients |-> {}]
    /\ shifted = [c \in Clients |-> FALSE]
-----------------------------------------------------------------------------
(* The forge, moved by other people.                                        *)

MakeRecord(target) ==
    /\ Len(records) < MaxRecords
    /\ records' = Append(records, target)
    /\ open' = open \cup {Len(records) + 1}

OpenElsewhere ==
    /\ \E t \in Targets : MakeRecord(t)
    /\ UNCHANGED <<network, pc, request, cursor, bound, packet, history>>

(* Closing a record of a page some scan has read shifts the later ones      *)
(* towards that page.                                                       *)
Close(i) ==
    /\ i \in open
    /\ open' = open \ {i}
    /\ steady' = [c \in Clients |-> steady[c] \ {i}]
    /\ shifted' = [c \in Clients |->
           shifted[c] \/ (pc[c] = "scan" /\ Position(i, open) <= (page[c] - 1) * limit[c])]
    /\ UNCHANGED <<records, network, pc, request, cursor, bound, packet>>

Reopen(i) ==
    /\ i \in Ids \ open
    /\ open' = open \cup {i}
    /\ UNCHANGED <<records, network, pc, request, cursor, bound, packet, history>>
-----------------------------------------------------------------------------
(* The forge serving POSTs.                                                 *)

(* It makes the record; the answer reaches a client that still waits.       *)
ServePost(p) ==
    /\ MakeRecord(p.target)
    /\ posts' = posts \ {p}
    /\ reply' = IF inv[p.by] = p.inv /\ pc[p.by] = "await"
                THEN [reply EXCEPT ![p.by] = Len(records) + 1] ELSE reply
    /\ UNCHANGED <<pc, request, cursor, bound, packet, history>>

(* It refuses (4xx), or the request is lost on its way. *)
DropPost(p) ==
    /\ posts' = posts \ {p}
    /\ UNCHANGED <<forge, reply, pc, request, cursor, bound, packet, history>>
-----------------------------------------------------------------------------
(* An invocation.                                                           *)

(* Print the packet and exit: the process's own memory, the key bindings    *)
(* included, is gone.                                                       *)
Emit(c, from, p) ==
    /\ pc[c] = from
    /\ pc' = [pc EXCEPT ![c] = "done"]
    /\ packet' = [packet EXCEPT ![c] = p]
    /\ bound' = [bound EXCEPT ![c] = Unbound]
    /\ UNCHANGED <<forge, network, request, cursor, history>>

(* A process starts: arguments parsed, write policy passed.                 *)
Invoke(c) ==
    /\ pc[c] \in {"idle", "done"}
    /\ inv[c] < MaxInvocations
    /\ pc' = [pc EXCEPT ![c] = "bind"]
    /\ inv' = [inv EXCEPT ![c] = @ + 1]
    /\ \E t \in Targets : want' = [want EXCEPT ![c] = t]
    /\ \E k \in Keys \cup {Null} : key' = [key EXCEPT ![c] = k]
    /\ page' = [page EXCEPT ![c] = 1]
    /\ limit' = [limit EXCEPT ![c] = PageSize]
    /\ reply' = [reply EXCEPT ![c] = Null]
    /\ packet' = [packet EXCEPT ![c] = NoPacket]
    /\ UNCHANGED <<forge, posts, bound, history>>

(* bindIdempotencyScope, then the provider call begins its scan. *)
Bind(c) ==
    /\ pc[c] = "bind"
    /\ IF key[c] # Null /\ bound[c][key[c]] \notin {Null, want[c]}
       THEN Emit(c, "bind", ConflictPacket) /\ UNCHANGED history
       ELSE /\ pc' = [pc EXCEPT ![c] = "scan"]
            /\ bound' = IF key[c] = Null THEN bound ELSE [bound EXCEPT ![c][key[c]] = want[c]]
            /\ steady' = [steady EXCEPT ![c] = open]
            /\ shifted' = [shifted EXCEPT ![c] = FALSE]
            /\ UNCHANGED <<forge, network, request, cursor, packet>>

(* The first match on the page is the newest one. *)
ReuseMatch(c) ==
    \E i \in Page(c) \cap Matches(c) :
        /\ \A j \in Page(c) \cap Matches(c) : j <= i
        /\ Emit(c, "scan", OpenedPacket(FALSE, i))

NoMatchOnPage(c) == pc[c] = "scan" /\ Page(c) \cap Matches(c) = {}
FullPage(c) == ~EndsWithin(open, page[c], limit[c])

(* Mutant: after a back-off the walk returns to the full page size.         *)
NextPageAtFullSize(c) ==
    /\ NoMatchOnPage(c)
    /\ FullPage(c)
    /\ page[c] < MaxPages
    /\ page' = [page EXCEPT ![c] = @ + 1]
    /\ limit' = [limit EXCEPT ![c] = PageSize]
    /\ UNCHANGED <<forge, network, pc, request, bound, packet, history>>

(* Mutant: the loop has no bound on its pages. *)
NextPageUnbounded(c) ==
    /\ NoMatchOnPage(c)
    /\ FullPage(c)
    /\ page' = [page EXCEPT ![c] = @ + 1]
    /\ UNCHANGED <<forge, network, pc, request, limit, bound, packet, history>>

NextPage(c) ==
    /\ NoMatchOnPage(c)
    /\ FullPage(c)
    /\ page[c] < MaxPages
    /\ page' = [page EXCEPT ![c] = @ + 1]
    /\ UNCHANGED <<forge, network, pc, request, limit, bound, packet, history>>

(* fetchWithIngestPageBackoff: any page with something on it may be over    *)
(* the ingest cap.                                                          *)
BackOff(c) ==
    /\ pc[c] = "scan"
    /\ Page(c) # {}
    /\ limit[c] > 1
    /\ limit' = [limit EXCEPT ![c] = Halved(@)]
    /\ UNCHANGED <<forge, network, pc, request, page, bound, packet, history>>

(* A full last page proves nothing.                                         *)
ScanIncomplete(c) ==
    /\ NoMatchOnPage(c)
    /\ FullPage(c)
    /\ page[c] = MaxPages
    /\ Emit(c, "scan", ScanIncompletePacket)

(* A request fails, or a single record alone is over the cap. *)
ScanFails(c) == Emit(c, "scan", ErrorPacket)

(* The list ended without a match: POST. *)
SendPost(c) ==
    /\ NoMatchOnPage(c)
    /\ EndsWithin(open, page[c], limit[c])
    /\ pc' = [pc EXCEPT ![c] = "await"]
    /\ posts' = posts \cup {[by |-> c, inv |-> inv[c], target |-> want[c]]}
    /\ UNCHANGED <<forge, reply, request, cursor, bound, packet, history>>

ReceiveCreated(c) ==
    /\ reply[c] # Null
    /\ Emit(c, "await", OpenedPacket(TRUE, reply[c]))

(* Time-out, error status, lost or unusable answer: one and the same error. *)
PostFails(c) == Emit(c, "await", ErrorPacket)
-----------------------------------------------------------------------------
Proceed(c) ==
    \/ Bind(c) \/ ReuseMatch(c) \/ NextPage(c) \/ BackOff(c)
    \/ ScanIncomplete(c) \/ ScanFails(c)
    \/ SendPost(c) \/ ReceiveCreated(c) \/ PostFails(c)

Next ==
    \/ OpenElsewhere
    \/ \E i \in Ids : Close(i) \/ Reopen(i)
    \/ \E p \in posts : ServePost(p) \/ DropPost(p)
    \/ \E c \in Clients : Invoke(c) \/ Proceed(c)

(* No property needs fairness: any request may stay unanswered for ever.    *)
Spec == Init /\ [][Next]_vars
-----------------------------------------------------------------------------
PcStates == {"idle", "bind", "scan", "await", "done"}
PacketTypes == {"none", "error", "idempotency_conflict", "idempotency_scan_incomplete",
                "created", "reused"}

(* Types of all the variables; a walk never passes its last page and its    *)
(* page size never grows beyond the first one or falls to zero.             *)
TypeOK ==
    /\ records \in Seq(Targets)
    /\ open \subseteq Ids
    /\ posts \subseteq [by : Clients, inv : 1..MaxInvocations, target : Targets]
    /\ reply \in [Clients -> Ids \cup {Null}]
    /\ pc \in [Clients -> PcStates]
    /\ inv \in [Clients -> 0..MaxInvocations]
    /\ want \in [Clients -> Targets \cup {Null}]
    /\ key \in [Clients -> Keys \cup {Null}]
    /\ page \in [Clients -> 1..MaxPages]
    /\ limit \in [Clients -> 1..PageSize]
    /\ bound \in [Clients -> [Keys -> Targets \cup {Null}]]
    /\ packet \in [Clients -> [type : PacketTypes, id : Ids \cup {Null}]]
    /\ steady \in [Clients -> SUBSET Ids]
    /\ shifted \in [Clients -> BOOLEAN]

(* A POST is sent only when no matching record was open during the whole    *)
(* scan, however often the walk backed off and whatever was opened or       *)
(* reopened meanwhile, unless a record of a page already read was closed.   *)
PostProvesAbsence ==
    \A c \in Clients :
        (pc[c] = "await" /\ Outstanding(c) /\ ~shifted[c]) =>
            steady[c] \cap Matches(c) = {}
=============================================================================
