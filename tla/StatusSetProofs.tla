------------------------- MODULE StatusSetProofs --------------------------
(***************************************************************************)
(* Proofs about StatusSet for any provider, any number of clients and      *)
(* statuses: the status a scan ends with was the latest of its context at  *)
(* some moment of the command, so that what is reused was valid then and   *)
(* what is posted was called for.                                          *)
(***************************************************************************)
EXTENDS StatusSet, PagingProofs

USE DEF request, history

Running == {"scan", "await"}

(* The inductive invariant.  A running invocation has its arguments; the    *)
(* best match so far is a status of its context.                            *)
RunningHasArguments ==
    \A c \in Clients : pc[c] \in Running =>
        context[c] \in Contexts /\ state[c] \in Requested /\ inv[c] \in 1..MaxInvocations
BestIsOfContext ==
    \A c \in Clients : pc[c] = "scan" => bestMatch[c] \in {0} \cup Of(context[c])

(* The heart of it: some status was the latest of the context when the scan *)
(* began, every later one of the context is counted as a latest one too,    *)
(* and the scan either has met one not older or has met none of the context *)
(* so far and still has that one ahead.                                     *)
Covers(c, first) ==
    /\ first \in was[c]
    /\ first = 0 \/ first \in Of(context[c])
    /\ \A j \in Of(context[c]) : j > first => j \in was[c]
    /\ \/ first <= bestMatch[c]
       \/ bestMatch[c] = 0 /\ Position(first, Ids) > (page[c] - 1) * limit[c]
ScanCoversLatest == \A c \in Clients : pc[c] = "scan" => \E first \in {0} \cup Ids : Covers(c, first)

IInv == /\ TypeOK /\ RunningHasArguments /\ BestIsOfContext
        /\ ScanCoversLatest /\ ReuseWasLatest /\ PostWasNeeded

-----------------------------------------------------------------------------
(* The ids are a finite set of numbers.                                     *)
LEMMA IdsAreFinite ==
    ASSUME TypeOK
    PROVE  /\ Len(statuses) \in Nat /\ DOMAIN statuses = Ids
           /\ IsFiniteSet(Ids) /\ Ids \subseteq Nat
           /\ Cardinality(Ids) = Len(statuses)
<1>1. Len(statuses) \in Nat /\ DOMAIN statuses = 1..Len(statuses)
  BY DEF TypeOK
<1>2. \A a, b \in Int : /\ IsFiniteSet(a..b)
                         /\ Cardinality(a..b) = IF a > b THEN 0 ELSE b - a + 1
  BY FS_Interval
<1>3. Cardinality(1..Len(statuses)) = Len(statuses) /\ IsFiniteSet(1..Len(statuses))
  <2>1. \A n \in Nat : n = IF 1 > n THEN 0 ELSE n - 1 + 1
    OBVIOUS
  <2>2. Cardinality(1..Len(statuses)) =
          IF 1 > Len(statuses) THEN 0 ELSE Len(statuses) - 1 + 1
    BY <1>1, <1>2
  <2> QED  BY <1>1, <1>2, <2>1, <2>2
<1> QED  BY <1>1, <1>3 DEF Ids

(* The pages behind a scan are a number of statuses.                        *)
LEMMA BehindIsNat ==
    ASSUME TypeOK, NEW c \in Clients
    PROVE  /\ page[c] \in Nat \ {0} /\ limit[c] \in Nat \ {0}
           /\ (page[c] - 1) * limit[c] \in Nat
           /\ page[c] * limit[c] \in Nat
<1>1. page[c] \in Nat \ {0} /\ limit[c] \in Nat \ {0}
  BY PageAssumption DEF TypeOK
<1>2. page[c] - 1 \in Nat
  BY <1>1
<1>3. \A a, b \in Nat : a * b \in Nat
  OBVIOUS
<1> QED  BY <1>1, <1>2, <1>3

(* The best match of the pages read so far: a status of the context, not    *)
(* older than the best one before and than any on the page; none only if    *)
(* there is none.                                                           *)
LEMMA BestIsLatestFound ==
    ASSUME TypeOK, NEW c \in Clients, BestIsOfContext, pc[c] = "scan"
    PROVE  /\ Best(c) \in {0} \cup Of(context[c])
           /\ Best(c) >= bestMatch[c]
           /\ \A i \in Of(context[c]) \cap PageOf(Ids, page[c], limit[c]) : Best(c) >= i
<1> DEFINE found == Of(context[c]) \cap (PageOf(Ids, page[c], limit[c]) \cup {bestMatch[c]})
<1>1. Of(context[c]) \subseteq Ids /\ Ids = 1..Len(statuses) /\ Len(statuses) \in Nat
  BY IdsAreFinite DEF Of, Ids
<1>2. bestMatch[c] \in {0} \cup Of(context[c])
  BY DEF BestIsOfContext
<1>3. CASE found = {}
  <2>1. Best(c) = 0 /\ bestMatch[c] = 0
    BY <1>2, <1>3 DEF Best
  <2> QED  BY <1>3, <2>1
<1>4. CASE found # {}
  <2>1. \E i \in found : \A j \in found : j <= i
    <3>1. found \subseteq 1..Len(statuses)
      BY <1>1
    <3> HIDE DEF found
    <3> QED  BY <1>1, <1>4, <3>1, LatestExists
  <2>2. Best(c) = CHOOSE i \in found : \A j \in found : j <= i
    BY <1>4 DEF Best
  <2>3. Best(c) \in found /\ \A j \in found : j <= Best(c)
    <3> HIDE DEF found
    <3> QED  BY <2>1, <2>2
  <2>4. Best(c) \in Nat
    BY <1>1, <2>3
  <2> QED  BY <1>1, <1>2, <2>3, <2>4
<1> QED  BY <1>3, <1>4

(* Of two statuses the older one has the higher position. *)
LEMMA OlderIsBehind ==
    ASSUME NEW L, L \subseteq Nat, IsFiniteSet(L), NEW i \in L, NEW j \in L,
           ~(i >= j)
    PROVE  Position(i, L) >= Position(j, L)
<1> DEFINE S == {x \in L : x >= j}
           T == {x \in L : x >= i}
<1>1. S \subseteq T
  <2>1. \A a, b, d \in Nat : d >= b /\ ~(a >= b) => d >= a
    OBVIOUS
  <2> QED  BY <2>1
<1>2. IsFiniteSet(T) /\ IsFiniteSet(S)
  BY FS_Subset
<1>3. Cardinality(S) <= Cardinality(T) /\ Cardinality(S) \in Nat /\ Cardinality(T) \in Nat
  BY <1>1, <1>2, FS_Subset, FS_CardinalityType
<1>4. Cardinality(T) >= Cardinality(S)
  <2> HIDE DEF S, T
  <2> QED  BY <1>3
<1> QED  BY <1>4 DEF Position

(* A scan that has met a status of its context has met one not older than   *)
(* the one that was the latest when it began.                               *)
LEMMA BestIsNotOlder ==
    ASSUME IInv, NEW c \in Clients, pc[c] = "scan",
           NEW first \in {0} \cup Ids, Covers(c, first)
    PROVE  /\ bestMatch[c] # 0 => bestMatch[c] >= first
           /\ Best(c) # 0 => Best(c) >= first
           /\ EndOfScan(c) => Best(c) >= first
<1> USE DEF IInv
<1>2. /\ Best(c) \in {0} \cup Of(context[c])
      /\ Best(c) >= bestMatch[c]
      /\ \A i \in Of(context[c]) \cap PageOf(Ids, page[c], limit[c]) : Best(c) >= i
  BY BestIsLatestFound
<1>3. /\ IsFiniteSet(Ids) /\ Ids \subseteq Nat /\ Of(context[c]) \subseteq Ids
      /\ Cardinality(Ids) = Len(statuses) /\ Len(statuses) \in Nat /\ 0 \notin Ids
  BY IdsAreFinite DEF Of, Ids
<1>4. Best(c) \in Nat /\ first \in Nat /\ bestMatch[c] \in Nat
  <2>1. bestMatch[c] \in {0} \cup Ids
    BY DEF TypeOK
  <2>2. {0} \cup Ids \subseteq Nat
    BY <1>3
  <2>3. Best(c) \in {0} \cup Ids
    BY <1>2, <1>3
  <2> QED  BY <2>1, <2>2, <2>3
<1>5. CASE first = 0
  BY <1>4, <1>5
<1>6. CASE first <= bestMatch[c]
  BY <1>2, <1>4, <1>6
<1>7. CASE /\ first # 0 /\ bestMatch[c] = 0
           /\ Position(first, Ids) > (page[c] - 1) * limit[c]
  <2>1. first \in Ids /\ first \in Of(context[c])
    BY <1>7 DEF Covers
  <2>2. CASE first \in PageOf(Ids, page[c], limit[c])
    BY <1>2, <1>7, <2>1, <2>2
  <2>3. CASE first \notin PageOf(Ids, page[c], limit[c])
    <3>1. ~EndOfScan(c)
      <4>1. Cardinality(Ids) <= page[c] * limit[c] => FALSE
        BY <1>3, <1>7, <2>1, <2>3, BehindIsNat, AheadIsOnLastPage
      <4>2. EndOfScan(c) => Cardinality(Ids) <= page[c] * limit[c]
        BY <1>3, BehindIsNat DEF EndOfScan, EndsWithin
      <4> QED  BY <4>1, <4>2
    <3>2. Best(c) # 0 => Best(c) >= first
      <4> SUFFICES ASSUME Best(c) # 0, ~(Best(c) >= first) PROVE FALSE
        OBVIOUS
      <4>1. Best(c) \in PageOf(Ids, page[c], limit[c])
        BY <1>7 DEF Best
      <4>2. Best(c) \in Ids
        BY <1>2, <1>3
      <4>3. Position(Best(c), Ids) >= Position(first, Ids)
        BY <1>3, <2>1, <4>2, OlderIsBehind
      <4>4. Position(Best(c), Ids) \in Nat /\ Position(first, Ids) \in Nat
        BY <1>3, <2>1, <4>2, PositionBounds
      <4>5. Position(Best(c), Ids) <= page[c] * limit[c] /\ page[c] * limit[c] \in Nat
        BY <4>1, BehindIsNat DEF PageOf
      <4>6. Position(first, Ids) <= page[c] * limit[c]
        BY <4>3, <4>4, <4>5
      <4> QED  BY <1>7, <2>1, <2>3, <4>6 DEF PageOf
    <3> QED  BY <1>7, <3>1, <3>2
  <2> QED  BY <2>2, <2>3
<1> QED  BY <1>5, <1>6, <1>7 DEF Covers

(* What a scan ends with was the latest of its context at some moment, if   *)
(* it is a status at all or the scan saw the end of the list.               *)
LEMMA BestWasLatest ==
    ASSUME IInv, NEW c \in Clients, pc[c] = "scan", NEW id, Ends(c, id),
           EndsWhole(c, id) \/ id # 0
    PROVE  id \in was[c]
<1> USE DEF IInv
<1>1. PICK first \in {0} \cup Ids : Covers(c, first)
  BY DEF ScanCoversLatest
<1>2. id \in {0} \cup Of(context[c])
  <2>1. Best(c) \in {0} \cup Of(context[c]) /\ bestMatch[c] \in {0} \cup Of(context[c])
    BY BestIsLatestFound DEF BestIsOfContext
  <2> QED  BY <2>1 DEF Ends, EndsWhole, EndsEarly
<1>3. id >= first
  <2>1. /\ bestMatch[c] # 0 => bestMatch[c] >= first
        /\ Best(c) # 0 => Best(c) >= first
        /\ EndOfScan(c) => Best(c) >= first
    BY <1>1, BestIsNotOlder
  <2>2. \/ id = Best(c) /\ (EndOfScan(c) \/ id # 0)
        \/ id = bestMatch[c] /\ id # 0
    BY Zenon DEF Ends, EndsWhole, EndsEarly
  <2> QED  BY <2>1, <2>2, Zenon
<1>4. id \in Nat /\ first \in Nat
  <2>1. Ids \subseteq Nat
    BY IdsAreFinite
  <2>2. {0} \cup Ids \subseteq Nat /\ {0} \cup Of(context[c]) \subseteq {0} \cup Ids
    <3>1. Of(context[c]) \subseteq Ids
      BY DEF Of
    <3> HIDE DEF IInv
    <3> QED  BY <2>1, <3>1
  <2> QED  BY <1>2, <2>2
<1>5. id = first \/ (id > first /\ id \in Of(context[c]))
  BY <1>2, <1>3, <1>4
<1> QED  BY <1>1, <1>5 DEF Covers

-----------------------------------------------------------------------------
(* Init. *)
LEMMA InitIInv ==
    ASSUME Init
    PROVE  IInv
<1>1. PICK n \in 0..(MaxStatuses - 1) :
          statuses \in [1..n -> [context : Contexts, state : ForgeStates \cap CiStates]]
  BY DEF Init
<1>2. statuses \in Seq([context : Contexts, state : ForgeStates])
  <2>1. [1..n -> [context : Contexts, state : ForgeStates \cap CiStates]]
          \subseteq [1..n -> [context : Contexts, state : ForgeStates]]
    OBVIOUS
  <2>2. \A S : [1..n -> S] \subseteq Seq(S)
    <3>1. n \in Nat
      BY BoundsAssumption
    <3> QED  BY <3>1
  <2> DEFINE S == [context : Contexts, state : ForgeStates]
  <2>3. statuses \in [1..n -> S]
    BY <1>1, <2>1
  <2> HIDE DEF S
  <2>4. statuses \in Seq(S)
    BY <2>2, <2>3
  <2> QED  BY <2>4 DEF S
<1>3. TypeOK
  <2>1. 1 \in 1..MaxPages /\ PageSize \in 1..PageSize /\ 0 \in 0..MaxInvocations
    BY PageAssumption, BoundsAssumption
  <2> QED  BY <1>2, <2>1 DEF Init, TypeOK, PcStates, PacketTypes, NoPacket
<1>4. /\ RunningHasArguments /\ BestIsOfContext /\ ScanCoversLatest
      /\ ReuseWasLatest /\ PostWasNeeded
  BY DEF Init, Running, RunningHasArguments, BestIsOfContext, ScanCoversLatest,
         ReuseWasLatest, PostWasNeeded, NoPacket
<1> QED  BY <1>3, <1>4 DEF IInv
-----------------------------------------------------------------------------
(* What appending a status leaves as it was.                                *)
LEMMA PostGrows ==
    ASSUME TypeOK, NEW x \in Contexts, NEW s \in ForgeStates, Post(Status(x, s)),
           UNCHANGED provider
    PROVE  /\ statuses' \in Seq([context : Contexts, state : ForgeStates'])
           /\ Ids' = Ids \cup {Len(statuses) + 1} /\ Len(statuses) + 1 \notin Ids
           /\ \A i \in Ids : statuses'[i] = statuses[i]
           /\ Of(x)' = Of(x) \cup {Len(statuses) + 1}
           /\ \A y \in Contexts \ {x} : Of(y)' = Of(y)
           /\ \A c \in Clients : was'[c] =
                 IF pc[c] = "scan" /\ context[c] = x
                 THEN was[c] \cup {Len(statuses) + 1} ELSE was[c]
<1> DEFINE n == Len(statuses) + 1
<1>1. statuses \in Seq([context : Contexts, state : ForgeStates])
  BY DEF TypeOK
<1>2. Status(x, s) \in [context : Contexts, state : ForgeStates] /\ Status(x, s).context = x
  BY DEF Status
<1>3. statuses' = Append(statuses, Status(x, s))
  BY DEF Post
<1>4. /\ statuses' \in Seq([context : Contexts, state : ForgeStates])
      /\ Len(statuses) \in Nat /\ Len(statuses') = n
      /\ \A i \in 1..Len(statuses) : statuses'[i] = statuses[i]
      /\ statuses'[n] = Status(x, s)
  BY <1>1, <1>2, <1>3
<1>5. Ids' = Ids \cup {n} /\ n \notin Ids
  BY <1>4 DEF Ids
<1>6. \A i \in Ids : statuses'[i] = statuses[i]
  BY <1>4 DEF Ids
<1>7. Of(x)' = Of(x) \cup {n}
  BY <1>2, <1>4, <1>5, <1>6 DEF Of
<1>8. \A y \in Contexts \ {x} : Of(y)' = Of(y)
  BY <1>2, <1>4, <1>5, <1>6 DEF Of
<1>9. \A c \in Clients : was'[c] =
        IF pc[c] = "scan" /\ context[c] = x THEN was[c] \cup {n} ELSE was[c]
  BY <1>2 DEF Post
<1> QED  BY <1>4, <1>5, <1>6, <1>7, <1>8, <1>9 DEF ForgeStates

-----------------------------------------------------------------------------
(* A status is posted, by whom ever.                                        *)
LEMMA PostKeepsIInv ==
    ASSUME IInv, NEW x \in Contexts, NEW s \in ForgeStates, Post(Status(x, s)),
           UNCHANGED <<provider, pc, request, page, limit, bestMatch, packet, early>>,
           posts' \subseteq posts,
           reply' \in [Clients -> {0} \cup Ids \cup {Len(statuses) + 1}]
    PROVE  IInv'
<1> USE DEF IInv
<1> DEFINE n == Len(statuses) + 1
<1>1. /\ statuses' \in Seq([context : Contexts, state : ForgeStates'])
      /\ Ids' = Ids \cup {n} /\ n \notin Ids
      /\ \A i \in Ids : statuses'[i] = statuses[i]
      /\ Of(x)' = Of(x) \cup {n}
      /\ \A y \in Contexts \ {x} : Of(y)' = Of(y)
      /\ \A c \in Clients : was'[c] =
            IF pc[c] = "scan" /\ context[c] = x THEN was[c] \cup {n} ELSE was[c]
  BY PostGrows DEF TypeOK
<1>2. n \in Nat /\ n > 0 /\ IsFiniteSet(Ids) /\ Ids \subseteq Nat /\ \A i \in Ids : i < n
  <2>1. IsFiniteSet(Ids) /\ Len(statuses) \in Nat
    BY IdsAreFinite
  <2> QED  BY <2>1 DEF Ids
<1>3. TypeOK'
  <2>1. was' \in [Clients -> SUBSET ({0} \cup Ids')]
    <3>1. was' = [c \in Clients |-> was'[c]]
      BY DEF Post
    <3>2. \A c \in Clients : was'[c] \in SUBSET ({0} \cup Ids')
      BY <1>1 DEF TypeOK
    <3> QED  BY <3>1, <3>2
  <2>2. ForgeStates' = ForgeStates
    BY DEF ForgeStates
  <2> QED  BY <1>1, <2>1, <2>2 DEF TypeOK
<1>4. RunningHasArguments'
  BY DEF RunningHasArguments
<1>5. \A y \in Contexts : Of(y) \subseteq Of(y)'
  BY <1>1
<1>6. BestIsOfContext'
  BY <1>5 DEF BestIsOfContext, RunningHasArguments, Running
<1>7. \A id \in {0} \cup Ids : \A q : Says(id, q)' = Says(id, q)
  BY <1>1 DEF Says, PostState
<1>8. \A c \in Clients : was[c] \subseteq {0} \cup Ids /\ was[c] \subseteq was'[c]
                       /\ packet[c].id \in {0} \cup Ids
  BY <1>1 DEF TypeOK
<1>9. ReuseWasLatest'
  BY <1>7, <1>8 DEF ReuseWasLatest
<1>10. PostWasNeeded'
  <2> SUFFICES ASSUME NEW c \in Clients, pc[c] = "await", ~(early[c] /\ bestMatch[c] = 0)
               PROVE  \E i \in was'[c] : ~Says(i, state[c])'
    BY DEF PostWasNeeded
  <2>1. PICK i \in was[c] : ~Says(i, state[c])
    BY DEF PostWasNeeded
  <2> QED  BY <1>7, <1>8, <2>1
<1>11. ScanCoversLatest'
  <2> SUFFICES ASSUME NEW c \in Clients, pc[c] = "scan"
               PROVE  \E first \in {0} \cup Ids' : Covers(c, first)'
    BY DEF ScanCoversLatest
  <2>1. PICK first \in {0} \cup Ids : Covers(c, first)
    BY DEF ScanCoversLatest
  <2>2. context[c] \in Contexts
    BY DEF RunningHasArguments, Running
  <2>3. first \in was'[c]
    BY <1>8, <2>1 DEF Covers
  <2>4. first = 0 \/ first \in Of(context[c])'
    BY <1>5, <2>1, <2>2 DEF Covers
  <2>5. \A j \in Of(context[c])' : j > first => j \in was'[c]
    <3>1. CASE context[c] = x
      BY <1>1, <2>1, <3>1 DEF Covers
    <3>2. CASE context[c] # x
      BY <1>1, <2>1, <2>2, <3>2 DEF Covers
    <3> QED  BY <3>1, <3>2
  <2>6. \/ first <= bestMatch[c]
        \/ bestMatch[c] = 0 /\ Position(first, Ids') > (page[c] - 1) * limit[c]
    <3>1. CASE first = 0
      <4>1. bestMatch[c] \in {0} \cup Ids /\ {0} \cup Ids \subseteq Nat
        BY <1>2 DEF TypeOK
      <4> QED  BY <3>1, <4>1
    <3>2. CASE first \in Ids /\ ~(first <= bestMatch[c])
      <4>1. bestMatch[c] = 0 /\ Position(first, Ids) > (page[c] - 1) * limit[c]
        BY <2>1, <3>2 DEF Covers
      <4>2. IsFiniteSet(Ids') /\ Ids' \subseteq Nat /\ Ids \subseteq Ids'
        BY <1>1, <1>2, FS_AddElement
      <4>3. Position(first, Ids) <= Position(first, Ids')
        BY <3>2, <4>2, PositionGrows
      <4>4. Position(first, Ids) \in Nat /\ Position(first, Ids') \in Nat
        BY <1>2, <3>2, <4>2, PositionBounds
      <4>5. (page[c] - 1) * limit[c] \in Nat
        BY BehindIsNat
      <4> QED  BY <4>1, <4>3, <4>4, <4>5
    <3> QED  BY <2>1, <3>1, <3>2
  <2>7. Covers(c, first)'
    BY <2>3, <2>4, <2>5, <2>6 DEF Covers
  <2> QED  BY <1>1, <2>7
<1> QED  BY <1>3, <1>4, <1>6, <1>9, <1>10, <1>11

(* The forge's steps.                                                       *)
LEMMA ForgeStep ==
    ASSUME IInv, \/ PostElsewhere
                 \/ \E p \in posts : ServePost(p) \/ DropPost(p)
    PROVE  IInv'
<1> USE DEF IInv
<1>1. CASE PostElsewhere
  <2>1. PICK x \in Contexts, s \in ForgeStates : Post(Status(x, s))
    BY <1>1 DEF PostElsewhere
  <2> QED  BY <1>1, <2>1, PostKeepsIInv DEF PostElsewhere, TypeOK
<1>2. ASSUME NEW p \in posts, ServePost(p)
      PROVE  IInv'
  <2>1. p.context \in Contexts /\ p.state \in ForgeStates /\ p.by \in Clients
    BY DEF TypeOK
  <2>2. reply' \in [Clients -> {0} \cup Ids \cup {Len(statuses) + 1}]
    BY <1>2, <2>1 DEF ServePost, TypeOK
  <2>3. posts' \subseteq posts
    BY <1>2 DEF ServePost
  <2> QED  BY <1>2, <2>1, <2>2, <2>3, PostKeepsIInv DEF ServePost
<1>3. ASSUME NEW p \in posts, DropPost(p)
      PROVE  IInv'
  <2>1. TypeOK'
    BY <1>3 DEF DropPost, TypeOK, Ids, ForgeStates
  <2>2. /\ RunningHasArguments' /\ BestIsOfContext' /\ ScanCoversLatest'
        /\ ReuseWasLatest' /\ PostWasNeeded'
    BY <1>3 DEF DropPost, RunningHasArguments, BestIsOfContext, ScanCoversLatest, Covers,
                ReuseWasLatest, PostWasNeeded, Ids, Of, Says, PostState
  <2> QED  BY <2>1, <2>2
<1> QED  BY <1>1, <1>2, <1>3
-----------------------------------------------------------------------------
(* A step of one client that leaves the statuses alone disturbs nobody      *)
(* else's scan.                                                             *)
LEMMA OwnStepSuffices ==
    ASSUME IInv, NEW c \in Clients,
           UNCHANGED <<provider, statuses>>,
           \A d \in Clients \ {c} :
               /\ pc'[d] = pc[d] /\ context'[d] = context[d] /\ state'[d] = state[d]
               /\ page'[d] = page[d] /\ limit'[d] = limit[d]
               /\ bestMatch'[d] = bestMatch[d]
               /\ packet'[d] = packet[d] /\ was'[d] = was[d] /\ early'[d] = early[d],
           pc'[c] = "scan" => /\ bestMatch'[c] \in {0} \cup Of(context[c])'
                              /\ \E first \in {0} \cup Ids : Covers(c, first)',
           packet'[c].type = "reused" => /\ packet'[c].id \in was'[c]
                                         /\ Says(packet[c].id, state[c])',
           pc'[c] = "await" => \/ early'[c] /\ bestMatch'[c] = 0
                               \/ \E i \in was'[c] : ~Says(i, state[c])'
    PROVE  BestIsOfContext' /\ ScanCoversLatest' /\ ReuseWasLatest' /\ PostWasNeeded'
<1> USE DEF IInv
<1>1. Ids' = Ids /\ \A x : Of(x)' = Of(x)
  BY DEF Ids, Of
<1>2. \A i, q : Says(i, q)' = Says(i, q)
  BY DEF Says, PostState
<1>3. BestIsOfContext'
  BY <1>1 DEF BestIsOfContext
<1>4. \A d \in Clients \ {c} : \A first : Covers(d, first)' = Covers(d, first)
  BY <1>1 DEF Covers
<1>5. ScanCoversLatest'
  BY <1>1, <1>4 DEF ScanCoversLatest
<1>6. ReuseWasLatest'
  BY <1>2 DEF ReuseWasLatest
<1>7. PostWasNeeded'
  BY <1>2 DEF PostWasNeeded
<1> QED  BY <1>3, <1>5, <1>6, <1>7

(* Printing a packet; what it reuses was a latest status that says so.      *)
LEMMA EmitStep ==
    ASSUME IInv, NEW c \in Clients, NEW from \in Running,
           NEW p \in [type : PacketTypes, id : {0} \cup Ids],
           p.type = "reused" => p.id \in was[c] /\ Says(p.id, state[c]),
           Emit(c, from, p)
    PROVE  IInv'
<1> USE DEF IInv
<1>1. TypeOK'
  BY DEF Emit, TypeOK, Ids, PcStates, ForgeStates
<1>2. RunningHasArguments'
  BY DEF Emit, TypeOK, RunningHasArguments, Running
<1>3. pc'[c] = "done" /\ packet'[c] = p
      /\ \A d \in Clients \ {c} : pc'[d] = pc[d] /\ packet'[d] = packet[d]
  BY DEF Emit, TypeOK
<1>4. Says(packet[c].id, state[c])' = Says(p.id, state[c])
  BY <1>3 DEF Emit, Says, PostState
<1>5. BestIsOfContext' /\ ScanCoversLatest' /\ ReuseWasLatest' /\ PostWasNeeded'
  BY <1>3, <1>4, OwnStepSuffices DEF Emit
<1> QED  BY <1>1, <1>2, <1>5
-----------------------------------------------------------------------------
(* A scan begins with the latest status of its context ahead of it.         *)
LEMMA InvokeStep ==
    ASSUME IInv, NEW c \in Clients, Invoke(c)
    PROVE  IInv'
<1> USE DEF IInv
<1>1. PICK x \in Contexts :
          /\ context' = [context EXCEPT ![c] = x]
          /\ was' = [was EXCEPT ![c] = {i \in {0} \cup Ids : IsLatest(i, x)}]
  BY DEF Invoke
<1>2. PICK s \in Requested : state' = [state EXCEPT ![c] = s]
  BY DEF Invoke
<1>3. inv[c] + 1 \in 1..MaxInvocations
  BY BoundsAssumption DEF Invoke, TypeOK
<1>4. TypeOK'
  <2>1. 1 \in 1..MaxPages /\ PageSize \in 1..PageSize
    BY PageAssumption
  <2>2. was' \in [Clients -> SUBSET ({0} \cup Ids)]
    <3>1. {i \in {0} \cup Ids : IsLatest(i, x)} \in SUBSET ({0} \cup Ids)
      OBVIOUS
    <3> HIDE DEF IInv
    <3>2. was \in [Clients -> SUBSET ({0} \cup Ids)]
      BY DEF IInv, TypeOK
    <3> QED  BY <1>1, <3>1, <3>2
  <2>3. context' \in [Clients -> Contexts \cup {Null}] /\ state' \in [Clients -> Requested \cup {Null}]
    BY <1>1, <1>2 DEF TypeOK
  <2>4. inv' \in [Clients -> 0..MaxInvocations]
    <3>1. inv[c] + 1 \in 0..MaxInvocations
      BY <1>3, BoundsAssumption
    <3> QED  BY <3>1 DEF Invoke, TypeOK
  <2>5. Ids' = Ids /\ ForgeStates' = ForgeStates
    BY DEF Invoke, Ids, ForgeStates
  <2> QED  BY <2>1, <2>2, <2>3, <2>4, <2>5
           DEF Invoke, TypeOK, PcStates, NoPacket, PacketTypes
<1>5. RunningHasArguments'
  BY <1>1, <1>2, <1>3 DEF Invoke, TypeOK, RunningHasArguments, Running
<1>6. /\ pc'[c] = "scan" /\ page'[c] = 1 /\ bestMatch'[c] = 0 /\ limit'[c] = PageSize
      /\ packet'[c] = NoPacket /\ context'[c] = x
      /\ was'[c] = {i \in {0} \cup Ids : IsLatest(i, x)}
      /\ UNCHANGED <<provider, statuses>>
  BY <1>1 DEF Invoke, TypeOK
<1>7. \E first \in {0} \cup Ids : Covers(c, first)'
  <2>1. /\ IsFiniteSet(Ids) /\ Ids \subseteq Nat /\ Of(x) \subseteq Ids
        /\ Len(statuses) \in Nat /\ Ids = 1..Len(statuses)
        /\ Ids' = Ids /\ Of(x)' = Of(x)
    BY <1>6, IdsAreFinite DEF Of, Ids
  <2>2. CASE Of(x) = {}
    <3>1. 0 \in was'[c]
      BY <1>6, <2>2 DEF IsLatest
    <3>2. Covers(c, 0)'
      BY <1>6, <2>1, <2>2, <3>1 DEF Covers
    <3> QED  BY <3>2
  <2>3. CASE Of(x) # {}
    <3>1. PICK first \in Of(x) : \A j \in Of(x) : j <= first
      BY <2>1, <2>3, LatestExists
    <3>2. first \in was'[c]
      BY <1>6, <2>1, <3>1 DEF IsLatest
    <3>3. \A j \in Of(x) : ~(j > first)
      BY <2>1, <3>1
    <3>4. Position(first, Ids) > (1 - 1) * PageSize
      <4>1. Position(first, Ids) \in Nat /\ Position(first, Ids) >= 1
        BY <2>1, PositionBounds
      <4>2. (1 - 1) * PageSize = 0
        BY PageAssumption
      <4> QED  BY <4>1, <4>2
    <3>5. Covers(c, first)'
      BY <1>6, <2>1, <3>1, <3>2, <3>3, <3>4 DEF Covers
    <3> QED  BY <2>1, <3>5
  <2> QED  BY <2>2, <2>3
<1>8. BestIsOfContext' /\ ScanCoversLatest' /\ ReuseWasLatest' /\ PostWasNeeded'
  <2>1. \A d \in Clients \ {c} :
          /\ pc'[d] = pc[d] /\ context'[d] = context[d] /\ state'[d] = state[d]
          /\ page'[d] = page[d] /\ limit'[d] = limit[d]
          /\ bestMatch'[d] = bestMatch[d]
          /\ packet'[d] = packet[d] /\ was'[d] = was[d] /\ early'[d] = early[d]
    BY <1>1, <1>2 DEF Invoke, TypeOK
  <2>2. packet'[c].type # "reused"
    BY <1>6 DEF NoPacket
  <2> QED  BY <1>6, <1>7, <2>1, <2>2, OwnStepSuffices
<1> QED  BY <1>4, <1>5, <1>8

(* A full page read: the latest status is on it, or ahead of the next.      *)
LEMMA NextPageStep ==
    ASSUME IInv, NEW c \in Clients, NextPage(c)
    PROVE  IInv'
<1> USE DEF IInv
<1>1. /\ pc[c] = "scan" /\ page'[c] = page[c] + 1 /\ bestMatch'[c] = Best(c)
      /\ packet[c] \in [type : PacketTypes, id : {0} \cup Ids]
      /\ UNCHANGED <<provider, statuses, pc, context, state, limit, packet, was, early>>
  BY DEF NextPage, TypeOK
<1>2. /\ IsFiniteSet(Ids) /\ Ids \subseteq Nat /\ Ids' = Ids
      /\ Of(context[c])' = Of(context[c]) /\ Of(context[c]) \subseteq Ids
  BY <1>1, IdsAreFinite DEF Of, Ids
<1>3. /\ Best(c) \in {0} \cup Of(context[c])
      /\ Best(c) >= bestMatch[c]
      /\ \A i \in Of(context[c]) \cap PageOf(Ids, page[c], limit[c]) : Best(c) >= i
  BY <1>1, BestIsLatestFound
<1>4. TypeOK'
  <2>1. page[c] + 1 \in 1..MaxPages
    BY PageAssumption DEF NextPage, TypeOK
  <2> QED  BY <1>2, <1>3, <2>1 DEF NextPage, TypeOK, ForgeStates
<1>5. RunningHasArguments'
  BY <1>1 DEF NextPage, RunningHasArguments
<1>6. PICK first \in {0} \cup Ids : Covers(c, first)
  BY <1>1 DEF ScanCoversLatest
<1>7. \/ first <= Best(c)
      \/ Best(c) = 0 /\ Position(first, Ids) > ((page[c] + 1) - 1) * limit[c]
  <2>1. Best(c) \in Nat /\ first \in Nat /\ bestMatch[c] \in Nat
    <3>1. bestMatch[c] \in {0} \cup Ids /\ {0} \cup Ids \subseteq Nat
      BY <1>2 DEF TypeOK
    <3>2. Best(c) \in {0} \cup Ids
      BY <1>2, <1>3
    <3> QED  BY <3>1, <3>2
  <2>2. CASE first <= bestMatch[c] \/ first = 0
    BY <1>3, <2>1, <2>2
  <2>3. CASE first # 0 /\ Position(first, Ids) > (page[c] - 1) * limit[c]
    <3>1. first \in Ids /\ first \in Of(context[c])
      BY <1>6, <2>3 DEF Covers
    <3>2. CASE first \in PageOf(Ids, page[c], limit[c]) \/ Best(c) # 0
      <4>1. Best(c) # 0 => Best(c) >= first
        BY <1>1, <1>6, BestIsNotOlder
      <4> QED  BY <1>3, <2>1, <3>1, <3>2, <4>1
    <3>3. CASE first \notin PageOf(Ids, page[c], limit[c]) /\ Best(c) = 0
      BY <1>2, <2>3, <3>1, <3>3, BehindIsNat, AheadOfNextPage
    <3> QED  BY <3>2, <3>3
  <2> QED  BY <1>6, <2>2, <2>3 DEF Covers
<1>8. Covers(c, first)'
  BY <1>1, <1>2, <1>6, <1>7 DEF Covers
<1>9. BestIsOfContext' /\ ScanCoversLatest' /\ ReuseWasLatest' /\ PostWasNeeded'
  <2>1. \A d \in Clients \ {c} : page'[d] = page[d] /\ bestMatch'[d] = bestMatch[d]
    BY DEF NextPage, TypeOK
  <2>2. packet[c].type = "reused" => packet[c].id \in was[c] /\ Says(packet[c].id, state[c])
    BY DEF ReuseWasLatest
  <2>3. Says(packet[c].id, state[c])' = Says(packet[c].id, state[c])
    BY <1>1 DEF Says, PostState
  <2> QED  BY <1>1, <1>2, <1>3, <1>8, <2>1, <2>2, <2>3, OwnStepSuffices
<1> QED  BY <1>4, <1>5, <1>9

(* A back-off leaves less of the list behind the scan.                      *)
LEMMA BackOffStep ==
    ASSUME IInv, NEW c \in Clients, BackOff(c)
    PROVE  IInv'
<1> USE DEF IInv
<1>1. /\ pc[c] = "scan" /\ limit'[c] = Halved(limit[c])
      /\ packet[c] \in [type : PacketTypes, id : {0} \cup Ids]
      /\ UNCHANGED <<provider, statuses, pc, context, state, page, bestMatch, packet, was, early>>
  BY DEF BackOff, TypeOK
<1>2. /\ IsFiniteSet(Ids) /\ Ids \subseteq Nat /\ Ids' = Ids
      /\ Of(context[c])' = Of(context[c]) /\ Of(context[c]) \subseteq Ids
  BY <1>1, IdsAreFinite DEF Of, Ids
<1>3. /\ Halved(limit[c]) \in 1..limit[c]
      /\ (page[c] - 1) * Halved(limit[c]) <= (page[c] - 1) * limit[c]
  BY BehindIsNat, HalvedShrinks
<1>4. TypeOK'
  <2>1. Halved(limit[c]) \in 1..PageSize
    BY <1>3, PageAssumption DEF TypeOK
  <2> QED  BY <1>2, <2>1 DEF BackOff, TypeOK, ForgeStates
<1>5. RunningHasArguments'
  BY <1>1 DEF BackOff, RunningHasArguments
<1>6. PICK first \in {0} \cup Ids : Covers(c, first)
  BY <1>1 DEF ScanCoversLatest
<1>7. \/ first <= bestMatch[c]
      \/ bestMatch[c] = 0 /\ Position(first, Ids) > (page[c] - 1) * Halved(limit[c])
  <2>1. CASE first = 0
    <3>1. bestMatch[c] \in {0} \cup Ids /\ {0} \cup Ids \subseteq Nat
      BY <1>2 DEF TypeOK
    <3> QED  BY <2>1, <3>1
  <2>2. CASE /\ first \in Ids /\ bestMatch[c] = 0
             /\ Position(first, Ids) > (page[c] - 1) * limit[c]
    <3>1. Position(first, Ids) \in Nat
      BY <1>2, <2>2, PositionBounds
    <3>2. page[c] - 1 \in Nat /\ Halved(limit[c]) \in Nat
      BY <1>3, BehindIsNat
    <3>3. (page[c] - 1) * Halved(limit[c]) \in Nat
      <4>1. \A a, b \in Nat : a * b \in Nat
        OBVIOUS
      <4> QED  BY <3>2, <4>1
    <3>4. (page[c] - 1) * limit[c] \in Nat
      BY BehindIsNat
    <3>5. \A a, b, d \in Nat : a > b /\ d <= b => a > d
      OBVIOUS
    <3> QED  BY <1>3, <2>2, <3>1, <3>3, <3>4, <3>5
  <2> QED  BY <1>6, <2>1, <2>2 DEF Covers
<1>8. Covers(c, first)'
  BY <1>1, <1>2, <1>6, <1>7 DEF Covers
<1>9. BestIsOfContext' /\ ScanCoversLatest' /\ ReuseWasLatest' /\ PostWasNeeded'
  <2>1. \A d \in Clients \ {c} : limit'[d] = limit[d]
    BY DEF BackOff, TypeOK
  <2>2. packet[c].type = "reused" => packet[c].id \in was[c] /\ Says(packet[c].id, state[c])
    BY DEF ReuseWasLatest
  <2>3. Says(packet[c].id, state[c])' = Says(packet[c].id, state[c])
    BY <1>1 DEF Says, PostState
  <2>4. bestMatch[c] \in {0} \cup Of(context[c])
    BY <1>1 DEF BestIsOfContext
  <2> QED  BY <1>1, <1>2, <1>8, <2>1, <2>2, <2>3, <2>4, OwnStepSuffices
<1> QED  BY <1>4, <1>5, <1>9

(* A POST is sent when what the scan ended with says something else.        *)
LEMMA SendPostStep ==
    ASSUME IInv, NEW c \in Clients, SendPost(c)
    PROVE  IInv'
<1> USE DEF IInv
<1> PICK id \in {0} \cup Ids :
          /\ Ends(c, id) /\ ~Says(id, state[c])
          /\ bestMatch' = [bestMatch EXCEPT ![c] = id]
          /\ early' = [early EXCEPT ![c] = ~EndsWhole(c, id)]
  BY DEF SendPost
<1>1. /\ pc[c] = "scan" /\ pc'[c] = "await"
      /\ bestMatch'[c] = id /\ early'[c] = ~EndsWhole(c, id)
      /\ UNCHANGED <<provider, statuses, context, state, page, limit, packet, was>>
  BY DEF SendPost, TypeOK
<1>2. /\ context[c] \in Contexts /\ state[c] \in Requested /\ inv[c] \in 1..MaxInvocations
  BY <1>1 DEF RunningHasArguments, Running
<1>3. EndsWhole(c, id) \/ id # 0 => id \in was[c]
  BY <1>1, BestWasLatest
<1>4. PostState(state[c]) \in ForgeStates
  BY <1>2, StateAssumption, ProviderAssumption DEF PostState, ForgeStates, TypeOK
<1>5. TypeOK'
  <2>1. Ids' = Ids /\ ForgeStates' = ForgeStates
    BY <1>1 DEF Ids, ForgeStates
  <2>2. posts' \subseteq [by : Clients, inv : 1..MaxInvocations, context : Contexts,
                         state : ForgeStates]
    BY <1>2, <1>4 DEF SendPost, TypeOK
  <2>3. early' \in [Clients -> BOOLEAN] /\ bestMatch' \in [Clients -> {0} \cup Ids]
    BY DEF TypeOK
  <2> QED  BY <2>1, <2>2, <2>3 DEF SendPost, TypeOK, PcStates
<1>6. RunningHasArguments'
  BY <1>2 DEF SendPost, TypeOK, RunningHasArguments, Running
<1>7. BestIsOfContext' /\ ScanCoversLatest' /\ ReuseWasLatest' /\ PostWasNeeded'
  <2>1. \A d \in Clients \ {c} :
          pc'[d] = pc[d] /\ bestMatch'[d] = bestMatch[d] /\ early'[d] = early[d]
    BY DEF SendPost, TypeOK
  <2>2. packet[c].type = "reused" => packet[c].id \in was[c] /\ Says(packet[c].id, state[c])
    BY DEF ReuseWasLatest
  <2>3. \A i : Says(i, state[c])' = Says(i, state[c])
    BY <1>1 DEF Says, PostState
  <2>4. Says(packet[c].id, state[c])' = Says(packet[c].id, state[c])
    BY <1>1 DEF Says, PostState
  <2>5. \/ early'[c] /\ bestMatch'[c] = 0
        \/ \E i \in was'[c] : ~Says(i, state[c])'
    <3>1. CASE EndsWhole(c, id) \/ id # 0
      BY <1>1, <1>3, <2>3, <3>1
    <3>2. CASE ~EndsWhole(c, id) /\ id = 0
      BY <1>1, <3>2
    <3> QED  BY <3>1, <3>2
  <2> QED  BY <1>1, <2>1, <2>2, <2>4, <2>5, OwnStepSuffices
<1> QED  BY <1>5, <1>6, <1>7

(* Any step of an invocation. *)
LEMMA ProceedStep ==
    ASSUME IInv, NEW c \in Clients, Proceed(c)
    PROVE  IInv'
<1> USE DEF IInv, Running
<1>1. /\ ErrorPacket \in [type : PacketTypes, id : {0} \cup Ids]
      /\ InvalidPacket \in [type : PacketTypes, id : {0} \cup Ids]
      /\ ScanIncompletePacket \in [type : PacketTypes, id : {0} \cup Ids]
      /\ \A b \in BOOLEAN, i \in {0} \cup Ids :
             SetPacket(b, i) \in [type : PacketTypes, id : {0} \cup Ids]
  BY DEF ErrorPacket, InvalidPacket, ScanIncompletePacket, SetPacket, PacketTypes
<1>2. /\ ErrorPacket.type # "reused" /\ InvalidPacket.type # "reused"
      /\ ScanIncompletePacket.type # "reused"
      /\ \A i : SetPacket(TRUE, i).type # "reused"
  BY DEF ErrorPacket, InvalidPacket, ScanIncompletePacket, SetPacket
<1>3. CASE ScanIncomplete(c)
  BY <1>1, <1>2, <1>3, EmitStep DEF ScanIncomplete
<1>4. CASE ScanFails(c)
  BY <1>1, <1>2, <1>4, EmitStep DEF ScanFails
<1>5. CASE Reuse(c)
  <2>1. PICK id \in {0} \cup Ids : /\ Emit(c, "scan", SetPacket(FALSE, id))
                                   /\ Ends(c, id) /\ Says(id, state[c])
    BY <1>5 DEF Reuse
  <2>2. id \in was[c] /\ was[c] \subseteq {0} \cup Ids
    BY <2>1, BestWasLatest DEF Emit, Says, TypeOK
  <2>3. SetPacket(FALSE, id).id = id
    BY DEF SetPacket
  <2>4. SetPacket(FALSE, id) \in [type : PacketTypes, id : {0} \cup Ids]
    BY <1>1, <2>2
  <2> QED  BY <2>1, <2>2, <2>3, <2>4, EmitStep
<1>6. CASE RejectState(c)
  BY <1>1, <1>2, <1>6, EmitStep DEF RejectState
<1>7. CASE ReceiveCreated(c)
  <2>1. reply[c] \in {0} \cup Ids
    BY DEF TypeOK
  <2>2. /\ SetPacket(TRUE, reply[c]) \in [type : PacketTypes, id : {0} \cup Ids]
        /\ SetPacket(TRUE, reply[c]).type # "reused"
    BY <1>1, <1>2, <2>1
  <2> QED  BY <1>7, <2>2, EmitStep DEF ReceiveCreated
<1>8. CASE PostFails(c)
  BY <1>1, <1>2, <1>8, EmitStep DEF PostFails
<1> QED  BY <1>3, <1>4, <1>5, <1>6, <1>7, <1>8, NextPageStep, BackOffStep, SendPostStep
         DEF Proceed

(* Nothing changes. *)
LEMMA StutterStep ==
    ASSUME IInv, UNCHANGED vars
    PROVE  IInv'
BY DEF IInv, vars, TypeOK, RunningHasArguments, BestIsOfContext, ScanCoversLatest, Covers,
       ReuseWasLatest, PostWasNeeded, Ids, Of, Says, PostState, ForgeStates
-----------------------------------------------------------------------------
(* The inductive invariant holds throughout every execution: a status that  *)
(* was the latest of its context when a scan began is met by the scan, or   *)
(* is still ahead of it.                                                    *)
THEOREM Invariant == Spec => []IInv
<1>1. Init => IInv
  BY InitIInv
<1>2. IInv /\ [Next]_vars => IInv'
  <2> SUFFICES ASSUME IInv, [Next]_vars PROVE IInv'
    OBVIOUS
  <2>1. CASE PostElsewhere \/ \E p \in posts : ServePost(p) \/ DropPost(p)
    BY <2>1, ForgeStep
  <2>2. CASE \E c \in Clients : Invoke(c)
    BY <2>2, InvokeStep
  <2>3. CASE \E c \in Clients : Proceed(c)
    BY <2>3, ProceedStep
  <2>4. CASE UNCHANGED vars
    BY <2>4, StutterStep
  <2> QED  BY <2>1, <2>2, <2>3, <2>4 DEF Next
<1> QED  BY <1>1, <1>2, PTL DEF Spec

(* Type correctness: the walk of status set stays within its page bound and *)
(* never asks for an empty page, and every status is in the forge's terms.  *)
THEOREM TypeCorrect == Spec => []TypeOK
<1>1. IInv => TypeOK
  BY DEF IInv
<1> QED  BY <1>1, Invariant, PTL

(* What status set calls reused was the latest status of the context at     *)
(* some moment of the command, and said what was asked for.                 *)
THEOREM ReusesLatest == Spec => []ReuseWasLatest
<1>1. IInv => ReuseWasLatest
  BY DEF IInv
<1> QED  BY <1>1, Invariant, PTL

(* A status is posted only if the context's latest one said something else  *)
(* at some moment of the scan, or there was none; a scan of GitHub's that   *)
(* ended early and had met none of the context is the only exception.       *)
THEOREM PostsWhenNeeded == Spec => []PostWasNeeded
<1>1. IInv => PostWasNeeded
  BY DEF IInv
<1> QED  BY <1>1, Invariant, PTL
===========================================================================
