----------------------- MODULE IdempotentOpenProofs -----------------------
(***************************************************************************)
(* Proofs about IdempotentOpen for any number of clients, records and      *)
(* pages: types and the bounds of the walk, and that a record is posted    *)
(* only when the scan would have met a match that was there all along.     *)
(***************************************************************************)
EXTENDS IdempotentOpen, PagingProofs

USE DEF forge, network, request, cursor, history

Running == {"bind", "scan", "await"}

(* The inductive invariant.  A running invocation has a target; it begins   *)
(* its scan on page one; what it counts as steady is open.                  *)
RunningWantsATarget ==
    \A c \in Clients : pc[c] \in Running => want[c] \in Targets /\ inv[c] \in 1..MaxInvocations
ScanStartsAtPageOne == \A c \in Clients : pc[c] = "bind" => page[c] = 1
SteadyIsOpen == \A c \in Clients : steady[c] \subseteq open

(* The heart of it: a match that was there all along is still ahead of the  *)
(* scan, whatever the sizes of the pages read so far; none is left when the *)
(* scan is over.                                                            *)
Ahead(c) ==
    \A i \in steady[c] \cap Matches(c) : Position(i, open) > (page[c] - 1) * limit[c]
MatchIsAhead == \A c \in Clients : (pc[c] = "scan" /\ ~shifted[c]) => Ahead(c)
ScanFoundNone ==
    \A c \in Clients : (pc[c] = "await" /\ ~shifted[c]) => steady[c] \cap Matches(c) = {}

IInv == /\ TypeOK /\ RunningWantsATarget /\ ScanStartsAtPageOne
        /\ SteadyIsOpen /\ MatchIsAhead /\ ScanFoundNone

-----------------------------------------------------------------------------
(* The open records are a finite set of numbers.                            *)
LEMMA OpenIsFinite ==
    ASSUME NEW R \in Seq(Targets), NEW S, S \subseteq DOMAIN R
    PROVE  /\ IsFiniteSet(S) /\ S \subseteq Nat
           /\ Len(R) \in Nat /\ DOMAIN R = 1..Len(R)
<1>1. Len(R) \in Nat /\ DOMAIN R = 1..Len(R)
  OBVIOUS
<1>2. IsFiniteSet(1..Len(R)) /\ S \in SUBSET (1..Len(R))
  BY <1>1, FS_Interval
<1>3. IsFiniteSet(S)
  BY <1>2, FS_Subset
<1> QED  BY <1>1, <1>2, <1>3

(* The pages behind a scan are a number of records.                         *)
LEMMA BehindIsNat ==
    ASSUME TypeOK, NEW c \in Clients
    PROVE  /\ page[c] \in Nat \ {0} /\ limit[c] \in Nat \ {0}
           /\ (page[c] - 1) * limit[c] \in Nat
           /\ page[c] * limit[c] \in Nat
<1>1. page[c] \in Nat \ {0} /\ limit[c] \in Nat \ {0}
  BY PageAssumption DEF TypeOK
<1>2. page[c] - 1 \in Nat
  BY <1>1
<1>3. \A a, b \in Nat : a * b \in Nat
  OBVIOUS
<1> QED  BY <1>1, <1>2, <1>3

(* Init. *)
LEMMA InitIInv ==
    ASSUME Init
    PROVE  IInv
<1>1. PICK n \in 0..(MaxRecords - 1) : records \in [1..n -> Targets]
  BY DEF Init
<1>2. records \in Seq(Targets)
  BY <1>1, BoundsAssumption
<1>3. TypeOK
  <2>1. 1 \in 1..MaxPages /\ PageSize \in 1..PageSize /\ 0 \in 0..MaxInvocations
    BY PageAssumption, BoundsAssumption
  <2> QED  BY <1>2, <2>1 DEF Init, TypeOK, Ids, PcStates, PacketTypes, NoPacket, Unbound
<1>4. /\ RunningWantsATarget /\ ScanStartsAtPageOne
      /\ SteadyIsOpen /\ MatchIsAhead /\ ScanFoundNone
  BY DEF Init, Running, RunningWantsATarget, ScanStartsAtPageOne, SteadyIsOpen,
         MatchIsAhead, ScanFoundNone
<1> QED  BY <1>3, <1>4 DEF IInv
-----------------------------------------------------------------------------
(* A record that was opened or reopened, by whom ever, moves no match       *)
(* behind a scan and is itself none that was there all along.               *)
LEMMA GrowingKeepsMatchesAhead ==
    ASSUME IInv, TypeOK',
           open \subseteq open',
           \A i \in Ids : records'[i] = records[i],
           UNCHANGED <<pc, want, page, limit, steady, shifted>>
    PROVE  SteadyIsOpen' /\ MatchIsAhead' /\ ScanFoundNone'
<1>1. IsFiniteSet(open') /\ open' \subseteq Nat
  BY OpenIsFinite DEF TypeOK, Ids
<1>2. SteadyIsOpen'
  BY DEF IInv, SteadyIsOpen
<1>3. \A c \in Clients : steady[c] \subseteq open /\ open \subseteq Ids
  BY DEF IInv, SteadyIsOpen, TypeOK
<1>4. \A c \in Clients : steady'[c] \cap Matches(c)' = steady[c] \cap Matches(c)
  BY <1>3 DEF Matches
<1>5. MatchIsAhead'
  <2> SUFFICES ASSUME NEW c \in Clients, pc[c] = "scan", ~shifted[c],
                      NEW i \in steady[c] \cap Matches(c)
               PROVE  Position(i, open') > (page[c] - 1) * limit[c]
    BY <1>4 DEF MatchIsAhead, Ahead
  <2>1. Position(i, open) > (page[c] - 1) * limit[c]
    BY DEF IInv, MatchIsAhead, Ahead
  <2>2. i \in open /\ i \in open'
    BY <1>3
  <2>3. Position(i, open) <= Position(i, open')
    BY <1>1, <2>2, PositionGrows
  <2>4. Position(i, open') \in Nat
    BY <1>1, <2>2, PositionBounds
  <2>5. IsFiniteSet(open) /\ open \subseteq Nat
    BY OpenIsFinite DEF IInv, TypeOK, Ids
  <2>6. Position(i, open) \in Nat
    BY <2>2, <2>5, PositionBounds
  <2>7. (page[c] - 1) * limit[c] \in Nat
    BY BehindIsNat DEF IInv
  <2> QED  BY <2>1, <2>3, <2>4, <2>6, <2>7
<1>6. ScanFoundNone'
  BY <1>4 DEF IInv, ScanFoundNone
<1> QED  BY <1>2, <1>5, <1>6

(* A step of one client that leaves the records alone disturbs nobody       *)
(* else's scan.                                                             *)
LEMMA OwnStepSuffices ==
    ASSUME IInv, NEW c \in Clients,
           UNCHANGED forge,
           \A d \in Clients \ {c} :
               /\ pc'[d] = pc[d] /\ want'[d] = want[d]
               /\ page'[d] = page[d] /\ limit'[d] = limit[d]
               /\ steady'[d] = steady[d] /\ shifted'[d] = shifted[d],
           steady'[c] \subseteq open,
           (pc'[c] = "scan" /\ ~shifted'[c]) => Ahead(c)',
           (pc'[c] = "await" /\ ~shifted'[c]) => (steady[c] \cap Matches(c))' = {}
    PROVE  SteadyIsOpen' /\ MatchIsAhead' /\ ScanFoundNone'
<1>1. SteadyIsOpen'
  BY DEF IInv, SteadyIsOpen
<1>2. \A d \in Clients \ {c} : Matches(d)' = Matches(d)
  BY DEF Matches
<1>3. \A d \in Clients \ {c} : Ahead(d) => Ahead(d)'
  BY <1>2 DEF Ahead
<1>4. MatchIsAhead'
  BY <1>3 DEF IInv, MatchIsAhead
<1>5. ScanFoundNone'
  BY <1>2 DEF IInv, ScanFoundNone
<1> QED  BY <1>1, <1>4, <1>5

(* Closing a record.                                                        *)
LEMMA CloseKeepsMatchesAhead ==
    ASSUME IInv, NEW n \in Ids, Close(n)
    PROVE  SteadyIsOpen' /\ MatchIsAhead' /\ ScanFoundNone'
<1>1. IsFiniteSet(open) /\ open \subseteq Nat
  BY OpenIsFinite DEF IInv, TypeOK, Ids
<1>2. \A c \in Clients : steady'[c] = steady[c] \ {n}
  BY DEF Close, IInv, TypeOK
<1>3. \A c \in Clients : shifted'[c] =
        (shifted[c] \/ (pc[c] = "scan" /\ Position(n, open) <= (page[c] - 1) * limit[c]))
  BY DEF Close, IInv, TypeOK
<1>4. SteadyIsOpen'
  BY <1>2 DEF IInv, SteadyIsOpen, Close
<1>5. \A c \in Clients :
        (steady[c] \cap Matches(c))' = (steady[c] \cap Matches(c)) \ {n}
  BY <1>2 DEF Close, Matches
<1>6. MatchIsAhead'
  <2> SUFFICES ASSUME NEW c \in Clients, pc[c] = "scan", ~shifted'[c],
                      NEW i \in (steady[c] \cap Matches(c)) \ {n}
               PROVE  Position(i, open') > (page[c] - 1) * limit[c]
    BY <1>5 DEF MatchIsAhead, Ahead, Close
  <2>1. ~shifted[c] /\ ~(Position(n, open) <= (page[c] - 1) * limit[c])
    BY <1>3
  <2>2. Position(i, open) > (page[c] - 1) * limit[c]
    BY <2>1 DEF IInv, MatchIsAhead, Ahead
  <2>3. i \in open /\ n \in open /\ i # n /\ open' = open \ {n}
    BY DEF IInv, SteadyIsOpen, Close
  <2>4. (page[c] - 1) * limit[c] \in Nat
    BY BehindIsNat DEF IInv
  <2>5. Position(n, open) > (page[c] - 1) * limit[c]
    <3>1. Position(n, open) \in Nat
      BY <1>1, <2>3, PositionBounds
    <3>2. \A a, b \in Nat : ~(a <= b) => a > b
      OBVIOUS
    <3> QED  BY <2>1, <2>4, <3>1, <3>2
  <2> QED  BY <1>1, <2>2, <2>3, <2>4, <2>5, PositionAfterRemoval
<1>7. ScanFoundNone'
  BY <1>3, <1>5 DEF IInv, ScanFoundNone, Close
<1> QED  BY <1>4, <1>6, <1>7
-----------------------------------------------------------------------------
(* Printing a packet.                                                       *)
LEMMA EmitStep ==
    ASSUME IInv, NEW c \in Clients, NEW from \in Running,
           NEW p \in [type : PacketTypes, id : Ids \cup {Null}],
           Emit(c, from, p)
    PROVE  IInv'
<1> USE DEF IInv
<1>1. TypeOK'
  BY DEF TypeOK, Emit, Ids, PcStates, RunningWantsATarget, Unbound
<1>2. RunningWantsATarget' /\ ScanStartsAtPageOne'
  BY DEF TypeOK, Emit, RunningWantsATarget, ScanStartsAtPageOne, Running
<1>3. SteadyIsOpen' /\ MatchIsAhead' /\ ScanFoundNone'
  <2>1. steady[c] \subseteq open /\ pc'[c] = "done"
    BY DEF Emit, TypeOK, SteadyIsOpen
  <2>2. \A d \in Clients \ {c} : pc'[d] = pc[d]
    BY DEF Emit, TypeOK
  <2> QED  BY <2>1, <2>2, OwnStepSuffices DEF Emit
<1> QED  BY <1>1, <1>2, <1>3

(* The forge's own steps, and the serving of POSTs.                         *)
LEMMA ForgeStep ==
    ASSUME IInv,
           \/ OpenElsewhere
           \/ \E i \in Ids : Close(i) \/ Reopen(i)
           \/ \E p \in posts : ServePost(p) \/ DropPost(p)
    PROVE  IInv'
<1> USE DEF IInv
<1>1. ASSUME NEW t \in Targets, MakeRecord(t)
      PROVE  /\ records' \in Seq(Targets) /\ Len(records') = Len(records) + 1
             /\ Ids \subseteq Ids' /\ Len(records) + 1 \in Ids'
             /\ open \subseteq open' /\ open' \subseteq Ids'
             /\ \A i \in Ids : records'[i] = records[i]
  BY <1>1 DEF MakeRecord, TypeOK, Ids
<1>2. CASE OpenElsewhere
  <2>1. PICK t \in Targets : MakeRecord(t)
    BY <1>2 DEF OpenElsewhere
  <2>2. TypeOK'
    BY <1>1, <1>2, <2>1 DEF OpenElsewhere, TypeOK
  <2>3. SteadyIsOpen' /\ MatchIsAhead' /\ ScanFoundNone'
    BY <1>1, <1>2, <2>1, <2>2, GrowingKeepsMatchesAhead DEF OpenElsewhere
  <2> QED  BY <1>2, <2>2, <2>3 DEF OpenElsewhere, RunningWantsATarget, ScanStartsAtPageOne
<1>3. ASSUME NEW p \in posts, ServePost(p)
      PROVE  IInv'
  <2>1. p.target \in Targets /\ p.by \in Clients /\ MakeRecord(p.target)
    BY <1>3 DEF TypeOK, ServePost
  <2>2. TypeOK'
    BY <1>1, <1>3, <2>1 DEF ServePost, TypeOK
  <2>3. SteadyIsOpen' /\ MatchIsAhead' /\ ScanFoundNone'
    BY <1>1, <1>3, <2>1, <2>2, GrowingKeepsMatchesAhead DEF ServePost
  <2> QED  BY <1>3, <2>2, <2>3 DEF ServePost, RunningWantsATarget, ScanStartsAtPageOne
<1>4. ASSUME NEW p \in posts, DropPost(p)
      PROVE  IInv'
  <2>1. TypeOK'
    BY <1>4 DEF DropPost, TypeOK, Ids
  <2>2. SteadyIsOpen' /\ MatchIsAhead' /\ ScanFoundNone'
    BY <1>4, <2>1, GrowingKeepsMatchesAhead DEF DropPost
  <2> QED  BY <1>4, <2>1, <2>2 DEF DropPost, RunningWantsATarget, ScanStartsAtPageOne
<1>5. ASSUME NEW i \in Ids, Reopen(i)
      PROVE  IInv'
  <2>1. TypeOK'
    BY <1>5 DEF Reopen, TypeOK, Ids
  <2>2. SteadyIsOpen' /\ MatchIsAhead' /\ ScanFoundNone'
    BY <1>5, <2>1, GrowingKeepsMatchesAhead DEF Reopen
  <2> QED  BY <1>5, <2>1, <2>2 DEF Reopen, RunningWantsATarget, ScanStartsAtPageOne
<1>6. ASSUME NEW i \in Ids, Close(i)
      PROVE  IInv'
  <2>1. TypeOK'
    BY <1>6 DEF Close, TypeOK, Ids
  <2>2. SteadyIsOpen' /\ MatchIsAhead' /\ ScanFoundNone'
    BY <1>6, CloseKeepsMatchesAhead
  <2> QED  BY <1>6, <2>1, <2>2 DEF Close, RunningWantsATarget, ScanStartsAtPageOne
<1> QED  BY <1>2, <1>3, <1>4, <1>5, <1>6
-----------------------------------------------------------------------------
(* The steps of an invocation.                                              *)
LEMMA InvokeStep ==
    ASSUME IInv, NEW c \in Clients, Invoke(c)
    PROVE  IInv'
<1> USE DEF IInv
<1>1. TypeOK'
  <2>1. inv[c] + 1 \in 0..MaxInvocations /\ 1 \in 1..MaxPages /\ PageSize \in 1..PageSize
    BY PageAssumption, BoundsAssumption DEF Invoke, TypeOK
  <2> QED  BY <2>1 DEF Invoke, TypeOK, Ids, PcStates, NoPacket, PacketTypes
<1>2. RunningWantsATarget'
  <2>1. inv[c] + 1 \in 1..MaxInvocations
    BY BoundsAssumption DEF Invoke, TypeOK
  <2> QED  BY <2>1 DEF Invoke, TypeOK, RunningWantsATarget, Running
<1>3. ScanStartsAtPageOne'
  BY DEF Invoke, TypeOK, ScanStartsAtPageOne
<1>4. SteadyIsOpen' /\ MatchIsAhead' /\ ScanFoundNone'
  <2>1. steady'[c] \subseteq open /\ pc'[c] = "bind"
    BY DEF Invoke, TypeOK, SteadyIsOpen
  <2>2. \A d \in Clients \ {c} :
          /\ pc'[d] = pc[d] /\ want'[d] = want[d] /\ page'[d] = page[d]
          /\ limit'[d] = limit[d] /\ steady'[d] = steady[d] /\ shifted'[d] = shifted[d]
    BY DEF Invoke, TypeOK
  <2> QED  BY <2>1, <2>2, OwnStepSuffices DEF Invoke
<1> QED  BY <1>1, <1>2, <1>3, <1>4

(* The scan begins with every match ahead of it. *)
LEMMA BindStep ==
    ASSUME IInv, NEW c \in Clients, Bind(c)
    PROVE  IInv'
<1> USE DEF IInv
<1> DEFINE conflict == key[c] # Null /\ bound[c][key[c]] \notin {Null, want[c]}
<1>1. CASE conflict
  <2>1. ConflictPacket \in [type : PacketTypes, id : Ids \cup {Null}]
    BY DEF ConflictPacket, PacketTypes
  <2>2. Emit(c, "bind", ConflictPacket)
    BY <1>1 DEF Bind
  <2> QED  BY <2>1, <2>2, EmitStep DEF Running
<1>2. CASE ~conflict
  <2>0. /\ pc[c] = "bind"
        /\ pc' = [pc EXCEPT ![c] = "scan"]
        /\ bound' = IF key[c] = Null THEN bound ELSE [bound EXCEPT ![c][key[c]] = want[c]]
        /\ steady' = [steady EXCEPT ![c] = open]
        /\ shifted' = [shifted EXCEPT ![c] = FALSE]
        /\ UNCHANGED <<forge, network, request, cursor, packet>>
    BY <1>2 DEF Bind
  <2>1. want[c] \in Targets /\ page[c] = 1
    BY <2>0 DEF RunningWantsATarget, Running, ScanStartsAtPageOne
  <2>2. bound' \in [Clients -> [Keys -> Targets \cup {Null}]]
    <3>1. CASE key[c] = Null
      BY <2>0, <3>1 DEF TypeOK
    <3>2. CASE key[c] # Null
      <4>1. key[c] \in Keys
        BY <3>2 DEF TypeOK
      <4>2. bound' = [bound EXCEPT ![c] = [bound[c] EXCEPT ![key[c]] = want[c]]]
        BY <2>0, <3>2, <4>1 DEF TypeOK
      <4>3. [bound[c] EXCEPT ![key[c]] = want[c]] \in [Keys -> Targets \cup {Null}]
        BY <2>1, <4>1 DEF TypeOK
      <4> QED  BY <4>2, <4>3 DEF TypeOK
    <3> QED  BY <3>1, <3>2
  <2>3. TypeOK'
    BY <2>0, <2>2 DEF TypeOK, Ids, PcStates
  <2>4. RunningWantsATarget' /\ ScanStartsAtPageOne'
    BY <2>0 DEF TypeOK, RunningWantsATarget, ScanStartsAtPageOne, Running
  <2>5. SteadyIsOpen' /\ MatchIsAhead' /\ ScanFoundNone'
    <3>1. steady'[c] = open /\ pc'[c] = "scan"
      BY <2>0 DEF TypeOK
    <3>2. \A d \in Clients \ {c} :
            pc'[d] = pc[d] /\ steady'[d] = steady[d] /\ shifted'[d] = shifted[d]
      BY <2>0 DEF TypeOK
    <3>3. IsFiniteSet(open) /\ open \subseteq Nat
      BY OpenIsFinite DEF TypeOK, Ids
    <3>4. \A i \in open : Position(i, open) \in Nat /\ Position(i, open) >= 1
      BY <3>3, PositionBounds
    <3>5. limit[c] \in Nat
      BY BehindIsNat
    <3>6. (page[c] - 1) * limit[c] = 0
      BY <2>1, <3>5
    <3>7. \A i \in open : Position(i, open) > (page[c] - 1) * limit[c]
      BY <3>4, <3>6
    <3>8. Ahead(c)'
      BY <2>0, <3>1, <3>7 DEF Ahead, Matches
    <3> QED  BY <2>0, <3>1, <3>2, <3>8, OwnStepSuffices
  <2> QED  BY <2>3, <2>4, <2>5
<1> QED  BY <1>1, <1>2

(* A full page without a match: the matches are beyond it. *)
LEMMA NextPageStep ==
    ASSUME IInv, NEW c \in Clients, NextPage(c)
    PROVE  IInv'
<1> USE DEF IInv
<1>1. TypeOK'
  <2>1. page[c] + 1 \in 1..MaxPages
    BY PageAssumption DEF NextPage, TypeOK
  <2> QED  BY <2>1 DEF NextPage, TypeOK, Ids
<1>2. RunningWantsATarget' /\ ScanStartsAtPageOne'
  BY DEF NextPage, NoMatchOnPage, RunningWantsATarget, ScanStartsAtPageOne, TypeOK
<1>3. page'[c] = page[c] + 1 /\ \A d \in Clients \ {c} : page'[d] = page[d]
  BY DEF NextPage, TypeOK
<1>4. Ahead(c) => Ahead(c)'
  <2> SUFFICES ASSUME Ahead(c), NEW i \in steady[c] \cap Matches(c)
               PROVE  Position(i, open) > (page'[c] - 1) * limit[c]
    BY DEF Ahead, Matches, NextPage
  <2>1. Position(i, open) > (page[c] - 1) * limit[c]
    BY DEF Ahead
  <2>2. i \in open /\ i \notin Page(c)
    BY DEF NextPage, NoMatchOnPage, Matches
  <2>3. ~(Position(i, open) <= page[c] * limit[c])
    BY <2>1, <2>2 DEF Page, PageOf
  <2>4. Position(i, open) \in Nat
    <3>1. IsFiniteSet(open) /\ open \subseteq Nat
      BY OpenIsFinite DEF TypeOK, Ids
    <3> QED  BY <2>2, <3>1, PositionBounds
  <2>5. page[c] * limit[c] \in Nat /\ page'[c] - 1 = page[c]
    BY <1>3, BehindIsNat
  <2>6. \A a, b \in Nat : ~(a <= b) => a > b
    OBVIOUS
  <2> QED  BY <2>3, <2>4, <2>5, <2>6
<1>5. pc[c] = "scan" /\ steady[c] \subseteq open
  BY DEF NextPage, NoMatchOnPage, SteadyIsOpen
<1>6. ~shifted[c] => Ahead(c)
  BY <1>5 DEF MatchIsAhead
<1>7. SteadyIsOpen' /\ MatchIsAhead' /\ ScanFoundNone'
  BY <1>3, <1>4, <1>5, <1>6, OwnStepSuffices DEF NextPage
<1> QED  BY <1>1, <1>2, <1>7

(* Smaller pages: fewer records are behind the scan than it has read. *)
LEMMA BackOffStep ==
    ASSUME IInv, NEW c \in Clients, BackOff(c)
    PROVE  IInv'
<1> USE DEF IInv
<1>1. page[c] \in Nat \ {0} /\ limit[c] \in Nat \ {0} /\ limit[c] <= PageSize
  BY BehindIsNat DEF TypeOK
<1>2. Halved(limit[c]) \in 1..limit[c] /\ (page[c] - 1) * Halved(limit[c]) <= (page[c] - 1) * limit[c]
  BY <1>1, HalvedShrinks
<1>3. limit'[c] = Halved(limit[c]) /\ \A d \in Clients \ {c} : limit'[d] = limit[d]
  BY DEF BackOff, TypeOK
<1>4. TypeOK'
  <2>1. Halved(limit[c]) \in 1..PageSize
    BY <1>1, <1>2, PageAssumption
  <2> QED  BY <2>1 DEF BackOff, TypeOK, Ids
<1>5. RunningWantsATarget' /\ ScanStartsAtPageOne'
  BY DEF BackOff, RunningWantsATarget, ScanStartsAtPageOne
<1>6. Ahead(c) => Ahead(c)'
  <2> SUFFICES ASSUME Ahead(c), NEW i \in steady[c] \cap Matches(c)
               PROVE  Position(i, open) > (page[c] - 1) * limit'[c]
    BY DEF Ahead, Matches, BackOff
  <2>1. Position(i, open) > (page[c] - 1) * limit[c]
    BY DEF Ahead
  <2>2. Position(i, open) \in Nat
    <3>1. IsFiniteSet(open) /\ open \subseteq Nat /\ i \in open
      BY OpenIsFinite DEF TypeOK, Ids, Matches
    <3> QED  BY <3>1, PositionBounds
  <2>3. (page[c] - 1) * limit[c] \in Nat /\ (page[c] - 1) * limit'[c] \in Nat
    BY <1>1, <1>2, <1>3, <1>4, BehindIsNat
  <2>4. \A a, x, y \in Nat : a > x /\ y <= x => a > y
    OBVIOUS
  <2> QED  BY <1>2, <1>3, <2>1, <2>2, <2>3, <2>4
<1>7. pc[c] = "scan" /\ steady[c] \subseteq open
  BY DEF BackOff, SteadyIsOpen
<1>8. ~shifted[c] => Ahead(c)
  BY <1>7 DEF MatchIsAhead
<1>9. SteadyIsOpen' /\ MatchIsAhead' /\ ScanFoundNone'
  BY <1>3, <1>6, <1>7, <1>8, OwnStepSuffices DEF BackOff
<1> QED  BY <1>4, <1>5, <1>9

(* A short page without a match: no match is left. *)
LEMMA SendPostStep ==
    ASSUME IInv, NEW c \in Clients, SendPost(c)
    PROVE  IInv'
<1> USE DEF IInv
<1>1. pc[c] = "scan" /\ pc'[c] = "await" /\ \A d \in Clients \ {c} : pc'[d] = pc[d]
  BY DEF SendPost, NoMatchOnPage, TypeOK
<1>2. want[c] \in Targets /\ inv[c] \in 1..MaxInvocations /\ steady[c] \subseteq open
  BY <1>1 DEF RunningWantsATarget, Running, SteadyIsOpen
<1>3. TypeOK'
  BY <1>2 DEF SendPost, TypeOK, Ids, PcStates
<1>4. RunningWantsATarget' /\ ScanStartsAtPageOne'
  BY <1>1, <1>2 DEF SendPost, RunningWantsATarget, ScanStartsAtPageOne
<1>5. ~shifted[c] => steady[c] \cap Matches(c) = {}
  <2> SUFFICES ASSUME ~shifted[c], NEW i \in steady[c] \cap Matches(c) PROVE FALSE
    OBVIOUS
  <2>1. Position(i, open) > (page[c] - 1) * limit[c]
    BY <1>1 DEF MatchIsAhead, Ahead
  <2>2. i \in open /\ i \notin Page(c)
    BY DEF SendPost, NoMatchOnPage, Matches
  <2>3. ~(Position(i, open) <= page[c] * limit[c])
    BY <2>1, <2>2 DEF Page, PageOf
  <2>4. Cardinality(open) < page[c] * limit[c]
    BY DEF SendPost, EndsWithin
  <2>5. /\ Position(i, open) \in Nat /\ Cardinality(open) \in Nat
        /\ Position(i, open) <= Cardinality(open)
    <3>1. IsFiniteSet(open) /\ open \subseteq Nat
      BY OpenIsFinite DEF TypeOK, Ids
    <3> QED  BY <2>2, <3>1, PositionBounds, FS_CardinalityType
  <2>6. page[c] * limit[c] \in Nat
    BY BehindIsNat
  <2>7. \A a, b, d \in Nat : a <= b /\ b < d => a <= d
    OBVIOUS
  <2> QED  BY <2>3, <2>4, <2>5, <2>6, <2>7
<1>6. (steady[c] \cap Matches(c))' = steady[c] \cap Matches(c)
  BY DEF SendPost, Matches
<1>7. SteadyIsOpen' /\ MatchIsAhead' /\ ScanFoundNone'
  BY <1>1, <1>2, <1>5, <1>6, OwnStepSuffices DEF SendPost
<1> QED  BY <1>3, <1>4, <1>7

\* A step of a running command keeps the type and the matches ahead of
\* every scan.
LEMMA ProceedStep ==
    ASSUME IInv, NEW c \in Clients, Proceed(c)
    PROVE  IInv'
<1> DEFINE Packets == [type : PacketTypes, id : Ids \cup {Null}]
<1>1. CASE Bind(c)
  BY <1>1, BindStep
<1>2. CASE ReuseMatch(c)
  <2>1. PICK i \in Page(c) \cap Matches(c) : Emit(c, "scan", OpenedPacket(FALSE, i))
    BY <1>2 DEF ReuseMatch
  <2>2. OpenedPacket(FALSE, i) \in Packets
    BY <2>1 DEF OpenedPacket, PacketTypes, Matches, IInv, TypeOK
  <2> QED  BY <2>1, <2>2, EmitStep DEF Running
<1>3. CASE NextPage(c)
  BY <1>3, NextPageStep
<1>4. CASE BackOff(c)
  BY <1>4, BackOffStep
<1>5. CASE ScanIncomplete(c) \/ ScanFails(c) \/ PostFails(c)
  <2>1. ScanIncompletePacket \in Packets /\ ErrorPacket \in Packets
    BY DEF ScanIncompletePacket, ErrorPacket, PacketTypes
  <2> QED  BY <1>5, <2>1, EmitStep DEF ScanIncomplete, ScanFails, PostFails, Running
<1>6. CASE SendPost(c)
  BY <1>6, SendPostStep
<1>7. CASE ReceiveCreated(c)
  <2>1. OpenedPacket(TRUE, reply[c]) \in Packets
    BY DEF OpenedPacket, PacketTypes, IInv, TypeOK
  <2> QED  BY <1>7, <2>1, EmitStep DEF ReceiveCreated, Running
<1> QED  BY <1>1, <1>2, <1>3, <1>4, <1>5, <1>6, <1>7 DEF Proceed

\* A stuttering step changes nothing the invariant speaks of.
LEMMA StutterStep ==
    ASSUME IInv, UNCHANGED vars
    PROVE  IInv'
BY DEF IInv, vars, TypeOK, Ids, RunningWantsATarget, ScanStartsAtPageOne, SteadyIsOpen,
       MatchIsAhead, Ahead, ScanFoundNone, Matches
-----------------------------------------------------------------------------
(* The invariant, for any number of clients, records, pages and commands.   *)
THEOREM Invariant == Spec => []IInv
<1>1. Init => IInv
  BY InitIInv
<1>2. IInv /\ [Next]_vars => IInv'
  <2> SUFFICES ASSUME IInv, [Next]_vars PROVE IInv'
    OBVIOUS
  <2>1. CASE \E c \in Clients : Invoke(c) \/ Proceed(c)
    BY <2>1, InvokeStep, ProceedStep
  <2>2. CASE UNCHANGED vars
    BY <2>2, StutterStep
  <2> QED  BY <2>1, <2>2, ForgeStep DEF Next
<1> QED  BY <1>1, <1>2, PTL DEF Spec

(* Types; no walk reads past its last page, and no back-off asks for an     *)
(* empty page.                                                              *)
THEOREM TypeCorrect == Spec => []TypeOK
<1>1. IInv => TypeOK
  BY DEF IInv
<1> QED  BY <1>1, Invariant, PTL

(* A record is posted only after a scan that would have met a match that    *)
(* was there all along, unless a record it had read past was closed.        *)
THEOREM PostsProveAbsence == Spec => []PostProvesAbsence
<1>1. IInv => PostProvesAbsence
  BY DEF IInv, ScanFoundNone, PostProvesAbsence
<1> QED  BY <1>1, Invariant, PTL
===========================================================================
