--------------------------- MODULE PrReadsProofs ---------------------------
(***************************************************************************)
(* Proofs about PrReads for any provider, any number of heads, records,    *)
(* files and comments: types and the bounds of the walks, that a complete  *)
(* list missed nothing, that a plan without blockers is grounded in the    *)
(* forge's facts, and that a stale head is named.                          *)
(***************************************************************************)
EXTENDS PrReads, PagingProofs

CheckListings == {"statuses", "runs"}

(* The inductive invariant.  The program counter fits the command, and what *)
(* follows the second read of a pull knows the head it is about.            *)
StepFitsCommand ==
    /\ pc \in {"idle", "view", "pull", "protection", "listings"} =>
         \A l \in Listings : walks[l] = Null
    /\ pc = "view" => command \notin {"files", "comments", "checks_ref"}
    /\ pc = "pull" => command \in {"checks", "plan"}
    /\ pc \in {"protection", "listings"} => ReadsChecks /\ sha \in Heads

(* A listing is walked for a command that reads it; the files of a plan     *)
(* when its checks are read.                                                *)
WalksFitCommand ==
    \A l \in Listings : walks[l] # Null =>
        /\ l \in CheckListings => ReadsChecks /\ l \in Sources /\ sha \in Heads
        /\ l = "files" =>
             \/ command = "files"
             \/ command = "plan" /\ \A k \in CheckListings : walks[k] = Null
        /\ l = "comments" => command = "comments"

FilesAreFinite == IsFiniteSet(files)
DueIsOfTheseFiles == due["files"] \in {{}, files}

(* The heart of it: whatever a walk has to find it has got, or it is still  *)
(* ahead of the page the walk is about to read.                             *)
Ahead(l) ==
    \A i \in due[l] \ walks[l].got :
        /\ i \in Listed(l)
        /\ Position(i, Listed(l)) > (walks[l].page - 1) * walks[l].limit
WalkMisses(l) ==
    /\ IsFiniteSet(walks[l].got)
    /\ ~walks[l].done => Ahead(l)
    /\ walks[l].done /\ ~walks[l].cut => due[l] \subseteq walks[l].got
    /\ l \in CheckListings => walks[l].got \subseteq DOMAIN records[sha][l]
WalksMissNothing == \A l \in Listings : walks[l] # Null => WalkMisses(l)

(* What the checks of a plan without blockers say of the forge.             *)
ChecksAreGrounded ==
    /\ \A l \in Sources : due[l] \subseteq DOMAIN records[sha][l]
    /\ \A l \in Sources, x \in Contexts : \A i \in LastOf(l, x, due[l]) :
         Bad(l, i) => \E j \in DOMAIN records[sha][l] :
             j > i /\ RecordAt(l, j).context = x /\ ~Bad(l, j)
    /\ required \subseteq
         ContextsOf(UNION {{RecordAt(l, i) : i \in DOMAIN records[sha][l]} : l \in Sources})
ScopedPlanIsGrounded ==
    (command = "plan" /\ walks["files"] # Null /\ pc = "walk") =>
        /\ sha \in Heads
        /\ CheckBlockers(checks, DefaultPolicy) = {} => ChecksAreGrounded

(* The clone's head is excused, and the head a command is about unless the  *)
(* comparison with the clone is still to come.                              *)
HeadIsExcused ==
    /\ pc # "idle" => local \in excused
    /\ (pc = "pull" /\ command = "checks") => head \in excused \/ Null \in excused
    /\ (pc \in {"protection", "listings", "walk"} /\ command \in {"checks", "checks_ref"}) =>
         sha \in excused \/ Null \in excused

IInv == /\ TypeOK /\ StepFitsCommand /\ WalksFitCommand /\ FilesAreFinite /\ DueIsOfTheseFiles
        /\ WalksMissNothing /\ ScopedPlanIsGrounded /\ HeadIsExcused
        /\ CompleteListMissesNothing /\ ClearPlanIsGrounded /\ StaleHeadIsNamed
-----------------------------------------------------------------------------
(* What a walk lists is a finite set of numbers.                            *)
LEMMA ListedIsFinite ==
    ASSUME TypeOK, FilesAreFinite, NEW l \in Listings, l \in CheckListings => sha \in Heads
    PROVE  IsFiniteSet(Listed(l)) /\ Listed(l) \subseteq Nat
<1>1. CASE l = "files"
  BY <1>1, PathsAssumption DEF Listed, TypeOK, FilesAreFinite
<1>2. CASE l = "comments"
  <2>1. made \in Nat /\ comments \in SUBSET (1..made) /\ 1..made \subseteq Nat
    BY DEF TypeOK
  <2>2. IsFiniteSet(1..made)
    BY <2>1, FS_Interval
  <2>3. IsFiniteSet(comments)
    BY <2>1, <2>2, FS_Subset
  <2> QED  BY <1>2, <2>1, <2>3 DEF Listed
<1>3. CASE l \in CheckListings
  <2>1. records[sha][l] \in Seq(Record)
    BY <1>3 DEF TypeOK, CheckListings
  <2>2. Len(records[sha][l]) \in Nat /\ DOMAIN records[sha][l] = 1..Len(records[sha][l])
    BY <2>1
  <2>3. IsFiniteSet(1..Len(records[sha][l]))
    BY <2>2, FS_Interval
  <2>4. Listed(l) = 1..Len(records[sha][l])
    BY <1>3, <2>2 DEF Listed, CheckListings
  <2> QED  BY <2>2, <2>3, <2>4
<1> QED  BY <1>1, <1>2, <1>3 DEF Listings, CheckListings

(* The pages behind a walk are a number of items.                           *)
LEMMA BehindIsNat ==
    ASSUME NEW w \in WalkRecord
    PROVE  /\ w.page \in Nat \ {0} /\ w.limit \in Nat \ {0} /\ w.limit \in 1..PageSize
           /\ (w.page - 1) * w.limit \in Nat
           /\ w.page * w.limit \in Nat
<1>1. w.page \in Nat \ {0} /\ w.limit \in Nat \ {0} /\ w.limit \in 1..PageSize
  BY SizesAssumption DEF WalkRecord, Limits
<1>2. w.page - 1 \in Nat
  BY <1>1
<1>3. \A a, b \in Nat : a * b \in Nat
  OBVIOUS
<1> QED  BY <1>1, <1>2, <1>3

(* A page is a finite part of the list.                                     *)
LEMMA PageIsFinite ==
    ASSUME IInv, NEW l \in Listings, walks[l] # Null
    PROVE  /\ walks[l] \in WalkRecord
           /\ IsFiniteSet(Listed(l)) /\ Listed(l) \subseteq Nat
           /\ IsFiniteSet(PageShown(l)) /\ PageShown(l) \subseteq Listed(l)
<1>1. walks[l] \in WalkRecord
  BY DEF IInv, TypeOK
<1>2. IsFiniteSet(Listed(l)) /\ Listed(l) \subseteq Nat
  BY ListedIsFinite DEF IInv, WalksFitCommand
<1>3. PageShown(l) \subseteq Listed(l)
  BY DEF PageShown, PageOf
<1>4. IsFiniteSet(PageShown(l))
  BY <1>2, <1>3, FS_Subset
<1> QED  BY <1>1, <1>2, <1>3, <1>4

(* What a walk has after one more page: nothing it has to find is left      *)
(* behind the next page, and nothing at all when the page is the last.      *)
LEMMA OnePageMore ==
    ASSUME IInv, NEW l \in Listings, Walking(l)
    PROVE  /\ Collected(l) \in WalkRecord
           /\ IsFiniteSet(Collected(l).got)
           /\ Collected(l).count >= Cardinality(Countable(l, Collected(l).got))
           /\ l \in CheckListings => Collected(l).got \subseteq DOMAIN records[sha][l]
           /\ \A i \in due[l] \ Collected(l).got :
                /\ i \in Listed(l)
                /\ Position(i, Listed(l)) > ((walks[l].page + 1) - 1) * walks[l].limit
           /\ LastPage(l) => due[l] \subseteq Collected(l).got
<1> DEFINE w == walks[l]
           P == PageShown(l)
           G == w.got \cup P
           C(S) == Countable(l, S)
<1>1. /\ w \in WalkRecord /\ IsFiniteSet(Listed(l)) /\ Listed(l) \subseteq Nat
      /\ IsFiniteSet(P) /\ P \subseteq Listed(l) /\ P \subseteq Nat
  BY PageIsFinite DEF Walking
<1>2. WalkMisses(l) /\ ~w.done /\ w.count >= Cardinality(C(w.got))
  BY DEF IInv, WalksMissNothing, Walking, TypeOK
<1>3. /\ IsFiniteSet(w.got) /\ IsFiniteSet(C(w.got)) /\ IsFiniteSet(C(P))
      /\ Cardinality(C(P)) \in Nat /\ Cardinality(C(w.got)) \in Nat
  <2>1. IsFiniteSet(w.got) /\ C(w.got) \subseteq w.got /\ C(P) \subseteq P
    BY <1>2 DEF WalkMisses, Countable
  <2>2. IsFiniteSet(C(w.got)) /\ IsFiniteSet(C(P))
    BY <1>1, <2>1, FS_Subset
  <2> QED  BY <2>1, <2>2, FS_CardinalityType
<1>4. /\ IsFiniteSet(G) /\ IsFiniteSet(C(G))
      /\ Cardinality(C(G)) <= Cardinality(C(w.got)) + Cardinality(C(P))
  <2>1. IsFiniteSet(G)
    BY <1>1, <1>3, FS_Union
  <2>2. C(G) = C(w.got) \cup C(P)
    BY DEF Countable
  <2>3. /\ IsFiniteSet(C(G))
        /\ Cardinality(C(G)) = Cardinality(C(w.got)) + Cardinality(C(P))
                                - Cardinality(C(w.got) \cap C(P))
    <3> HIDE DEF C, G, P, w
    <3> QED  BY <1>3, <2>2, FS_Union
  <2>4. IsFiniteSet(C(w.got) \cap C(P))
    BY <1>3, FS_Intersection
  <2>5. Cardinality(C(w.got) \cap C(P)) \in Nat
    BY <2>4, FS_CardinalityType
  <2> HIDE DEF C, G, P, w
  <2> QED  BY <1>3, <2>1, <2>3, <2>5
<1>5. Collected(l) = [w EXCEPT !.got = G, !.count = w.count + Cardinality(C(P))]
  BY DEF Collected
<1>6. /\ Collected(l) \in WalkRecord /\ Collected(l).got = G
      /\ Collected(l).count = w.count + Cardinality(C(P))
  <2>1. G \in SUBSET Nat /\ w.count + Cardinality(C(P)) \in Nat
    BY <1>1, <1>3 DEF WalkRecord
  <2> HIDE DEF C, G, P, w
  <2> QED  BY <1>1, <1>5, <2>1 DEF WalkRecord
<1>7. Collected(l).count >= Cardinality(Countable(l, Collected(l).got))
  <2>1. w.count \in Nat /\ Cardinality(C(G)) \in Nat
    BY <1>1, <1>4, FS_CardinalityType DEF WalkRecord
  <2> SUFFICES w.count + Cardinality(C(P)) >= Cardinality(C(G))
    BY <1>6
  <2> HIDE DEF C, G, P, w
  <2> QED  BY <1>2, <1>3, <1>4, <1>6, <2>1
<1>8. l \in CheckListings => G \subseteq DOMAIN records[sha][l]
  BY <1>1, <1>2 DEF WalkMisses, Listed, CheckListings
<1>9. /\ w.page \in Nat \ {0} /\ w.limit \in Nat \ {0}
      /\ w.page * w.limit \in Nat
  BY <1>1, BehindIsNat
<1>10. ASSUME NEW i \in due[l] \ G
       PROVE  /\ i \in Listed(l) /\ ~WholeAnswer(l)
              /\ Position(i, Listed(l)) > (w.page - 1) * w.limit
              /\ i \notin PageOf(Listed(l), w.page, w.limit)
  BY <1>2, <1>10 DEF WalkMisses, Ahead, PageShown
<1>11. ASSUME NEW i \in due[l] \ G
       PROVE  Position(i, Listed(l)) > ((w.page + 1) - 1) * w.limit
  BY <1>1, <1>9, <1>10, <1>11, AheadOfNextPage
<1>12. ASSUME LastPage(l), NEW i \in due[l] \ G
       PROVE  FALSE
  <2>1. Cardinality(Listed(l)) \in Nat
    BY <1>1, FS_CardinalityType
  <2>2. Cardinality(Listed(l)) <= w.page * w.limit
    BY <1>9, <1>10, <1>12, <2>1 DEF LastPage, EndsWithin
  <2>3. i \in PageOf(Listed(l), w.page, w.limit)
    BY <1>1, <1>9, <1>10, <1>12, <2>2, AheadIsOnLastPage
  <2> QED  BY <1>10, <1>12, <2>3
<1> QED  BY <1>4, <1>6, <1>7, <1>8, <1>10, <1>11, <1>12

(* A turn of a walk: only the walk at hand has to be looked at.             *)
LEMMA TurnStep ==
    ASSUME IInv, NEW l \in Listings, Walking(l), NEW w \in WalkRecord,
           Turn(l, w), Go("walk"), Reading,
           w.count >= Cardinality(Countable(l, w.got)), WalkMisses(l)'
    PROVE  IInv'
<1> USE DEF IInv
<1>1. /\ walks' = [walks EXCEPT ![l] = w] /\ pc = "walk" /\ pc' = "walk"
      /\ UNCHANGED <<provider, head, records, files, comments, made, local, moves, command,
                     allowed, viewed, sha, required, checks, packet, due, excused>>
  BY DEF Turn, Go, Reading, Quiet, forge, Walking
<1>2. /\ walks' \in [Listings -> WalkRecord \cup {Null}] /\ walks'[l] = w
      /\ walks[l] # Null /\ \A k \in Listings \ {l} : walks'[k] = walks[k]
  BY <1>1 DEF TypeOK, Walking
<1>3. TypeOK'
  BY <1>1, <1>2 DEF TypeOK
<1>4. Sources' = Sources /\ ReadsChecks' = ReadsChecks /\ \A k \in Listings : Listed(k)' = Listed(k)
  BY <1>1 DEF Sources, ReadsChecks, Listed
<1>5. StepFitsCommand'
  BY <1>1, <1>4 DEF StepFitsCommand
<1>6. WalksFitCommand'
  BY <1>1, <1>2, <1>4 DEF WalksFitCommand, Listings, CheckListings
<1>7. WalksMissNothing'
  <2>1. ASSUME NEW k \in Listings \ {l}, WalkMisses(k) PROVE WalkMisses(k)'
    BY <1>1, <1>2, <1>4, <2>1 DEF WalkMisses, Ahead
  <2> QED  BY <1>2, <2>1 DEF WalksMissNothing
<1>8. ScopedPlanIsGrounded'
  <2>1. walks'["files"] # Null => walks["files"] # Null
    BY <1>2 DEF Listings
  <2>2. ChecksAreGrounded' = ChecksAreGrounded
    BY <1>1, <1>4 DEF ChecksAreGrounded, LastOf, RecordAt, Bad, ContextsOf
  <2> QED  BY <1>1, <2>1, <2>2 DEF ScopedPlanIsGrounded
<1>9. HeadIsExcused' /\ FilesAreFinite' /\ DueIsOfTheseFiles'
  BY <1>1 DEF HeadIsExcused, FilesAreFinite, DueIsOfTheseFiles
<1>10. packet'.type = "none"
  BY <1>1 DEF TypeOK
<1>11. CompleteListMissesNothing' /\ ClearPlanIsGrounded' /\ StaleHeadIsNamed'
  BY <1>10 DEF CompleteListMissesNothing, ClearPlanIsGrounded, StaleHeadIsNamed
<1> QED  BY <1>3, <1>5, <1>6, <1>7, <1>8, <1>9, <1>11

(* A page read: the walk goes on to the next, or it is over, with the whole *)
(* list or with a part of it.                                               *)
LEMMA PageStep ==
    ASSUME IInv, NEW l \in Listings, Walking(l), NEW w \in WalkRecord,
           Turn(l, w), Go("walk"), Reading,
           w.got = Collected(l).got, w.count = Collected(l).count,
           \/ ~w.done /\ w.page = walks[l].page + 1 /\ w.limit = walks[l].limit
           \/ w.done /\ (LastPage(l) \/ w.cut)
    PROVE  IInv'
<1>1. /\ walks' = [walks EXCEPT ![l] = w]
      /\ UNCHANGED <<records, files, comments, sha, due>>
  BY DEF Turn, Go, Reading, Quiet, forge
<1>2. walks'[l] = w
  BY <1>1 DEF IInv, TypeOK
<1>3. Listed(l)' = Listed(l)
  BY <1>1 DEF Listed
<1>4. WalkMisses(l)'
  BY <1>1, <1>2, <1>3, OnePageMore DEF WalkMisses, Ahead
<1>5. w.count >= Cardinality(Countable(l, w.got))
  BY OnePageMore
<1> QED  BY <1>4, <1>5, TurnStep

(* The steps of a walk that is answered with a list.                        *)
LEMMA ReadPageStep ==
    ASSUME IInv, NEW l \in Listings,
           NextPage(l) \/ EndOfList(l) \/ PageCap(l) \/ UntrustedLink(l) \/ BackOff(l)
    PROVE  IInv'
<1>1. Walking(l) /\ Go("walk") /\ Reading
  BY DEF NextPage, EndOfList, PageCap, UntrustedLink, BackOff
<1> DEFINE c == Collected(l)
<1>2. walks[l] \in WalkRecord /\ c \in WalkRecord
  BY <1>1, OnePageMore, PageIsFinite DEF Walking
<1>3. c.page = walks[l].page /\ c.limit = walks[l].limit /\ c.done = walks[l].done
  BY <1>2 DEF Collected, WalkRecord
<1>4. CASE NextPage(l)
  <2> DEFINE w == [c EXCEPT !.page = @ + 1]
  <2>1. c.page + 1 \in 1..MaxPages
    BY <1>2, <1>3, <1>4, SizesAssumption DEF NextPage, WalkRecord
  <2>2. /\ w \in WalkRecord /\ w.got = c.got /\ w.count = c.count /\ w.limit = c.limit
        /\ w.page = c.page + 1 /\ w.done = c.done
    <3> HIDE DEF c
    <3> QED  BY <1>2, <2>1 DEF WalkRecord
  <2>3. Turn(l, w) /\ ~w.done
    BY <1>1, <1>3, <1>4, <2>2 DEF NextPage, Walking
  <2> HIDE DEF w
  <2> QED  BY <1>1, <1>3, <2>2, <2>3, PageStep
<1>5. CASE EndOfList(l)
  <2> DEFINE w == [c EXCEPT !.done = TRUE]
  <2>1. w \in WalkRecord /\ w.got = c.got /\ w.count = c.count /\ w.done
    <3> HIDE DEF c
    <3> QED  BY <1>2 DEF WalkRecord
  <2>2. Turn(l, w) /\ LastPage(l)
    BY <1>5 DEF EndOfList
  <2> HIDE DEF w
  <2> QED  BY <1>1, <2>1, <2>2, PageStep
<1>6. CASE PageCap(l) \/ UntrustedLink(l)
  <2> DEFINE w == [c EXCEPT !.done = TRUE, !.cut = TRUE]
  <2>1. w \in WalkRecord /\ w.got = c.got /\ w.count = c.count /\ w.done /\ w.cut
    <3> DEFINE v == [c EXCEPT !.done = TRUE]
    <3>1. v \in WalkRecord /\ v.got = c.got /\ v.count = c.count /\ v.done
      <4> HIDE DEF c
      <4> QED  BY <1>2 DEF WalkRecord
    <3>2. w = [v EXCEPT !.cut = TRUE]
      OBVIOUS
    <3> HIDE DEF v, c, w
    <3> QED  BY <3>1, <3>2 DEF WalkRecord
  <2>2. Turn(l, w)
    BY <1>6 DEF PageCap, UntrustedLink
  <2> HIDE DEF w
  <2> QED  BY <1>1, <2>1, <2>2, PageStep
<1>7. CASE BackOff(l)
  <2> DEFINE v == walks[l]
             h == Halved(v.limit)
             w == [v EXCEPT !.limit = h]
  <2>1. /\ v.page \in Nat \ {0} /\ v.limit \in Nat \ {0} /\ v.limit \in 1..PageSize
        /\ (v.page - 1) * v.limit \in Nat
    BY <1>2, BehindIsNat
  <2>2. h \in 1..v.limit /\ (v.page - 1) * h <= (v.page - 1) * v.limit
    BY <2>1, HalvedShrinks
  <2>3. h \in Limits
    BY <2>1, <2>2, SizesAssumption DEF Limits
  <2>4. /\ w \in WalkRecord /\ w.got = v.got /\ w.count = v.count /\ w.page = v.page
        /\ w.limit = h /\ w.done = v.done /\ w.cut = v.cut
    <3> HIDE DEF h, v
    <3> QED  BY <1>2, <2>3 DEF WalkRecord, v
  <2>5. Turn(l, w)
    BY <1>7 DEF BackOff
  <2>6. WalkMisses(l) /\ v.count >= Cardinality(Countable(l, v.got)) /\ ~v.done
    BY <1>1 DEF IInv, WalksMissNothing, TypeOK, Walking
  <2>7. ASSUME NEW i \in Listed(l), Position(i, Listed(l)) > (v.page - 1) * v.limit
        PROVE  Position(i, Listed(l)) > (v.page - 1) * h
    <3>1. Position(i, Listed(l)) \in Nat
      BY <1>1, PageIsFinite, PositionBounds DEF Walking
    <3>2. (v.page - 1) * h \in Nat
      BY <2>4, BehindIsNat
    <3>3. \A a, x, y \in Nat : a > x /\ y <= x => a > y
      OBVIOUS
    <3> HIDE DEF h, v
    <3> QED  BY <2>1, <2>2, <2>7, <3>1, <3>2, <3>3
  <2>8. /\ walks'[l] = w /\ UNCHANGED <<records, files, comments, sha, due>>
    BY <1>1, <2>5 DEF IInv, TypeOK, Turn, Go, Reading, Quiet, forge
  <2>9. Listed(l)' = Listed(l)
    BY <2>8 DEF Listed
  <2>10. WalkMisses(l)'
    <3> HIDE DEF w, h
    <3> QED  BY <2>4, <2>6, <2>7, <2>8, <2>9 DEF WalkMisses, Ahead
  <2> HIDE DEF w
  <2> QED  BY <1>1, <2>4, <2>5, <2>6, <2>10, TurnStep
<1> QED  BY <1>4, <1>5, <1>6, <1>7
-----------------------------------------------------------------------------
(* The forge and the clone.                                                 *)

(* CI reports: a listing grows, and the records there were stay as they     *)
(* were.                                                                    *)
LEMMA ReportGrows ==
    ASSUME TypeOK, NEW h \in Heads, NEW l \in CheckListings, NEW r \in Reports,
           Report(h, l, r)
    PROVE  /\ records' \in [Heads -> [CheckListings -> Seq(Record)]]
           /\ \A g \in Heads, k \in CheckListings :
                /\ DOMAIN records[g][k] \subseteq DOMAIN records'[g][k]
                /\ \A i \in DOMAIN records[g][k] : records'[g][k][i] = records[g][k][i]
<1>1. r \in Record /\ records \in [Heads -> [CheckListings -> Seq(Record)]]
  BY ChecksAssumption DEF Record, TypeOK, CheckListings
<1>2. records' = [records EXCEPT ![h] = [records[h] EXCEPT ![l] = Append(records[h][l], r)]]
  BY <1>1 DEF Report
<1>3. /\ records[h] \in [CheckListings -> Seq(Record)]
      /\ records[h][l] \in Seq(Record) /\ Append(records[h][l], r) \in Seq(Record)
  BY <1>1
<1>4. [records[h] EXCEPT ![l] = Append(records[h][l], r)] \in [CheckListings -> Seq(Record)]
  BY <1>3
<1>5. records' \in [Heads -> [CheckListings -> Seq(Record)]]
  BY <1>1, <1>2, <1>4
<1>6. \A g \in Heads, k \in CheckListings :
        records'[g][k] = IF g = h /\ k = l THEN Append(records[h][l], r) ELSE records[g][k]
  BY <1>1, <1>2, <1>3
<1>7. /\ DOMAIN records[h][l] \subseteq DOMAIN Append(records[h][l], r)
      /\ \A i \in DOMAIN records[h][l] : Append(records[h][l], r)[i] = records[h][l][i]
  BY <1>3
<1> QED  BY <1>5, <1>6, <1>7

(* While the forge or the clone moves the command does not, and has printed *)
(* nothing yet.                                                             *)
LEMMA MoveStep ==
    ASSUME IInv, Move, TypeOK', FilesAreFinite', DueIsOfTheseFiles',
           WalksMissNothing', ScopedPlanIsGrounded', HeadIsExcused'
    PROVE  IInv'
<1>1. /\ pc # "done"
      /\ UNCHANGED <<provider, pc, command, allowed, viewed, sha, required, walks, checks,
                     packet>>
  BY DEF Move
<1>2. Sources' = Sources /\ ReadsChecks' = ReadsChecks
  BY <1>1 DEF Sources, ReadsChecks
<1>3. StepFitsCommand' /\ WalksFitCommand'
  BY <1>1, <1>2 DEF IInv, StepFitsCommand, WalksFitCommand
<1>4. packet'.type = "none"
  BY <1>1 DEF IInv, TypeOK
<1>5. CompleteListMissesNothing' /\ ClearPlanIsGrounded' /\ StaleHeadIsNamed'
  BY <1>4 DEF CompleteListMissesNothing, ClearPlanIsGrounded, StaleHeadIsNamed
<1> QED  BY <1>3, <1>5 DEF IInv

(* A walk does not mind what moves outside its listing, nor what is added   *)
(* to it.                                                                   *)
LEMMA GrowthKeepsWalk ==
    ASSUME IInv, NEW l \in Listings, walks[l] # Null,
           UNCHANGED <<walks, sha>>, due'[l] = due[l],
           l \in CheckListings => DOMAIN records[sha][l] \subseteq DOMAIN records'[sha][l],
           Listed(l) \subseteq Listed(l)', Listed(l)' \subseteq Nat, IsFiniteSet(Listed(l)')
    PROVE  WalkMisses(l)'
<1>1. WalkMisses(l)
  BY DEF IInv, WalksMissNothing
<1>2. ASSUME NEW i \in Listed(l), Position(i, Listed(l)) > (walks[l].page - 1) * walks[l].limit
      PROVE  Position(i, Listed(l)') > (walks[l].page - 1) * walks[l].limit
  <2>1. Position(i, Listed(l)) <= Position(i, Listed(l)')
    BY PositionGrows
  <2>2. Position(i, Listed(l)) \in Nat
    BY PageIsFinite, PositionBounds
  <2>3. Position(i, Listed(l)') \in Nat
    BY PositionBounds
  <2>4. (walks[l].page - 1) * walks[l].limit \in Nat
    BY PageIsFinite, BehindIsNat
  <2>5. \A a, b, x \in Nat : a > x /\ a <= b => b > x
    OBVIOUS
  <2> QED  BY <1>2, <2>1, <2>2, <2>3, <2>4, <2>5
<1> QED  BY <1>1, <1>2 DEF WalkMisses, Ahead

LEMMA DomainIsFinite ==
    ASSUME NEW S, NEW s \in Seq(S)
    PROVE  IsFiniteSet(DOMAIN s) /\ DOMAIN s \subseteq Nat
<1>1. Len(s) \in Nat /\ DOMAIN s = 1..Len(s)
  OBVIOUS
<1>2. IsFiniteSet(1..Len(s))
  BY <1>1, FS_Interval
<1> QED  BY <1>1, <1>2

LEMMA ReportStep ==
    ASSUME IInv, NEW h \in Heads, NEW k \in CheckListings, NEW r \in Reports, Report(h, k, r)
    PROVE  IInv'
<1> USE DEF IInv
<1>1. /\ Move /\ records' \in [Heads -> [CheckListings -> Seq(Record)]]
      /\ \A g \in Heads, l \in CheckListings :
           /\ DOMAIN records[g][l] \subseteq DOMAIN records'[g][l]
           /\ \A i \in DOMAIN records[g][l] : records'[g][l][i] = records[g][l][i]
  BY ReportGrows DEF Report
<1>2. /\ moves' \in 0..MaxMoves
      /\ UNCHANGED <<provider, pc, command, allowed, viewed, sha, required, walks, checks,
                     packet, head, files, comments, made, local, due, excused>>
  BY SizesAssumption DEF Report, Move, TypeOK
<1>3. TypeOK'
  BY <1>1, <1>2 DEF TypeOK, CheckListings
<1>4. WalksMissNothing'
  <2> SUFFICES ASSUME NEW l \in Listings, walks[l] # Null PROVE WalkMisses(l)'
    BY <1>2 DEF WalksMissNothing
  <2>1. CASE l \in CheckListings
    <3>1. sha \in Heads
      BY <2>1 DEF WalksFitCommand
    <3>2. records'[sha][l] \in Seq(Record) /\ DOMAIN records[sha][l] \subseteq DOMAIN records'[sha][l]
      BY <1>1, <2>1, <3>1
    <3>3. Listed(l) = DOMAIN records[sha][l] /\ Listed(l)' = DOMAIN records'[sha][l]
      BY <1>2, <2>1 DEF Listed, CheckListings
    <3>4. Listed(l)' \subseteq Nat /\ IsFiniteSet(Listed(l)')
      BY <3>2, <3>3, DomainIsFinite
    <3> QED  BY <1>2, <3>2, <3>3, <3>4, GrowthKeepsWalk
  <2>2. CASE l \notin CheckListings
    <3>1. Listed(l)' = Listed(l)
      BY <1>2, <2>2 DEF Listed, CheckListings, Listings
    <3> QED  BY <1>2, <2>2, <3>1, PageIsFinite, GrowthKeepsWalk
  <2> QED  BY <2>1, <2>2
<1>5. ScopedPlanIsGrounded'
  <2>1. SUFFICES ASSUME sha \in Heads, ChecksAreGrounded PROVE ChecksAreGrounded'
    BY <1>2 DEF ScopedPlanIsGrounded
  <2>2. Sources' = Sources /\ Sources \subseteq CheckListings
    BY <1>2 DEF Sources, CheckListings
  <2>3. \A l \in Sources : \A i \in DOMAIN records[sha][l] :
          i \in DOMAIN records'[sha][l] /\ RecordAt(l, i)' = RecordAt(l, i)
    BY <1>1, <1>2, <2>1, <2>2 DEF RecordAt
  <2>4. \A l \in Sources : due[l] \subseteq DOMAIN records[sha][l]
    BY <2>1 DEF ChecksAreGrounded
  <2>5. \A l \in Sources, x \in Contexts : LastOf(l, x, due[l])' = LastOf(l, x, due[l])
    BY <1>2, <2>3, <2>4 DEF LastOf
  <2>6. \A l \in Sources : \A i \in DOMAIN records[sha][l] : Bad(l, i)' = Bad(l, i)
    BY <2>3 DEF Bad
  <2>7. \A l \in Sources, x \in Contexts : LastOf(l, x, due[l]) \subseteq DOMAIN records[sha][l]
    BY <2>4 DEF LastOf
  <2>8. ASSUME NEW l \in Sources, NEW x \in Contexts, NEW i \in LastOf(l, x, due[l]),
               Bad(l, i)'
        PROVE  \E j \in DOMAIN records'[sha][l] :
                  j > i /\ RecordAt(l, j)'.context = x /\ ~Bad(l, j)'
    <3>1. Bad(l, i)
      BY <2>6, <2>7, <2>8
    <3>2. PICK j \in DOMAIN records[sha][l] : j > i /\ RecordAt(l, j).context = x /\ ~Bad(l, j)
      BY <2>1, <3>1 DEF ChecksAreGrounded
    <3> QED  BY <2>3, <2>6, <3>2
  <2>9. ContextsOf(UNION {{RecordAt(l, i) : i \in DOMAIN records[sha][l]} : l \in Sources})
          \subseteq
        ContextsOf(UNION {{RecordAt(l, i)' : i \in DOMAIN records'[sha][l]} : l \in Sources})
    BY <2>3 DEF ContextsOf
  <2> QED  BY <1>2, <2>1, <2>2, <2>3, <2>4, <2>5, <2>8, <2>9 DEF ChecksAreGrounded, ContextsOf
<1>6. FilesAreFinite' /\ DueIsOfTheseFiles' /\ HeadIsExcused'
  BY <1>2 DEF FilesAreFinite, DueIsOfTheseFiles, HeadIsExcused
<1> QED  BY <1>1, <1>3, <1>4, <1>5, <1>6, MoveStep

(* What the checks of a plan say depends on their records and on what was   *)
(* to be found of them.                                                     *)
LEMMA GroundsStay ==
    ASSUME UNCHANGED <<provider, records, sha, required>>,
           \A l \in CheckListings : due'[l] = due[l]
    PROVE  ChecksAreGrounded' = ChecksAreGrounded
<1>1. Sources' = Sources /\ Sources \subseteq CheckListings
  BY DEF Sources, CheckListings
<1>2. \A l \in Sources : due'[l] = due[l]
  BY <1>1
<1>3. \A l, i : RecordAt(l, i)' = RecordAt(l, i) /\ Bad(l, i)' = Bad(l, i)
  BY DEF RecordAt, Bad
<1>4. \A l, x, ids : LastOf(l, x, ids)' = LastOf(l, x, ids)
  BY <1>3 DEF LastOf
<1>5. \A l \in Sources, x \in Contexts : LastOf(l, x, due[l])' = LastOf(l, x, due[l])
  BY <1>2, <1>3 DEF LastOf
<1>6. UNION {{RecordAt(l, i)' : i \in DOMAIN records'[sha'][l]} : l \in Sources'}
      = UNION {{RecordAt(l, i) : i \in DOMAIN records[sha][l]} : l \in Sources}
  BY <1>1, <1>3
<1> QED  BY <1>1, <1>2, <1>3, <1>5, <1>6 DEF ChecksAreGrounded, ContextsOf

LEMMA PushStep ==
    ASSUME IInv, NEW list \in FileLists, Push(list)
    PROVE  IInv'
<1> USE DEF IInv
<1>1. /\ Move /\ head < MaxHeads /\ head' = head + 1
      /\ files' = IF ReadsFiles THEN list ELSE {}
      /\ due' = [due EXCEPT !["files"] = {}]
      /\ excused' = IF ComparesHeads /\ pc = "pull" THEN excused \cup {head'} ELSE excused
      /\ moves' \in 0..MaxMoves
      /\ UNCHANGED <<provider, pc, command, allowed, viewed, sha, required, walks, checks,
                     packet, records, comments, made, local>>
  BY SizesAssumption DEF Push, Move, TypeOK
<1>2. head' \in Heads
  BY <1>1, SizesAssumption DEF Heads, TypeOK
<1>3. due' \in [Listings -> SUBSET Nat] /\ due'["files"] = {}
      /\ \A l \in Listings : l # "files" => due'[l] = due[l]
  BY <1>1 DEF TypeOK, Listings
<1>4. files' \subseteq Entries /\ IsFiniteSet(files')
  BY <1>1, PathsAssumption, FS_EmptySet
<1>5. TypeOK'
  BY <1>1, <1>2, <1>3, <1>4 DEF TypeOK
<1>6. WalksMissNothing'
  <2> SUFFICES ASSUME NEW l \in Listings, walks[l] # Null PROVE WalkMisses(l)'
    BY <1>1 DEF WalksMissNothing
  <2>1. CASE l = "files"
    <3>1. WalkMisses(l)
      BY DEF WalksMissNothing
    <3> QED  BY <1>1, <1>3, <2>1, <3>1 DEF WalkMisses, Ahead, CheckListings
  <2>2. CASE l # "files"
    <3>1. Listed(l)' = Listed(l) /\ due'[l] = due[l]
      BY <1>1, <1>3, <2>2 DEF Listed
    <3> QED  BY <1>1, <3>1, PageIsFinite, GrowthKeepsWalk
  <2> QED  BY <2>1, <2>2
<1>7. ScopedPlanIsGrounded'
  <2>1. \A l \in CheckListings : due'[l] = due[l]
    BY <1>3 DEF CheckListings, Listings
  <2> QED  BY <1>1, <2>1, GroundsStay DEF ScopedPlanIsGrounded
<1>8. HeadIsExcused'
  BY <1>1 DEF HeadIsExcused, ComparesHeads
<1>9. FilesAreFinite' /\ DueIsOfTheseFiles'
  BY <1>3, <1>4 DEF FilesAreFinite, DueIsOfTheseFiles
<1> QED  BY <1>1, <1>5, <1>6, <1>7, <1>8, <1>9, MoveStep

LEMMA FetchStep ==
    ASSUME IInv, Fetch
    PROVE  IInv'
<1> USE DEF IInv
<1>1. /\ Move /\ pc = "view" /\ local' \in {head, Null} /\ excused' = excused \cup {local'}
      /\ moves' \in 0..MaxMoves
      /\ UNCHANGED <<provider, pc, command, allowed, viewed, sha, required, walks, checks,
                     packet, head, records, files, comments, made, due>>
  BY SizesAssumption DEF Fetch, Move, TypeOK
<1>2. TypeOK'
  BY <1>1 DEF TypeOK
<1>3. WalksMissNothing'
  <2>1. \A l \in Listings : Listed(l)' = Listed(l)
    BY <1>1 DEF Listed
  <2> QED  BY <1>1, <2>1, PageIsFinite, GrowthKeepsWalk DEF WalksMissNothing
<1>4. ScopedPlanIsGrounded'
  BY <1>1 DEF ScopedPlanIsGrounded
<1>5. HeadIsExcused' /\ FilesAreFinite' /\ DueIsOfTheseFiles'
  BY <1>1 DEF HeadIsExcused, FilesAreFinite, DueIsOfTheseFiles
<1> QED  BY <1>1, <1>2, <1>3, <1>4, <1>5, MoveStep

(* A comment made or deleted. *)
LEMMA CommentsStep ==
    ASSUME IInv, Comment \/ \E i \in comments : DeleteComment(i)
    PROVE  IInv'
<1> USE DEF IInv
<1>1. /\ Move /\ command = "comments" /\ moves' \in 0..MaxMoves
      /\ UNCHANGED <<provider, pc, command, allowed, viewed, sha, required, walks, checks,
                     packet, head, records, files, local, excused>>
  BY SizesAssumption DEF Comment, DeleteComment, Move, TypeOK
<1>2. /\ made' \in Nat /\ comments' \subseteq 1..made' /\ due' \in [Listings -> SUBSET Nat]
      /\ \A l \in Listings : l # "comments" => due'[l] = due[l]
      /\ due'["comments"] = {} \/ (due' = due /\ comments \subseteq comments')
  <2>1. CASE Comment
    <3>1. made \in Nat /\ comments \subseteq 1..made /\ due \in [Listings -> SUBSET Nat]
      BY DEF TypeOK
    <3>2. made' = made + 1 /\ comments' = comments \cup {made'} /\ due' = due
      BY <2>1 DEF Comment
    <3>3. made' \in Nat /\ comments' \subseteq 1..made'
      BY <3>1, <3>2
    <3> QED  BY <3>1, <3>2, <3>3
  <2>2. CASE \E i \in comments : DeleteComment(i)
    BY <2>2 DEF DeleteComment, TypeOK, Listings
  <2> QED  BY <2>1, <2>2
<1>3. TypeOK'
  BY <1>1, <1>2 DEF TypeOK
<1>4. WalksMissNothing'
  <2> SUFFICES ASSUME NEW l \in Listings, walks[l] # Null PROVE WalkMisses(l)'
    BY <1>1 DEF WalksMissNothing
  <2>1. WalkMisses(l)
    BY DEF WalksMissNothing
  <2>2. CASE l # "comments"
    <3>1. Listed(l)' = Listed(l) /\ due'[l] = due[l]
      BY <1>1, <1>2, <2>2 DEF Listed
    <3> QED  BY <1>1, <3>1, PageIsFinite, GrowthKeepsWalk
  <2>3. CASE l = "comments" /\ due'[l] = {}
    BY <1>1, <2>1, <2>3 DEF WalkMisses, Ahead, CheckListings
  <2>4. CASE l = "comments" /\ due' = due /\ comments \subseteq comments'
    <3>1. Listed(l) = comments /\ Listed(l)' = comments'
      BY <2>4 DEF Listed
    <3>2. made' \in Nat /\ comments' \in SUBSET (1..made') /\ 1..made' \subseteq Nat
      BY <1>2
    <3>3. IsFiniteSet(1..made')
      BY <3>2, FS_Interval
    <3>4. IsFiniteSet(comments')
      BY <3>2, <3>3, FS_Subset
    <3> QED  BY <1>1, <2>4, <3>1, <3>2, <3>4, GrowthKeepsWalk DEF CheckListings
  <2> QED  BY <1>2, <2>2, <2>3, <2>4
<1>5. ScopedPlanIsGrounded'
  BY <1>1 DEF ScopedPlanIsGrounded
<1>6. HeadIsExcused' /\ FilesAreFinite' /\ DueIsOfTheseFiles'
  BY <1>1, <1>2 DEF HeadIsExcused, FilesAreFinite, DueIsOfTheseFiles, Listings
<1> QED  BY <1>1, <1>3, <1>4, <1>5, <1>6, MoveStep
-----------------------------------------------------------------------------
(* The command.                                                             *)

(* Walks begin: everything they have to find is ahead of the first page.    *)
LEMMA WalkBegins ==
    ASSUME IInv, NEW ls \in SUBSET Listings, Walk(ls), Quiet,
           \A l \in ls \cap CheckListings : sha \in Heads /\ sha' = sha
    PROVE  /\ walks' \in [Listings -> WalkRecord \cup {Null}]
           /\ \A l \in Listings : walks'[l] # Null => walks'[l].count >= Cardinality(Countable(l, walks'[l].got))
           /\ \A l \in Listings : walks'[l] # Null => l \in ls
           /\ due' \in [Listings -> SUBSET Nat]
           /\ WalksMissNothing' /\ FilesAreFinite' /\ DueIsOfTheseFiles'
<1> USE DEF IInv
<1>1. /\ walks' = [l \in Listings |-> IF l \in ls THEN FirstPage ELSE Null]
      /\ due' = [l \in Listings |->
                    IF l \in ls THEN Listed(l) ELSE IF ls = {} THEN {} ELSE due[l]]
      /\ UNCHANGED <<records, files, comments>>
  BY DEF Walk, Quiet, forge
<1>2. /\ FirstPage \in WalkRecord /\ FirstPage.page = 1 /\ FirstPage.limit = PageSize
      /\ FirstPage.got = {} /\ FirstPage.count = 0 /\ ~FirstPage.done
  BY SizesAssumption DEF FirstPage, WalkRecord, Limits
<1>3. Cardinality({}) = 0 /\ IsFiniteSet({}) /\ \A l \in Listings : Countable(l, {}) = {}
  BY FS_EmptySet DEF Countable
<1>4. \A l \in ls : Listed(l)' = Listed(l) /\ IsFiniteSet(Listed(l)) /\ Listed(l) \subseteq Nat
  <2> SUFFICES ASSUME NEW l \in ls
               PROVE  Listed(l)' = Listed(l) /\ IsFiniteSet(Listed(l)) /\ Listed(l) \subseteq Nat
    OBVIOUS
  <2>1. l \in CheckListings => sha \in Heads /\ sha' = sha
    OBVIOUS
  <2>2. Listed(l)' = Listed(l)
    BY <1>1, <2>1 DEF Listed, Listings, CheckListings
  <2> QED  BY <2>1, <2>2, ListedIsFinite
<1>5. walks' \in [Listings -> WalkRecord \cup {Null}]
  <2> HIDE DEF IInv
  <2> QED  BY <1>1, <1>2
<1>6. \A l \in Listings : walks'[l] # Null => l \in ls /\ walks'[l] = FirstPage
  BY <1>1
<1>7. \A l \in Listings : walks'[l] # Null => walks'[l].count >= Cardinality(Countable(l, walks'[l].got))
  BY <1>2, <1>3, <1>6
<1>8. due' \in [Listings -> SUBSET Nat]
  BY <1>1, <1>4 DEF TypeOK
<1>9. WalksMissNothing'
  <2> SUFFICES ASSUME NEW l \in ls, walks'[l] # Null PROVE WalkMisses(l)'
    BY <1>6 DEF WalksMissNothing
  <2>1. walks'[l] = FirstPage /\ due'[l] = Listed(l) /\ Listed(l)' = Listed(l)
    BY <1>1, <1>4
  <2>2. \A i \in Listed(l) : Position(i, Listed(l)) > (1 - 1) * PageSize
    <3>1. \A i \in Listed(l) : Position(i, Listed(l)) \in Nat /\ Position(i, Listed(l)) >= 1
      BY <1>4, PositionBounds
    <3>2. (1 - 1) * PageSize = 0
      BY SizesAssumption
    <3> QED  BY <3>1, <3>2
  <2> QED  BY <1>2, <1>3, <2>1, <2>2 DEF WalkMisses, Ahead
<1>10. FilesAreFinite' /\ DueIsOfTheseFiles'
  <2>1. due'["files"] \in {{}, files}
    BY <1>1 DEF DueIsOfTheseFiles, Listed, Listings
  <2> QED  BY <1>1, <2>1 DEF FilesAreFinite, DueIsOfTheseFiles
<1> QED  BY <1>5, <1>6, <1>7, <1>8, <1>9, <1>10

(* No walk begins and none goes on. *)
LEMMA WalksRest ==
    ASSUME IInv, NoWalk, Quiet, sha' = sha \/ \A l \in Listings : walks[l] = Null
    PROVE  WalksFitCommand' /\ WalksMissNothing' /\ FilesAreFinite' /\ DueIsOfTheseFiles'
<1> USE DEF IInv
<1>1. UNCHANGED <<provider, records, files, comments, command, walks, due, allowed>>
  BY DEF NoWalk, Quiet, forge
<1>2. FilesAreFinite' /\ DueIsOfTheseFiles'
  BY <1>1 DEF FilesAreFinite, DueIsOfTheseFiles
<1>3. CASE \A l \in Listings : walks[l] = Null
  BY <1>1, <1>2, <1>3 DEF WalksFitCommand, WalksMissNothing
<1>4. CASE sha' = sha
  <2>1. \A l \in Listings : Listed(l)' = Listed(l)
    BY <1>1, <1>4 DEF Listed
  <2>2. \A l \in Listings : WalkMisses(l)' = WalkMisses(l)
    BY <1>1, <1>4, <2>1 DEF WalkMisses, Ahead
  <2>3. WalksFitCommand'
    BY <1>1, <1>4 DEF WalksFitCommand, Sources, ReadsChecks
  <2> QED  BY <1>1, <1>2, <2>2, <2>3 DEF WalksMissNothing
<1> QED  BY <1>3, <1>4

(* Nothing to answer for when nothing was printed. *)
LEMMA SilentPacket ==
    ASSUME packet'.type \in {"none", "error", "stale_head"}
    PROVE  CompleteListMissesNothing' /\ ClearPlanIsGrounded' /\ StaleHeadIsNamed'
BY DEF CompleteListMissesNothing, ClearPlanIsGrounded, StaleHeadIsNamed

LEMMA FailStep ==
    ASSUME IInv, Fail
    PROVE  IInv'
<1> USE DEF IInv
<1>1. /\ pc' = "done" /\ packet' = ErrorPacket /\ Walk({}) /\ Quiet /\ sha' = Null
      /\ viewed' = {} /\ required' = {} /\ excused' = excused
      /\ UNCHANGED <<provider, head, records, files, comments, made, local, moves, command, allowed>>
  BY DEF Fail, Emit, Quiet, forge
<1>2. /\ walks' \in [Listings -> WalkRecord \cup {Null}]
      /\ \A l \in Listings : walks'[l] = Null
      /\ due' \in [Listings -> SUBSET Nat]
      /\ WalksMissNothing' /\ FilesAreFinite' /\ DueIsOfTheseFiles'
  <2> HIDE DEF IInv
  <2>1. {} \in SUBSET Listings
    OBVIOUS
  <2>2. \A l \in {} \cap CheckListings : sha \in Heads /\ sha' = sha
    OBVIOUS
  <2> QED  BY <1>1, <2>1, <2>2, WalkBegins
<1>3. packet'.type = "error"
  BY <1>1 DEF ErrorPacket, Packet
<1>4. TypeOK'
  BY <1>1, <1>2, <1>3 DEF TypeOK, Types
<1>5. StepFitsCommand' /\ WalksFitCommand' /\ ScopedPlanIsGrounded'
  BY <1>1, <1>2 DEF StepFitsCommand, WalksFitCommand, ScopedPlanIsGrounded
<1>6. HeadIsExcused'
  BY <1>1 DEF HeadIsExcused, Fail
<1> QED  BY <1>2, <1>3, <1>4, <1>5, <1>6, SilentPacket

LEMMA StartStep ==
    ASSUME IInv, Start
    PROVE  IInv'
<1> USE DEF IInv
<1>1. /\ pc = "idle" /\ excused' = {local} /\ Quiet
      /\ UNCHANGED <<provider, head, records, files, comments, made, local, moves, command,
                     allowed, viewed, required, checks>>
      /\ \A l \in Listings : walks[l] = Null
  BY DEF Start, Quiet, forge, StepFitsCommand
<1>2. local \in Heads \cup {Null} /\ packet.type = "none"
  BY <1>1 DEF TypeOK
<1>3. Sources' = Sources /\ ReadsChecks' = ReadsChecks
  BY <1>1 DEF Sources, ReadsChecks
<1>4. CASE /\ command = "checks_ref" /\ sha' = local /\ NoWalk
           /\ IF local = Null THEN Emit(ErrorPacket) ELSE Go("listings")
  <2>1. WalksFitCommand' /\ WalksMissNothing' /\ FilesAreFinite' /\ DueIsOfTheseFiles'
    BY <1>1, <1>4, WalksRest
  <2>2. UNCHANGED <<walks, due>>
    BY <1>4 DEF NoWalk
  <2>3. /\ packet'.type \in {"none", "error"} /\ pc' \in {"listings", "done"}
        /\ packet'.type = "none" <=> pc' # "done"
        /\ pc' = "listings" => sha' \in Heads
    BY <1>1, <1>2, <1>4 DEF Emit, Go, ErrorPacket, Packet
  <2>4. TypeOK'
    BY <1>1, <1>2, <1>4, <2>2, <2>3 DEF TypeOK, Types
  <2>5. StepFitsCommand' /\ ScopedPlanIsGrounded' /\ HeadIsExcused'
    BY <1>1, <1>2, <1>3, <1>4, <2>2, <2>3
       DEF StepFitsCommand, ReadsChecks, ScopedPlanIsGrounded, HeadIsExcused
  <2> QED  BY <2>1, <2>3, <2>4, <2>5, SilentPacket
<1>5. CASE /\ command \in {"files", "comments"} /\ Go("walk") /\ Walk({command}) /\ UNCHANGED sha
  <2>1. /\ {command} \in SUBSET Listings
        /\ \A l \in {command} \cap CheckListings : sha \in Heads /\ sha' = sha
    BY <1>5 DEF Listings, CheckListings
  <2>2. /\ walks' \in [Listings -> WalkRecord \cup {Null}]
        /\ \A l \in Listings : walks'[l] # Null => walks'[l].count >= Cardinality(Countable(l, walks'[l].got))
        /\ \A l \in Listings : walks'[l] # Null => l = command
        /\ due' \in [Listings -> SUBSET Nat]
        /\ WalksMissNothing' /\ FilesAreFinite' /\ DueIsOfTheseFiles'
    <3> HIDE DEF IInv
    <3> QED  BY <1>1, <1>5, <2>1, WalkBegins
  <2>3. pc' = "walk" /\ packet' = packet
    BY <1>5 DEF Go
  <2>4. TypeOK'
    BY <1>1, <1>2, <1>5, <2>2, <2>3 DEF TypeOK
  <2>5. StepFitsCommand' /\ WalksFitCommand' /\ ScopedPlanIsGrounded' /\ HeadIsExcused'
    BY <1>1, <1>5, <2>2, <2>3
       DEF StepFitsCommand, WalksFitCommand, CheckListings, ScopedPlanIsGrounded, HeadIsExcused
  <2> QED  BY <1>2, <2>2, <2>3, <2>4, <2>5, SilentPacket
<1>6. CASE command \in {"view", "checks", "plan"} /\ Go("view") /\ NoWalk /\ UNCHANGED sha
  <2>1. WalksFitCommand' /\ WalksMissNothing' /\ FilesAreFinite' /\ DueIsOfTheseFiles'
    BY <1>1, <1>6, WalksRest
  <2>2. UNCHANGED <<walks, due>> /\ pc' = "view" /\ packet' = packet
    BY <1>6 DEF NoWalk, Go
  <2>3. TypeOK'
    BY <1>1, <1>2, <1>6, <2>2 DEF TypeOK
  <2>4. StepFitsCommand' /\ ScopedPlanIsGrounded' /\ HeadIsExcused'
    BY <1>1, <1>6, <2>2 DEF StepFitsCommand, ScopedPlanIsGrounded, HeadIsExcused
  <2> QED  BY <1>2, <2>1, <2>2, <2>3, <2>4, SilentPacket
<1> QED  BY <1>4, <1>5, <1>6 DEF Start

LEMMA ViewBlockersType == \A v : ViewBlockers(v) \subseteq {"pr_not_open", "merge_conflict"}
BY DEF ViewBlockers, When

(* The head that is shown was compared with the clone's, or there is none. *)
LEMMA PrViewStep ==
    ASSUME IInv, PrView
    PROVE  IInv'
<1> USE DEF IInv
<1>1. /\ pc = "view" /\ NoWalk /\ Quiet /\ walks' = walks /\ due' = due /\ sha' = sha
      /\ UNCHANGED <<provider, head, records, files, comments, made, local, moves, command,
                     allowed, required, checks, excused>>
      /\ \A l \in Listings : walks[l] = Null
      /\ command \in {"view", "checks", "plan"} /\ packet.type = "none" /\ local \in excused
  BY CommandsAssumption DEF PrView, NoWalk, Quiet, forge, StepFitsCommand, TypeOK, HeadIsExcused
<1>2. WalksFitCommand' /\ WalksMissNothing' /\ FilesAreFinite' /\ DueIsOfTheseFiles'
  BY <1>1, WalksRest
<1>3. viewed' \subseteq {"pr_not_open", "merge_conflict"}
  BY ViewBlockersType DEF PrView
<1>4. \/ pc' = "done" /\ packet'.type = "stale_head"
      \/ /\ pc' = "done" /\ packet'.type = "pr_status" /\ packet'.at = head
         /\ command = "view" /\ ~Stale(head)
      \/ pc' = "pull" /\ packet' = packet /\ command # "view" /\ ~Stale(head)
  BY <1>1 DEF PrView, Emit, Go, Packet
<1>5. TypeOK'
  BY <1>1, <1>3, <1>4 DEF TypeOK, Types
<1>6. command = "plan" \/ Stale(head) \/ head \in excused \/ Null \in excused
  BY <1>1 DEF Stale
<1>7. StepFitsCommand' /\ ScopedPlanIsGrounded' /\ HeadIsExcused'
  BY <1>1, <1>4, <1>6 DEF StepFitsCommand, ScopedPlanIsGrounded, HeadIsExcused
<1>8. CompleteListMissesNothing' /\ ClearPlanIsGrounded' /\ StaleHeadIsNamed'
  BY <1>1, <1>4, <1>6 DEF CompleteListMissesNothing, ClearPlanIsGrounded, StaleHeadIsNamed
<1> QED  BY <1>2, <1>5, <1>7, <1>8

(* The reads between the pull and its checks. *)
LEMMA ReadPullStep ==
    ASSUME IInv, ReadPull \/ ReadProtection
    PROVE  IInv'
<1> USE DEF IInv
<1>1. /\ NoWalk /\ Quiet /\ walks' = walks /\ due' = due /\ packet' = packet
      /\ UNCHANGED <<provider, head, records, files, comments, made, local, moves, command,
                     allowed, viewed, checks, excused>>
      /\ pc \in {"pull", "protection"}
      /\ \A l \in Listings : walks[l] = Null
  BY DEF ReadPull, ReadProtection, NoWalk, Quiet, forge, Go, StepFitsCommand
<1>2. WalksFitCommand' /\ WalksMissNothing' /\ FilesAreFinite' /\ DueIsOfTheseFiles'
  BY <1>1, WalksRest
<1>3. \/ pc = "pull" /\ pc' = "protection" /\ sha' = head /\ required' = required
      \/ pc = "protection" /\ pc' = "listings" /\ sha' = sha /\ required' \in {{}, Required}
  BY DEF ReadPull, ReadProtection, Go
<1>4. TypeOK' /\ packet'.type = "none"
  BY <1>1, <1>3, ChecksAssumption DEF TypeOK
<1>5. StepFitsCommand' /\ ScopedPlanIsGrounded' /\ HeadIsExcused'
  BY <1>1, <1>3 DEF StepFitsCommand, ReadsChecks, ScopedPlanIsGrounded, HeadIsExcused, TypeOK
<1> QED  BY <1>2, <1>4, <1>5, SilentPacket

LEMMA ListChecksStep ==
    ASSUME IInv, ListChecks
    PROVE  IInv'
<1> USE DEF IInv
<1>1. /\ pc = "listings" /\ Walk(Sources) /\ Quiet /\ pc' = "walk" /\ packet' = packet
      /\ UNCHANGED <<provider, head, records, files, comments, made, local, moves, command,
                     allowed, viewed, sha, required, checks, excused>>
      /\ ReadsChecks /\ sha \in Heads
  BY DEF ListChecks, Quiet, forge, Go, StepFitsCommand
<1>2. Sources \in SUBSET Listings /\ Sources \subseteq CheckListings /\ Sources' = Sources
  BY <1>1 DEF Sources, Listings, CheckListings
<1>3. /\ walks' \in [Listings -> WalkRecord \cup {Null}]
      /\ \A l \in Listings : walks'[l] # Null => walks'[l].count >= Cardinality(Countable(l, walks'[l].got))
      /\ \A l \in Listings : walks'[l] # Null => l \in Sources
      /\ due' \in [Listings -> SUBSET Nat]
      /\ WalksMissNothing' /\ FilesAreFinite' /\ DueIsOfTheseFiles'
  <2> HIDE DEF IInv
  <2> QED  BY <1>1, <1>2, WalkBegins
<1>4. TypeOK' /\ packet'.type = "none"
  BY <1>1, <1>3 DEF TypeOK
<1>5. \A l \in Listings : walks'[l] # Null => l \in CheckListings
  BY <1>2, <1>3
<1>6. StepFitsCommand' /\ WalksFitCommand' /\ ScopedPlanIsGrounded' /\ HeadIsExcused'
  BY <1>1, <1>2, <1>3, <1>5
     DEF StepFitsCommand, ReadsChecks, WalksFitCommand, CheckListings, Listings,
         ScopedPlanIsGrounded, HeadIsExcused
<1> QED  BY <1>3, <1>4, <1>6, SilentPacket

(* No blocker of the checks: all was read, nothing failed or is pending,    *)
(* and nothing required is missing.                                         *)
LEMMA NoCheckBlocker ==
    ASSUME NEW body, CheckBlockers(body, DefaultPolicy) = {}
    PROVE  /\ ~body.truncated /\ body.missingReq = {}
           /\ body.conclusion \notin {"failure", "missing", "pending"}
<1>1. ~DefaultPolicy.allowMissing /\ ~DefaultPolicy.allowPending
  BY DEF DefaultPolicy
<1>2. CASE body.truncated
  BY <1>2 DEF CheckBlockers, When
<1>3. CASE body.missingReq # {}
  BY <1>3 DEF CheckBlockers, DiagnosticBlockers, When
<1>4. CASE body.conclusion \in {"failure", "missing", "pending"}
  BY <1>1, <1>4 DEF CheckBlockers, When
<1> QED  BY <1>2, <1>3, <1>4

(* Checks that block nothing stand on the records of the head: what was     *)
(* read has all that was listed, and of each context the last that was      *)
(* read, which is at least as late, is not bad.                             *)
LEMMA ClearChecksAreGrounded ==
    ASSUME IInv, Ended(Sources),
           CheckBlockers(PrChecksBody(Mapped, \E l \in Sources : walks[l].cut),
                         DefaultPolicy) = {}
    PROVE  ChecksAreGrounded
<1> DEFINE body == PrChecksBody(Mapped, \E l \in Sources : walks[l].cut)
<1>1. /\ ~\E l \in Sources : walks[l].cut
      /\ Summary(Mapped) \notin {"failure", "missing", "pending"}
      /\ required \subseteq ContextsOf(Mapped)
  <2>1. /\ body.truncated = (\E l \in Sources : walks[l].cut)
        /\ body.conclusion = Summary(Mapped)
        /\ body.missingReq = required \ ContextsOf(Mapped)
    BY DEF PrChecksBody
  <2>2. ~body.truncated /\ body.missingReq = {}
        /\ body.conclusion \notin {"failure", "missing", "pending"}
    BY NoCheckBlocker
  <2> HIDE DEF body
  <2> QED  BY <2>1, <2>2
<1>2. Sources \subseteq Listings /\ Sources \subseteq CheckListings
  BY DEF Sources, Listings, CheckListings
<1>3. ASSUME NEW l \in Sources
      PROVE  /\ due[l] \subseteq walks[l].got
             /\ walks[l].got \subseteq DOMAIN records[sha][l]
             /\ Len(records[sha][l]) \in Nat
             /\ DOMAIN records[sha][l] = 1..Len(records[sha][l])
  <2>1. walks[l] # Null /\ walks[l].done /\ ~walks[l].cut
    BY <1>1 DEF Ended
  <2>2. WalkMisses(l) /\ sha \in Heads
    BY <1>2, <2>1 DEF IInv, WalksMissNothing, WalksFitCommand
  <2>3. records \in [Heads -> [CheckListings -> Seq(Record)]]
    BY DEF IInv, TypeOK, CheckListings
  <2>4. records[sha][l] \in Seq(Record)
    BY <1>2, <2>2, <2>3
  <2> QED  BY <1>2, <2>1, <2>2, <2>4 DEF WalkMisses
<1>4. Having(Mapped, "failure") = {} /\ Having(Mapped, "pending") = {}
  BY <1>1 DEF Summary
<1>5. ASSUME NEW l \in Sources, NEW j \in Counted(l, walks[l].got)
      PROVE  ~Bad(l, j)
  <2>1. RecordAt(l, j) \in Mapped
    BY DEF Mapped
  <2> QED  BY <1>4, <2>1 DEF Having, Bad
<1>6. ASSUME NEW l \in Sources, NEW x \in Contexts, NEW i \in LastOf(l, x, due[l]), Bad(l, i)
      PROVE  \E j \in DOMAIN records[sha][l] :
                 j > i /\ RecordAt(l, j).context = x /\ ~Bad(l, j)
  <2>1. i \in walks[l].got /\ RecordAt(l, i).context = x
    BY <1>3 DEF LastOf
  <2>2. i \notin Counted(l, walks[l].got)
    BY <1>5, <1>6
  <2>3. provider = "gitea"
    BY <2>1, <2>2 DEF Counted
  <2> DEFINE S == {j \in walks[l].got : RecordAt(l, j).context = x}
  <2>4. S \subseteq 1..Len(records[sha][l]) /\ i \in S
    BY <1>3, <2>1
  <2>5. PICK m \in S : \A j \in S : j <= m
    <3> HIDE DEF S
    <3> QED  BY <1>3, <2>4, LatestExists
  <2>6. m \in Counted(l, walks[l].got)
    BY <2>3, <2>5 DEF Counted
  <2>7. ~Bad(l, m) /\ m # i /\ i <= m /\ m \in Nat /\ i \in Nat
    BY <1>3, <1>5, <2>2, <2>4, <2>5, <2>6
  <2> QED  BY <1>3, <2>5, <2>7
<1>7. required \subseteq
        ContextsOf(UNION {{RecordAt(l, i) : i \in DOMAIN records[sha][l]} : l \in Sources})
  <2>1. \A l \in Sources : Counted(l, walks[l].got) \subseteq DOMAIN records[sha][l]
    BY <1>3 DEF Counted
  <2>2. Mapped \subseteq UNION {{RecordAt(l, i) : i \in DOMAIN records[sha][l]} : l \in Sources}
    BY <2>1 DEF Mapped
  <2> QED  BY <1>1, <2>2 DEF ContextsOf
<1>8. \A l \in Sources : due[l] \subseteq DOMAIN records[sha][l]
  BY <1>3
<1> QED  BY <1>6, <1>7, <1>8 DEF ChecksAreGrounded

(* The packet is printed and the walks are left as they are: what has to be *)
(* shown is what the packet says.                                           *)
LEMMA PacketStep ==
    ASSUME IInv, pc = "walk", NoWalk, Quiet, UNCHANGED <<viewed, sha, required, excused>>,
           NEW p, Emit(p), p.type \in Types \ {"none"},
           CompleteListMissesNothing', ClearPlanIsGrounded', StaleHeadIsNamed'
    PROVE  IInv'
<1> USE DEF IInv
<1>1. /\ pc' = "done" /\ packet' = p
      /\ UNCHANGED <<provider, head, records, files, comments, made, local, moves, command,
                     allowed, viewed, sha, required, walks, due, excused>>
  BY DEF Emit, NoWalk, Quiet, forge
<1>2. WalksFitCommand' /\ WalksMissNothing' /\ FilesAreFinite' /\ DueIsOfTheseFiles'
  BY <1>1, WalksRest
<1>3. TypeOK'
  BY <1>1 DEF TypeOK
<1>4. StepFitsCommand' /\ ScopedPlanIsGrounded' /\ HeadIsExcused'
  BY <1>1 DEF StepFitsCommand, ScopedPlanIsGrounded, HeadIsExcused
<1> QED  BY <1>2, <1>3, <1>4

(* A plan printed without blockers needs the grounds of its checks, and of  *)
(* its scope.                                                               *)
LEMMA PlanStep ==
    ASSUME IInv, pc = "walk", NoWalk, Quiet, UNCHANGED <<viewed, sha, required, excused>>,
           NEW body, NEW listed,
           Emit(Packet("merge_plan", sha, body.truncated, PlanBlockers(body, listed))),
           CheckBlockers(body, DefaultPolicy) = {} => ChecksAreGrounded,
           ScopeBlockers(listed) = {} /\ allowed # Null /\ due["files"] # {}
               => PathsOf(files) \subseteq allowed
    PROVE  IInv'
<1> DEFINE p == Packet("merge_plan", sha, body.truncated, PlanBlockers(body, listed))
<1>1. p.type = "merge_plan" /\ p.blockers = PlanBlockers(body, listed) /\ packet' = p
  BY DEF Packet, Emit
<1>2. /\ UNCHANGED <<provider, records, files, allowed, sha, required, due>>
  BY DEF NoWalk, Quiet, forge
<1>3. p.blockers = {} => CheckBlockers(body, DefaultPolicy) = {} /\ ScopeBlockers(listed) = {}
  BY <1>1 DEF PlanBlockers
<1>4. ChecksAreGrounded' = ChecksAreGrounded
  BY <1>2, GroundsStay
<1> HIDE DEF p
<1>5. ClearPlanIsGrounded'
  BY <1>1, <1>2, <1>3, <1>4 DEF ClearPlanIsGrounded, ChecksAreGrounded
<1>6. CompleteListMissesNothing' /\ StaleHeadIsNamed'
  BY <1>1 DEF CompleteListMissesNothing, StaleHeadIsNamed
<1>7. Emit(p) /\ p.type \in Types \ {"none"}
  BY <1>1 DEF p, Types
<1> QED  BY <1>5, <1>6, <1>7, PacketStep

LEMMA FinishChecksStep ==
    ASSUME IInv, FinishChecks
    PROVE  IInv'
<1> DEFINE body == PrChecksBody(Mapped, \E l \in Sources : walks[l].cut)
<1>1. /\ Ended(Sources) /\ pc = "walk" /\ Quiet /\ checks' = body
      /\ UNCHANGED <<viewed, sha, required, excused>>
  BY DEF FinishChecks, Ended
<1>2. /\ "statuses" \in Sources \cap Listings /\ Sources \subseteq Listings
      /\ walks["statuses"] # Null
  BY <1>1 DEF Sources, Listings, Ended
<1>3. ReadsChecks /\ sha \in Heads
  BY <1>2 DEF IInv, WalksFitCommand, CheckListings
<1>4. \A l \in Listings : walks[l] # Null => l \in Sources
  BY <1>2, <1>3 DEF IInv, WalksFitCommand, CheckListings, Listings, ReadsChecks
<1>5. CheckBlockers(body, DefaultPolicy) = {} => ChecksAreGrounded
  BY <1>1, ClearChecksAreGrounded
<1>6. CASE command = "plan" /\ allowed # Null
  <2> USE DEF IInv
  <2>1. Walk({"files"}) /\ pc' = "walk" /\ packet' = packet
    BY <1>6 DEF FinishChecks, Go
  <2>2. UNCHANGED <<provider, head, records, files, comments, made, local, moves, command,
                    allowed>>
    BY <1>1 DEF Quiet, forge
  <2>3. {"files"} \in SUBSET Listings /\ {"files"} \cap CheckListings = {}
    BY DEF Listings, CheckListings
  <2>4. /\ walks' \in [Listings -> WalkRecord \cup {Null}]
        /\ \A l \in Listings : walks'[l] # Null => walks'[l].count >= Cardinality(Countable(l, walks'[l].got))
        /\ \A l \in Listings : walks'[l] # Null => l = "files"
        /\ due' \in [Listings -> SUBSET Nat]
        /\ WalksMissNothing' /\ FilesAreFinite' /\ DueIsOfTheseFiles'
    <3> HIDE DEF IInv
    <3> QED  BY <1>1, <2>1, <2>3, WalkBegins
  <2>5. TypeOK' /\ packet'.type = "none"
    <3>1. packet.type = "none"
      BY <1>1 DEF TypeOK
    <3> QED  BY <1>1, <2>1, <2>2, <2>4, <3>1 DEF TypeOK
  <2>6. StepFitsCommand' /\ WalksFitCommand' /\ HeadIsExcused'
    BY <1>1, <1>6, <2>1, <2>2, <2>4
       DEF StepFitsCommand, WalksFitCommand, CheckListings, Listings, HeadIsExcused
  <2>7. ScopedPlanIsGrounded'
    <3>1. \A l \in CheckListings : due'[l] = due[l]
      BY <2>1 DEF Walk, CheckListings, Listings
    <3>2. ChecksAreGrounded' = ChecksAreGrounded
      BY <1>1, <2>2, <3>1, GroundsStay
    <3> HIDE DEF body, IInv
    <3> QED  BY <1>1, <1>3, <1>5, <3>2 DEF ScopedPlanIsGrounded, Heads
  <2> QED  BY <2>4, <2>5, <2>6, <2>7, SilentPacket
<1>7. CASE command = "plan" /\ allowed = Null
  <2>1. NoWalk /\ Emit(Packet("merge_plan", sha, body.truncated, PlanBlockers(body, FALSE)))
    BY <1>7 DEF FinishChecks
  <2> HIDE DEF body
  <2> QED  BY <1>1, <1>5, <1>7, <2>1, PlanStep
<1>8. CASE command # "plan"
  <2> DEFINE p == Packet("pr_checks", sha, body.truncated, {})
  <2>1. NoWalk /\ Emit(p) /\ command \in {"checks", "checks_ref"}
    BY <1>3, <1>8 DEF FinishChecks, ReadsChecks
  <2>2. /\ p.type = "pr_checks" /\ p.at = sha
        /\ p.truncated = (\E l \in Sources : walks[l].cut)
    BY DEF Packet, PrChecksBody
  <2>3. packet' = p /\ walks' = walks /\ due' = due
    BY <2>1 DEF Emit, NoWalk
  <2> HIDE DEF p, body
  <2>4. CompleteListMissesNothing'
    <3> SUFFICES ASSUME ~p.truncated, NEW l \in Listings, walks[l] # Null
                 PROVE  due[l] \subseteq walks[l].got
      BY <2>3 DEF CompleteListMissesNothing
    <3>1. walks[l].done /\ ~walks[l].cut
      BY <1>1, <1>4, <2>2 DEF Ended
    <3> QED  BY <3>1 DEF IInv, WalksMissNothing, WalkMisses
  <2>5. ClearPlanIsGrounded' /\ StaleHeadIsNamed'
    BY <1>1, <2>1, <2>2, <2>3
       DEF ClearPlanIsGrounded, StaleHeadIsNamed, IInv, HeadIsExcused
  <2>6. p.type \in Types \ {"none"}
    BY <2>2 DEF Types
  <2> QED  BY <1>1, <2>1, <2>4, <2>5, <2>6, PacketStep
<1> QED  BY <1>6, <1>7, <1>8

(* An answer that is no list: nothing is due of that listing any more, and  *)
(* a plan has left the listings of checks behind when it lists files.       *)
LEMMA NotAListStep ==
    ASSUME IInv, NEW l \in Listings, NotAList(l)
    PROVE  IInv'
<1> USE DEF IInv
<1>1. /\ pc = "walk" /\ pc' = "walk" /\ walks[l] \in WalkRecord /\ ~walks[l].done
      /\ due' = [due EXCEPT ![l] = {}]
      /\ UNCHANGED <<provider, head, records, files, comments, made, local, moves, command,
                     allowed, viewed, sha, required, checks, packet, excused>>
  BY DEF NotAList, Walking, Go, Quiet, forge, TypeOK
<1>2. PICK w \in WalkRecord :
        walks' = [walks EXCEPT ![l] = w] /\ w.got = walks[l].got /\ w.count = walks[l].count
  <2> DEFINE v == walks[l]
  <2>1. /\ [v EXCEPT !.done = TRUE] \in WalkRecord
        /\ [v EXCEPT !.done = TRUE, !.cut = TRUE] \in WalkRecord
        /\ v.page < MaxPages => [v EXCEPT !.page = @ + 1] \in WalkRecord
    <3>1. v.page < MaxPages => v.page + 1 \in 1..MaxPages
      BY <1>1, SizesAssumption DEF WalkRecord
    <3> HIDE DEF v
    <3> QED  BY <1>1, <3>1 DEF WalkRecord, v
  <2>2. /\ [v EXCEPT !.done = TRUE].got = v.got /\ [v EXCEPT !.done = TRUE].count = v.count
        /\ [v EXCEPT !.done = TRUE, !.cut = TRUE].got = v.got
        /\ [v EXCEPT !.done = TRUE, !.cut = TRUE].count = v.count
        /\ [v EXCEPT !.page = @ + 1].got = v.got /\ [v EXCEPT !.page = @ + 1].count = v.count
    <3> HIDE DEF v
    <3> QED  BY <1>1 DEF WalkRecord, v
  <2> QED  BY <2>1, <2>2 DEF NotAList, Turn
<1>3. /\ walks' \in [Listings -> WalkRecord \cup {Null}] /\ walks'[l] = w /\ walks[l] # Null
      /\ \A k \in Listings \ {l} : walks'[k] = walks[k] /\ due'[k] = due[k]
      /\ due' \in [Listings -> SUBSET Nat] /\ due'[l] = {}
  BY <1>1, <1>2 DEF TypeOK, NotAList, Walking
<1>4. TypeOK'
  <2>1. \A k \in Listings : walks'[k] # Null =>
          walks'[k].count >= Cardinality(Countable(k, walks'[k].got))
    BY <1>2, <1>3 DEF TypeOK
  <2> QED  BY <1>1, <1>3, <2>1 DEF TypeOK
<1>5. Sources' = Sources /\ ReadsChecks' = ReadsChecks /\ \A k \in Listings : Listed(k)' = Listed(k)
  BY <1>1 DEF Sources, ReadsChecks, Listed
<1>6. StepFitsCommand'
  BY <1>1, <1>5 DEF StepFitsCommand
<1>7. WalksFitCommand'
  BY <1>1, <1>3, <1>5 DEF WalksFitCommand, Listings, CheckListings
<1>8. WalksMissNothing'
  <2>1. ASSUME NEW k \in Listings \ {l}, WalkMisses(k) PROVE WalkMisses(k)'
    BY <1>1, <1>3, <1>5, <2>1 DEF WalkMisses, Ahead
  <2>2. WalkMisses(l)'
    BY <1>1, <1>2, <1>3 DEF WalksMissNothing, WalkMisses, Ahead
  <2> QED  BY <1>3, <2>1, <2>2 DEF WalksMissNothing
<1>9. ScopedPlanIsGrounded'
  <2> SUFFICES ASSUME command = "plan", walks["files"] # Null PROVE ScopedPlanIsGrounded'
    BY <1>1, <1>3 DEF ScopedPlanIsGrounded, Listings
  <2>1. \A k \in CheckListings : walks[k] = Null
    BY DEF WalksFitCommand, Listings
  <2>2. \A k \in CheckListings : due'[k] = due[k]
    BY <1>3, <2>1 DEF CheckListings, Listings
  <2>3. ChecksAreGrounded' = ChecksAreGrounded
    <3> HIDE DEF IInv
    <3> QED  BY <1>1, <2>2, GroundsStay
  <2> QED  BY <1>1, <2>3 DEF ScopedPlanIsGrounded
<1>10. HeadIsExcused' /\ FilesAreFinite' /\ DueIsOfTheseFiles'
  BY <1>1, <1>3 DEF HeadIsExcused, FilesAreFinite, DueIsOfTheseFiles, Listings
<1>11. packet'.type = "none"
  BY <1>1 DEF TypeOK
<1>12. CompleteListMissesNothing' /\ ClearPlanIsGrounded' /\ StaleHeadIsNamed'
  BY <1>11 DEF CompleteListMissesNothing, ClearPlanIsGrounded, StaleHeadIsNamed
<1> QED  BY <1>4, <1>6, <1>7, <1>8, <1>9, <1>10, <1>12

(* The files of a plan that asks for a scope were listed, or were not.      *)
LEMMA FinishScopeStep ==
    ASSUME IInv, FinishScope \/ MaskFilesError
    PROVE  IInv'
<1>1. /\ command = "plan" /\ pc = "walk" /\ walks["files"] # Null /\ "files" \in Listings
      /\ NoWalk /\ Quiet /\ UNCHANGED <<viewed, sha, required, excused>>
  BY DEF FinishScope, MaskFilesError, Ended, Walking, Listings
<1>2. CheckBlockers(checks, DefaultPolicy) = {} => ChecksAreGrounded
  BY <1>1 DEF IInv, ScopedPlanIsGrounded
<1>3. CASE FinishScope
  <2>1. walks["files"].done
    BY <1>3 DEF FinishScope, Ended
  <2>2. ASSUME ScopeBlockers(TRUE) = {}, allowed # Null, due["files"] # {}
        PROVE  PathsOf(files) \subseteq allowed
    <3>1. /\ ~walks["files"].cut /\ PathsOf(walks["files"].got) \subseteq allowed
      BY <2>2 DEF ScopeBlockers, ChangedPaths, Truncated, AllAllowed, When
    <3>2. due["files"] \subseteq walks["files"].got
      BY <1>1, <2>1, <3>1 DEF IInv, WalksMissNothing, WalkMisses
    <3>3. files \subseteq walks["files"].got
      BY <2>2, <3>2 DEF IInv, DueIsOfTheseFiles
    <3>4. PathsOf(files) \subseteq PathsOf(walks["files"].got)
      BY <3>3 DEF PathsOf
    <3> QED  BY <3>1, <3>4
  <2>3. Emit(Packet("merge_plan", sha, checks.truncated, PlanBlockers(checks, TRUE)))
    BY <1>3 DEF FinishScope
  <2> QED  BY <1>1, <1>2, <2>2, <2>3, PlanStep
<1>4. CASE MaskFilesError
  <2>1. ScopeBlockers(FALSE) = {} => allowed = Null
    BY DEF ScopeBlockers, ChangedPaths
  <2>2. Emit(Packet("merge_plan", sha, checks.truncated, PlanBlockers(checks, FALSE)))
    BY <1>4 DEF MaskFilesError
  <2> QED  BY <1>1, <1>2, <2>1, <2>2, PlanStep
<1> QED  BY <1>3, <1>4

LEMMA FinishListStep ==
    ASSUME IInv, NEW l \in {"files", "comments"}, FinishList(l)
    PROVE  IInv'
<1> DEFINE p == Packet(l, Null, Truncated(l), {})
<1>1. /\ command = l /\ pc = "walk" /\ NoWalk /\ Quiet /\ Emit(p) /\ walks[l].done
      /\ UNCHANGED <<viewed, sha, required, excused>>
  BY DEF FinishList, Ended
<1>2. p.type = l /\ p.truncated = Truncated(l)
  BY DEF Packet
<1>3. packet' = p /\ walks' = walks /\ due' = due
  BY <1>1 DEF Emit, NoWalk
<1>4. \A k \in Listings : walks[k] # Null => k = l
  BY <1>1 DEF IInv, WalksFitCommand, Listings, CheckListings, ReadsChecks
<1> HIDE DEF p
<1>5. CompleteListMissesNothing'
  <2> SUFFICES ASSUME ~p.truncated, NEW k \in Listings, walks[k] # Null
               PROVE  due[k] \subseteq walks[k].got
    BY <1>3 DEF CompleteListMissesNothing
  <2>1. walks[k].done /\ ~walks[k].cut
    BY <1>1, <1>2, <1>4 DEF Truncated
  <2> QED  BY <2>1 DEF IInv, WalksMissNothing, WalkMisses
<1>6. ClearPlanIsGrounded' /\ StaleHeadIsNamed' /\ p.type \in Types \ {"none"}
  BY <1>2, <1>3 DEF ClearPlanIsGrounded, StaleHeadIsNamed, Types
<1> QED  BY <1>1, <1>5, <1>6, PacketStep
-----------------------------------------------------------------------------
(* The invariant.                                                           *)
LEMMA InitIsInvariant == Init => IInv
<1> SUFFICES ASSUME Init PROVE IInv
  OBVIOUS
<1>1. /\ \A l \in Listings : walks[l] = Null /\ due[l] = {}
      /\ pc = "idle" /\ packet.type = "none" /\ head = 1 /\ head \in Heads
  BY SizesAssumption DEF Init, NoPacket, Packet, Heads
<1>2. records \in [Heads -> [CheckListings -> Seq(Record)]]
  <2>1. PICK before \in Histories :
          records = [h \in Heads |-> [l \in CheckListings |->
              IF ReadsChecks /\ h = head /\ l \in Sources THEN before[l] ELSE <<>>]]
    BY DEF Init, CheckListings
  <2>2. Histories \subseteq [CheckListings -> Seq(Record)]
    BY ChecksAssumption DEF CheckListings, Record
  <2>3. <<>> \in Seq(Record)
    OBVIOUS
  <2>4. \A l \in CheckListings : before[l] \in Seq(Record)
    BY <2>2
  <2> QED  BY <2>1, <2>3, <2>4
<1>3. files \subseteq Entries /\ IsFiniteSet(files)
  BY PathsAssumption, FS_EmptySet DEF Init
<1>4. made \in Nat /\ comments \subseteq 1..made
  BY SizesAssumption DEF Init
<1>5. TypeOK
  BY <1>1, <1>2, <1>3, <1>4, SizesAssumption DEF Init, TypeOK, CheckListings, Types
<1>6. StepFitsCommand /\ WalksFitCommand /\ FilesAreFinite /\ DueIsOfTheseFiles
      /\ WalksMissNothing /\ ScopedPlanIsGrounded /\ HeadIsExcused
  BY <1>1, <1>3
     DEF StepFitsCommand, WalksFitCommand, FilesAreFinite, DueIsOfTheseFiles, WalksMissNothing,
         ScopedPlanIsGrounded, HeadIsExcused, Listings
<1>7. CompleteListMissesNothing /\ ClearPlanIsGrounded /\ StaleHeadIsNamed
  BY <1>1 DEF CompleteListMissesNothing, ClearPlanIsGrounded, StaleHeadIsNamed
<1> QED  BY <1>5, <1>6, <1>7 DEF IInv

LEMMA StutterKeepsInvariant == IInv /\ UNCHANGED vars => IInv'
<1> SUFFICES ASSUME IInv, UNCHANGED vars PROVE IInv'
  OBVIOUS
<1> USE DEF IInv
<1>1. UNCHANGED <<provider, head, records, files, comments, made, local, moves, pc, command,
                  allowed, viewed, sha, required, walks, checks, packet, due, excused>>
  BY DEF vars
<1>2. TypeOK' /\ StepFitsCommand' /\ HeadIsExcused' /\ StaleHeadIsNamed'
  BY <1>1 DEF TypeOK, StepFitsCommand, ReadsChecks, HeadIsExcused, StaleHeadIsNamed
<1>3. WalksFitCommand' /\ WalksMissNothing' /\ FilesAreFinite' /\ DueIsOfTheseFiles'
  BY <1>1, WalksRest DEF NoWalk, Quiet, forge
<1>4. ChecksAreGrounded' = ChecksAreGrounded
  BY <1>1, GroundsStay
<1>5. ScopedPlanIsGrounded' /\ CompleteListMissesNothing'
  BY <1>1, <1>4 DEF ScopedPlanIsGrounded, CompleteListMissesNothing
<1>6. ClearPlanIsGrounded'
  BY <1>1 DEF ClearPlanIsGrounded, Sources, LastOf, Bad, RecordAt, ContextsOf
<1> QED  BY <1>2, <1>3, <1>5, <1>6

LEMMA NextKeepsInvariant == IInv /\ [Next]_vars => IInv'
<1> SUFFICES ASSUME IInv, [Next]_vars PROVE IInv'
  OBVIOUS
<1>1. CASE \E h \in Heads, l \in {"statuses", "runs"}, r \in Reports : Report(h, l, r)
  BY <1>1, ReportStep DEF CheckListings
<1>2. CASE \E list \in FileLists : Push(list)
  BY <1>2, PushStep
<1>3. CASE Fetch
  BY <1>3, FetchStep
<1>4. CASE Comment \/ \E i \in comments : DeleteComment(i)
  BY <1>4, CommentsStep
<1>5. CASE Start
  BY <1>5, StartStep
<1>6. CASE Fail
  BY <1>6, FailStep
<1>7. CASE PrView
  BY <1>7, PrViewStep
<1>8. CASE ReadPull \/ ReadProtection
  BY <1>8, ReadPullStep
<1>9. CASE ListChecks
  BY <1>9, ListChecksStep
<1>10. CASE \E l \in Listings : ReadPage(l)
  BY <1>10, ReadPageStep, NotAListStep DEF ReadPage
<1>11. CASE FinishChecks
  BY <1>11, FinishChecksStep
<1>12. CASE FinishScope \/ MaskFilesError
  BY <1>12, FinishScopeStep
<1>13. CASE \E l \in {"files", "comments"} : FinishList(l)
  BY <1>13, FinishListStep
<1>14. CASE UNCHANGED vars
  BY <1>14, StutterKeepsInvariant
<1> QED  BY <1>1, <1>2, <1>3, <1>4, <1>5, <1>6, <1>7, <1>8, <1>9, <1>10, <1>11, <1>12, <1>13,
            <1>14 DEF Next, Step

(* What every reachable state of a command satisfies, whatever the forge    *)
(* and however it moves meanwhile.                                          *)
THEOREM Invariant == Spec => []IInv
<1>1. Init => IInv
  BY InitIsInvariant
<1>2. IInv /\ [Next]_vars => IInv'
  BY NextKeepsInvariant
<1> QED  BY <1>1, <1>2, PTL DEF Spec

(* Every variable has its type; page numbers and page sizes stay within     *)
(* MAX_CHECK_STATUS_PAGES and the page size asked for, and a walk counts at *)
(* least what it has.                                                       *)
THEOREM TypeCorrect == Spec => []TypeOK
<1>1. IInv => TypeOK
  BY DEF IInv
<1> QED  BY <1>1, Invariant, PTL

(* A list of checks, files or comments that does not say it is cut has all  *)
(* that was listed when its walk began and was not taken away since, for    *)
(* any page size, any cap and any number of back-offs, as long as every     *)
(* answer was a list.                                                       *)
THEOREM CompleteListsMissNothing == Spec => []CompleteListMissesNothing
<1>1. IInv => CompleteListMissesNothing
  BY DEF IInv
<1> QED  BY <1>1, Invariant, PTL

(* A merge plan without blockers stands on what the forge had of one        *)
(* commit: its bad checks were reported anew, its required contexts have    *)
(* reports, and the paths the forge lists of a head that stayed are allowed *)
(* ones, as far as its answers were lists.                                  *)
THEOREM ClearPlansAreGrounded == Spec => []ClearPlanIsGrounded
<1>1. IInv => ClearPlanIsGrounded
  BY DEF IInv
<1> QED  BY <1>1, Invariant, PTL

(* What pr view and pr checks show is a head the clone had, or one that was *)
(* pushed after the comparison, unless they call it stale.                  *)
THEOREM StaleHeadsAreNamed == Spec => []StaleHeadIsNamed
<1>1. IInv => StaleHeadIsNamed
  BY DEF IInv
<1> QED  BY <1>1, Invariant, PTL
============================================================================
