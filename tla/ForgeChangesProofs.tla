------------------------- MODULE ForgeChangesProofs -------------------------
(***************************************************************************)
(* Proofs about ForgeChanges for any lists, page sizes, caps and number of *)
(* calls: types, that a complete poll missed nothing that was due, that    *)
(* every pull it reports comes with its checks, and that the cursor moves. *)
(***************************************************************************)
EXTENDS ForgeChanges, PagingProofs, SequenceTheorems
-----------------------------------------------------------------------------
(* Sequences                                                                *)

(* What is in two sequences is in their concatenation, and nothing else.    *)
LEMMA EventSetOfConcat ==
    ASSUME NEW S, NEW s \in Seq(S), NEW t \in Seq(S)
    PROVE  s \o t \in Seq(S) /\ EventSet(s \o t) = EventSet(s) \cup EventSet(t)
<1>1. /\ s \o t \in Seq(S) /\ Len(s \o t) = Len(s) + Len(t)
      /\ \A k \in 1..(Len(s) + Len(t)) :
            (s \o t)[k] = IF k <= Len(s) THEN s[k] ELSE t[k - Len(s)]
  OBVIOUS
<1>2. ASSUME NEW e \in EventSet(s) PROVE e \in EventSet(s \o t)
  <2>1. PICK k \in DOMAIN s : e = s[k]
    BY <1>2 DEF EventSet
  <2>2. k \in DOMAIN (s \o t) /\ (s \o t)[k] = e
    BY <1>1, <2>1
  <2> QED  BY <2>2 DEF EventSet
<1>3. ASSUME NEW e \in EventSet(t) PROVE e \in EventSet(s \o t)
  <2>1. PICK k \in DOMAIN t : e = t[k]
    BY <1>3 DEF EventSet
  <2>2. k + Len(s) \in DOMAIN (s \o t) /\ (s \o t)[k + Len(s)] = e
    BY <1>1, <2>1
  <2> QED  BY <2>2 DEF EventSet
<1>4. ASSUME NEW e \in EventSet(s \o t) PROVE e \in EventSet(s) \cup EventSet(t)
  <2>1. PICK k \in DOMAIN (s \o t) : e = (s \o t)[k]
    BY <1>4 DEF EventSet
  <2>2. CASE k <= Len(s)
    <3>1. k \in DOMAIN s /\ e = s[k]
      BY <1>1, <2>1, <2>2
    <3> QED  BY <3>1 DEF EventSet
  <2>3. CASE k > Len(s)
    <3>1. k - Len(s) \in DOMAIN t /\ e = t[k - Len(s)]
      BY <1>1, <2>1, <2>3
    <3> QED  BY <3>1 DEF EventSet
  <2> QED  BY <1>1, <2>1, <2>2, <2>3
<1> QED  BY <1>1, <1>2, <1>3, <1>4

(* The first n of a sequence.                                               *)
LEMMA FirstOfType ==
    ASSUME NEW S, NEW s \in Seq(S), NEW n \in Nat
    PROVE  /\ FirstOf(s, n) \in Seq(S) /\ Len(FirstOf(s, n)) = Smaller(n, Len(s))
           /\ Len(FirstOf(s, n)) <= n /\ Len(FirstOf(s, n)) <= Len(s)
           /\ \A k \in DOMAIN FirstOf(s, n) : k \in DOMAIN s /\ FirstOf(s, n)[k] = s[k]
           /\ n >= Len(s) => FirstOf(s, n) = s
           /\ EventSet(FirstOf(s, n)) \subseteq EventSet(s)
<1>1. Smaller(n, Len(s)) \in 0..Len(s) /\ Smaller(n, Len(s)) <= n
  BY DEF Smaller
<1>2. /\ FirstOf(s, n) \in Seq(S) /\ Len(FirstOf(s, n)) = Smaller(n, Len(s))
      /\ \A k \in 1..Smaller(n, Len(s)) : FirstOf(s, n)[k] = s[k]
  BY <1>1 DEF FirstOf
<1>3. \A k \in DOMAIN FirstOf(s, n) : k \in DOMAIN s /\ FirstOf(s, n)[k] = s[k]
  BY <1>1, <1>2
<1>4. n >= Len(s) => FirstOf(s, n) = s
  BY <1>1, <1>2 DEF Smaller
<1>5. EventSet(FirstOf(s, n)) \subseteq EventSet(s)
  BY <1>3 DEF EventSet
<1> QED  BY <1>1, <1>2, <1>3, <1>4, <1>5

(* A slice behind the first a continues them.                               *)
LEMMA FirstOfGrows ==
    ASSUME NEW S, NEW s \in Seq(S), NEW a \in Nat, NEW b \in Nat, a <= b
    PROVE  /\ SubSeq(s, a + 1, Smaller(b, Len(s))) \in Seq(S)
           /\ FirstOf(s, a) \o SubSeq(s, a + 1, Smaller(b, Len(s))) = FirstOf(s, b)
           /\ Len(SubSeq(s, a + 1, Smaller(b, Len(s))))
                 = IF a < Len(s) THEN Smaller(b, Len(s)) - a ELSE 0
<1> DEFINE m == Smaller(b, Len(s))
           t == SubSeq(s, a + 1, m)
<1>1. m \in 0..Len(s) /\ m <= b
  BY DEF Smaller
<1>2. CASE a < Len(s)
  <2>1. a <= m /\ FirstOf(s, a) = SubSeq(s, 1, a) /\ FirstOf(s, b) = SubSeq(s, 1, m)
    BY <1>1, <1>2 DEF Smaller, FirstOf
  <2> HIDE DEF m
  <2>2. t \in Seq(S) /\ Len(t) = m - a /\ \A k \in 1..(m - a) : t[k] = s[a + k]
    BY <1>1, <1>2, <2>1
  <2>3. SubSeq(s, 1, a) \in Seq(S) /\ Len(SubSeq(s, 1, a)) = a
        /\ \A k \in 1..a : SubSeq(s, 1, a)[k] = s[k]
    BY <1>1, <1>2
  <2>4. SubSeq(s, 1, m) \in Seq(S) /\ Len(SubSeq(s, 1, m)) = m
        /\ \A k \in 1..m : SubSeq(s, 1, m)[k] = s[k]
    BY <1>1, <1>2
  <2> DEFINE u == SubSeq(s, 1, a)
             v == SubSeq(s, 1, m)
  <2> HIDE DEF t, u, v
  <2>5. Len(u \o t) = Len(v) /\ \A k \in 1..Len(v) : (u \o t)[k] = v[k]
    BY <1>1, <2>1, <2>2, <2>3, <2>4 DEF u, v
  <2>6. u \o t \in Seq(S) /\ v \in Seq(S)
    BY <2>2, <2>3, <2>4 DEF u, v
  <2>7. u \o t = v
    BY <2>5, <2>6, SeqEqual
  <2> QED  BY <1>2, <2>1, <2>2, <2>7 DEF t, u, v, m
<1>3. CASE a >= Len(s)
  <2>1. m = Len(s) /\ t = <<>>
    BY <1>1, <1>3 DEF Smaller
  <2>2. FirstOf(s, a) = s /\ FirstOf(s, b) = s
    BY <1>3, FirstOfType
  <2> QED  BY <1>3, <2>1, <2>2
<1> QED  BY <1>2, <1>3

(* What is behind the first a and among the first b, one by one.            *)
LEMMA SliceIs ==
    ASSUME NEW S, NEW s \in Seq(S), NEW a \in Nat, NEW b \in Nat, a <= b
    PROVE  LET t == SubSeq(s, a + 1, Smaller(b, Len(s)))
           IN  /\ \A k \in DOMAIN s : a < k /\ k <= b => \E j \in DOMAIN t : t[j] = s[k]
               /\ \A j \in DOMAIN t : \E k \in DOMAIN s : a < k /\ k <= b /\ t[j] = s[k]
               /\ Len(t) < b - a => Len(s) <= b
<1> DEFINE n == Len(s)
           m == Smaller(b, n)
           t == SubSeq(s, a + 1, Smaller(b, Len(s)))
<1>1. n \in Nat /\ DOMAIN s = 1..n
  OBVIOUS
<1>2. t \in Seq(S) /\ Len(t) = (IF a < n THEN m - a ELSE 0) /\ t = SubSeq(s, a + 1, m)
  BY FirstOfGrows
<1> HIDE DEF n, t
<1>3. m \in 0..n /\ m <= b /\ (m = b \/ m = n)
  BY <1>1 DEF Smaller
<1> HIDE DEF m
<1>4. DOMAIN t = 1..Len(t)
  BY <1>2
<1>5. ASSUME NEW j \in DOMAIN t
      PROVE  a + j \in 1..m /\ t[j] = s[a + j]
  <2>1. a < n /\ j \in 1..(m - a) /\ a <= m
    BY <1>1, <1>2, <1>3, <1>4
  <2>2. m <= Len(s)
    BY <1>3 DEF n
  <2>3. \A i \in 1..(m - a) : SubSeq(s, a + 1, m)[i] = s[a + i]
    BY <1>1, <1>3, <2>1, <2>2
  <2> QED  BY <1>2, <1>3, <2>1, <2>3
<1>6. ASSUME NEW k \in DOMAIN s, a < k, k <= b PROVE \E j \in DOMAIN t : t[j] = s[k]
  <2>1. k - a \in DOMAIN t /\ a + (k - a) = k
    BY <1>1, <1>2, <1>3, <1>4, <1>6
  <2>2. t[k - a] = s[k]
    BY <1>5, <2>1
  <2> QED  BY <2>1, <2>2
<1>7. ASSUME NEW j \in DOMAIN t PROVE \E k \in DOMAIN s : a < k /\ k <= b /\ t[j] = s[k]
  <2>1. a + j \in 1..m /\ t[j] = s[a + j] /\ j \in 1..Len(t)
    BY <1>4, <1>5
  <2>2. a + j \in DOMAIN s /\ a < a + j /\ a + j <= b
    BY <1>1, <1>3, <2>1
  <2> QED  BY <2>1, <2>2
<1>8. Len(t) < b - a => n <= b
  BY <1>1, <1>2, <1>3
<1> QED  BY <1>6, <1>7, <1>8 DEF n, t

(* FlattenSeq is defined by recursion: there is a function that obeys it,   *)
(* by the least length for which there is none, ...                         *)
IsFlattening(f, ss) ==
    f = [i \in 1..Len(ss) |-> IF i = 1 THEN ss[i] ELSE f[i - 1] \o ss[i]]

LEMMA FlatteningExists ==
    ASSUME NEW S, NEW ss \in Seq(Seq(S))
    PROVE  \E f : IsFlattening(f, ss)
<1> DEFINE Rec(f, n) == f \in [1..n -> Seq(S)]
                        /\ \A i \in 1..n : f[i] = IF i = 1 THEN ss[i] ELSE f[i - 1] \o ss[i]
           Bad == {n \in 0..Len(ss) : ~\E f : Rec(f, n)}
<1>1. Bad = {}
  <2> SUFFICES ASSUME Bad # {} PROVE FALSE
    OBVIOUS
  <2>1. Bad \subseteq Nat
    OBVIOUS
  <2>2. PICK n \in Bad : \A m \in Bad : n <= m
    <3> HIDE DEF Bad
    <3> QED  BY <2>1, LeastExists
  <2>3. n # 0
    <3>1. Rec(<<>>, 0)
      OBVIOUS
    <3> QED  BY <3>1
  <2>4. n - 1 \notin Bad /\ n - 1 \in 0..Len(ss) /\ n \in 1..Len(ss) /\ ss[n] \in Seq(S)
    <3>1. n \in 1..Len(ss)
      BY <2>3
    <3>2. n - 1 \in 0..Len(ss) /\ ~(n <= n - 1) /\ ss[n] \in Seq(S)
      BY <3>1
    <3> HIDE DEF Bad
    <3> QED  BY <2>2, <3>1, <3>2
  <2>5. PICK f : Rec(f, n - 1)
    BY <2>4
  <2> DEFINE g == [i \in 1..n |-> IF i < n THEN f[i]
                                  ELSE IF n = 1 THEN ss[n] ELSE f[n - 1] \o ss[n]]
  <2>6. n # 1 => f[n - 1] \o ss[n] \in Seq(S)
    <3>1. n # 1 => f[n - 1] \in Seq(S)
      BY <2>4, <2>5
    <3> QED  BY <2>4, <3>1, ConcatProperties
  <2>7. g \in [1..n -> Seq(S)]
    BY <2>4, <2>5, <2>6
  <2>8. ASSUME NEW i \in 1..n
        PROVE  g[i] = IF i = 1 THEN ss[i] ELSE g[i - 1] \o ss[i]
    <3>1. CASE i < n
      <4>1. g[i] = f[i] /\ i \in 1..(n - 1)
        BY <2>4, <3>1
      <4>2. i # 1 => g[i - 1] = f[i - 1]
        BY <2>4, <3>1
      <4> QED  BY <2>5, <4>1, <4>2
    <3>2. CASE i = n
      <4>1. i # 1 => g[i - 1] = f[i - 1]
        BY <2>4, <3>2
      <4> QED  BY <2>4, <3>2, <4>1
    <3> QED  BY <2>4, <3>1, <3>2
  <2>9. Rec(g, n)
    BY <2>7, <2>8
  <2> HIDE DEF Rec, g
  <2> QED  BY <2>2, <2>9
<1>2. PICK f : Rec(f, Len(ss))
  <2>1. Len(ss) \in 0..Len(ss) /\ Len(ss) \notin Bad
    <3> HIDE DEF Bad
    <3> QED  BY <1>1
  <2> QED  BY <2>1
<1>3. IsFlattening(f, ss)
  BY <1>2 DEF IsFlattening
<1> QED  BY <1>3

(* ... and what it flattens is in it, by the least prefix that is not.      *)
LEMMA FlattenSeqFlattens ==
    ASSUME NEW S, NEW ss \in Seq(Seq(S))
    PROVE  /\ FlattenSeq(ss) \in Seq(S)
           /\ EventSet(FlattenSeq(ss)) = UNION {EventSet(ss[k]) : k \in DOMAIN ss}
<1>1. CASE Len(ss) = 0
  <2>1. FlattenSeq(ss) = ss /\ ss = <<>>
    BY <1>1 DEF FlattenSeq
  <2> QED  BY <2>1 DEF EventSet
<1>2. CASE Len(ss) # 0
  <2> DEFINE f == CHOOSE f : IsFlattening(f, ss)
  <2>1. FlattenSeq(ss) = f[Len(ss)]
    BY <1>2, Zenon DEF FlattenSeq, IsFlattening
  <2>2. IsFlattening(f, ss)
    BY FlatteningExists, Zenon
  <2> HIDE DEF f
  <2>3. \A i \in 1..Len(ss) : f[i] = IF i = 1 THEN ss[i] ELSE f[i - 1] \o ss[i]
    BY <2>2 DEF IsFlattening
  <2> DEFINE All(n) == UNION {EventSet(ss[k]) : k \in 1..n}
             Bad == {n \in 1..Len(ss) : ~(f[n] \in Seq(S) /\ EventSet(f[n]) = All(n))}
  <2>4. Bad = {}
    <3> SUFFICES ASSUME Bad # {} PROVE FALSE
      OBVIOUS
    <3>1. Bad \subseteq Nat
      OBVIOUS
    <3>2. PICK n \in Bad : \A m \in Bad : n <= m
      <4> HIDE DEF Bad
      <4> QED  BY <3>1, LeastExists
    <3>3. n \in 1..Len(ss) /\ ss[n] \in Seq(S)
      OBVIOUS
    <3>4. CASE n = 1
      <4>1. f[n] = ss[1] /\ All(n) = EventSet(ss[1])
        BY <2>3, <3>3, <3>4
      <4> HIDE DEF All
      <4> QED  BY <3>2, <3>3, <3>4, <4>1
    <3>5. CASE n # 1
      <4>1. n - 1 \in 1..Len(ss) /\ n - 1 \notin Bad
        <5>1. n - 1 \in 1..Len(ss) /\ ~(n <= n - 1)
          BY <3>3, <3>5
        <5> HIDE DEF Bad
        <5> QED  BY <3>2, <5>1
      <4>2. f[n - 1] \in Seq(S) /\ EventSet(f[n - 1]) = All(n - 1)
        BY <4>1
      <4>3. f[n] = f[n - 1] \o ss[n]
        BY <2>3, <3>3, <3>5
      <4>4. f[n] \in Seq(S) /\ EventSet(f[n]) = All(n - 1) \cup EventSet(ss[n])
        <5> HIDE DEF All
        <5> QED  BY <3>3, <4>2, <4>3, EventSetOfConcat
      <4>5. 1..n = 1..(n - 1) \cup {n}
        BY <3>3
      <4>6. All(n) = All(n - 1) \cup EventSet(ss[n])
        BY <4>5, Zenon
      <4> HIDE DEF All
      <4> QED  BY <3>2, <4>4, <4>6
    <3> QED  BY <3>4, <3>5
  <2>5. Len(ss) \in 1..Len(ss) /\ DOMAIN ss = 1..Len(ss)
    BY <1>2
  <2>6. f[Len(ss)] \in Seq(S) /\ EventSet(f[Len(ss)]) = All(Len(ss))
    <3>1. Len(ss) \notin Bad
      <4> HIDE DEF Bad
      <4> QED  BY <2>4
    <3> HIDE DEF All
    <3> QED  BY <2>5, <3>1
  <2> QED  BY <2>1, <2>5, <2>6
<1> QED  BY <1>1, <1>2

-----------------------------------------------------------------------------
(* The inductive invariant.  An item that is open was not closed, one that  *)
(* was merged was closed then; numbers are given once.                      *)
Good(i) ==
    /\ i.state = "open" => i.closed = Null /\ i.merged = Null
    /\ i.merged \in {Null, i.closed}
GoodList(list) ==
    /\ \A k \in DOMAIN list : Good(list[k]) /\ list[k].n <= Len(pulls) + Len(issues)
    /\ \A j, k \in DOMAIN list : list[j].n = list[k].n => j = k
ListsAreGood ==
    GoodList(pulls) /\ GoodList(issues) /\ Len(pulls) + Len(issues) <= MaxItems

(* What is reset between two walks and between two calls.                   *)
CallIsFresh ==
    /\ page = 1 => got = <<>>
    /\ pc \notin {"pulls", "issues"} => page = 1 /\ limit = PageSize
    /\ pc = "issues" => include
    /\ pc \in {"idle"} \cup Calling => packet = NoPacket
    /\ pc = "idle" => cursor = Null
    /\ (cursor = Null /\ pc \in {"idle"} \cup Calling) => delivered = {}
    /\ pc = "between" => packet.next \in 0..MaxEvents /\ ~packet.complete

(* What the walk of a list has found of the events it has to find, and what *)
(* is still ahead of it.                                                    *)
EventsOf(i, list) == IF list = "issues" THEN IssueEvents(i) ELSE PullEvents(i)
Found(d) == \E k \in DOMAIN got : d \in EventSet(EventsOf(got[k], pc))
Ahead(d) ==
    \E k \in DOMAIN List : /\ k > (page - 1) * limit /\ List[k].n \notin Numbers(got)
                           /\ d \in DueOf(List[k], pc)
Listing(d, list) == \E k \in DOMAIN ListOf(list) : d \in DueOf(ListOf(list)[k], list)

(* The heart of it: in a first call, and in a later one that nothing shook, *)
(* every event that is due was found or is ahead, and has been collected    *)
(* when its list is read, if no cap has struck.                             *)
CallMissesNothing ==
    (cursor = Null \/ ~shaken) =>
        /\ pc = "pulls" =>
             \A d \in due : Found(d) \/ Ahead(d) \/ (include /\ Listing(d, "issues"))
        /\ (pc = "issues" /\ ~truncated /\ ~listTruncated) =>
             \A d \in due : d \in EventSet(events) \/ Found(d) \/ Ahead(d)
        /\ (pc = "checks" /\ ~truncated /\ ~listTruncated) => due \subseteq EventSet(events)

(* What a call prints slices of when nothing shakes it.                     *)
Whole(list) == FirstOf(list, MaxPages * PageSize)
PullFeed == FirstOf(PullListEvents(Whole(pulls)), MaxEvents)
ListFeed ==
    LET found == IssueListEvents(Whole(issues))
    IN  IF ~include \/ found = <<>> THEN PullFeed ELSE FirstOf(PullFeed \o found, MaxEvents)
WithChecks(es) ==
    IF CheckEvents(es) = <<>> THEN es ELSE FirstOf(es \o CheckEvents(es), MaxEvents)
Feed == WithChecks(ListFeed)

(* A poll that nothing shook reads the same feed in every call, what it has *)
(* delivered is what is before its cursor, and all that is due is listed.   *)
QuietPoll ==
    (~shaken /\ pc \in Calling \cup {"between"}) =>
        /\ limit = PageSize
        /\ \A d \in due : Listing(d, "pulls") \/ (include /\ Listing(d, "issues"))
        /\ pc \in {"pulls", "issues"} => got = FirstOf(List, (page - 1) * PageSize)
        /\ pc = "issues" => events = PullFeed
        /\ pc = "checks" => events = ListFeed
        /\ pc \in Calling => delivered = EventSet(FirstOf(Feed, Offset))
        /\ pc = "between" => delivered = EventSet(FirstOf(Feed, packet.next))

IInv == /\ TypeOK /\ ListsAreGood /\ CallIsFresh /\ CallMissesNothing /\ QuietPoll
        /\ CompletePollMissesNothing /\ MovesComeWithChecks /\ CursorAdvances

-----------------------------------------------------------------------------
(* Events                                                                   *)

LEMMA WhenIs ==
    ASSUME NEW c \in BOOLEAN, NEW e \in EventRecord
    PROVE  When(c, e) \in Seq(EventRecord) /\ EventSet(When(c, e)) = IF c THEN {e} ELSE {}
<1>1. CASE c
  <2> DEFINE w == When(c, e)
  <2>1. w \in Seq(EventRecord) /\ DOMAIN w = {1} /\ w[1] = e
    BY <1>1 DEF When
  <2> HIDE DEF w
  <2>2. EventSet(w) = {e}
    BY <2>1 DEF EventSet
  <2> QED  BY <1>1, <2>1, <2>2 DEF w
<1>2. CASE ~c
  BY <1>2 DEF When, EventSet
<1> QED  BY <1>1, <1>2

LEMMA EventIs ==
    ASSUME NEW kind \in EventKinds, NEW i, i.n \in 1..MaxItems
    PROVE  /\ Event(kind, i) \in EventRecord
           /\ Event(kind, i).kind = kind /\ Event(kind, i).n = i.n
BY DEF Event, EventRecord

(* The events of an item, as a set.                                         *)
LEMMA EventsOfItem ==
    ASSUME NEW i \in ItemRecord
    PROVE  /\ PullEvents(i) \in Seq(EventRecord) /\ IssueEvents(i) \in Seq(EventRecord)
           /\ EventSet(PullEvents(i)) =
                (IF IsAtOrAfter(i.created) THEN {Event("pr_opened", i)} ELSE {})
                \cup (IF IsAtOrAfter(i.merged) THEN {Event("pr_merged", i)} ELSE {})
                \cup (IF i.merged = Null /\ ClosedInWindow(i) THEN {Event("pr_closed", i)} ELSE {})
                \cup (IF i.state = "open" /\ IsAtOrAfter(i.updated) /\ IsBefore(i.created)
                      THEN {Event("head_sha_moved", i)} ELSE {})
           /\ EventSet(IssueEvents(i)) =
                (IF IsAtOrAfter(i.created) THEN {Event("issue_opened", i)} ELSE {})
                \cup (IF ClosedInWindow(i) THEN {Event("issue_closed", i)} ELSE {})
<1> DEFINE o == When(IsAtOrAfter(i.created), Event("pr_opened", i))
           m == When(IsAtOrAfter(i.merged), Event("pr_merged", i))
           c == When(i.merged = Null /\ ClosedInWindow(i), Event("pr_closed", i))
           h == When(i.state = "open" /\ IsAtOrAfter(i.updated) /\ IsBefore(i.created),
                     Event("head_sha_moved", i))
           p == When(IsAtOrAfter(i.created), Event("issue_opened", i))
           q == When(ClosedInWindow(i), Event("issue_closed", i))
<1>1. i.n \in 1..MaxItems
  BY DEF ItemRecord
<1>2. \A kind \in EventKinds : Event(kind, i) \in EventRecord
  BY <1>1, EventIs
<1>3. /\ {"pr_opened", "pr_merged", "pr_closed", "head_sha_moved", "issue_opened",
          "issue_closed"} \subseteq EventKinds
      /\ \A t : IsAtOrAfter(t) \in BOOLEAN /\ IsBefore(t) \in BOOLEAN
      /\ ClosedInWindow(i) \in BOOLEAN
  BY DEF EventKinds, IsAtOrAfter, IsBefore, ClosedInWindow
<1>4. /\ o \in Seq(EventRecord)
      /\ EventSet(o) = IF IsAtOrAfter(i.created) THEN {Event("pr_opened", i)} ELSE {}
  BY <1>2, <1>3, WhenIs
<1>5. /\ m \in Seq(EventRecord)
      /\ EventSet(m) = IF IsAtOrAfter(i.merged) THEN {Event("pr_merged", i)} ELSE {}
  BY <1>2, <1>3, WhenIs
<1>6. /\ c \in Seq(EventRecord)
      /\ EventSet(c) = IF i.merged = Null /\ ClosedInWindow(i) THEN {Event("pr_closed", i)} ELSE {}
  BY <1>2, <1>3, WhenIs
<1>7. /\ h \in Seq(EventRecord)
      /\ EventSet(h) = IF i.state = "open" /\ IsAtOrAfter(i.updated) /\ IsBefore(i.created)
                       THEN {Event("head_sha_moved", i)} ELSE {}
  BY <1>2, <1>3, WhenIs
<1>8. /\ p \in Seq(EventRecord)
      /\ EventSet(p) = IF IsAtOrAfter(i.created) THEN {Event("issue_opened", i)} ELSE {}
  BY <1>2, <1>3, WhenIs
<1>9. /\ q \in Seq(EventRecord)
      /\ EventSet(q) = IF ClosedInWindow(i) THEN {Event("issue_closed", i)} ELSE {}
  BY <1>2, <1>3, WhenIs
<1>10. PullEvents(i) = o \o m \o c \o h /\ IssueEvents(i) = p \o q
  BY DEF PullEvents, IssueEvents
<1> HIDE DEF o, m, c, h, p, q
<1>11. p \o q \in Seq(EventRecord) /\ EventSet(p \o q) = EventSet(p) \cup EventSet(q)
  BY <1>8, <1>9, EventSetOfConcat
<1> DEFINE om  == o \o m
           omc == om \o c
<1>12. om \in Seq(EventRecord) /\ EventSet(om) = EventSet(o) \cup EventSet(m)
  BY <1>4, <1>5, EventSetOfConcat
<1> HIDE DEF om
<1>13. omc \in Seq(EventRecord) /\ EventSet(omc) = EventSet(om) \cup EventSet(c)
  BY <1>6, <1>12, EventSetOfConcat
<1> HIDE DEF omc
<1>14. omc \o h \in Seq(EventRecord) /\ EventSet(omc \o h) = EventSet(omc) \cup EventSet(h)
  BY <1>7, <1>13, EventSetOfConcat
<1>15. PullEvents(i) = omc \o h
  BY <1>10 DEF om, omc
<1> QED  BY <1>4, <1>5, <1>6, <1>7, <1>8, <1>9, <1>10, <1>11, <1>12, <1>13, <1>14, <1>15

(* The code derives every event that is due of an item.                     *)
LEMMA DueIsDerived ==
    ASSUME NEW i \in ItemRecord, Good(i), NEW list \in {"pulls", "issues"},
           NEW d \in DueOf(i, list)
    PROVE  d \in EventRecord /\ d.n = i.n /\ d \in EventSet(EventsOf(i, list))
<1>1. /\ i.n \in 1..MaxItems /\ i.state \in {"open", "closed"}
      /\ i.created \in 0..2 /\ i.updated \in 0..2
      /\ i.closed \in 0..2 \cup {Null} /\ i.merged \in 0..2 \cup {Null}
      /\ Null \notin 0..2
  BY SizeAssumption DEF ItemRecord, Times, Since, Now
<1> DEFINE closing == IF i.closed = Null THEN i.updated ELSE i.closed
<1>2. PICK k \in EventKinds : /\ d = Event(k, i)
          /\ \/ k = "pr_opened" /\ list = "pulls" /\ i.created >= Since
             \/ k = "issue_opened" /\ list # "pulls" /\ i.created >= Since
             \/ k = "pr_merged" /\ list = "pulls" /\ i.merged # Null /\ closing >= Since
             \/ k = "pr_closed" /\ list = "pulls" /\ i.state = "closed" /\ i.merged = Null
                                /\ closing >= Since
             \/ k = "issue_closed" /\ list # "pulls" /\ i.state = "closed" /\ closing >= Since
             \/ k = "head_sha_moved" /\ list = "pulls" /\ i.state = "open" /\ i.created < Since
                                     /\ i.updated >= Since
  BY DEF DueOf, Event
<1>3. d \in EventRecord /\ d.n = i.n
  BY <1>1, <1>2, EventIs
<1>4. CASE list = "pulls"
  <2>1. EventsOf(i, list) = PullEvents(i)
    BY <1>4 DEF EventsOf
  <2>2. \/ d = Event("pr_opened", i) /\ IsAtOrAfter(i.created)
        \/ d = Event("pr_merged", i) /\ IsAtOrAfter(i.merged)
        \/ d = Event("pr_closed", i) /\ i.merged = Null /\ ClosedInWindow(i)
        \/ /\ d = Event("head_sha_moved", i)
           /\ i.state = "open" /\ IsAtOrAfter(i.updated) /\ IsBefore(i.created)
    BY <1>1, <1>2, <1>4 DEF IsAtOrAfter, IsBefore, ClosedInWindow, Good, Since
  <2> QED  BY <1>3, <2>1, <2>2, EventsOfItem
<1>5. CASE list = "issues"
  <2>1. EventsOf(i, list) = IssueEvents(i)
    BY <1>5 DEF EventsOf
  <2>2. \/ d = Event("issue_opened", i) /\ IsAtOrAfter(i.created)
        \/ d = Event("issue_closed", i) /\ ClosedInWindow(i)
    BY <1>1, <1>2, <1>5 DEF IsAtOrAfter, ClosedInWindow, Since
  <2> QED  BY <1>3, <2>1, <2>2, EventsOfItem
<1> QED  BY <1>4, <1>5

(* The events of a list, as a set.                                          *)
LEMMA ListEventsAre ==
    ASSUME NEW items \in Seq(ItemRecord)
    PROVE  /\ PullListEvents(items) \in Seq(EventRecord)
           /\ IssueListEvents(items) \in Seq(EventRecord)
           /\ EventSet(PullListEvents(items)) =
                UNION {EventSet(PullEvents(items[k])) : k \in DOMAIN items}
           /\ EventSet(IssueListEvents(items)) =
                UNION {EventSet(IssueEvents(items[k])) : k \in DOMAIN items}
<1> DEFINE ps == [k \in DOMAIN items |-> PullEvents(items[k])]
           is == [k \in DOMAIN items |-> IssueEvents(items[k])]
<1>1. /\ Len(items) \in Nat /\ DOMAIN items = 1..Len(items)
      /\ \A k \in DOMAIN items : items[k] \in ItemRecord
  OBVIOUS
<1>2. \A k \in DOMAIN items : /\ PullEvents(items[k]) \in Seq(EventRecord)
                              /\ IssueEvents(items[k]) \in Seq(EventRecord)
  BY <1>1, EventsOfItem
<1>3. ps \in Seq(Seq(EventRecord)) /\ DOMAIN ps = DOMAIN items
  BY <1>1, <1>2
<1>4. is \in Seq(Seq(EventRecord)) /\ DOMAIN is = DOMAIN items
  BY <1>1, <1>2
<1>5. /\ FlattenSeq(ps) \in Seq(EventRecord)
      /\ EventSet(FlattenSeq(ps)) = UNION {EventSet(ps[k]) : k \in DOMAIN ps}
  <2> HIDE DEF ps
  <2> QED  BY <1>3, FlattenSeqFlattens
<1>6. /\ FlattenSeq(is) \in Seq(EventRecord)
      /\ EventSet(FlattenSeq(is)) = UNION {EventSet(is[k]) : k \in DOMAIN is}
  <2> HIDE DEF is
  <2> QED  BY <1>4, FlattenSeqFlattens
<1>7. UNION {EventSet(ps[k]) : k \in DOMAIN ps}
        = UNION {EventSet(PullEvents(items[k])) : k \in DOMAIN items}
  BY <1>3
<1>8. UNION {EventSet(is[k]) : k \in DOMAIN is}
        = UNION {EventSet(IssueEvents(items[k])) : k \in DOMAIN items}
  BY <1>4
<1>9. PullListEvents(items) = FlattenSeq(ps) /\ IssueListEvents(items) = FlattenSeq(is)
  BY DEF PullListEvents, IssueListEvents
<1> HIDE DEF ps, is
<1> QED  BY <1>5, <1>6, <1>7, <1>8, <1>9

(* Every pull reported as opened or moved has its checks read: the first    *)
(* time it is reported.                                                     *)
LEMMA ChecksFollow ==
    ASSUME NEW es \in Seq(EventRecord)
    PROVE  /\ CheckEvents(es) \in Seq(EventRecord)
           /\ \A e \in EventSet(CheckEvents(es)) : e.kind = "checks_conclusion_observed"
           /\ \A e \in EventSet(es) : e.kind \in {"pr_opened", "head_sha_moved"} =>
                [kind |-> "checks_conclusion_observed", n |-> e.n] \in EventSet(CheckEvents(es))
<1> DEFINE seen(k) == es[k].kind \in {"pr_opened", "head_sha_moved"}
           first(k) == \A j \in 1..(k - 1) : ~(seen(j) /\ es[j].n = es[k].n)
           e(k) == Event("checks_conclusion_observed", es[k])
           cs == [k \in DOMAIN es |-> When(seen(k) /\ first(k), e(k))]
<1>1. /\ Len(es) \in Nat /\ DOMAIN es = 1..Len(es)
      /\ \A k \in DOMAIN es : es[k] \in EventRecord /\ es[k].n \in 1..MaxItems
  <2>1. \A r \in EventRecord : r.n \in 1..MaxItems
    BY DEF EventRecord
  <2> QED  BY <2>1
<1>2. ASSUME NEW k \in DOMAIN es
      PROVE  /\ e(k) \in EventRecord
             /\ e(k) = [kind |-> "checks_conclusion_observed", n |-> es[k].n]
  <2>1. "checks_conclusion_observed" \in EventKinds
    BY DEF EventKinds
  <2> QED  BY <1>1, <2>1, EventIs DEF Event
<1>3. ASSUME NEW k \in DOMAIN es
      PROVE  /\ cs[k] \in Seq(EventRecord)
             /\ EventSet(cs[k]) = IF seen(k) /\ first(k) THEN {e(k)} ELSE {}
  <2>1. (seen(k) /\ first(k)) \in BOOLEAN /\ cs[k] = When(seen(k) /\ first(k), e(k))
    OBVIOUS
  <2> HIDE DEF seen, first, e
  <2> QED  BY <1>2, <2>1, WhenIs
<1>4. cs \in Seq(Seq(EventRecord)) /\ DOMAIN cs = DOMAIN es
  <2>1. cs \in [1..Len(es) -> Seq(EventRecord)]
    <3>1. \A k \in 1..Len(es) : cs[k] \in Seq(EventRecord)
      <4> HIDE DEF cs
      <4> QED  BY <1>1, <1>3
    <3> HIDE DEF seen, first, e
    <3> QED  BY <1>1, <3>1
  <2> HIDE DEF cs
  <2> QED  BY <1>1, <2>1
<1>5. CheckEvents(es) = FlattenSeq(cs)
  BY DEF CheckEvents
<1>6. /\ CheckEvents(es) \in Seq(EventRecord)
      /\ EventSet(CheckEvents(es)) = UNION {EventSet(cs[k]) : k \in DOMAIN es}
  <2> HIDE DEF cs
  <2> QED  BY <1>4, <1>5, FlattenSeqFlattens
<1> HIDE DEF cs, e
<1>7. ASSUME NEW c \in EventSet(CheckEvents(es)) PROVE c.kind = "checks_conclusion_observed"
  <2>1. PICK k \in DOMAIN es : c \in EventSet(cs[k])
    BY <1>6
  <2>2. c = e(k)
    BY <1>3, <2>1
  <2> QED  BY <1>2, <2>2
<1>8. ASSUME NEW k \in DOMAIN es, seen(k)
      PROVE  [kind |-> "checks_conclusion_observed", n |-> es[k].n] \in EventSet(CheckEvents(es))
  <2> DEFINE T == {j \in DOMAIN es : seen(j) /\ es[j].n = es[k].n}
  <2>1. T \subseteq Nat /\ k \in T
    BY <1>1, <1>8
  <2>2. PICK j \in T : \A m \in T : j <= m
    <3> HIDE DEF T
    <3> QED  BY <2>1, LeastExists
  <2>3. j \in DOMAIN es /\ seen(j) /\ es[j].n = es[k].n
    OBVIOUS
  <2>4. first(j)
    <3> SUFFICES ASSUME NEW m \in 1..(j - 1), seen(m) /\ es[m].n = es[j].n PROVE FALSE
      OBVIOUS
    <3>1. m \in DOMAIN es /\ ~(j <= m)
      BY <1>1, <2>3
    <3>2. m \in T
      BY <2>3, <3>1
    <3> HIDE DEF T
    <3> QED  BY <2>2, <3>1, <3>2
  <2>5. e(j) \in EventSet(cs[j])
    <3> HIDE DEF seen, first, T
    <3> QED  BY <1>3, <2>3, <2>4
  <2>6. e(j) \in EventSet(CheckEvents(es))
    BY <1>6, <2>3, <2>5
  <2> QED  BY <1>2, <2>3, <2>6
<1>9. \A c \in EventSet(es) : \E k \in DOMAIN es : c = es[k]
  BY DEF EventSet
<1> QED  BY <1>6, <1>7, <1>8, <1>9

-----------------------------------------------------------------------------
(* Pages                                                                    *)

LEMMA PageNumbers ==
    ASSUME TypeOK
    PROVE  /\ page \in Nat \ {0} /\ limit \in Nat \ {0} /\ limit \in 1..PageSize
           /\ (page - 1) * limit \in Nat /\ page * limit \in Nat
           /\ page * limit = (page - 1) * limit + limit
<1>1. page \in Nat \ {0} /\ limit \in Nat \ {0} /\ limit \in 1..PageSize /\ page - 1 \in Nat
  BY SizeAssumption DEF TypeOK
<1>2. \A a, b \in Nat : a * b \in Nat /\ (a + 1) * b = a * b + b
  BY SMT
<1>3. page = (page - 1) + 1
  BY <1>1
<1> QED  BY <1>1, <1>2, <1>3

(* The page at hand is the part of the list between two multiples of the    *)
(* page size, and the last when it ends the list.                           *)
LEMMA ItemsAre ==
    ASSUME TypeOK
    PROVE  /\ List \in Seq(ItemRecord) /\ Items \in Seq(ItemRecord)
           /\ FirstOf(List, (page - 1) * limit) \o Items = FirstOf(List, page * limit)
           /\ \A k \in DOMAIN List : (page - 1) * limit < k /\ k <= page * limit =>
                 \E j \in DOMAIN Items : Items[j] = List[k]
           /\ \A j \in DOMAIN Items : \E k \in DOMAIN List :
                 (page - 1) * limit < k /\ k <= page * limit /\ Items[j] = List[k]
           /\ NoMore => Len(List) <= page * limit
<1> DEFINE a == (page - 1) * limit
           b == page * limit
<1>1. a \in Nat /\ b \in Nat /\ a <= b /\ b - a = limit
  BY PageNumbers
<1>2. List \in Seq(ItemRecord)
  BY DEF TypeOK, List, ListOf
<1>3. Items = SubSeq(List, a + 1, Smaller(b, Len(List)))
  BY DEF Items
<1> HIDE DEF a, b
<1>4. Items \in Seq(ItemRecord) /\ FirstOf(List, a) \o Items = FirstOf(List, b)
  BY <1>1, <1>2, <1>3, FirstOfGrows, Zenon
<1>5. /\ \A k \in DOMAIN List : a < k /\ k <= b => \E j \in DOMAIN Items : Items[j] = List[k]
      /\ \A j \in DOMAIN Items : \E k \in DOMAIN List : a < k /\ k <= b /\ Items[j] = List[k]
      /\ Len(Items) < b - a => Len(List) <= b
  <2> DEFINE t == SubSeq(List, a + 1, Smaller(b, Len(List)))
  <2>1. /\ \A k \in DOMAIN List : a < k /\ k <= b => \E j \in DOMAIN t : t[j] = List[k]
        /\ \A j \in DOMAIN t : \E k \in DOMAIN List : a < k /\ k <= b /\ t[j] = List[k]
        /\ Len(t) < b - a => Len(List) <= b
    BY <1>1, <1>2, SliceIs
  <2>2. Items = t
    BY <1>3
  <2> HIDE DEF t
  <2> QED  BY <2>1, <2>2
<1>6. NoMore => Len(List) <= b
  <2>1. Len(List) \in Nat
    BY <1>2
  <2>2. NoMore => Len(Items) < limit \/ Len(List) = b
    BY DEF NoMore, b
  <2> HIDE DEF NoMore
  <2> QED  BY <1>1, <1>5, <2>1, <2>2
<1> QED  BY <1>2, <1>4, <1>5, <1>6 DEF a, b

FoundIn(d, items) == \E k \in DOMAIN items : d \in EventSet(EventsOf(items[k], pc))

(* One page more: what was ahead on it is found, the rest is still ahead,   *)
(* and nothing is when the list ends.                                       *)
LEMMA OnePageMore ==
    ASSUME IInv, pc \in {"pulls", "issues"}
    PROVE  /\ got \o Items \in Seq(ItemRecord)
           /\ \A d : Found(d) => FoundIn(d, got \o Items)
           /\ \A d : Ahead(d) =>
                \/ FoundIn(d, got \o Items)
                \/ ~NoMore /\ \E k \in DOMAIN List :
                     /\ k > page * limit /\ List[k].n \notin Numbers(got \o Items)
                     /\ d \in DueOf(List[k], pc)
<1> DEFINE all == got \o Items
<1>1. TypeOK /\ ListsAreGood
  BY DEF IInv
<1>2. /\ got \in Seq(ItemRecord) /\ Items \in Seq(ItemRecord) /\ List \in Seq(ItemRecord)
      /\ Len(got) \in Nat /\ Len(Items) \in Nat /\ Len(List) \in Nat
      /\ DOMAIN got = 1..Len(got) /\ DOMAIN Items = 1..Len(Items) /\ DOMAIN List = 1..Len(List)
  <2>1. got \in Seq(ItemRecord) /\ Items \in Seq(ItemRecord) /\ List \in Seq(ItemRecord)
    BY <1>1, ItemsAre DEF TypeOK
  <2> QED  BY <2>1
<1>3. /\ all \in Seq(ItemRecord) /\ DOMAIN all = 1..(Len(got) + Len(Items))
      /\ \A k \in DOMAIN got : all[k] = got[k]
      /\ \A k \in DOMAIN Items : all[Len(got) + k] = Items[k]
      /\ \A k \in DOMAIN all : k \in DOMAIN got \/ \E j \in DOMAIN Items : k = Len(got) + j
  <2>1. /\ all \in Seq(ItemRecord) /\ Len(all) = Len(got) + Len(Items)
        /\ \A k \in 1..(Len(got) + Len(Items)) :
              all[k] = IF k <= Len(got) THEN got[k] ELSE Items[k - Len(got)]
    BY <1>2, ConcatProperties
  <2> DEFINE g == Len(got)
             i == Len(Items)
  <2> HIDE DEF all
  <2>2. g \in Nat /\ i \in Nat /\ DOMAIN got = 1..g /\ DOMAIN Items = 1..i
    BY <1>2
  <2>3. DOMAIN all = 1..(g + i)
    BY <2>1
  <2> HIDE DEF g, i
  <2>4. \A k \in 1..(g + i) : k \in 1..g \/ (k - g \in 1..i /\ k = g + (k - g))
    BY <2>2
  <2>5. \A k \in DOMAIN got : all[k] = got[k]
    BY <2>1, <2>2 DEF g, i
  <2>6. ASSUME NEW k \in DOMAIN Items PROVE all[g + k] = Items[k]
    <3>1. g + k \in 1..(g + i) /\ ~(g + k <= g) /\ (g + k) - g = k
      BY <2>2
    <3> QED  BY <2>1, <3>1 DEF g, i
  <2> QED  BY <2>1, <2>2, <2>3, <2>4, <2>5, <2>6 DEF g, i
<1> HIDE DEF all
<1>4. /\ \A k \in DOMAIN List : Good(List[k])
      /\ \A j, k \in DOMAIN List : List[j].n = List[k].n => j = k
  BY <1>1 DEF ListsAreGood, GoodList, List, ListOf
<1>5. \A k \in DOMAIN got : k \in DOMAIN all
  BY <1>2, <1>3
<1>6. \A j \in DOMAIN Items : Len(got) + j \in DOMAIN all
  BY <1>2, <1>3
<1>7. ASSUME NEW d, Found(d) PROVE FoundIn(d, all)
  BY <1>3, <1>5, <1>7 DEF Found, FoundIn
<1>8. ASSUME NEW d, Ahead(d)
      PROVE  \/ FoundIn(d, all)
             \/ ~NoMore /\ \E k \in DOMAIN List :
                  /\ k > page * limit /\ List[k].n \notin Numbers(all) /\ d \in DueOf(List[k], pc)
  <2>1. PICK k \in DOMAIN List :
          k > (page - 1) * limit /\ List[k].n \notin Numbers(got) /\ d \in DueOf(List[k], pc)
    BY <1>8 DEF Ahead
  <2>2. page * limit \in Nat /\ (page - 1) * limit \in Nat /\ k \in Nat
    BY <1>1, <1>2, PageNumbers
  <2>3. CASE k <= page * limit
    <3>1. PICK j \in DOMAIN Items : Items[j] = List[k]
      BY <1>1, <2>1, <2>3, ItemsAre
    <3>2. d \in EventSet(EventsOf(List[k], pc))
      BY <1>2, <1>4, <2>1, DueIsDerived
    <3> QED  BY <1>3, <1>6, <3>1, <3>2 DEF FoundIn
  <2>4. CASE k > page * limit
    <3>1. ~NoMore
      BY <1>1, <1>2, <2>2, <2>4, ItemsAre
    <3>2. List[k].n \notin Numbers(all)
      <4> SUFFICES ASSUME NEW x \in DOMAIN all, all[x].n = List[k].n PROVE FALSE
        BY DEF Numbers
      <4>1. CASE x \in DOMAIN got
        BY <1>3, <2>1, <4>1 DEF Numbers
      <4>2. CASE \E j \in DOMAIN Items : x = Len(got) + j
        <5>1. PICK j \in DOMAIN Items : x = Len(got) + j /\ all[x] = Items[j]
          BY <1>3, <4>2
        <5>2. PICK y \in DOMAIN List : y <= page * limit /\ Items[j] = List[y]
          BY <1>1, ItemsAre
        <5>3. y = k
          BY <1>4, <5>1, <5>2
        <5> QED  BY <1>2, <2>2, <2>4, <5>2, <5>3
      <4> QED  BY <1>3, <4>1, <4>2
    <3> QED  BY <2>1, <2>4, <3>1, <3>2
  <2> QED  BY <2>2, <2>3, <2>4
<1> QED  BY <1>3, <1>7, <1>8 DEF all

(* In a quiet poll the walk has the front of the list, and at its end as    *)
(* much of it as the page cap allows.                                       *)
LEMMA QuietPage ==
    ASSUME IInv, ~shaken, pc \in {"pulls", "issues"}
    PROVE  /\ limit = PageSize /\ got \o Items = FirstOf(List, page * PageSize)
           /\ NoMore \/ page = MaxPages => got \o Items = Whole(List)
<1>1. TypeOK /\ limit = PageSize /\ got = FirstOf(List, (page - 1) * PageSize)
  BY DEF IInv, QuietPoll, Calling
<1>2. List \in Seq(ItemRecord) /\ Len(List) \in Nat /\ page * PageSize \in Nat
  BY <1>1, ItemsAre, PageNumbers
<1>3. got \o Items = FirstOf(List, page * PageSize)
  BY <1>1, ItemsAre
<1>4. CASE NoMore
  <2>1. Len(List) <= page * PageSize
    BY <1>1, <1>4, ItemsAre
  <2>2. page * PageSize <= MaxPages * PageSize /\ MaxPages * PageSize \in Nat
    <3>1. \A x, y, z \in Nat : x <= y => x * z <= y * z /\ y * z \in Nat
      BY SMT
    <3>2. page \in Nat /\ MaxPages \in Nat /\ PageSize \in Nat /\ page <= MaxPages
      BY <1>1, SizeAssumption DEF TypeOK
    <3> QED  BY <3>1, <3>2
  <2>3. Len(List) <= MaxPages * PageSize
    BY <1>2, <2>1, <2>2
  <2>4. FirstOf(List, page * PageSize) = List
    BY <1>2, <2>1, FirstOfType
  <2>5. FirstOf(List, MaxPages * PageSize) = List
    BY <1>2, <2>2, <2>3, FirstOfType
  <2> QED  BY <1>1, <1>3, <2>4, <2>5 DEF Whole
<1>5. CASE page = MaxPages
  BY <1>1, <1>3, <1>5 DEF Whole
<1> QED  BY <1>1, <1>3, <1>4, <1>5

-----------------------------------------------------------------------------
(* Facts about two states                                                   *)

LEMMA Nothing ==
    /\ EventSet(<<>>) = {}
    /\ \A S : \A s \in Seq(S) : FirstOf(s, 0) = <<>>
<1>1. EventSet(<<>>) = {}
  BY DEF EventSet
<1>2. ASSUME NEW S, NEW s \in Seq(S) PROVE FirstOf(s, 0) = <<>>
  <2>1. Smaller(0, Len(s)) = 0
    BY DEF Smaller
  <2> QED  BY <2>1 DEF FirstOf
<1> QED  BY <1>1, <1>2

(* The slice of a packet continues what is before the cursor, and ends      *)
(* where the next cursor points to.                                         *)
Slice(s, a, l) == SubSeq(s, a + 1, Smaller(a + l, Len(s)))

LEMMA SliceContinues ==
    ASSUME NEW S, NEW s \in Seq(S), NEW a \in Nat, NEW l \in Nat \ {0}
    PROVE  /\ Slice(s, a, l) \in Seq(S)
           /\ Len(Slice(s, a, l)) \in Nat /\ Len(Slice(s, a, l)) <= l
           /\ FirstOf(s, a) \o Slice(s, a, l) = FirstOf(s, a + Len(Slice(s, a, l)))
           /\ a + Len(Slice(s, a, l)) >= Len(s) => FirstOf(s, a + Len(Slice(s, a, l))) = s
           /\ a + Len(Slice(s, a, l)) < Len(s) => Len(Slice(s, a, l)) > 0
           /\ a + Len(Slice(s, a, l)) <= Len(s) \/ Len(Slice(s, a, l)) = 0
<1> DEFINE n == Len(s)
           b == Smaller(a + l, n)
           t == Slice(s, a, l)
<1>1. n \in Nat
  OBVIOUS
<1>2. a + l \in Nat /\ a <= a + l
  OBVIOUS
<1>3. /\ t \in Seq(S) /\ FirstOf(s, a) \o t = FirstOf(s, a + l)
      /\ Len(t) = IF a < n THEN b - a ELSE 0
  BY <1>2, FirstOfGrows DEF Slice
<1> HIDE DEF n, t
<1>4. b \in 0..n /\ b <= a + l /\ (b = a + l \/ b = n)
  BY <1>1, <1>2 DEF Smaller
<1> HIDE DEF b
<1>5. /\ Len(t) \in Nat /\ Len(t) <= l /\ (a + Len(t) < n => Len(t) > 0)
      /\ a + Len(t) <= n \/ Len(t) = 0
  BY <1>1, <1>2, <1>3, <1>4
<1>6. a + Len(t) >= n => FirstOf(s, a + Len(t)) = s
  BY <1>5, FirstOfType DEF n
<1>7. FirstOf(s, a + l) = FirstOf(s, a + Len(t))
  <2>1. Smaller(a + l, n) = Smaller(a + Len(t), n)
    BY <1>1, <1>2, <1>3, <1>4 DEF Smaller, b
  <2> QED  BY <2>1 DEF FirstOf, n
<1> QED  BY <1>3, <1>5, <1>6, <1>7 DEF n, t

LEMMA FeedType ==
    ASSUME TypeOK
    PROVE  /\ \A list : ListOf(list) \in Seq(ItemRecord) /\ Whole(ListOf(list)) \in Seq(ItemRecord)
           /\ PullFeed \in Seq(EventRecord) /\ ListFeed \in Seq(EventRecord)
           /\ Feed \in Seq(EventRecord)
           /\ \A es \in Seq(EventRecord) : WithChecks(es) \in Seq(EventRecord)
<1>1. MaxPages * PageSize \in Nat /\ MaxEvents \in Nat
  BY SizeAssumption
<1>2. \A list : ListOf(list) \in Seq(ItemRecord)
  BY DEF TypeOK, ListOf
<1>3. \A items \in Seq(ItemRecord) : Whole(items) \in Seq(ItemRecord)
  BY <1>1, FirstOfType DEF Whole
<1>4. pulls \in Seq(ItemRecord) /\ issues \in Seq(ItemRecord)
  BY DEF TypeOK
<1>5. PullFeed \in Seq(EventRecord)
  BY <1>1, <1>3, <1>4, ListEventsAre, FirstOfType DEF PullFeed
<1>6. IssueListEvents(Whole(issues)) \in Seq(EventRecord)
  BY <1>3, <1>4, ListEventsAre
<1>7. ListFeed \in Seq(EventRecord)
  <2>1. PullFeed \o IssueListEvents(Whole(issues)) \in Seq(EventRecord)
    BY <1>5, <1>6, ConcatProperties
  <2> HIDE DEF PullFeed
  <2> QED  BY <1>1, <1>5, <2>1, FirstOfType DEF ListFeed
<1>8. ASSUME NEW es \in Seq(EventRecord) PROVE WithChecks(es) \in Seq(EventRecord)
  <2>1. CheckEvents(es) \in Seq(EventRecord)
    BY ChecksFollow
  <2>2. es \o CheckEvents(es) \in Seq(EventRecord)
    BY <2>1, ConcatProperties
  <2> QED  BY <1>1, <2>2, FirstOfType DEF WithChecks
<1> QED  BY <1>2, <1>3, <1>5, <1>7, <1>8 DEF Feed

(* What is read changes only with the lists.                                *)
LEMMA ListsStay ==
    ASSUME UNCHANGED <<pulls, issues, include>>
    PROVE  /\ PullFeed' = PullFeed /\ ListFeed' = ListFeed /\ Feed' = Feed
           /\ \A d, list : Listing(d, list)' <=> Listing(d, list)
           /\ ListsAreGood => ListsAreGood'
<1>1. PullFeed' = PullFeed
  BY DEF PullFeed, Whole
<1>2. ListFeed' = ListFeed
  BY <1>1 DEF ListFeed, Whole
<1>3. Feed' = Feed
  BY <1>2 DEF Feed
<1>4. ASSUME NEW d, NEW list PROVE Listing(d, list)' <=> Listing(d, list)
  BY DEF Listing, ListOf
<1>5. ListsAreGood => ListsAreGood'
  BY DEF ListsAreGood, GoodList
<1> QED  BY <1>1, <1>2, <1>3, <1>4, <1>5

(* Without a packet there is nothing to be wrong about.                     *)
LEMMA NoPacketNoClaim ==
    ASSUME packet' \in {NoPacket, ErrorPacket}
    PROVE  /\ CompletePollMissesNothing' /\ MovesComeWithChecks' /\ CursorAdvances'
           /\ packet'.events = <<>>
BY DEF NoPacket, ErrorPacket, CompletePollMissesNothing, MovesComeWithChecks, CursorAdvances

(* A new call has all its lists to read, from the start.                    *)
LEMMA NewCallHasAllAhead ==
    ASSUME TypeOK, pulls' = pulls, issues' = issues, include' = include,
           pc' = "pulls", page' = 1, limit' = PageSize, got' = <<>>
    PROVE  /\ \A d : Listing(d, "pulls") => Ahead(d)'
           /\ got' = FirstOf(List, (page - 1) * PageSize)'
<1>1. /\ List' = pulls /\ pulls \in Seq(ItemRecord)
      /\ DOMAIN pulls = 1..Len(pulls) /\ Len(pulls) \in Nat
  BY DEF List, ListOf, TypeOK
<1>2. PageSize \in Nat /\ (page' - 1) * PageSize = 0 /\ (page' - 1) * limit' = 0
  BY SizeAssumption
<1>3. Numbers(got') = {}
  BY DEF Numbers
<1>4. ASSUME NEW d, Listing(d, "pulls") PROVE Ahead(d)'
  <2>1. PICK k \in DOMAIN pulls : d \in DueOf(pulls[k], "pulls")
    BY <1>4 DEF Listing, ListOf
  <2> QED  BY <1>1, <1>2, <1>3, <2>1 DEF Ahead
<1>5. FirstOf(pulls, 0) = <<>>
  BY <1>1, Nothing
<1> QED  BY <1>1, <1>2, <1>4, <1>5

-----------------------------------------------------------------------------
(* The steps of the caller and of the walk                                  *)

(* What is due of a list is an event of it.                                 *)
LEMMA ListingType ==
    ASSUME TypeOK, ListsAreGood, NEW d, NEW list \in {"pulls", "issues"}, Listing(d, list)
    PROVE  /\ d \in EventRecord
           /\ \E k \in DOMAIN ListOf(list) : d \in EventSet(EventsOf(ListOf(list)[k], list))
<1>1. PICK k \in DOMAIN ListOf(list) : d \in DueOf(ListOf(list)[k], list)
  BY DEF Listing
<1>2. ListOf(list)[k] \in ItemRecord
  BY FeedType
<1>3. Good(ListOf(list)[k])
  BY DEF ListsAreGood, GoodList, ListOf
<1> QED  BY <1>1, <1>2, <1>3, DueIsDerived

LEMMA FirstCallKeeps ==
    ASSUME IInv, FirstCall
    PROVE  IInv'
<1>1. /\ TypeOK /\ ListsAreGood /\ pc = "idle" /\ pc' = "pulls" /\ shaken' = FALSE
      /\ page = 1 /\ limit = PageSize /\ got = <<>> /\ packet = NoPacket /\ cursor = Null
      /\ delivered = {}
  BY DEF IInv, CallIsFresh, FirstCall
<1>2. /\ pulls' = pulls /\ issues' = issues /\ include' = include /\ packet' = packet
      /\ cursor' = cursor /\ page' = page /\ limit' = limit /\ got' = got
      /\ delivered' = delivered
  BY DEF FirstCall, forge, caller, call
<1>3. \A d \in due' : Listing(d, "pulls") \/ (include /\ Listing(d, "issues"))
  <2>1. ListOf("pulls") = pulls /\ ListOf("issues") = issues
    BY DEF ListOf
  <2>2. ASSUME NEW d \in due'
        PROVE  \/ \E k \in DOMAIN pulls : d \in DueOf(pulls[k], "pulls")
               \/ include /\ \E k \in DOMAIN issues : d \in DueOf(issues[k], "issues")
    <3> DEFINE A == {DueOf(pulls[k], "pulls") : k \in DOMAIN pulls}
               B == {DueOf(issues[k], "issues") : k \in {j \in DOMAIN issues : include}}
    <3>1. due' = (UNION A) \cup (UNION B)
      BY Zenon DEF FirstCall
    <3>2. CASE d \in UNION A
      <4>1. PICK D \in A : d \in D
        BY <3>2
      <4>2. \E k \in DOMAIN pulls : D = DueOf(pulls[k], "pulls")
        OBVIOUS
      <4> QED  BY <4>1, <4>2
    <3>3. CASE d \in UNION B
      <4>1. PICK D \in B : d \in D
        BY <3>3
      <4>2. PICK k \in {j \in DOMAIN issues : include} : D = DueOf(issues[k], "issues")
        OBVIOUS
      <4>3. include /\ k \in DOMAIN issues
        OBVIOUS
      <4> QED  BY <4>1, <4>2, <4>3
    <3> HIDE DEF A, B
    <3> QED  BY <3>1, <3>2, <3>3
  <2> QED  BY <2>1, <2>2 DEF Listing
<1>4. \A d \in due' : d \in EventRecord
  BY <1>1, <1>3, ListingType
<1>5. TypeOK'
  BY <1>1, <1>4 DEF TypeOK, FirstCall, forge, caller, call, Calling
<1>6. ListsAreGood'
  BY <1>1, <1>2, ListsStay
<1>7. CallIsFresh'
  BY <1>1, <1>2 DEF CallIsFresh
<1>8. (\A d : Listing(d, "pulls") => Ahead(d)') /\ got' = FirstOf(List, (page - 1) * PageSize)'
  BY <1>1, <1>2, NewCallHasAllAhead
<1>9. \A d, list : Listing(d, list)' <=> Listing(d, list)
  BY <1>2, ListsStay
<1>10. CallMissesNothing'
  BY <1>1, <1>2, <1>3, <1>8, <1>9 DEF CallMissesNothing
<1>11. delivered' = EventSet(FirstOf(Feed, Offset))'
  <2>1. Feed' \in Seq(EventRecord)
    BY <1>1, <1>2, FeedType, ListsStay
  <2>2. Offset' = 0
    BY <1>1, <1>2 DEF Offset
  <2> QED  BY <1>1, <1>2, <2>1, <2>2, Nothing
<1>12. QuietPoll'
  BY <1>1, <1>2, <1>3, <1>8, <1>9, <1>11 DEF QuietPoll, Calling
<1> QED  BY <1>1, <1>2, <1>5, <1>6, <1>7, <1>10, <1>12, NoPacketNoClaim DEF IInv

LEMMA NextCallKeeps ==
    ASSUME IInv, NextCall
    PROVE  IInv'
<1>1. /\ TypeOK /\ ListsAreGood /\ pc = "between" /\ pc' = "pulls"
      /\ page = 1 /\ limit = PageSize /\ got = <<>> /\ packet' = NoPacket
      /\ cursor' = packet.next /\ packet.next \in 0..MaxEvents /\ listTruncated' = FALSE
  BY DEF IInv, CallIsFresh, NextCall
<1>2. /\ pulls' = pulls /\ issues' = issues /\ include' = include /\ page' = page
      /\ limit' = limit /\ got' = got /\ delivered' = delivered /\ due' = due /\ shaken' = shaken
      /\ events' = events /\ truncated' = truncated
  BY DEF NextCall, forge, history
<1>3. cursor' # Null /\ Offset' = packet.next
  BY <1>1, SizeAssumption DEF Offset
<1>4. TypeOK'
  <2>1. packet'.events = <<>>
    BY <1>1 DEF NoPacket
  <2>2. Limits \subseteq Nat
    BY SizeAssumption
  <2>3. packet'.events \in Seq(EventRecord) /\ Len(packet'.events) <= maxPerPacket
    <3>1. maxPerPacket \in Nat
      BY <1>1, <2>2 DEF TypeOK
    <3> QED  BY <2>1, <3>1
  <2>4. /\ provider' = provider /\ moves' = moves /\ maxPerPacket' = maxPerPacket
        /\ pc' \in {"idle", "between", "finished"} \cup Calling
    BY <1>1 DEF NextCall, forge, Calling
  <2>5. {truncated', listTruncated', shaken'} \subseteq BOOLEAN
    BY <1>1, <1>2 DEF TypeOK
  <2> QED  BY <1>1, <1>2, <2>3, <2>4, <2>5 DEF TypeOK
<1>5. ListsAreGood'
  BY <1>1, <1>2, ListsStay
<1>6. CallIsFresh'
  BY <1>1, <1>2, <1>3 DEF CallIsFresh
<1>7. (\A d : Listing(d, "pulls") => Ahead(d)') /\ got' = FirstOf(List, (page - 1) * PageSize)'
  BY <1>1, <1>2, NewCallHasAllAhead
<1>8. \A d, list : Listing(d, list)' <=> Listing(d, list)
  BY <1>2, ListsStay
<1>9. ~shaken => /\ \A d \in due : Listing(d, "pulls") \/ (include /\ Listing(d, "issues"))
                 /\ delivered = EventSet(FirstOf(Feed, packet.next))
  BY <1>1 DEF IInv, QuietPoll
<1>10. CallMissesNothing'
  BY <1>1, <1>2, <1>3, <1>7, <1>8, <1>9 DEF CallMissesNothing
<1>11. ~shaken => delivered' = EventSet(FirstOf(Feed, Offset))'
  <2>1. Feed' = Feed
    BY <1>2, ListsStay
  <2> QED  BY <1>2, <1>3, <1>9, <2>1
<1>12. QuietPoll'
  BY <1>1, <1>2, <1>7, <1>8, <1>9, <1>11 DEF QuietPoll, Calling
<1> QED  BY <1>1, <1>4, <1>5, <1>6, <1>10, <1>12, NoPacketNoClaim DEF IInv

LEMMA ReadOnKeeps ==
    ASSUME IInv, ReadOn
    PROVE  IInv'
<1>1. /\ TypeOK /\ ListsAreGood /\ pc \in {"pulls", "issues"} /\ ~NoMore /\ page < MaxPages
      /\ page' = page + 1 /\ got' = got \o Items /\ packet = NoPacket
      /\ page \in 1..MaxPages
  BY DEF IInv, CallIsFresh, ReadOn, Calling, TypeOK
<1>2. /\ pulls' = pulls /\ issues' = issues /\ include' = include /\ packet' = packet /\ pc' = pc
      /\ cursor' = cursor /\ limit' = limit /\ delivered' = delivered /\ due' = due
      /\ shaken' = shaken /\ events' = events /\ truncated' = truncated
      /\ listTruncated' = listTruncated
  BY DEF ReadOn, forge, caller, history
<1>3. page \in Nat /\ MaxPages \in Nat /\ page' \in 1..MaxPages /\ page' # 1 /\ page' - 1 = page
  BY <1>1, SizeAssumption
<1>4. got' \in Seq(ItemRecord)
  BY <1>1, OnePageMore
<1>5. TypeOK'
  BY <1>1, <1>2, <1>3, <1>4 DEF TypeOK, ReadOn, forge, caller
<1>6. ListsAreGood'
  BY <1>1, <1>2, ListsStay
<1>7. CallIsFresh'
  BY <1>1, <1>2, <1>3 DEF IInv, CallIsFresh
<1>8. \A d : FoundIn(d, got \o Items) <=> Found(d)'
  BY <1>1, <1>2 DEF FoundIn, Found, EventsOf
<1>9. List' = List
  BY <1>2 DEF List, ListOf
<1>10. ASSUME NEW d, Found(d) \/ Ahead(d) PROVE Found(d)' \/ Ahead(d)'
  <2>1. CASE Found(d)
    BY <1>1, <1>8, <2>1, OnePageMore
  <2>2. CASE Ahead(d)
    <3>1. \/ FoundIn(d, got \o Items)
          \/ \E k \in DOMAIN List :
               /\ k > page * limit /\ List[k].n \notin Numbers(got \o Items)
               /\ d \in DueOf(List[k], pc)
      BY <1>1, <2>2, OnePageMore
    <3>2. (\E k \in DOMAIN List :
               /\ k > page * limit /\ List[k].n \notin Numbers(got \o Items)
               /\ d \in DueOf(List[k], pc)) => Ahead(d)'
      BY <1>1, <1>2, <1>3, <1>9 DEF Ahead
    <3> QED  BY <1>8, <3>1, <3>2
  <2> QED  BY <1>10, <2>1, <2>2
<1>11. \A d, list : Listing(d, list)' <=> Listing(d, list)
  BY <1>2, ListsStay
<1>12. CallMissesNothing'
  <2>1. CallMissesNothing
    BY DEF IInv
  <2> QED  BY <1>1, <1>2, <1>10, <1>11, <2>1 DEF CallMissesNothing
<1>13. ~shaken => got' = FirstOf(List', (page' - 1) * PageSize)
  BY <1>1, <1>3, <1>9, QuietPage
<1>14. /\ PullFeed' = PullFeed /\ Feed' = Feed /\ Offset' = Offset
  BY <1>2, ListsStay DEF Offset
<1>15. QuietPoll'
  <2>1. QuietPoll
    BY DEF IInv
  <2> QED  BY <1>1, <1>2, <1>11, <1>13, <1>14, <2>1 DEF QuietPoll, Calling
<1> QED  BY <1>1, <1>2, <1>5, <1>6, <1>7, <1>12, <1>15, NoPacketNoClaim DEF IInv

LEMMA BackOffKeeps ==
    ASSUME IInv, BackOff
    PROVE  IInv'
<1>1. /\ TypeOK /\ ListsAreGood /\ pc \in {"pulls", "issues"} /\ limit > 1
      /\ limit' = limit \div 2 /\ shaken' = TRUE /\ packet = NoPacket
  BY DEF IInv, CallIsFresh, BackOff, Calling
<1>2. /\ pulls' = pulls /\ issues' = issues /\ include' = include /\ packet' = packet /\ pc' = pc
      /\ cursor' = cursor /\ page' = page /\ got' = got /\ delivered' = delivered /\ due' = due
      /\ events' = events /\ truncated' = truncated /\ listTruncated' = listTruncated
  BY DEF BackOff, forge, caller
<1>3. /\ limit' \in 1..limit /\ limit' \in 1..PageSize
      /\ (page - 1) * limit' <= (page - 1) * limit
      /\ (page - 1) * limit' \in Nat /\ (page - 1) * limit \in Nat
  <2>1. page \in Nat \ {0} /\ limit \in Nat \ {0} /\ limit \in 1..PageSize
    BY <1>1, PageNumbers
  <2>2. limit' = Halved(limit)
    BY <1>1, <2>1 DEF Halved
  <2>3. limit' \in 1..limit /\ (page - 1) * limit' <= (page - 1) * limit
    BY <2>1, <2>2, HalvedShrinks
  <2>4. \A x, y \in Nat : x * y \in Nat
    OBVIOUS
  <2>5. page - 1 \in Nat /\ limit' \in Nat /\ PageSize \in Nat
    BY <2>1, <2>3, SizeAssumption
  <2>6. (page - 1) * limit' \in Nat /\ (page - 1) * limit \in Nat
    BY <2>1, <2>4, <2>5
  <2>7. limit' \in 1..PageSize
    BY <2>1, <2>3, <2>5
  <2> QED  BY <2>3, <2>6, <2>7
<1>4. TypeOK'
  BY <1>1, <1>2, <1>3 DEF TypeOK, BackOff, forge, caller
<1>5. ListsAreGood'
  BY <1>1, <1>2, ListsStay
<1>6. CallIsFresh'
  BY <1>1, <1>2 DEF IInv, CallIsFresh
<1>7. \A d : Found(d) => Found(d)'
  BY <1>2 DEF Found, EventsOf
<1>8. ASSUME NEW d, Ahead(d) PROVE Ahead(d)'
  <2>1. PICK k \in DOMAIN List :
          k > (page - 1) * limit /\ List[k].n \notin Numbers(got) /\ d \in DueOf(List[k], pc)
    BY <1>8 DEF Ahead
  <2>2. List \in Seq(ItemRecord) /\ k \in Nat
    BY <1>1, ItemsAre
  <2>3. k > (page - 1) * limit'
    BY <1>3, <2>1, <2>2
  <2>4. List' = List
    BY <1>2 DEF List, ListOf
  <2> QED  BY <1>2, <2>1, <2>3, <2>4 DEF Ahead
<1>9. \A d, list : Listing(d, list)' <=> Listing(d, list)
  BY <1>2, ListsStay
<1>10. CallMissesNothing'
  <2>1. CallMissesNothing
    BY DEF IInv
  <2> QED  BY <1>1, <1>2, <1>7, <1>8, <1>9, <2>1 DEF CallMissesNothing
<1>11. QuietPoll'
  BY <1>1 DEF QuietPoll
<1> QED  BY <1>1, <1>2, <1>4, <1>5, <1>6, <1>10, <1>11, NoPacketNoClaim DEF IInv

(* A list that was read to its end, or to the page cap, by a walk.          *)
LEMMA EndOfListFacts ==
    ASSUME IInv, NEW list \in {"pulls", "issues"}, EndOfList(list)
    PROVE  /\ TypeOK /\ ListsAreGood /\ pc = list /\ packet = NoPacket
           /\ page' = 1 /\ limit' = PageSize /\ got' = <<>>
           /\ listTruncated' = (listTruncated \/ ~NoMore)
           /\ provider' = provider /\ pulls' = pulls /\ issues' = issues /\ moves' = moves
           /\ include' = include /\ maxPerPacket' = maxPerPacket /\ cursor' = cursor
           /\ packet' = packet /\ due' = due /\ delivered' = delivered /\ shaken' = shaken
           /\ got \o Items \in Seq(ItemRecord)
           /\ \A d : NoMore /\ (Found(d) \/ Ahead(d)) => FoundIn(d, got \o Items)
           /\ ~shaken => got \o Items = Whole(List)
           /\ CompletePollMissesNothing' /\ MovesComeWithChecks' /\ CursorAdvances'
           /\ 1 \in 1..MaxPages /\ PageSize \in 1..PageSize /\ got' \in Seq(ItemRecord)
           /\ \A s \in Seq(ItemRecord) : FirstOf(s, (page' - 1) * PageSize) = <<>>
<1>1. pc = list /\ (NoMore \/ page = MaxPages)
  BY DEF EndOfList
<1>2. packet = NoPacket /\ packet' = packet
  BY <1>1 DEF IInv, CallIsFresh, EndOfList, Calling
<1>3. CompletePollMissesNothing' /\ MovesComeWithChecks' /\ CursorAdvances'
  BY <1>2, NoPacketNoClaim
<1>4. page' = 1 /\ (page' - 1) * PageSize = 0 /\ 1 \in 1..MaxPages /\ PageSize \in 1..PageSize
  BY SizeAssumption DEF EndOfList
<1>5. /\ got \o Items \in Seq(ItemRecord)
      /\ \A d : NoMore /\ (Found(d) \/ Ahead(d)) => FoundIn(d, got \o Items)
  BY <1>1, OnePageMore
<1>6. ~shaken => got \o Items = Whole(List)
  BY <1>1, QuietPage
<1>7. \A s \in Seq(ItemRecord) : FirstOf(s, (page' - 1) * PageSize) = <<>>
  BY <1>4, Nothing
<1> QED  BY <1>1, <1>2, <1>3, <1>4, <1>5, <1>6, <1>7 DEF EndOfList, IInv, forge, caller, history

(* Events collected below the cap are all there.                            *)
LEMMA CollectKeepsTypes ==
    ASSUME NEW es \in Seq(EventRecord), NEW cut \in BOOLEAN, Collect(es, cut)
    PROVE  /\ events' \in Seq(EventRecord) /\ Len(events') <= MaxEvents
           /\ truncated' \in BOOLEAN /\ events' = FirstOf(es, MaxEvents)
           /\ ~truncated' => ~cut /\ events' = es
<1>1. MaxEvents \in Nat /\ Len(es) \in Nat
  BY SizeAssumption
<1>2. /\ events' = FirstOf(es, MaxEvents)
      /\ truncated' \in BOOLEAN /\ (~truncated' => ~cut /\ ~(Len(es) > MaxEvents))
  BY DEF Collect
<1>3. /\ FirstOf(es, MaxEvents) \in Seq(EventRecord)
      /\ Len(FirstOf(es, MaxEvents)) <= MaxEvents
      /\ MaxEvents >= Len(es) => FirstOf(es, MaxEvents) = es
  BY <1>1, FirstOfType
<1>4. ~(Len(es) > MaxEvents) => MaxEvents >= Len(es)
  BY <1>1
<1> QED  BY <1>2, <1>3, <1>4, Zenon

LEMMA PullsReadKeeps ==
    ASSUME IInv, PullsRead
    PROVE  IInv'
<1> DEFINE all == got \o Items
<1>1. EndOfList("pulls") /\ pc' = (IF include THEN "issues" ELSE "checks")
      /\ Collect(PullListEvents(all), ~NoMore)
  BY DEF PullsRead
<1>2. /\ TypeOK /\ ListsAreGood /\ pc = "pulls" /\ packet = NoPacket
      /\ page' = 1 /\ limit' = PageSize /\ got' = <<>>
      /\ listTruncated' = (listTruncated \/ ~NoMore)
      /\ provider' = provider /\ pulls' = pulls /\ issues' = issues /\ moves' = moves
      /\ include' = include /\ maxPerPacket' = maxPerPacket /\ cursor' = cursor
      /\ packet' = packet /\ due' = due /\ delivered' = delivered /\ shaken' = shaken
      /\ 1 \in 1..MaxPages /\ PageSize \in 1..PageSize /\ got' \in Seq(ItemRecord)
      /\ CompletePollMissesNothing' /\ MovesComeWithChecks' /\ CursorAdvances'
  BY <1>1, EndOfListFacts
<1>3. /\ all \in Seq(ItemRecord)
      /\ \A d : NoMore /\ (Found(d) \/ Ahead(d)) => FoundIn(d, all)
      /\ ~shaken => all = Whole(pulls)
      /\ \A s \in Seq(ItemRecord) : FirstOf(s, (page' - 1) * PageSize) = <<>>
  <2>1. List = pulls
    BY <1>2 DEF List, ListOf
  <2> QED  BY <1>1, <2>1, EndOfListFacts
<1> HIDE DEF all
<1>4. /\ PullListEvents(all) \in Seq(EventRecord)
      /\ \A d : FoundIn(d, all) => d \in EventSet(PullListEvents(all))
  <2>1. /\ PullListEvents(all) \in Seq(EventRecord)
        /\ EventSet(PullListEvents(all)) = UNION {EventSet(PullEvents(all[k])) : k \in DOMAIN all}
    BY <1>3, ListEventsAre
  <2>2. \A i : EventsOf(i, pc) = PullEvents(i)
    BY <1>2 DEF EventsOf
  <2> QED  BY <2>1, <2>2 DEF FoundIn
<1>5. /\ events' \in Seq(EventRecord) /\ Len(events') <= MaxEvents /\ truncated' \in BOOLEAN
      /\ events' = FirstOf(PullListEvents(all), MaxEvents)
      /\ ~truncated' => NoMore /\ events' = PullListEvents(all)
  <2>1. (~NoMore) \in BOOLEAN
    OBVIOUS
  <2> HIDE DEF NoMore
  <2> QED  BY <1>1, <1>4, <2>1, CollectKeepsTypes
<1>6. TypeOK'
  <2>1. listTruncated' \in BOOLEAN /\ pc' \in {"issues", "checks"}
    BY <1>1, <1>2
  <2> QED  BY <1>2, <1>5, <2>1 DEF TypeOK, Calling
<1>7. ListsAreGood'
  BY <1>2, ListsStay
<1>8. CallIsFresh'
  BY <1>1, <1>2 DEF IInv, CallIsFresh, Calling
<1>9. \A d, list : Listing(d, list)' <=> Listing(d, list)
  BY <1>2, ListsStay
<1>10. \A d : pc' = "issues" /\ Listing(d, "issues") => Ahead(d)'
  <2>1. pc' = "issues" => List' = issues /\ ListOf("issues") = issues
    BY <1>2 DEF List, ListOf
  <2>2. Numbers(got') = {} /\ (page' - 1) * limit' = 0
    BY <1>2, SizeAssumption DEF Numbers
  <2>3. issues \in Seq(ItemRecord) /\ \A k \in DOMAIN issues : k > 0
    BY <1>2 DEF TypeOK
  <2> QED  BY <2>1, <2>2, <2>3 DEF Listing, Ahead
<1>11. CallMissesNothing'
  <2>1. (cursor = Null \/ ~shaken) =>
          \A d \in due : Found(d) \/ Ahead(d) \/ (include /\ Listing(d, "issues"))
    BY <1>2 DEF IInv, CallMissesNothing
  <2>2. \A d : ~truncated' /\ (Found(d) \/ Ahead(d)) => d \in EventSet(events')
    BY <1>3, <1>4, <1>5
  <2> QED  BY <1>1, <1>2, <1>10, <2>1, <2>2 DEF CallMissesNothing
<1>12. /\ PullFeed' = PullFeed /\ ListFeed' = ListFeed /\ Feed' = Feed /\ Offset' = Offset
  BY <1>2, ListsStay DEF Offset
<1>13. ~shaken => events' = PullFeed
  BY <1>3, <1>5 DEF PullFeed
<1>14. ~include => ListFeed = PullFeed
  BY DEF ListFeed
<1>15. pc' = "issues" => got' = FirstOf(List', (page' - 1) * PageSize)
  <2>1. List' \in Seq(ItemRecord)
    BY <1>2 DEF List, ListOf, TypeOK
  <2> QED  BY <1>2, <1>3, <2>1
<1>16. QuietPoll'
  <2>1. QuietPoll
    BY DEF IInv
  <2> QED  BY <1>1, <1>2, <1>9, <1>12, <1>13, <1>14, <1>15, <2>1 DEF QuietPoll, Calling
<1> QED  BY <1>2, <1>6, <1>7, <1>8, <1>11, <1>16 DEF IInv

LEMMA IssuesReadKeeps ==
    ASSUME IInv, IssuesRead
    PROVE  IInv'
<1> DEFINE all   == got \o Items
           found == IssueListEvents(all)
<1>1. /\ EndOfList("issues") /\ pc' = "checks"
      /\ IF found = <<>> THEN events' = events /\ truncated' = truncated
         ELSE Collect(events \o found, truncated \/ listTruncated')
  BY DEF IssuesRead
<1>2. /\ TypeOK /\ ListsAreGood /\ pc = "issues" /\ packet = NoPacket
      /\ page' = 1 /\ limit' = PageSize /\ got' = <<>>
      /\ listTruncated' = (listTruncated \/ ~NoMore)
      /\ provider' = provider /\ pulls' = pulls /\ issues' = issues /\ moves' = moves
      /\ include' = include /\ maxPerPacket' = maxPerPacket /\ cursor' = cursor
      /\ packet' = packet /\ due' = due /\ delivered' = delivered /\ shaken' = shaken
      /\ 1 \in 1..MaxPages /\ PageSize \in 1..PageSize /\ got' \in Seq(ItemRecord)
      /\ CompletePollMissesNothing' /\ MovesComeWithChecks' /\ CursorAdvances'
  BY <1>1, EndOfListFacts
<1>3. /\ all \in Seq(ItemRecord)
      /\ \A d : NoMore /\ (Found(d) \/ Ahead(d)) => FoundIn(d, all)
      /\ ~shaken => all = Whole(issues)
  <2>1. List = issues
    BY <1>2 DEF List, ListOf
  <2> QED  BY <1>1, <2>1, EndOfListFacts
<1> HIDE DEF all
<1>4. /\ found \in Seq(EventRecord)
      /\ \A d : FoundIn(d, all) => d \in EventSet(found)
  <2>1. /\ found \in Seq(EventRecord)
        /\ EventSet(found) = UNION {EventSet(IssueEvents(all[k])) : k \in DOMAIN all}
    BY <1>3, ListEventsAre
  <2>2. \A i : EventsOf(i, pc) = IssueEvents(i)
    BY <1>2 DEF EventsOf
  <2> HIDE DEF found
  <2> QED  BY <2>1, <2>2 DEF FoundIn
<1> HIDE DEF found
<1>5. /\ events \in Seq(EventRecord) /\ Len(events) <= MaxEvents /\ truncated \in BOOLEAN
      /\ listTruncated \in BOOLEAN
  BY <1>2 DEF TypeOK
<1>6. /\ events \o found \in Seq(EventRecord)
      /\ EventSet(events \o found) = EventSet(events) \cup EventSet(found)
  BY <1>4, <1>5, EventSetOfConcat
<1>7. /\ events' \in Seq(EventRecord) /\ Len(events') <= MaxEvents /\ truncated' \in BOOLEAN
      /\ ~truncated' => ~truncated /\ EventSet(events') = EventSet(events) \cup EventSet(found)
      /\ events' = IF found = <<>> THEN events ELSE FirstOf(events \o found, MaxEvents)
  <2>1. CASE found = <<>>
    BY <1>1, <1>5, <2>1, Nothing
  <2>2. CASE found # <<>>
    <3>1. (truncated \/ listTruncated') \in BOOLEAN
      OBVIOUS
    <3> QED  BY <1>1, <1>6, <2>2, <3>1, CollectKeepsTypes
  <2> QED  BY <2>1, <2>2
<1>8. TypeOK'
  <2>1. listTruncated' \in BOOLEAN
    BY <1>2
  <2> QED  BY <1>1, <1>2, <1>7, <2>1 DEF TypeOK, Calling
<1>9. ListsAreGood'
  BY <1>2, ListsStay
<1>10. CallIsFresh'
  BY <1>1, <1>2 DEF IInv, CallIsFresh, Calling
<1>11. \A d, list : Listing(d, list)' <=> Listing(d, list)
  BY <1>2, ListsStay
<1>12. CallMissesNothing'
  <2>1. (cursor = Null \/ ~shaken) /\ ~truncated /\ ~listTruncated =>
          \A d \in due : d \in EventSet(events) \/ Found(d) \/ Ahead(d)
    BY <1>2 DEF IInv, CallMissesNothing
  <2>2. \A d : ~listTruncated' /\ (Found(d) \/ Ahead(d)) => d \in EventSet(found)
    BY <1>2, <1>3, <1>4
  <2> QED  BY <1>1, <1>2, <1>7, <2>1, <2>2 DEF CallMissesNothing
<1>13. /\ ListFeed' = ListFeed /\ Feed' = Feed /\ Offset' = Offset
  BY <1>2, ListsStay DEF Offset
<1>14. ~shaken => events' = ListFeed
  <2>1. ~shaken => events = PullFeed
    BY <1>2 DEF IInv, QuietPoll, Calling
  <2>2. include
    BY <1>2 DEF IInv, CallIsFresh
  <2> QED  BY <1>3, <1>7, <2>1, <2>2 DEF ListFeed, found
<1>15. QuietPoll'
  <2>1. QuietPoll
    BY DEF IInv
  <2> QED  BY <1>1, <1>2, <1>11, <1>13, <1>14, <2>1 DEF QuietPoll, Calling
<1> QED  BY <1>2, <1>8, <1>9, <1>10, <1>12, <1>15 DEF IInv

(* The whole of the events a call slices: those collected, then the checks. *)
LEMMA ChecksReadFacts ==
    ASSUME TypeOK, ChecksRead
    PROVE  LET whole == WithChecks(events)
               t     == Slice(whole, Offset, maxPerPacket)
               end   == Offset + Len(t)
           IN  \E cut \in BOOLEAN :
                 /\ packet' = [type |-> "forge_changes", events |-> t, truncated |-> cut,
                               complete |-> ~(end < Len(whole) \/ cut),
                               next |-> IF end < Len(whole) \/ cut THEN end ELSE Null]
                 /\ ~cut => /\ ~truncated
                            /\ EventSet(whole) = EventSet(events) \cup EventSet(CheckEvents(events))
                 /\ delivered' = delivered \cup EventSet(t)
<1> DEFINE found == CheckEvents(events)
           all   == events \o found
           whole == WithChecks(events)
           cut   == IF found = <<>> THEN truncated
                    ELSE truncated \/ listTruncated \/ Len(all) > MaxEvents
<1>1. packet' = Paginate(whole, cut) /\ delivered' = delivered \cup EventSet(packet'.events)
  <2>1. CASE found = <<>>
    BY <2>1 DEF ChecksRead, Emit, WithChecks
  <2>2. CASE found # <<>>
    BY <2>2 DEF ChecksRead, Emit, WithChecks
  <2> QED  BY <2>1, <2>2
<1>2. events \in Seq(EventRecord) /\ truncated \in BOOLEAN /\ listTruncated \in BOOLEAN
  BY DEF TypeOK
<1>3. all \in Seq(EventRecord) /\ EventSet(all) = EventSet(events) \cup EventSet(found)
  BY <1>2, ChecksFollow, EventSetOfConcat
<1>4. cut \in BOOLEAN
  BY <1>2
<1>5. ~cut => ~truncated /\ EventSet(whole) = EventSet(events) \cup EventSet(found)
  <2>1. CASE found = <<>>
    BY <2>1, Nothing DEF WithChecks
  <2>2. CASE found # <<>>
    <3>1. whole = FirstOf(all, MaxEvents)
      BY <2>2 DEF WithChecks
    <3> HIDE DEF found, all, whole
    <3>2. /\ MaxEvents \in Nat /\ Len(all) \in Nat
          /\ MaxEvents >= Len(all) => FirstOf(all, MaxEvents) = all
      BY <1>3, SizeAssumption, FirstOfType
    <3>3. ~cut => ~truncated /\ ~(Len(all) > MaxEvents)
      BY <2>2
    <3> QED  BY <1>3, <3>1, <3>2, <3>3
  <2> QED  BY <2>1, <2>2
<1> HIDE DEF cut, whole, found
<1> QED  BY <1>1, <1>4, <1>5 DEF Paginate, Slice, whole, found

LEMMA ChecksReadKeeps ==
    ASSUME IInv, ChecksRead
    PROVE  IInv'
<1> DEFINE whole == WithChecks(events)
           t     == Slice(whole, Offset, maxPerPacket)
           end   == Offset + Len(t)
<1>1. /\ TypeOK /\ ListsAreGood /\ pc = "checks"
      /\ cursor = Null => delivered = {}
  BY DEF IInv, CallIsFresh, ChecksRead, Calling
<1>2. PICK cut \in BOOLEAN :
        /\ packet' = [type |-> "forge_changes", events |-> t, truncated |-> cut,
                      complete |-> ~(end < Len(whole) \/ cut),
                      next |-> IF end < Len(whole) \/ cut THEN end ELSE Null]
        /\ ~cut => /\ ~truncated
                   /\ EventSet(whole) = EventSet(events) \cup EventSet(CheckEvents(events))
        /\ delivered' = delivered \cup EventSet(t)
  BY <1>1, ChecksReadFacts
<1>3. /\ pc' = (IF packet'.next = Null THEN "finished" ELSE "between")
      /\ page' = 1 /\ limit' = PageSize /\ got' = <<>> /\ events' = <<>> /\ truncated' = FALSE
      /\ provider' = provider /\ pulls' = pulls /\ issues' = issues /\ moves' = moves
      /\ include' = include /\ maxPerPacket' = maxPerPacket /\ cursor' = cursor
      /\ listTruncated' = listTruncated /\ due' = due /\ shaken' = shaken
  <2>1. \E p : Emit(p)
    BY DEF ChecksRead
  <2> QED  BY <2>1 DEF Emit, NoCall, forge, caller
<1>4. /\ events \in Seq(EventRecord) /\ whole \in Seq(EventRecord) /\ Len(whole) <= MaxEvents
      /\ Len(whole) \in Nat
  <2>1. events \in Seq(EventRecord) /\ Len(events) <= MaxEvents
    BY <1>1 DEF TypeOK
  <2>2. events \o CheckEvents(events) \in Seq(EventRecord) /\ MaxEvents \in Nat
    BY <2>1, ChecksFollow, ConcatProperties, SizeAssumption
  <2>3. /\ FirstOf(events \o CheckEvents(events), MaxEvents) \in Seq(EventRecord)
        /\ Len(FirstOf(events \o CheckEvents(events), MaxEvents)) <= MaxEvents
    BY <2>2, FirstOfType
  <2>4. whole \in Seq(EventRecord) /\ Len(whole) <= MaxEvents
    BY <2>1, <2>3 DEF WithChecks
  <2> HIDE DEF whole
  <2> QED  BY <2>1, <2>4
<1>5. /\ Offset \in 0..MaxEvents /\ Offset' = Offset /\ MaxEvents \in Nat
      /\ maxPerPacket \in Nat \ {0}
  BY <1>1, <1>3, SizeAssumption DEF Offset, TypeOK
<1>6. ~shaken => whole = Feed
  BY <1>1 DEF IInv, QuietPoll, Calling, Feed
<1> HIDE DEF whole
<1>7. /\ t \in Seq(EventRecord) /\ Len(t) \in Nat /\ Len(t) <= maxPerPacket
      /\ FirstOf(whole, Offset) \o t = FirstOf(whole, end)
      /\ end >= Len(whole) => FirstOf(whole, end) = whole
      /\ end < Len(whole) => Len(t) > 0
      /\ end <= Len(whole) \/ Len(t) = 0
  <2>1. Offset \in Nat
    BY <1>5
  <2> QED  BY <1>4, <1>5, <2>1, SliceContinues
<1> HIDE DEF t
<1>8. end \in 0..MaxEvents /\ end # Null /\ end \in Nat
  BY <1>4, <1>5, <1>7, SizeAssumption
<1>9. /\ FirstOf(whole, Offset) \in Seq(EventRecord)
      /\ EventSet(FirstOf(whole, end)) = EventSet(FirstOf(whole, Offset)) \cup EventSet(t)
  <2>1. FirstOf(whole, Offset) \in Seq(EventRecord)
    BY <1>4, <1>5, FirstOfType
  <2> QED  BY <1>7, <2>1, EventSetOfConcat
<1>10. ~shaken => delivered' = EventSet(FirstOf(whole, end))
  <2>1. ~shaken => delivered = EventSet(FirstOf(whole, Offset))
    BY <1>1, <1>6 DEF IInv, QuietPoll, Calling
  <2> QED  BY <1>2, <1>9, <2>1
<1>11. (packet'.complete /\ (cursor = Null \/ ~shaken)) =>
         /\ delivered' = EventSet(events) \cup EventSet(CheckEvents(events)) /\ ~truncated
  <2> SUFFICES ASSUME packet'.complete, cursor = Null \/ ~shaken
               PROVE  delivered' = EventSet(whole) /\ ~cut
    BY <1>2
  <2>1. ~(end < Len(whole)) /\ ~cut
    BY <1>2
  <2>2. FirstOf(whole, end) = whole
    BY <1>4, <1>7, <1>8, <2>1
  <2>3. CASE cursor = Null
    <3>1. Offset = 0 /\ delivered = {}
      BY <1>1, <2>3 DEF Offset
    <3>2. FirstOf(whole, Offset) = <<>>
      BY <1>4, <3>1, Nothing
    <3> QED  BY <1>2, <1>9, <2>1, <2>2, <3>1, <3>2, Nothing
  <2>4. CASE ~shaken
    BY <1>10, <2>1, <2>2, <2>4
  <2> QED  BY <2>3, <2>4
<1>12. TypeOK'
  <2>1. EventSet(t) \subseteq EventRecord
    BY <1>7 DEF EventSet
  <2>2. due' \cup delivered' \subseteq EventRecord
    BY <1>1, <1>2, <1>3, <2>1 DEF TypeOK
  <2>3. packet'.events = t
    BY <1>2
  <2>4. /\ 1 \in 1..MaxPages /\ PageSize \in 1..PageSize /\ Len(events') <= MaxEvents
        /\ got' \in Seq(ItemRecord) /\ events' \in Seq(EventRecord)
    BY <1>3, SizeAssumption
  <2>5. pc' \in {"idle", "between", "finished"} \cup Calling
    BY <1>3
  <2> HIDE DEF Calling
  <2> QED  BY <1>1, <1>3, <1>7, <2>2, <2>3, <2>4, <2>5 DEF TypeOK
<1>13. ListsAreGood'
  BY <1>1, <1>3, ListsStay
<1>14. pc' = "between" => /\ packet'.next = end /\ ~packet'.complete
  BY <1>2, <1>3
<1>15. CallIsFresh'
  BY <1>3, <1>8, <1>14 DEF CallIsFresh, Calling
<1>16. CallMissesNothing'
  BY <1>3 DEF CallMissesNothing
<1>17. QuietPoll'
  <2>1. /\ Feed' = Feed
        /\ \A d, list : Listing(d, list)' <=> Listing(d, list)
    BY <1>3, ListsStay
  <2>2. ~shaken => \A d \in due : Listing(d, "pulls") \/ (include /\ Listing(d, "issues"))
    BY <1>1 DEF IInv, QuietPoll, Calling
  <2> QED  BY <1>3, <1>6, <1>10, <1>14, <2>1, <2>2 DEF QuietPoll, Calling
<1>18. CompletePollMissesNothing'
  <2>1. (cursor = Null \/ ~shaken) /\ ~truncated /\ ~listTruncated => due \subseteq EventSet(events)
    BY <1>1 DEF IInv, CallMissesNothing
  <2> QED  BY <1>3, <1>11, <2>1 DEF CompletePollMissesNothing
<1>19. MovesComeWithChecks'
  <2> SUFFICES ASSUME packet'.complete, cursor = Null \/ ~shaken, NEW e \in delivered',
                      e.kind \in {"pr_opened", "head_sha_moved"}
               PROVE  [kind |-> "checks_conclusion_observed", n |-> e.n] \in delivered'
    BY <1>3 DEF MovesComeWithChecks
  <2>1. e \in EventSet(events) \/ e \in EventSet(CheckEvents(events))
    BY <1>11
  <2>2. e \notin EventSet(CheckEvents(events))
    BY <1>4, ChecksFollow
  <2>3. [kind |-> "checks_conclusion_observed", n |-> e.n] \in EventSet(CheckEvents(events))
    BY <1>4, <2>1, <2>2, ChecksFollow
  <2> QED  BY <1>11, <2>3
<1>20. CursorAdvances'
  <2> SUFFICES ASSUME packet'.next # Null, ~packet'.truncated PROVE packet'.next > Offset'
    BY DEF CursorAdvances
  <2>1. end < Len(whole) /\ packet'.next = end
    BY <1>2
  <2> QED  BY <1>5, <1>7, <2>1
<1> QED  BY <1>12, <1>13, <1>15, <1>16, <1>17, <1>18, <1>19, <1>20 DEF IInv

LEMMA CallFailsKeeps ==
    ASSUME IInv, CallFails
    PROVE  IInv'
<1>1. /\ TypeOK /\ ListsAreGood /\ pc' = "finished" /\ packet' = ErrorPacket
      /\ page' = 1 /\ limit' = PageSize /\ got' = <<>> /\ events' = <<>> /\ truncated' = FALSE
      /\ due' = {} /\ delivered' = {} /\ shaken' = FALSE /\ listTruncated' = FALSE
      /\ provider' = provider /\ pulls' = pulls /\ issues' = issues /\ moves' = moves
      /\ include' = include /\ maxPerPacket' = maxPerPacket /\ cursor' = cursor
  BY DEF IInv, CallFails, NoCall, forge, caller
<1>2. TypeOK'
  <2>1. packet'.events = <<>>
    BY <1>1, NoPacketNoClaim
  <2>2. Limits \subseteq Nat /\ 1 \in 1..MaxPages /\ PageSize \in 1..PageSize /\ MaxEvents \in Nat
    BY SizeAssumption
  <2>3. /\ Len(packet'.events) <= maxPerPacket /\ packet'.events \in Seq(EventRecord)
        /\ Len(events') <= MaxEvents /\ events' \in Seq(EventRecord)
        /\ got' \in Seq(ItemRecord)
    BY <1>1, <2>1, <2>2 DEF TypeOK
  <2>4. /\ {truncated', listTruncated', shaken'} \subseteq BOOLEAN
        /\ due' \cup delivered' \subseteq EventRecord
    BY <1>1
  <2> QED  BY <1>1, <2>2, <2>3, <2>4 DEF TypeOK
<1>3. ListsAreGood'
  BY <1>1, ListsStay
<1>4. CallIsFresh' /\ CallMissesNothing' /\ QuietPoll'
  BY <1>1 DEF CallIsFresh, CallMissesNothing, QuietPoll, Calling
<1> QED  BY <1>1, <1>2, <1>3, <1>4, NoPacketNoClaim DEF IInv

-----------------------------------------------------------------------------
(* The steps of the forge                                                   *)

(* How an item that is opened or changes turns one list into another: it is *)
(* at the front, and what else there was is no nearer to it than before.    *)
Moved(old, new, item) ==
    /\ new \in Seq(ItemRecord) /\ Len(new) >= Len(old)
    /\ 1 \in DOMAIN new /\ new[1] = item
    /\ \A j \in DOMAIN old : old[j].n # item.n => \E m \in DOMAIN new : m >= j /\ new[m] = old[j]
    /\ \A m \in DOMAIN new \ {1} :
          new[m].n # item.n /\ \E j \in DOMAIN old : new[m] = old[j]
    /\ \A j, m \in DOMAIN new : new[j].n = new[m].n => j = m

LEMMA PrependMoves ==
    ASSUME NEW list \in Seq(ItemRecord), NEW item \in ItemRecord,
           \A k \in DOMAIN list : list[k].n # item.n,
           \A j, k \in DOMAIN list : list[j].n = list[k].n => j = k
    PROVE  Moved(list, <<item>> \o list, item) /\ Len(<<item>> \o list) = Len(list) + 1
<1> DEFINE n == Len(list)
           new == <<item>> \o list
<1>1. n \in Nat /\ DOMAIN list = 1..n
  OBVIOUS
<1>2. /\ new \in Seq(ItemRecord) /\ Len(new) = n + 1
      /\ \A m \in 1..(n + 1) : new[m] = IF m = 1 THEN item ELSE list[m - 1]
  <2>1. /\ <<item>> \in Seq(ItemRecord) /\ Len(<<item>>) = 1 /\ <<item>>[1] = item
    OBVIOUS
  <2>2. /\ new \in Seq(ItemRecord) /\ Len(new) = n + 1
        /\ \A m \in 1..(1 + n) : new[m] = IF m <= 1 THEN <<item>>[m] ELSE list[m - 1]
    OBVIOUS
  <2> HIDE DEF new, n
  <2>3. \A m \in 1..(n + 1) : m \in 1..(1 + n) /\ (m <= 1 <=> m = 1)
    BY <1>1
  <2> QED  BY <2>1, <2>2, <2>3
<1> HIDE DEF new, n
<1>3. DOMAIN new = 1..(n + 1) /\ 1 \in DOMAIN new /\ new[1] = item
  BY <1>1, <1>2
<1>4. ASSUME NEW j \in DOMAIN list
      PROVE  j + 1 \in DOMAIN new /\ j + 1 >= j /\ new[j + 1] = list[j]
  BY <1>1, <1>2, <1>3
<1>5. ASSUME NEW m \in DOMAIN new \ {1} PROVE m - 1 \in DOMAIN list /\ new[m] = list[m - 1]
  BY <1>1, <1>2, <1>3
<1>6. ASSUME NEW j \in DOMAIN new, NEW m \in DOMAIN new, new[j].n = new[m].n PROVE j = m
  <2>1. j = 1 <=> m = 1
    BY <1>3, <1>5, <1>6
  <2>2. CASE j # 1
    <3>1. j - 1 = m - 1
      BY <1>5, <1>6, <2>1, <2>2
    <3> QED  BY <1>1, <1>3, <3>1
  <2> QED  BY <2>1, <2>2
<1>7. Len(new) >= n
  BY <1>1, <1>2
<1> QED  BY <1>2, <1>3, <1>4, <1>5, <1>6, <1>7 DEF Moved, new, n

LEMMA ToFrontMoves ==
    ASSUME NEW list \in Seq(ItemRecord), NEW k \in DOMAIN list, NEW item \in ItemRecord,
           item.n = list[k].n,
           \A i, j \in DOMAIN list : list[i].n = list[j].n => i = j
    PROVE  Moved(list, ToFront(item, k, list), item) /\ Len(ToFront(item, k, list)) = Len(list)
<1> DEFINE n == Len(list)
           new == ToFront(item, k, list)
<1>1. n \in Nat /\ DOMAIN list = 1..n /\ k \in 1..n /\ \A j \in 1..n : list[j] \in ItemRecord
  OBVIOUS
<1> HIDE DEF n
<1>2. /\ DOMAIN new = 1..n
      /\ \A m \in 1..n : new[m] = IF m = 1 THEN item ELSE IF m <= k THEN list[m - 1] ELSE list[m]
  BY <1>1 DEF ToFront
<1>3. new \in Seq(ItemRecord) /\ Len(new) = n
  <2>1. \A m \in 1..n : new[m] \in ItemRecord
    BY <1>1, <1>2
  <2>2. new \in [1..n -> ItemRecord]
    BY <1>1, <2>1 DEF ToFront
  <2> HIDE DEF new
  <2> QED  BY <1>1, <1>2, <2>2
<1> HIDE DEF new
<1>4. 1 \in DOMAIN new /\ new[1] = item
  BY <1>1, <1>2
<1>5. ASSUME NEW j \in DOMAIN list, list[j].n # item.n
      PROVE  \E m \in DOMAIN new : m >= j /\ new[m] = list[j]
  <2>1. j # k
    BY <1>5
  <2>2. CASE j < k
    <3>1. j + 1 \in DOMAIN new /\ j + 1 >= j /\ new[j + 1] = list[j]
      BY <1>1, <1>2, <2>2
    <3> QED  BY <3>1
  <2>3. CASE j > k
    <3>1. j \in DOMAIN new /\ j >= j /\ new[j] = list[j]
      BY <1>1, <1>2, <2>3
    <3> QED  BY <3>1
  <2> QED  BY <1>1, <2>1, <2>2, <2>3
<1>6. ASSUME NEW m \in DOMAIN new \ {1}
      PROVE  \E j \in DOMAIN list :
               j # k /\ j = (IF m <= k THEN m - 1 ELSE m) /\ new[m] = list[j]
  BY <1>1, <1>2
<1>7. ASSUME NEW m \in DOMAIN new \ {1}
      PROVE  new[m].n # item.n /\ \E j \in DOMAIN list : new[m] = list[j]
  BY <1>6
<1>8. ASSUME NEW i \in DOMAIN new, NEW m \in DOMAIN new, new[i].n = new[m].n PROVE i = m
  <2>1. i = 1 <=> m = 1
    BY <1>4, <1>7, <1>8
  <2>2. CASE i # 1
    <3>1. (IF i <= k THEN i - 1 ELSE i) = (IF m <= k THEN m - 1 ELSE m)
      BY <1>6, <1>8, <2>1, <2>2
    <3>2. (IF i <= k THEN i - 1 ELSE i) # k /\ (IF m <= k THEN m - 1 ELSE m) # k
      BY <1>6, <2>1, <2>2
    <3> QED  BY <1>1, <1>2, <3>1, <3>2
  <2> QED  BY <2>1, <2>2
<1>9. Len(new) >= n
  BY <1>1, <1>3
<1> QED  BY <1>3, <1>4, <1>5, <1>7, <1>8, <1>9 DEF Moved, new, n

LEMMA UpdateKeeps ==
    ASSUME IInv, NEW list \in {"pulls", "issues"}, NEW item \in ItemRecord, Good(item),
           NEW updated, Moved(ListOf(list), updated, item), Update(list, item, updated),
           item.n <= Len(pulls') + Len(issues'), Len(pulls') + Len(issues') <= MaxItems
    PROVE  IInv'
<1>1. /\ TypeOK /\ ListsAreGood /\ CallMissesNothing
      /\ pc \in Calling \cup {"between"} /\ (list = "issues" => include)
      /\ moves < MaxMoves /\ moves' = moves + 1 /\ shaken' = TRUE
      /\ pulls' = (IF list = "pulls" THEN updated ELSE pulls)
      /\ issues' = (IF list = "issues" THEN updated ELSE issues)
      /\ due' = StillDue(item, list)
  BY DEF IInv, Update
<1>2. /\ provider' = provider /\ pc' = pc /\ include' = include /\ maxPerPacket' = maxPerPacket
      /\ cursor' = cursor /\ packet' = packet /\ page' = page /\ limit' = limit /\ got' = got
      /\ events' = events /\ truncated' = truncated /\ listTruncated' = listTruncated
      /\ delivered' = delivered
  BY DEF Update, caller, call
<1>3. /\ ListOf("pulls") = pulls /\ ListOf("issues") = issues
      /\ pulls \in Seq(ItemRecord) /\ issues \in Seq(ItemRecord)
      /\ pulls' \in Seq(ItemRecord) /\ issues' \in Seq(ItemRecord)
      /\ Len(pulls') >= Len(pulls) /\ Len(issues') >= Len(issues)
      /\ updated \in Seq(ItemRecord) /\ DOMAIN updated = 1..Len(updated) /\ Len(updated) \in Nat
      /\ ListOf(list) \in Seq(ItemRecord)
  <2>1. ListOf("pulls") = pulls /\ ListOf("issues") = issues
    BY DEF ListOf
  <2>2. pulls \in Seq(ItemRecord) /\ issues \in Seq(ItemRecord)
    BY <1>1 DEF TypeOK
  <2>3. updated \in Seq(ItemRecord) /\ Len(updated) >= Len(ListOf(list))
    BY DEF Moved
  <2>4. Len(pulls) \in Nat /\ Len(issues) \in Nat
    BY <2>2
  <2> QED  BY <1>1, <2>1, <2>2, <2>3, <2>4
<1>4. /\ \A d \in due' : d \in due
      /\ \A d \in due' :
           \/ d.n # item.n
           \/ list = pc /\ item.n \in Numbers(got)
           \/ list = "pulls" /\ pc \in {"issues", "checks"}
           \/ list = "issues" /\ pc = "checks"
           \/ ~(list = pc /\ page > 1) /\ d \in DueOf(item, list)
  BY <1>1, Zenon DEF StillDue
<1>5. TypeOK'
  <2>1. moves' \in 0..MaxMoves
    BY <1>1, SizeAssumption DEF TypeOK
  <2>2. due' \cup delivered' \subseteq EventRecord
    BY <1>1, <1>2, <1>4 DEF TypeOK
  <2> QED  BY <1>1, <1>2, <1>3, <2>1, <2>2 DEF TypeOK
<1>6. ListsAreGood'
  <2> DEFINE N == Len(pulls) + Len(issues)
             M == Len(pulls') + Len(issues')
  <2>1. N \in Nat /\ M \in Nat /\ N <= M
    BY <1>3
  <2>2. \A k \in DOMAIN ListOf(list) : Good(ListOf(list)[k]) /\ ListOf(list)[k].n <= N
    BY <1>1, <1>3 DEF ListsAreGood, GoodList
  <2> HIDE DEF N, M
  <2>3. \A k \in DOMAIN ListOf(list) : ListOf(list)[k].n \in Nat
    <3>1. \A k \in DOMAIN ListOf(list) : ListOf(list)[k] \in ItemRecord
      BY <1>3
    <3>2. \A i \in ItemRecord : i.n \in Nat
      BY DEF ItemRecord
    <3> QED  BY <3>1, <3>2
  <2>4. /\ \A k \in DOMAIN updated : Good(updated[k]) /\ updated[k].n <= M
        /\ \A j, k \in DOMAIN updated : updated[j].n = updated[k].n => j = k
    <3>1. ASSUME NEW k \in DOMAIN updated PROVE Good(updated[k]) /\ updated[k].n <= M
      <4>1. CASE k = 1
        BY <4>1 DEF Moved, M
      <4>2. CASE k # 1
        <5>1. PICK j \in DOMAIN ListOf(list) : updated[k] = ListOf(list)[j]
          BY <4>2 DEF Moved
        <5> QED  BY <2>1, <2>2, <2>3, <5>1
      <4> QED  BY <4>1, <4>2
    <3> QED  BY <3>1 DEF Moved
  <2>5. ASSUME NEW s \in {pulls, issues}
        PROVE  /\ \A k \in DOMAIN s : Good(s[k]) /\ s[k].n <= M
               /\ \A j, k \in DOMAIN s : s[j].n = s[k].n => j = k
    <3>1. /\ \A k \in DOMAIN s : Good(s[k]) /\ s[k].n <= N
          /\ \A j, k \in DOMAIN s : s[j].n = s[k].n => j = k
      BY <1>1 DEF ListsAreGood, GoodList, N
    <3>2. \A k \in DOMAIN s : s[k].n \in Nat
      <4>1. \A k \in DOMAIN s : s[k] \in ItemRecord
        BY <1>3
      <4>2. \A i \in ItemRecord : i.n \in Nat
        BY DEF ItemRecord
      <4> QED  BY <4>1, <4>2
    <3> QED  BY <2>1, <3>1, <3>2
  <2>6. pulls' \in {updated, pulls} /\ issues' \in {updated, issues}
    BY <1>1
  <2>7. \A s \in {pulls', issues'} :
          /\ \A k \in DOMAIN s : Good(s[k]) /\ s[k].n <= M
          /\ \A j, k \in DOMAIN s : s[j].n = s[k].n => j = k
    BY <2>4, <2>5, <2>6
  <2> QED  BY <2>7 DEF ListsAreGood, GoodList, M
<1>7. CallIsFresh'
  BY <1>2 DEF IInv, CallIsFresh
<1>8. QuietPoll'
  BY <1>1 DEF QuietPoll
<1>9. CompletePollMissesNothing' /\ MovesComeWithChecks' /\ CursorAdvances'
  <2>1. ~packet.complete
    BY <1>1 DEF IInv, CallIsFresh, NoPacket
  <2>2. Offset' = Offset /\ CursorAdvances
    BY <1>2 DEF IInv, Offset
  <2> QED  BY <1>2, <2>1, <2>2
        DEF CompletePollMissesNothing, MovesComeWithChecks, CursorAdvances
<1>10. ASSUME NEW d, Found(d) PROVE Found(d)'
  BY <1>2, <1>10 DEF Found, EventsOf
<1>11. ASSUME NEW d, Ahead(d), pc \in {"pulls", "issues"},
              d.n # item.n \/ list # pc \/ item.n \in Numbers(got)
       PROVE  Ahead(d)'
  <2>1. PICK k \in DOMAIN List :
          k > (page - 1) * limit /\ List[k].n \notin Numbers(got) /\ d \in DueOf(List[k], pc)
    BY <1>11 DEF Ahead
  <2>2. CASE list # pc
    <3>1. List' = List
      BY <1>1, <1>2, <1>11, <2>2 DEF List, ListOf
    <3> QED  BY <1>2, <2>1, <3>1 DEF Ahead
  <2>3. CASE list = pc
    <3>1. List = ListOf(list) /\ List' = updated
      BY <1>1, <1>2, <2>3 DEF List, ListOf
    <3>2. d.n = List[k].n
      <4>1. List[k] \in ItemRecord
        BY <1>3, <3>1
      <4>2. Good(List[k])
        BY <1>1 DEF ListsAreGood, GoodList, List, ListOf
      <4> QED  BY <1>11, <2>1, <4>1, <4>2, DueIsDerived
    <3>3. List[k].n # item.n
      BY <1>11, <2>1, <2>3, <3>2
    <3>4. PICK m \in DOMAIN updated : m >= k /\ updated[m] = List[k]
      BY <3>1, <3>3 DEF Moved
    <3>5. m > (page - 1) * limit
      <4>1. k \in Nat /\ m \in Nat /\ (page - 1) * limit \in Nat
        BY <1>1, <1>3, <3>1, PageNumbers
      <4> QED  BY <2>1, <3>4, <4>1
    <3> QED  BY <1>2, <2>1, <3>1, <3>4, <3>5 DEF Ahead
  <2> QED  BY <2>2, <2>3
<1>12. ASSUME NEW d, list = pc, ~(page > 1), d \in DueOf(item, list) PROVE Ahead(d)'
  <2>1. page = 1 /\ got = <<>>
    <3>1. page = 1
      <4>1. page \in Nat \ {0}
        BY <1>1, PageNumbers
      <4> QED  BY <1>12, <4>1
    <3> QED  BY <3>1 DEF IInv, CallIsFresh
  <2>2. List' = updated
    BY <1>1, <1>2, <1>12 DEF List, ListOf
  <2>3. (page' - 1) * limit' = 0 /\ Numbers(got') = {}
    <3>1. limit \in Nat
      BY <1>1, PageNumbers
    <3> QED  BY <1>2, <2>1, <3>1 DEF Numbers
  <2>4. 1 \in DOMAIN updated /\ updated[1] = item
    BY DEF Moved
  <2> QED  BY <1>2, <1>12, <2>2, <2>3, <2>4 DEF Ahead
<1>13. ASSUME NEW d, Listing(d, "issues"), list # "issues" \/ d.n # item.n
       PROVE  Listing(d, "issues")'
  <2>1. PICK k \in DOMAIN issues : d \in DueOf(issues[k], "issues")
    BY <1>3, <1>13 DEF Listing
  <2>2. ListOf("issues")' = issues'
    BY DEF ListOf
  <2>3. CASE list # "issues"
    BY <1>1, <2>1, <2>2, <2>3 DEF Listing
  <2>4. CASE list = "issues" /\ d.n # item.n
    <3>1. d.n = issues[k].n
      <4>1. issues[k] \in ItemRecord
        BY <1>3
      <4>2. Good(issues[k])
        BY <1>1 DEF ListsAreGood, GoodList
      <4> QED  BY <2>1, <4>1, <4>2, DueIsDerived
    <3>2. PICK m \in DOMAIN updated : updated[m] = issues[k]
      BY <1>3, <2>4, <3>1 DEF Moved
    <3> QED  BY <1>1, <2>1, <2>2, <2>4, <3>2 DEF Listing
  <2> QED  BY <1>13, <2>3, <2>4
<1>14. ASSUME NEW d, list = "issues", d \in DueOf(item, list) PROVE Listing(d, "issues")'
  <2>1. ListOf("issues")' = updated
    BY <1>1, <1>14 DEF ListOf
  <2>2. 1 \in DOMAIN updated /\ updated[1] = item
    BY DEF Moved
  <2> QED  BY <1>14, <2>1, <2>2 DEF Listing
<1>15. CallMissesNothing'
  <2> SUFFICES ASSUME cursor = Null, NEW d \in due'
               PROVE  /\ pc = "pulls" =>
                           Found(d)' \/ Ahead(d)' \/ (include /\ Listing(d, "issues")')
                      /\ (pc = "issues" /\ ~truncated /\ ~listTruncated) =>
                           d \in EventSet(events) \/ Found(d)' \/ Ahead(d)'
                      /\ (pc = "checks" /\ ~truncated /\ ~listTruncated) => d \in EventSet(events)
    BY <1>1, <1>2 DEF CallMissesNothing
  <2>1. d \in due
    BY <1>4
  <2>2. pc = "pulls" => Found(d) \/ Ahead(d) \/ (include /\ Listing(d, "issues"))
    BY <1>1, <2>1 DEF CallMissesNothing
  <2>3. (pc = "issues" /\ ~truncated /\ ~listTruncated) =>
          d \in EventSet(events) \/ Found(d) \/ Ahead(d)
    BY <1>1, <2>1 DEF CallMissesNothing
  <2>4. (pc = "checks" /\ ~truncated /\ ~listTruncated) => d \in EventSet(events)
    BY <1>1, <2>1 DEF CallMissesNothing
  <2>5. CASE pc = "pulls"
    BY <1>1, <1>4, <1>10, <1>11, <1>12, <1>13, <1>14, <2>2, <2>5
  <2>6. CASE pc = "issues"
    BY <1>1, <1>4, <1>10, <1>11, <1>12, <2>3, <2>6
  <2> QED  BY <2>4, <2>5, <2>6
<1> QED  BY <1>5, <1>6, <1>7, <1>8, <1>9, <1>15 DEF IInv

(* What an item becomes is an item, open without closing, merged when closed. *)
LEMMA ItemsStayGood ==
    ASSUME NEW i \in ItemRecord, Good(i)
    PROVE  LET closed   == [i EXCEPT !.state = "closed", !.closed = Now, !.updated = Now]
               merged   == [i EXCEPT !.state = "closed", !.closed = Now, !.merged = Now,
                                     !.updated = Now]
               reopened == [i EXCEPT !.state = "open", !.closed = Null, !.updated = Now]
               touched  == [i EXCEPT !.updated = Now]
           IN  /\ closed \in ItemRecord /\ closed.n = i.n /\ (i.state = "open" => Good(closed))
               /\ merged \in ItemRecord /\ merged.n = i.n /\ Good(merged)
               /\ reopened \in ItemRecord /\ reopened.n = i.n
               /\ i.merged = Null => Good(reopened)
               /\ touched \in ItemRecord /\ touched.n = i.n /\ Good(touched)
BY SizeAssumption DEF ItemRecord, Good, Times, Now, Since

LEMMA BecomeKeeps ==
    ASSUME IInv, NEW list \in {"pulls", "issues"}, NEW k \in DOMAIN ListOf(list),
           NEW item \in ItemRecord, Good(item), item.n = ListOf(list)[k].n, Become(list, k, item)
    PROVE  IInv'
<1> DEFINE updated == ToFront(item, k, ListOf(list))
<1>1. TypeOK /\ ListsAreGood
  BY DEF IInv
<1>2. /\ ListOf(list) \in Seq(ItemRecord) /\ ListOf("pulls") = pulls /\ ListOf("issues") = issues
      /\ \A i, j \in DOMAIN ListOf(list) : ListOf(list)[i].n = ListOf(list)[j].n => i = j
      /\ item.n <= Len(pulls) + Len(issues) /\ Len(pulls) + Len(issues) <= MaxItems
  BY <1>1 DEF TypeOK, ListsAreGood, GoodList, ListOf
<1>3. Moved(ListOf(list), updated, item) /\ Len(updated) = Len(ListOf(list))
  BY <1>2, ToFrontMoves
<1>4. Update(list, item, updated)
  BY DEF Become
<1> HIDE DEF updated
<1>5. Len(pulls') = Len(pulls) /\ Len(issues') = Len(issues)
  BY <1>2, <1>3, <1>4 DEF Update
<1> QED  BY <1>2, <1>3, <1>4, <1>5, UpdateKeeps

LEMMA OpenKeeps ==
    ASSUME IInv, NEW list \in {"pulls", "issues"}, Open(list)
    PROVE  IInv'
<1> DEFINE N == Len(pulls) + Len(issues)
           item == Opened(N + 1)
           updated == <<item>> \o ListOf(list)
<1>1. TypeOK /\ ListsAreGood
  BY DEF IInv
<1>2. N < MaxItems /\ Update(list, item, updated)
  BY DEF Open
<1>3. /\ ListOf(list) \in Seq(ItemRecord) /\ ListOf("pulls") = pulls /\ ListOf("issues") = issues
      /\ \A i, j \in DOMAIN ListOf(list) : ListOf(list)[i].n = ListOf(list)[j].n => i = j
      /\ \A j \in DOMAIN ListOf(list) : ListOf(list)[j].n <= N
      /\ Len(pulls) \in Nat /\ Len(issues) \in Nat /\ N \in Nat
  <2>1. /\ ListOf(list) \in Seq(ItemRecord) /\ ListOf("pulls") = pulls
        /\ ListOf("issues") = issues /\ pulls \in Seq(ItemRecord) /\ issues \in Seq(ItemRecord)
    BY <1>1 DEF TypeOK, ListOf
  <2>2. /\ \A i, j \in DOMAIN ListOf(list) : ListOf(list)[i].n = ListOf(list)[j].n => i = j
        /\ \A j \in DOMAIN ListOf(list) : ListOf(list)[j].n <= N
    BY <1>1 DEF ListsAreGood, GoodList, ListOf
  <2> QED  BY <2>1, <2>2
<1> HIDE DEF N
<1>4. N + 1 \in 1..MaxItems
  BY <1>2, <1>3, SizeAssumption
<1>5. item \in ItemRecord /\ item.n = N + 1 /\ Good(item)
  BY <1>4 DEF Opened, ItemRecord, Good, Now, Since, Times
<1> HIDE DEF item
<1>6. \A j \in DOMAIN ListOf(list) : ListOf(list)[j].n # item.n
  BY <1>3, <1>5
<1>7. Moved(ListOf(list), updated, item) /\ Len(updated) = Len(ListOf(list)) + 1
  BY <1>3, <1>5, <1>6, PrependMoves
<1> HIDE DEF updated
<1>8. Len(pulls') + Len(issues') = N + 1
  <2>1. /\ pulls' = IF list = "pulls" THEN updated ELSE pulls
        /\ issues' = IF list = "issues" THEN updated ELSE issues
    BY <1>2 DEF Update
  <2>2. CASE list = "pulls"
    BY <1>3, <1>7, <2>1, <2>2 DEF N
  <2>3. CASE list = "issues"
    BY <1>3, <1>7, <2>1, <2>3 DEF N
  <2> QED  BY <2>2, <2>3
<1>9. item.n <= Len(pulls') + Len(issues') /\ Len(pulls') + Len(issues') <= MaxItems
  BY <1>3, <1>4, <1>5, <1>8
<1> QED  BY <1>2, <1>5, <1>7, <1>9, UpdateKeeps

LEMMA ForgeMovesKeeps ==
    ASSUME IInv, ForgeMoves
    PROVE  IInv'
<1>1. PICK list \in {"pulls", "issues"} :
        \/ Open(list)
        \/ \E k \in DOMAIN ListOf(list) :
              \/ Close(list, k) \/ Reopen(list, k) \/ Touch(list, k)
              \/ list = "pulls" /\ Merge(k)
  BY DEF ForgeMoves
<1>2. CASE Open(list)
  BY <1>2, OpenKeeps
<1>3. ASSUME NEW k \in DOMAIN ListOf(list),
             \/ Close(list, k) \/ Reopen(list, k) \/ Touch(list, k)
             \/ list = "pulls" /\ Merge(k)
      PROVE  IInv'
  <2> DEFINE i == ListOf(list)[k]
  <2>1. i \in ItemRecord
    <3>1. ListOf(list) \in Seq(ItemRecord)
      BY DEF IInv, TypeOK, ListOf
    <3> QED  BY <3>1
  <2>2. Good(i)
    BY DEF IInv, ListsAreGood, GoodList, ListOf
  <2>3. CASE Close(list, k)
    <3> DEFINE item == [i EXCEPT !.state = "closed", !.closed = Now, !.updated = Now]
    <3>1. i.state = "open" /\ Become(list, k, item)
      BY <2>3 DEF Close
    <3>2. item \in ItemRecord /\ item.n = i.n /\ Good(item)
      BY <2>1, <2>2, <3>1, ItemsStayGood
    <3> HIDE DEF item
    <3> QED  BY <3>1, <3>2, BecomeKeeps
  <2>4. CASE Reopen(list, k)
    <3> DEFINE item == [i EXCEPT !.state = "open", !.closed = Null, !.updated = Now]
    <3>1. i.merged = Null /\ Become(list, k, item)
      BY <2>4 DEF Reopen
    <3>2. item \in ItemRecord /\ item.n = i.n /\ Good(item)
      BY <2>1, <2>2, <3>1, ItemsStayGood
    <3> HIDE DEF item
    <3> QED  BY <3>1, <3>2, BecomeKeeps
  <2>5. CASE Touch(list, k)
    <3> DEFINE item == [i EXCEPT !.updated = Now]
    <3>1. Become(list, k, item)
      BY <2>5 DEF Touch
    <3>2. item \in ItemRecord /\ item.n = i.n /\ Good(item)
      BY <2>1, <2>2, ItemsStayGood
    <3> HIDE DEF item
    <3> QED  BY <3>1, <3>2, BecomeKeeps
  <2>6. CASE list = "pulls" /\ Merge(k)
    <3> DEFINE item == [i EXCEPT !.state = "closed", !.closed = Now, !.merged = Now,
                                 !.updated = Now]
    <3>1. Become(list, k, item)
      <4>1. i = pulls[k]
        BY <2>6 DEF ListOf
      <4> HIDE DEF i
      <4>2. Become("pulls", k, item)
        BY <2>6, <4>1 DEF Merge
      <4> QED  BY <2>6, <4>2
    <3>2. item \in ItemRecord /\ item.n = i.n /\ Good(item)
      BY <2>1, <2>2, ItemsStayGood
    <3> HIDE DEF item
    <3> QED  BY <3>1, <3>2, BecomeKeeps
  <2> QED  BY <1>3, <2>3, <2>4, <2>5, <2>6
<1> QED  BY <1>1, <1>2, <1>3
-----------------------------------------------------------------------------
(* The invariant holds, and what it is for follows                          *)

(* The items of a poll to come are items, numbered in their list.           *)
LEMMA PastListsAreGood ==
    ASSUME NEW from \in Nat, NEW to \in Nat, from <= to, to <= MaxItems,
           NEW list \in PastLists(from, to)
    PROVE  /\ list \in Seq(ItemRecord) /\ Len(list) = to - from
           /\ \A k \in DOMAIN list : Good(list[k]) /\ list[k].n = from + k
<1>1. /\ list \in [1..(to - from) -> UNION {PastItems(n) : n \in (from + 1)..to}]
      /\ \A k \in DOMAIN list : list[k].n = from + k
  BY DEF PastLists
<1>2. to - from \in Nat /\ DOMAIN list = 1..(to - from)
  BY <1>1
<1>3. ASSUME NEW k \in DOMAIN list PROVE list[k] \in ItemRecord /\ Good(list[k])
  <2>1. list[k] \in UNION {PastItems(n) : n \in (from + 1)..to}
    BY <1>1, <1>2
  <2>2. PICK n \in (from + 1)..to : list[k] \in PastItems(n)
    BY <2>1
  <2>3. n \in 1..MaxItems
    BY SizeAssumption, <2>2
  <2>4. \A i \in PastItems(n) : i \in ItemRecord /\ Good(i)
    BY <2>3 DEF PastItems, ItemRecord, Good
  <2> QED  BY <2>2, <2>4
<1>4. list \in [1..(to - from) -> ItemRecord]
  BY <1>1, <1>2, <1>3
<1>5. list \in Seq(ItemRecord) /\ Len(list) = to - from
  BY <1>2, <1>4
<1> QED  BY <1>1, <1>3, <1>5

LEMMA InitIsGood ==
    ASSUME Init
    PROVE  IInv
<1>1. PICK m \in 0..MaxItems, i \in 0..MaxItems :
        /\ m + i <= MaxItems
        /\ pulls \in PastLists(0, m) /\ issues \in PastLists(m, m + i)
  BY DEF Init
<1>2. m \in Nat /\ i \in Nat /\ MaxItems \in Nat
  BY SizeAssumption
<1>3. /\ pulls \in Seq(ItemRecord) /\ Len(pulls) = m
      /\ \A k \in DOMAIN pulls : Good(pulls[k]) /\ pulls[k].n = 0 + k
  <2>1. 0 \in Nat /\ 0 <= m /\ m <= MaxItems /\ m - 0 = m
    BY <1>1, <1>2
  <2> QED  BY <1>1, <1>2, <2>1, PastListsAreGood
<1>4. /\ issues \in Seq(ItemRecord) /\ Len(issues) = i
      /\ \A k \in DOMAIN issues : Good(issues[k]) /\ issues[k].n = m + k
  <2>1. m + i \in Nat /\ m <= m + i /\ (m + i) - m = i
    BY <1>2
  <2> QED  BY <1>1, <1>2, <2>1, PastListsAreGood
<1>5. /\ pc = "idle" /\ cursor = Null /\ packet = NoPacket /\ page = 1 /\ limit = PageSize
      /\ got = <<>> /\ events = <<>> /\ truncated = FALSE /\ listTruncated = FALSE
      /\ due = {} /\ delivered = {} /\ shaken = FALSE /\ moves = 0
      /\ provider \in Providers /\ maxPerPacket \in Limits /\ include \in BOOLEAN
  BY DEF Init
<1>6. TypeOK
  <2>1. /\ Limits \subseteq Nat /\ 1 \in 1..MaxPages /\ PageSize \in 1..PageSize
        /\ MaxEvents \in Nat /\ 0 \in 0..MaxMoves
    BY SizeAssumption
  <2>2. packet.events = <<>>
    BY <1>5 DEF NoPacket
  <2>3. packet.events \in Seq(EventRecord) /\ Len(packet.events) <= maxPerPacket
    BY <1>5, <2>1, <2>2
  <2>4. got \in Seq(ItemRecord) /\ events \in Seq(EventRecord) /\ Len(events) <= MaxEvents
    BY <1>5, <2>1
  <2>5. /\ {truncated, listTruncated, shaken} \subseteq BOOLEAN
        /\ due \cup delivered \subseteq EventRecord
    BY <1>5
  <2> QED  BY <1>3, <1>4, <1>5, <2>1, <2>3, <2>4, <2>5 DEF TypeOK
<1>7. ListsAreGood
  <2>1. /\ DOMAIN pulls = 1..m /\ DOMAIN issues = 1..i /\ Len(pulls) + Len(issues) = m + i
    BY <1>3, <1>4
  <2>2. /\ \A k \in DOMAIN pulls : Good(pulls[k]) /\ pulls[k].n <= m + i
        /\ \A k \in DOMAIN issues : Good(issues[k]) /\ issues[k].n <= m + i
    BY <1>2, <1>3, <1>4, <2>1
  <2>3. /\ \A j, k \in DOMAIN pulls : pulls[j].n = pulls[k].n => j = k
        /\ \A j, k \in DOMAIN issues : issues[j].n = issues[k].n => j = k
    BY <1>2, <1>3, <1>4, <2>1
  <2> QED  BY <1>1, <2>1, <2>2, <2>3 DEF ListsAreGood, GoodList
<1>8. CallIsFresh /\ CallMissesNothing /\ QuietPoll
  BY <1>5 DEF CallIsFresh, CallMissesNothing, QuietPoll, Calling
<1>9. CompletePollMissesNothing /\ MovesComeWithChecks /\ CursorAdvances
  BY <1>5 DEF CompletePollMissesNothing, MovesComeWithChecks, CursorAdvances, NoPacket
<1> QED  BY <1>6, <1>7, <1>8, <1>9 DEF IInv

LEMMA NextKeepsInvariant ==
    ASSUME IInv, [Next]_vars
    PROVE  IInv'
<1>1. CASE ForgeMoves  BY <1>1, ForgeMovesKeeps
<1>2. CASE FirstCall   BY <1>2, FirstCallKeeps
<1>3. CASE NextCall    BY <1>3, NextCallKeeps
<1>4. CASE ReadOn      BY <1>4, ReadOnKeeps
<1>5. CASE BackOff     BY <1>5, BackOffKeeps
<1>6. CASE PullsRead   BY <1>6, PullsReadKeeps
<1>7. CASE IssuesRead  BY <1>7, IssuesReadKeeps
<1>8. CASE ChecksRead  BY <1>8, ChecksReadKeeps
<1>9. CASE CallFails   BY <1>9, CallFailsKeeps
<1>10. CASE UNCHANGED vars
  <2>1. /\ provider' = provider /\ pulls' = pulls /\ issues' = issues /\ moves' = moves
        /\ pc' = pc /\ include' = include /\ maxPerPacket' = maxPerPacket
        /\ cursor' = cursor /\ packet' = packet /\ page' = page /\ limit' = limit /\ got' = got
        /\ events' = events /\ truncated' = truncated /\ listTruncated' = listTruncated
        /\ due' = due /\ delivered' = delivered /\ shaken' = shaken
    BY <1>10 DEF vars
  <2>2. TypeOK' /\ ListsAreGood' /\ CallIsFresh'
    BY <2>1, ListsStay DEF IInv, TypeOK, CallIsFresh
  <2>3. List' = List /\ Offset' = Offset
    BY <2>1 DEF List, ListOf, Offset
  <2>4. /\ \A d : Found(d)' <=> Found(d)
        /\ \A d : Ahead(d)' <=> Ahead(d)
        /\ \A d, list : Listing(d, list)' <=> Listing(d, list)
    BY <2>1, <2>3, ListsStay DEF Found, Ahead, EventsOf
  <2>5. CallMissesNothing'
    BY <2>1, <2>4 DEF IInv, CallMissesNothing
  <2>6. QuietPoll'
    <3>1. PullFeed' = PullFeed /\ ListFeed' = ListFeed /\ Feed' = Feed
      BY <2>1, ListsStay
    <3> QED  BY <2>1, <2>3, <2>4, <3>1 DEF IInv, QuietPoll
  <2>7. CompletePollMissesNothing' /\ MovesComeWithChecks' /\ CursorAdvances'
    BY <2>1, <2>3 DEF IInv, CompletePollMissesNothing, MovesComeWithChecks, CursorAdvances
  <2> QED  BY <2>2, <2>5, <2>6, <2>7 DEF IInv
<1> QED
  BY <1>1, <1>2, <1>3, <1>4, <1>5, <1>6, <1>7, <1>8, <1>9, <1>10 DEF Next, Proceed

(* Whatever the lists do between two requests of a call and between two     *)
(* calls, what is due was found or is ahead, as the parts of IInv have it.  *)
THEOREM Invariant == Spec => []IInv
BY InitIsGood, NextKeepsInvariant, PTL DEF Spec

(* The state of a poll is always of its types, and no call collects more    *)
(* events than the cap.                                                     *)
THEOREM TypeCorrect == Spec => []TypeOK
BY Invariant, PTL DEF IInv

(* A poll that says it is complete, in its first packet or in a later one   *)
(* of a poll that nothing shook, has delivered every event that was due,    *)
(* whatever opened, closed, merged or moved while its lists were read.      *)
THEOREM CompletePollsMissNothing == Spec => []CompletePollMissesNothing
BY Invariant, PTL DEF IInv

(* In a complete poll every pull that is reported as opened or moved comes  *)
(* with the conclusion of its checks: no cap or slice parts the two.        *)
THEOREM MovesComeWithTheirChecks == Spec => []MovesComeWithChecks
BY Invariant, PTL DEF IInv

(* A caller that follows next_cursor moves on with every packet that no cap *)
(* cut, even when the feed has shrunk or grown before its cursor.           *)
THEOREM CursorsAdvance == Spec => []CursorAdvances
BY Invariant, PTL DEF IInv
============================================================================
