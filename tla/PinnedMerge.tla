---------------------------- MODULE PinnedMerge ---------------------------
(***************************************************************************)
(* What `merge execute` promises, with all of the request/response traffic *)
(* abstracted away: a change request is merged by an invocation only at a  *)
(* head commit whose checks that same invocation saw acceptable, only      *)
(* while that commit is the tip of the source branch, and at most once.    *)
(***************************************************************************)
CONSTANTS Heads,        \* commits the source branch may point at
          Approvals,    \* possible approvals: <<client, invocation, head>>
          NotMerged     \* value of `merged` before any merge

VARIABLES
    acceptable,  \* heads whose checks are acceptable right now
    tip,         \* head of the source branch
    open,        \* is the change request open
    approvals,   \* approvals granted so far
    merged       \* how it was merged: NotMerged, an approval, or <<head>>

vars == <<acceptable, tip, open, approvals, merged>>

Init ==
    /\ approvals = {}
    /\ merged = NotMerged

(* The forge changes under everybody's feet. *)
Environment ==
    /\ UNCHANGED <<approvals, merged>>
    /\ merged # NotMerged => UNCHANGED open

(* An invocation sees the checks of a head and finds them acceptable. *)
Approve(a) ==
    /\ a[3] \in acceptable
    /\ approvals' = approvals \cup {a}
    /\ UNCHANGED <<acceptable, tip, open, merged>>

Close(a) ==
    /\ merged = NotMerged
    /\ open
    /\ merged' = a
    /\ open' = FALSE
    /\ UNCHANGED <<acceptable, tip, approvals>>

(* The merge of an approved head that is still the tip. *)
Merge(a) ==
    /\ a \in approvals
    /\ tip = a[3]
    /\ Close(a)

(* Somebody merges through the forge's own interface. *)
MergeElsewhere(h) ==
    /\ tip = h
    /\ Close(<<h>>)

Next ==
    \/ Environment
    \/ \E a \in Approvals : Approve(a) \/ Merge(a)
    \/ \E h \in Heads : MergeElsewhere(h)

Spec == Init /\ [][Next]_vars
===========================================================================
