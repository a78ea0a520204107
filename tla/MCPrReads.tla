---------------------------- MODULE MCPrReads ----------------------------
(* Instances of PrReads for TLC.                                            *)
EXTENDS PrReads, TLC

CONSTANTS c1, c2, inside, outside, odd

Reported(x, s) == [context |-> x, state |-> s]

MCReports == {Reported(c1, "success"), Reported(c1, "pending")}

(* A failure that a later success of its context follows, on the next page. *)
MCHistories ==
    {[statuses |-> <<Reported(c1, "failure"), Reported(c2, "success"), Reported(c1, "success")>>,
      runs     |-> <<Reported(c2, "success")>>],
     [statuses |-> <<>>, runs |-> <<>>]}

(* An allowed path, one that is not, one that no glob matches, and an entry *)
(* without a name.                                                          *)
MCShownAs == (1 :> inside) @@ (2 :> outside) @@ (3 :> odd) @@ (4 :> Null)

(* A pull whose view brings no blocker of its own to a plan.                *)
MCViews == {[state |-> "open", mergeability |-> "clean"]}
=============================================================================
