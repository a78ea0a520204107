------------------------------ MODULE Paging ------------------------------
(***************************************************************************)
(* Offset pagination as the forge's list endpoints do it, and the ingest   *)
(* back-off with which every walk of the code reads them: an answer over   *)
(* the byte cap is asked for again, same page number, half the page size.  *)
(*                                                                         *)
(* A listing is a finite set of ids shown newest first, so an id's         *)
(* position is the number of ids that are not older.                       *)
(***************************************************************************)
EXTENDS Integers, FiniteSets

Position(i, listing) == Cardinality({j \in listing : j >= i})

(* `?limit=limit&page=page` *)
PageOf(listing, page, limit) ==
    {i \in listing : /\ Position(i, listing) > (page - 1) * limit
                     /\ Position(i, listing) <= page * limit}

(* The answer holds fewer items than asked for: the listing ends in it.    *)
EndsWithin(listing, page, limit) == Cardinality(listing) < page * limit

(* Math.max(1, Math.floor(limit / 2)) *)
Halved(limit) == IF limit \div 2 > 1 THEN limit \div 2 ELSE 1
===========================================================================
