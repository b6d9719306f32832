---------------------------- MODULE MCPagedWalk -----------------------------
(* Small instances of PagedWalk.  Pages hold at most three items, two when *)
(* the client does not say, so that a walk over a few items takes several. *)
EXTENDS PagedWalk

CONSTANT MaxLength  \* the longest list when the walk begins

(* One list of each length: the items differ in nothing but their names.   *)
MCInitialLists == {SubSeq(SetToSeq(Items), 1, n) : n \in 0..MaxLength}

(* No cursor, one that does not decode, and one that decodes to a negative *)
(* number: all of them mean the beginning.                                 *)
MCFirstCursors == {NoCursor, Garbled, encodeCursor(-1)}

(* No limit, one that is out of range below, one inside and one above.     *)
MCLimits == {Omitted, Given(0), Given(1), Given(MaxLimit + 1)}

(* Details that make ListPartitions build its list out of a Go map.        *)
MCDetails == {"members", "sharp_state"}
=============================================================================
