----------------------------- MODULE Pagination -----------------------------
(***************************************************************************)
(* The pagination helpers of the facade (internal/handler/server.go) that  *)
(* its eight paginated list handlers call. They are pure: the server keeps *)
(* nothing between two pages, the whole position of a client in a listing  *)
(* is the cursor it sends back.                                            *)
(*                                                                         *)
(* A cursor is base64 of a decimal offset.  Its characters are abstracted: *)
(* a cursor is absent (nil or ""), does not decode to a number, or decodes *)
(* to a number, negative ones included.                                    *)
(***************************************************************************)
EXTENDS Integers, Sequences

CONSTANTS
  DefaultLimit,  \* defaultLimit: the page size when the client names none
  MaxLimit       \* maxLimit: the largest page size served

ASSUME LimitsAssumption ==
  /\ MaxLimit \in Nat \ {0}
  /\ DefaultLimit \in 1..MaxLimit

-----------------------------------------------------------------------------
(* An optional integer query parameter ( *int in the generated structs).   *)
OptionalInt == [given : BOOLEAN, value : Int]
Omitted     == [given |-> FALSE, value |-> 0]
Given(n)    == [given |-> TRUE, value |-> n]

Cursor     == [form : {"absent", "garbled", "number"}, value : Int]
NoCursor   == [form |-> "absent", value |-> 0]
Garbled    == [form |-> "garbled", value |-> 0]

(* Mutated form of resolveLimit: a limit of zero is taken as it is.        *)
resolveLimitUnclamped(l) ==
  IF ~l.given THEN DefaultLimit
  ELSE IF l.value > MaxLimit THEN MaxLimit
  ELSE l.value

(* The page size from 1 to MaxLimit that a limit parameter stands for.     *)
resolveLimit(l) ==
  IF ~l.given \/ l.value <= 0 THEN DefaultLimit
  ELSE IF l.value > MaxLimit THEN MaxLimit
  ELSE l.value

(* Anything that is not a number, and a negative number, is the beginning. *)
decodeCursor(c) == IF c.form = "number" /\ c.value >= 0 THEN c.value ELSE 0

encodeCursor(offset) == [form |-> "number", value |-> offset]

(* Mutated form of paginate: the next page starts one item too late.       *)
paginateSkippingOne(items, offset, limit) ==
  LET total == Len(items)
      end   == IF offset + limit > total THEN total ELSE offset + limit
  IN  [items |-> SubSeq(items, offset + 1, end), total |-> total,
       next  |-> IF end < total THEN encodeCursor(end + 1) ELSE NoCursor]

(* Mutated form of paginate: the page has one item beyond its end.         *)
paginateOneTooMany(items, offset, limit) ==
  LET total == Len(items)
      end   == IF offset + limit > total THEN total ELSE offset + limit
  IN  [items |-> SubSeq(items, offset + 1, IF end < total THEN end + 1 ELSE end),
       total |-> total,
       next  |-> IF end < total THEN encodeCursor(end) ELSE NoCursor]

(***************************************************************************)
(* One page: the items, the total, and the cursor of the next page if there *)
(* is one.  That the empty page is a nil slice is left out.                *)
(***************************************************************************)
paginate(items, offset, limit) ==
  LET total == Len(items)
      end   == IF offset + limit > total THEN total ELSE offset + limit
  IN  IF offset >= total
      THEN [items |-> << >>, total |-> total, next |-> NoCursor]
      ELSE [items |-> SubSeq(items, offset + 1, end),
            total |-> total,
            next  |-> IF end < total THEN encodeCursor(end) ELSE NoCursor]

(* The tail every paginated handler ends in: decode, clamp, slice.         *)
PageOf(items, cursor, limit) ==
  paginate(items, decodeCursor(cursor), resolveLimit(limit))
=============================================================================
