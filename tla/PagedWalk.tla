----------------------------- MODULE PagedWalk ------------------------------
(***************************************************************************)
(* A client reads a whole listing page by page through one of the facade's *)
(* paginated handlers, following next_cursor, while other users of UFM add *)
(* and remove items.                                                       *)
(*                                                                         *)
(* The handler is stateless: for every page it fetches the complete list   *)
(* from UFM again and cuts the page out of that fresh copy.  The time the  *)
(* copy is taken and the time the answer is delivered are separate steps,  *)
(* so the list may change in between; either step may fail, and the client *)
(* then asks for the same page again.                                      *)
(*                                                                         *)
(* ListPartitions has a second form: with include=members or include=qos   *)
(* it fetches a JSON object into a Go map and ranges over the map, whose   *)
(* iteration order Go leaves unspecified and randomises.                   *)
(***************************************************************************)
EXTENDS Pagination, SequencesExt

CONSTANTS
  Items,          \* everything UFM may ever list
  InitialLists,   \* what UFM may list when the walk begins
  FirstCursors,   \* the cursors the client may begin with
  Limits,         \* the limit parameters the client may send
  Include,        \* the fields of the include parameter ({} for most handlers)
  MaxInsertions,  \* bound: items added during the walk
  MaxRemovals,    \* bound: items removed during the walk
  MaxFailures     \* bound: fetches or answers lost during the walk

ASSUME WalkAssumption ==
  /\ InitialLists \subseteq {s \in Seq(Items) : IsInjective(s)}
  /\ FirstCursors \subseteq {c \in Cursor : c.form # "number" \/ c.value <= 0}
  /\ Limits \subseteq OptionalInt
  /\ MaxInsertions \in Nat /\ MaxRemovals \in Nat /\ MaxFailures \in Nat

VARIABLES
  list,       \* UFM: the items, in the order UFM reports them
  copy,       \* server: the copy fetched for the request being served
  pc,         \* client: "ready" to ask, "asked", "fetched", "done"
  limit,      \* client: the limit of the current request
  cursor,     \* client: the cursor of the current or next request
  collected,  \* client: the items received so far, in order of arrival
  lasting,    \* history: the items listed ever since the walk began
  insertions, \* history: items added since the walk began
  removals,   \* history: items removed since the walk began
  failures    \* history: fetches and answers lost

vars == <<list, copy, pc, limit, cursor, collected,
          lasting, insertions, removals, failures>>

-----------------------------------------------------------------------------
(* ListPartitions: these two fields select the detailed map endpoint.      *)
FromMap == Include \cap {"members", "qos"} # {}

(* Mutated form of Obtained: the slice is not emptied between requests.    *)
ObtainedTwice(l) == {l \o l}

(* What the server may obtain from a list: the list as UFM reports it, or, *)
(* out of a Go map, its items in any order.                                *)
Obtained(l) == IF FromMap THEN SetToSeqs(Range(l)) ELSE {l}

Init ==
  /\ list \in InitialLists
  /\ copy = << >>
  /\ pc = "ready"
  /\ limit = Omitted
  /\ cursor \in FirstCursors
  /\ collected = << >>
  /\ lasting = Range(list)
  /\ insertions = 0 /\ removals = 0 /\ failures = 0

(* The client sends GET ...?cursor=&limit=; the limit may differ per page. *)
Ask ==
  /\ pc = "ready"
  /\ limit' \in Limits
  /\ pc' = "asked"
  /\ UNCHANGED <<list, copy, cursor, collected, lasting, insertions, removals, failures>>

(* The handler's one call to UFM returns the list as it is now.            *)
Fetch ==
  /\ pc = "asked"
  /\ copy' \in Obtained(list)
  /\ pc' = "fetched"
  /\ UNCHANGED <<list, limit, cursor, collected, lasting, insertions, removals, failures>>

(* The handler answers with the page cut out of its copy; the client keeps *)
(* the items and the next cursor, and stops when there is none.            *)
Answer ==
  /\ pc = "fetched"
  /\ LET page == PageOf(copy, cursor, limit) IN
       /\ collected' = collected \o page.items
       /\ cursor' = page.next
       /\ pc' = IF page.next = NoCursor THEN "done" ELSE "ready"
  /\ copy' = << >> /\ limit' = Omitted
  /\ UNCHANGED <<list, lasting, insertions, removals, failures>>

(* The upstream call fails (an error status) or the answer is lost; the    *)
(* client still holds the cursor of this page.                             *)
Fail ==
  /\ pc \in {"asked", "fetched"}
  /\ failures < MaxFailures
  /\ failures' = failures + 1
  /\ pc' = "ready"
  /\ copy' = << >> /\ limit' = Omitted
  /\ UNCHANGED <<list, cursor, collected, lasting, insertions, removals>>

(* Somebody adds an item that is not listed, at any place of UFM's order.  *)
Insert ==
  /\ insertions < MaxInsertions
  /\ \E x \in Items \ Range(list), i \in 1..(Len(list) + 1) :
       list' = InsertAt(list, i, x)
  /\ insertions' = insertions + 1
  /\ UNCHANGED <<copy, pc, limit, cursor, collected, lasting, removals, failures>>

(* Somebody removes an item.                                               *)
Delete ==
  /\ removals < MaxRemovals
  /\ \E i \in 1..Len(list) :
       /\ list' = RemoveAt(list, i)
       /\ lasting' = lasting \ {list[i]}
  /\ removals' = removals + 1
  /\ UNCHANGED <<copy, pc, limit, cursor, collected, insertions, failures>>

Serve == Ask \/ Fetch \/ Answer
Next  == Serve \/ Fail \/ Insert \/ Delete

Spec == Init /\ [][Next]_vars

(* The client that began a walk goes on with it, and the server answers.   *)
(* Nothing is assumed of the other users or of failures (which are bounded *)
(* only by MaxFailures).                                                   *)
FairSpec == Spec /\ WF_vars(Ask) /\ WF_vars(Fetch) /\ WF_vars(Answer)

-----------------------------------------------------------------------------
Offset == decodeCursor(cursor)
Missed == lasting \ Range(collected)

(* Every variable holds a value of its kind, and UFM's list and the copy   *)
(* in use never hold an item twice.                                        *)
TypeOK ==
  /\ list \in Seq(Items) /\ IsInjective(list)
  /\ copy \in Seq(Items) /\ IsInjective(copy)
  /\ pc \in {"ready", "asked", "fetched", "done"}
  /\ limit \in OptionalInt
  /\ cursor \in Cursor
  /\ collected \in Seq(Items)
  /\ lasting \subseteq Range(list)
  /\ insertions \in Nat /\ removals \in Nat /\ failures \in Nat

(* As long as nobody changes the list, the items received are exactly the  *)
(* first ones of the list up to the cursor: no gap, no repetition, in      *)
(* order, whatever limits the client sends and whatever fails and is asked *)
(* again; and when the walk is over they are the whole list.               *)
UnchangedListIsReadExactly ==
  insertions = 0 /\ removals = 0 =>
    collected = IF pc = "done" THEN list ELSE SubSeq(list, 1, Offset)

(* A finished walk misses at most one lasting item for each item removed   *)
(* while it ran: an offset cursor shifts by one per removal, never more.   *)
(* Without removals nothing that was there throughout is missed.           *)
MissesBoundedByRemovals ==
  pc = "done" => Cardinality(Missed) <= removals

(* The client receives an item again at most once for each item inserted   *)
(* while the walk runs; without insertions never.                          *)
RepeatsBoundedByInsertions ==
  Len(collected) - Cardinality(Range(collected)) <= insertions

(* As long as nobody changes the list the walk implements OrderedRead: the *)
(* pages, failed and repeated requests included, are chunks of one ordered *)
(* read, which ends.                                                       *)
Abstract == INSTANCE OrderedRead
  WITH Sources <- InitialLists, source <- list, received <- collected,
       finished <- (pc = "done"), disturbed <- (insertions + removals > 0)

ImplementsOrderedRead == Abstract!Spec

(* A walk ends whatever the other users do: every page moves the offset on *)
(* and the list stays within Items.                                        *)
WalkTerminates == <>(pc = "done")
=============================================================================
