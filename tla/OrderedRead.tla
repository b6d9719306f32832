---------------------------- MODULE OrderedRead -----------------------------
(***************************************************************************)
(* What a paginated listing promises over a source that nobody disturbs:   *)
(* the reader receives the source from its beginning, in order, in chunks  *)
(* of any size, and has finished exactly when it has received all of it.   *)
(* Once the source is disturbed nothing is promised here.                  *)
(***************************************************************************)
EXTENDS Integers, Sequences

CONSTANT Sources  \* the sequences that may be read

VARIABLES
  source,    \* what is read
  received,  \* the part received so far
  finished,  \* the reader knows that there is no more
  disturbed  \* the source has been changed

rvars == <<source, received, finished, disturbed>>

Init == source \in Sources /\ received = << >> /\ ~finished /\ ~disturbed

(* A chunk that is not empty, unless it only tells that there is no more.  *)
Deliver ==
  /\ ~disturbed /\ ~finished
  /\ \E n \in Len(received)..Len(source) :
       /\ received' = SubSeq(source, 1, n)
       /\ finished' = (n = Len(source))
       /\ n > Len(received) \/ finished'
  /\ UNCHANGED <<source, disturbed>>

Disturb == disturbed'

Safe == Init /\ [][Deliver \/ Disturb]_rvars

Spec == Safe /\ WF_rvars(Deliver)
=============================================================================
