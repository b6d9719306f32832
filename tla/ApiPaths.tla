------------------------------ MODULE ApiPaths ------------------------------
(***************************************************************************)
(* Paths, as the tables of the API write them.  A path is the sequence of  *)
(* its segments.  In the pattern of a path P1 and P2 stand for its first   *)
(* and second parameter.  Names of resources are values that are equal or  *)
(* not; they have no slashes, and the escaping of names on the way is left *)
(* out.                                                                    *)
(***************************************************************************)
EXTENDS Integers, SequencesExt, FiniteSetsExt, Functions, TLC

P1 == "{1}"
P2 == "{2}"
Parameters == {P1, P2}

(* The parameters every paged list takes.                                  *)
Paging == {"cursor", "limit"}

(* The path a pattern becomes with these values for its parameters.        *)
Filled(pattern, value) ==
  [i \in DOMAIN pattern |-> IF pattern[i] \in DOMAIN value THEN value[pattern[i]] ELSE pattern[i]]

(* pattern fits a path segment by segment; what its parameters then are.   *)
Fits(pattern, path) ==
  /\ Len(pattern) = Len(path)
  /\ \A i \in DOMAIN pattern : pattern[i] \in Parameters \cup {path[i]}

Captured(pattern, path) ==
  [p \in Range(pattern) \cap Parameters |-> path[CHOOSE i \in DOMAIN pattern : pattern[i] = p]]

(* Where two patterns that fit one path first differ, p has the segment    *)
(* itself and q a parameter.                                               *)
MoreSpecific(p, q) ==
  \E i \in DOMAIN p : /\ p[i] \notin Parameters /\ q[i] \in Parameters
                      /\ \A j \in 1..(i - 1) : p[j] = q[j]

(* The beginning of a pattern up to its last parameter, if it has one.     *)
LastParameter(pattern) == Max({0} \cup {i \in DOMAIN pattern : pattern[i] \in Parameters})
=============================================================================
