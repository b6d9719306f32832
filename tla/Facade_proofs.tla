---------------------------- MODULE Facade_proofs ----------------------------
(***************************************************************************)
(* Theorems about Facade, for any names, any scripts of calls and any      *)
(* refusals of UFM: type correctness; that every request reaches its       *)
(* handler with what its caller gave; that success is said of a plan that  *)
(* was carried out as a whole, and refusal of one that was not; that the   *)
(* caller finds the body of a success; and that an answer is final.        *)
(*                                                                         *)
(* Of the tables the proofs use what the assumptions of Facade say, which  *)
(* TLC evaluates for each operation.                                       *)
(***************************************************************************)
EXTENDS Facade, SequenceTheorems, TLAPS

(* A pattern filled with names is a path of the same length.               *)
LEMMA FilledType ==
  ASSUME NEW pattern \in Paths, NEW P, NEW value \in [P -> Names]
  PROVE  /\ Filled(pattern, value) \in Paths
         /\ DOMAIN Filled(pattern, value) = DOMAIN pattern
         /\ Len(Filled(pattern, value)) = Len(pattern)
         /\ \A i \in DOMAIN pattern :
              Filled(pattern, value)[i] = IF pattern[i] \in P THEN value[pattern[i]] ELSE pattern[i]
<1>1. Filled(pattern, value) = [i \in 1..Len(pattern) |->
                                  IF pattern[i] \in P THEN value[pattern[i]] ELSE pattern[i]]
  BY DEF Filled, Paths
<1>2. \A i \in 1..Len(pattern) : (IF pattern[i] \in P THEN value[pattern[i]] ELSE pattern[i]) \in STRING \cup Names
  BY DEF Paths
<1> QED
  BY <1>1, <1>2 DEF Paths

(* The path of a request is its operation's pattern with the names asked.  *)
LEMMA AskedTypes ==
  ASSUME NEW asked \in Request
  PROVE  /\ asked.op \in Operations /\ asked.names \in [Parameters -> Names]
         /\ Requests[asked.op].path \in Paths
         /\ PathOf(asked) \in Paths
         /\ DOMAIN PathOf(asked) = DOMAIN Requests[asked.op].path
         /\ Len(PathOf(asked)) = Len(Requests[asked.op].path)
         /\ \A i \in DOMAIN Requests[asked.op].path :
              PathOf(asked)[i] = IF Requests[asked.op].path[i] \in Parameters
                                 THEN asked.names[Requests[asked.op].path[i]]
                                 ELSE Requests[asked.op].path[i]
<1>1. asked.op \in Operations /\ asked.names \in [Parameters -> Names]
  BY DEF Request
<1>2. Requests[asked.op].path \in Paths
  <2>1. Requests[asked.op].path \in Seq(STRING)
    BY <1>1, RoutesAssumption
  <2>2. STRING \subseteq STRING \cup Names
    OBVIOUS
  <2> QED
    BY <2>1, <2>2, SeqMonotonic DEF Paths
<1>3. PICK pattern \in Paths : pattern = Requests[asked.op].path
  BY <1>2
<1>4. PathOf(asked) = Filled(pattern, asked.names)
  BY <1>3 DEF PathOf
<1> QED
  BY <1>1, <1>3, <1>4, FilledType

-----------------------------------------------------------------------------
(***************************************************************************)
(* The router.  A path of a request fits the request's own route, and any  *)
(* route it fits overlaps with that one.                                   *)
(***************************************************************************)
LEMMA OwnRouteFits ==
  ASSUME NEW asked \in Request
  PROVE  Requests[asked.op].path \in Candidates(Requests[asked.op].method, PathOf(asked))
<1>1. PICK pattern \in Paths : pattern = Requests[asked.op].path
  BY AskedTypes
<1>2. PICK path \in Paths : path = PathOf(asked)
  BY AskedTypes
<1>3. /\ DOMAIN path = DOMAIN pattern /\ Len(path) = Len(pattern)
      /\ \A i \in DOMAIN pattern :
           path[i] = IF pattern[i] \in Parameters THEN asked.names[pattern[i]] ELSE pattern[i]
  BY <1>1, <1>2, AskedTypes
<1>4. Fits(pattern, path)
  BY <1>3 DEF Fits
<1>5. asked.op \in Operations
  BY AskedTypes
<1>6. pattern \in DOMAIN Routes /\ Requests[asked.op].method \in DOMAIN Routes[pattern]
  BY <1>1, <1>5, RoutesAssumption
<1> QED
  BY <1>1, <1>2, <1>4, <1>6 DEF Candidates

(* A route a request fits overlaps with the request's own pattern.         *)
LEMMA CandidatesOverlap ==
  ASSUME NEW asked \in Request, NEW q \in Candidates(Requests[asked.op].method, PathOf(asked))
  PROVE  /\ q \in DOMAIN Routes /\ Requests[asked.op].method \in DOMAIN Routes[q]
         /\ Overlap(Requests[asked.op].path, q)
<1>1. PICK pattern \in Paths : pattern = Requests[asked.op].path
  BY AskedTypes
<1>2. PICK path \in Paths : path = PathOf(asked)
  BY AskedTypes
<1>3. /\ DOMAIN path = DOMAIN pattern /\ Len(path) = Len(pattern)
      /\ \A i \in DOMAIN pattern :
           path[i] = IF pattern[i] \in Parameters THEN asked.names[pattern[i]] ELSE pattern[i]
  BY <1>1, <1>2, AskedTypes
<1>4. q \in DOMAIN Routes /\ Fits(q, path) /\ Requests[asked.op].method \in DOMAIN Routes[q]
  BY <1>2 DEF Candidates
<1>5. Len(q) = Len(pattern) /\ \A i \in DOMAIN q : q[i] \in Parameters \cup {path[i]}
  BY <1>3, <1>4 DEF Fits
<1>6. DOMAIN q = DOMAIN pattern
  <2>1. q \in Seq(STRING)
    BY <1>4, RoutesAssumption
  <2>2. pattern \in Seq(STRING \cup Names)
    BY <1>1 DEF Paths
  <2> QED
    BY <1>5, <2>1, <2>2, LenProperties
<1>7. Overlap(pattern, q)
  BY <1>3, <1>5, <1>6 DEF Overlap
<1> QED
  BY <1>1, <1>4, <1>7

(* Apart from systems and the power of systems no path fits two routes.    *)
LEMMA OneCandidate ==
  ASSUME NEW asked \in Request, NEW q \in Candidates(Requests[asked.op].method, PathOf(asked)),
         q # Requests[asked.op].path
  PROVE  \/ asked.op = "GetSystem" /\ q = Requests["ListSystemsPower"].path
         \/ asked.op = "ListSystemsPower" /\ q = Requests["GetSystem"].path
<1>1. asked.op \in Operations
  BY AskedTypes
<1>2. /\ q \in DOMAIN Routes \ {Requests[asked.op].path}
      /\ Requests[asked.op].method \in DOMAIN Routes[q] /\ Overlap(Requests[asked.op].path, q)
  BY CandidatesOverlap
<1> QED
  BY <1>1, <1>2, RoutesAssumption

(* A route that alone fits is taken.                                       *)
LEMMA MatchedAlone ==
  ASSUME NEW method, NEW path, NEW p, Candidates(method, path) = {p}
  PROVE  Matched(method, path) = p
BY DEF Matched

(* The two elements of a pair.                                             *)
LEMMA PairOf ==
  ASSUME NEW a, NEW b
  PROVE  /\ DOMAIN <<a, b>> = 1..2 /\ Len(<<a, b>>) = 2
         /\ <<a, b>>[1] = a /\ <<a, b>>[2] = b
         /\ \A i \in 1..2 : i = 1 \/ i = 2
<1>1. \A i \in 1..2 : i = 1 \/ i = 2
  OBVIOUS
<1>2. DOMAIN <<a, b>> = 1..2 /\ Len(<<a, b>>) = 2
  OBVIOUS
<1>3. <<a, b>>[1] = a /\ <<a, b>>[2] = b
  OBVIOUS
<1> QED
  BY <1>1, <1>2, <1>3

(* Of the segments of the paths of systems only the id is a parameter.     *)
LEMMA Segments == P1 \in Parameters /\ "systems" \notin Parameters /\ "power" \notin Parameters
BY DEF Parameters, P1, P2

(* Where both fit, the segment power is preferred to a system's name.      *)
LEMMA MatchedPower ==
  ASSUME NEW method, NEW path,
         Candidates(method, path) = {<<"systems", P1>>, <<"systems", "power">>}
  PROVE  Matched(method, path) = <<"systems", "power">>
<1>1. MoreSpecific(<<"systems", "power">>, <<"systems", P1>>)
  <2>1. 2 \in DOMAIN <<"systems", "power">> /\ \A j \in 1..(2 - 1) : j = 1
    OBVIOUS
  <2>2. "power" \notin Parameters /\ P1 \in Parameters
    BY DEF Parameters, P1, P2
  <2> QED
    BY <2>1, <2>2 DEF MoreSpecific
<1>2. ~MoreSpecific(<<"systems", P1>>, <<"systems", "power">>)
  <2>1. \A i \in DOMAIN <<"systems", P1>> : <<"systems", "power">>[i] \notin Parameters
    BY PairOf, Segments
  <2> QED
    BY <2>1 DEF MoreSpecific
<1>3. <<"systems", P1>> # <<"systems", "power">>
  BY DEF P1
<1> QED
  BY <1>1, <1>2, <1>3 DEF Matched

(* The route of a request: its own, for every name but power of a system.  *)
LEMMA RouteOfRequest ==
  ASSUME NEW asked \in Request
  PROVE  Matched(Requests[asked.op].method, PathOf(asked)) =
           IF asked.op = "GetSystem" /\ asked.names[P1] = "power"
           THEN Requests["ListSystemsPower"].path ELSE Requests[asked.op].path
<1>1. PICK own : own = Requests[asked.op].path
  OBVIOUS
<1>2. PICK method : method = Requests[asked.op].method
  OBVIOUS
<1>3. PICK path : path = PathOf(asked)
  OBVIOUS
<1>4. own \in Candidates(method, path)
  BY <1>1, <1>2, <1>3, OwnRouteFits
<1>5. PICK power : power = Requests["ListSystemsPower"].path
  OBVIOUS
<1>6. PICK system : system = Requests["GetSystem"].path
  OBVIOUS
<1>7. system = <<"systems", P1>> /\ power = <<"systems", "power">>
  BY <1>5, <1>6, RoutesAssumption
<1>8. \A q \in Candidates(method, path) :
        q = own \/ (asked.op = "GetSystem" /\ q = power) \/ (asked.op = "ListSystemsPower" /\ q = system)
  BY <1>1, <1>2, <1>3, <1>5, <1>6, OneCandidate
<1>9. CASE asked.op \notin {"GetSystem", "ListSystemsPower"}
  <2>1. Candidates(method, path) = {own}
    BY <1>4, <1>8, <1>9
  <2>2. Matched(method, path) = own
    BY <2>1, MatchedAlone
  <2> QED
    BY <1>1, <1>2, <1>3, <1>9, <2>2
<1>10. CASE asked.op = "GetSystem"
  <2>1. own = <<"systems", P1>> /\ own \in Paths /\ path \in Paths /\ DOMAIN path = DOMAIN own
        /\ \A i \in DOMAIN own : path[i] = IF own[i] \in Parameters THEN asked.names[own[i]] ELSE own[i]
    BY <1>1, <1>3, <1>6, <1>7, <1>10, AskedTypes
  <2>2. DOMAIN own = 1..2 /\ own[1] = "systems" /\ own[2] = P1 /\ P1 \in Parameters /\ "systems" \notin Parameters
    BY <2>1, PairOf, Segments
  <2>3. Len(path) = 2 /\ path[1] = "systems" /\ path[2] = asked.names[P1]
    BY <2>1, <2>2 DEF Paths
  <2>4. CASE asked.names[P1] = "power"
    <3>1. Fits(power, path)
      <4>1. DOMAIN power = 1..2 /\ Len(power) = 2 /\ power[1] = "systems" /\ power[2] = "power"
        BY <1>7, PairOf
      <4>2. \A i \in 1..2 : power[i] \in Parameters \cup {path[i]}
        BY <2>3, <2>4, <4>1, PairOf
      <4> QED
        BY <2>3, <4>1, <4>2 DEF Fits
    <3>2. power \in DOMAIN Routes /\ method \in DOMAIN Routes[power]
      BY <1>2, <1>5, <1>10, RoutesAssumption
    <3>3. Candidates(method, path) = {<<"systems", P1>>, <<"systems", "power">>}
      BY <1>4, <1>7, <1>8, <1>10, <2>1, <3>1, <3>2 DEF Candidates
    <3>4. Matched(method, path) = power
      BY <1>7, <3>3, MatchedPower
    <3> QED
      BY <1>2, <1>3, <1>5, <1>10, <2>4, <3>4
  <2>5. CASE asked.names[P1] # "power"
    <3>1. ~Fits(power, path)
      <4>1. 2 \in DOMAIN power /\ power[2] = "power" /\ "power" \notin Parameters
        BY <1>7, PairOf, Segments
      <4> QED
        BY <2>3, <2>5, <4>1 DEF Fits
    <3>2. power \notin Candidates(method, path)
      BY <3>1 DEF Candidates
    <3>3. Candidates(method, path) = {own}
      BY <1>4, <1>8, <1>10, <3>2
    <3>4. Matched(method, path) = own
      BY <3>3, MatchedAlone
    <3> QED
      BY <1>1, <1>2, <1>3, <2>5, <3>4
  <2> QED
    BY <2>4, <2>5
<1>11. CASE asked.op = "ListSystemsPower"
  <2>1. own = power /\ own \in Paths /\ path \in Paths /\ DOMAIN path = DOMAIN own
        /\ \A i \in DOMAIN own : path[i] = IF own[i] \in Parameters THEN asked.names[own[i]] ELSE own[i]
    BY <1>1, <1>3, <1>5, <1>11, AskedTypes
  <2>2. DOMAIN own = 1..2 /\ own[1] = "systems" /\ own[2] = "power"
        /\ "power" \notin Parameters /\ "systems" \notin Parameters
    BY <1>7, <2>1, PairOf, Segments
  <2>3. Len(path) = 2 /\ path[1] = "systems" /\ path[2] = "power"
    BY <2>1, <2>2 DEF Paths
  <2>4. Fits(system, path)
    <3>1. DOMAIN system = 1..2 /\ Len(system) = 2 /\ system[1] = "systems" /\ system[2] = P1
      BY <1>7, PairOf
    <3>2. \A i \in 1..2 : system[i] \in Parameters \cup {path[i]}
      BY <2>3, <3>1, PairOf, Segments
    <3> QED
      BY <2>3, <3>1, <3>2 DEF Fits
  <2>5. "GetSystem" \in Operations /\ method = Requests["GetSystem"].method
    BY <1>2, <1>11, RoutesAssumption
  <2>6. system \in DOMAIN Routes /\ method \in DOMAIN Routes[system]
    BY <1>6, <2>5, RoutesAssumption
  <2>7. Candidates(method, path) = {<<"systems", P1>>, <<"systems", "power">>}
    BY <1>4, <1>7, <1>8, <1>11, <2>1, <2>4, <2>6 DEF Candidates
  <2>8. Matched(method, path) = power
    BY <1>7, <2>7, MatchedPower
  <2> QED
    BY <1>1, <1>2, <1>3, <1>11, <2>1, <2>8
<1> QED
  BY <1>9, <1>10, <1>11

-----------------------------------------------------------------------------
(***************************************************************************)
(* What the handler is given.                                              *)
(***************************************************************************)
AsksForPower(asked) == asked.op = "GetSystem" /\ asked.names[P1] = "power"

(* The handler is the operation's own, but for a system called power.      *)
LEMMA HandlerOfRequest ==
  ASSUME NEW asked \in Request
  PROVE  /\ Routed(asked).op = IF AsksForPower(asked) THEN "ListSystemsPower" ELSE asked.op
         /\ Routed(asked).op \in Operations
         /\ Matched(Requests[asked.op].method, PathOf(asked)) = Requests[Routed(asked).op].path
<1>1. PICK route : route = Matched(Requests[asked.op].method, PathOf(asked))
  OBVIOUS
<1>2. Routed(asked).op = Routes[route][Requests[asked.op].method]
  BY <1>1 DEF Routed
<1>3. asked.op \in Operations
  BY AskedTypes
<1>4. CASE AsksForPower(asked)
  <2>1. route = Requests["ListSystemsPower"].path
    BY <1>1, <1>4, RouteOfRequest DEF AsksForPower
  <2>2. /\ Requests[asked.op].method = Requests["ListSystemsPower"].method
        /\ "ListSystemsPower" \in Operations
    BY <1>4, RoutesAssumption DEF AsksForPower
  <2>3. Routes[route][Requests[asked.op].method] = "ListSystemsPower"
    BY <2>1, <2>2, RoutesAssumption
  <2> QED
    BY <1>1, <1>2, <1>4, <2>1, <2>2, <2>3
<1>5. CASE ~AsksForPower(asked)
  <2>1. route = Requests[asked.op].path
    BY <1>1, <1>5, RouteOfRequest DEF AsksForPower
  <2>2. Routes[route][Requests[asked.op].method] = asked.op
    BY <1>3, <2>1, RoutesAssumption
  <2> QED
    BY <1>1, <1>2, <1>3, <1>5, <2>1, <2>2
<1> QED
  BY <1>4, <1>5

(* A name is taken out of the path where the request has put it.           *)
LEMMA CapturedIsAsked ==
  ASSUME NEW asked \in Request, NEW p \in Range(Requests[asked.op].path) \cap Parameters
  PROVE  Captured(Requests[asked.op].path, PathOf(asked))[p] = asked.names[p]
<1>1. PICK pattern \in Paths : pattern = Requests[asked.op].path
  BY AskedTypes
<1>2. PICK path \in Paths : path = PathOf(asked)
  BY AskedTypes
<1>3. \A i \in DOMAIN pattern :
        path[i] = IF pattern[i] \in Parameters THEN asked.names[pattern[i]] ELSE pattern[i]
  BY <1>1, <1>2, AskedTypes
<1>4. PICK at : at = CHOOSE i \in DOMAIN pattern : pattern[i] = p
  OBVIOUS
<1>5. at \in DOMAIN pattern /\ pattern[at] = p
  BY <1>1, <1>4 DEF Range
<1>6. Captured(pattern, path)[p] = path[at]
  BY <1>1, <1>4 DEF Captured
<1> QED
  BY <1>1, <1>2, <1>3, <1>5, <1>6

(* Where no system is called power the handler gets what was asked.        *)
LEMMA GivenAsAsked ==
  ASSUME NEW asked \in Request, ~AsksForPower(asked)
  PROVE  /\ Routed(asked).names = [i \in DOMAIN Wrappers[asked.op].names |-> asked.names[<<P1, P2>>[i]]]
         /\ Routed(asked).query = asked.query \cap Requests[asked.op].query
<1>1. asked.op \in Operations /\ Routed(asked).op = asked.op
      /\ Matched(Requests[asked.op].method, PathOf(asked)) = Requests[asked.op].path
  BY HandlerOfRequest, AskedTypes
<1>2. PICK takes : takes = Wrappers[asked.op]
  OBVIOUS
<1>3. PICK pattern : pattern = Requests[asked.op].path
  OBVIOUS
<1>4. PICK path : path = PathOf(asked)
  OBVIOUS
<1>5. Routes[pattern][Requests[asked.op].method] = asked.op
  BY <1>1, <1>3, RoutesAssumption
<1>6. /\ Routed(asked).names = [i \in DOMAIN takes.names |-> Captured(pattern, path)[takes.names[i]]]
      /\ Routed(asked).query = asked.query \cap (takes.required \cup takes.optional)
  BY <1>1, <1>2, <1>3, <1>4, <1>5 DEF Routed
<1>7. \A i \in DOMAIN takes.names :
        takes.names[i] \in Range(pattern) \cap Parameters /\ takes.names[i] = <<P1, P2>>[i]
  <2>1. \A i \in DOMAIN takes.names :
          i \in 1..2 /\ takes.names[i] \in Range(pattern) /\ takes.names[i] = <<P1, P2>>[i]
    BY <1>1, <1>2, <1>3, RoutesAssumption
  <2> QED
    BY <2>1, PairOf DEF Parameters
<1>8. \A i \in DOMAIN takes.names : Captured(pattern, path)[takes.names[i]] = asked.names[<<P1, P2>>[i]]
  BY <1>3, <1>4, <1>7, CapturedIsAsked
<1>9. takes.required \cup takes.optional = Requests[asked.op].query
  BY <1>1, <1>2, RoutesAssumption
<1> QED
  BY <1>2, <1>6, <1>8, <1>9

(* The power of systems has no name in its path.                           *)
LEMMA GivenPower ==
  ASSUME NEW asked \in Request, AsksForPower(asked)
  PROVE  Routed(asked).names = << >> /\ DOMAIN Wrappers["ListSystemsPower"].names = {}
<1>1. /\ Routed(asked).op = "ListSystemsPower" /\ "ListSystemsPower" \in Operations
      /\ Matched(Requests[asked.op].method, PathOf(asked)) = Requests["ListSystemsPower"].path
  BY HandlerOfRequest
<1>2. PICK names : names = Wrappers["ListSystemsPower"].names
  OBVIOUS
<1>3. names \in Seq(Parameters) /\ \A i \in DOMAIN names : names[i] \in Range(<<"systems", "power">>)
  BY <1>1, <1>2, RoutesAssumption
<1>4. \A s \in Range(<<"systems", "power">>) : s \notin Parameters
  BY PairOf, Segments DEF Range
<1>5. DOMAIN names = {}
  BY <1>3, <1>4
<1>6. PICK path : path = PathOf(asked)
  OBVIOUS
<1>7. PICK route : route = Requests["ListSystemsPower"].path
  OBVIOUS
<1>8. Routes[route][Requests[asked.op].method] = "ListSystemsPower"
  BY <1>1, <1>7, HandlerOfRequest DEF Routed
<1>9. Routed(asked).names = [i \in DOMAIN names |-> Captured(route, path)[names[i]]]
  BY <1>1, <1>2, <1>6, <1>7, <1>8 DEF Routed
<1> QED
  BY <1>2, <1>5, <1>9

(* A handler is given as many names as its wrapper takes.                  *)
LEMMA GivenType ==
  ASSUME NEW asked \in Request
  PROVE  /\ Routed(asked) \in Givens
         /\ DOMAIN Routed(asked).names = DOMAIN Wrappers[Routed(asked).op].names
<1>1. Routed(asked) = [op |-> Routed(asked).op, names |-> Routed(asked).names,
                       query |-> Routed(asked).query, complete |-> Routed(asked).complete]
  BY DEF Routed
<1>2. /\ Routed(asked).op \in Operations
      /\ Routed(asked).op = IF AsksForPower(asked) THEN "ListSystemsPower" ELSE asked.op
  BY HandlerOfRequest
<1>3. Routed(asked).query \subseteq asked.query /\ asked.query \subseteq STRING
  BY DEF Routed, Request
<1>4. Routed(asked).complete \in BOOLEAN
  BY DEF Routed
<1>5. asked.names \in [Parameters -> Names] /\ asked.op \in Operations
  BY AskedTypes
<1>6. CASE AsksForPower(asked)
  <2>1. Routed(asked).names = << >>
    BY <1>6, GivenPower
  <2>2. Routed(asked).names \in Seq(Names)
    BY <2>1
  <2>3. DOMAIN Wrappers["ListSystemsPower"].names = {} /\ DOMAIN Routed(asked).names = {}
    BY <1>6, <2>1, GivenPower
  <2> QED
    BY <1>1, <1>2, <1>3, <1>4, <1>6, <2>1, <2>2, <2>3 DEF Givens
<1>7. CASE ~AsksForPower(asked)
  <2>1. PICK names : names = Wrappers[asked.op].names
    OBVIOUS
  <2>2. names \in Seq(Parameters) /\ \A i \in DOMAIN names : i \in 1..2
    BY <1>5, <2>1, RoutesAssumption
  <2>3. Routed(asked).names = [i \in 1..Len(names) |-> asked.names[<<P1, P2>>[i]]]
    BY <1>7, <2>1, <2>2, GivenAsAsked
  <2>4. \A i \in 1..Len(names) : asked.names[<<P1, P2>>[i]] \in Names
    <3>1. \A i \in 1..Len(names) : i \in 1..2
      BY <2>2, LenProperties
    <3>2. \A i \in 1..2 : <<P1, P2>>[i] \in Parameters
      BY PairOf DEF Parameters
    <3> QED
      BY <1>5, <3>1, <3>2
  <2>5. Routed(asked).names \in Seq(Names)
    <3>1. Len(names) \in Nat
      BY <2>2, LenProperties
    <3>2. Routed(asked).names \in [1..Len(names) -> Names]
      BY <2>3, <2>4
    <3> QED
      BY <3>1, <3>2, SeqDef
  <2>6. DOMAIN Routed(asked).names = DOMAIN names
    BY <2>2, <2>3, LenProperties
  <2>7. Routed(asked) \in Givens
    BY <1>1, <1>2, <1>3, <1>4, <2>5 DEF Givens
  <2> QED
    BY <1>2, <1>7, <2>1, <2>6, <2>7
<1> QED
  BY <1>6, <1>7

-----------------------------------------------------------------------------
(***************************************************************************)
(* The plan of a call.                                                     *)
(***************************************************************************)
PlanOf(asked) ==
  IF asked.body = "unreadable" THEN Handlers[Routed(asked).op].plans[1]
  ELSE Handlers[Routed(asked).op].plans[asked.plan]

Sensible(asked) ==
  /\ asked \in Request /\ asked.query \subseteq Requests[asked.op].query
  /\ asked.plan \in DOMAIN Handlers[asked.op].plans
  /\ asked.body = "unreadable" => Requests[asked.op].body

PlanSet == Seq([method : DOMAIN Methods, args : Seq({P1, P2, Body})])

(* A plan is one of those of the handler.                                  *)
LEMMA PlanOfHandler ==
  ASSUME NEW asked, Sensible(asked)
  PROVE  \E n \in DOMAIN Handlers[Routed(asked).op].plans :
           PlanOf(asked) = Handlers[Routed(asked).op].plans[n]
<1>1. asked \in Request /\ asked.plan \in DOMAIN Handlers[asked.op].plans
  BY DEF Sensible
<1>2. PICK op \in Operations : op = Routed(asked).op /\ op = IF AsksForPower(asked) THEN "ListSystemsPower" ELSE asked.op
  BY <1>1, HandlerOfRequest
<1>3. PICK plans : plans = Handlers[op].plans
  OBVIOUS
<1>4. plans \in Seq(PlanSet) /\ plans # << >>
  BY <1>3, HandlersAssumption DEF PlanSet
<1>5. 1 \in DOMAIN plans
  BY <1>4
<1>6. asked.plan \in DOMAIN plans
  BY <1>1, <1>2, <1>3, HandlersAssumption DEF AsksForPower
<1> QED
  BY <1>2, <1>3, <1>5, <1>6 DEF PlanOf

(* What the tables say of the steps of a plan.                             *)
LEMMA PlanType ==
  ASSUME NEW asked, Sensible(asked)
  PROVE  /\ PlanOf(asked) \in PlanSet
         /\ \A k \in DOMAIN PlanOf(asked) :
              LET step == PlanOf(asked)[k]
              IN /\ Methods[step.method].on \in Paths
                 /\ \/ Methods[step.method].checked
                    \/ Routed(asked).op = "RunFabricValidationTest" /\ k = Len(PlanOf(asked))
                 /\ Len(step.args) \in 0..2
                 /\ \A i \in DOMAIN step.args :
                      \/ step.args[i] = Body
                      \/ step.args[i] = P1 /\ 1 \in DOMAIN Routed(asked).names
                      \/ step.args[i] = P2 /\ 2 \in DOMAIN Routed(asked).names
<1>1. asked \in Request /\ asked.plan \in DOMAIN Handlers[asked.op].plans
  BY DEF Sensible
<1>2. PICK op \in Operations : op = Routed(asked).op /\ op = IF AsksForPower(asked) THEN "ListSystemsPower" ELSE asked.op
  BY <1>1, HandlerOfRequest
<1>3. DOMAIN Routed(asked).names = DOMAIN Wrappers[op].names
  BY <1>1, <1>2, GivenType
<1>4. PICK plans : plans = Handlers[op].plans
  OBVIOUS
<1>5. plans \in Seq(PlanSet) /\ plans # << >>
  BY <1>4, HandlersAssumption DEF PlanSet
<1>6. PICK n \in DOMAIN plans : PlanOf(asked) = plans[n]
  BY <1>2, <1>4, PlanOfHandler
<1>7. PICK plan : plan = plans[n]
  OBVIOUS
<1>8. plan \in PlanSet
  BY <1>5, <1>6, <1>7, ElementOfSeq, LenProperties
<1>9. \A k \in DOMAIN plan :
        /\ Methods[plan[k].method].on \in Seq(STRING)
        /\ Methods[plan[k].method].checked \/ (op = "RunFabricValidationTest" /\ k = Len(plan))
        /\ Len(plan[k].args) \in 0..2
        /\ \A i \in DOMAIN plan[k].args :
             \/ plan[k].args[i] = Body
             \/ plan[k].args[i] = P1 /\ 1 \in DOMAIN Wrappers[op].names
             \/ plan[k].args[i] = P2 /\ 2 \in DOMAIN Wrappers[op].names
  <2>1. n \in DOMAIN Handlers[op].plans /\ plan = Handlers[op].plans[n]
    BY <1>4, <1>6, <1>7
  <2>2. \A k \in DOMAIN Handlers[op].plans[n] :
          LET step == Handlers[op].plans[n][k]
          IN /\ Methods[step.method].on \in Seq(STRING)
             /\ Methods[step.method].checked \/ (op = "RunFabricValidationTest" /\ k = Len(Handlers[op].plans[n]))
             /\ Len(step.args) \in 0..2
             /\ \A i \in DOMAIN step.args :
                  \/ step.args[i] = Body
                  \/ step.args[i] = P1 /\ 1 \in DOMAIN Wrappers[op].names
                  \/ step.args[i] = P2 /\ 2 \in DOMAIN Wrappers[op].names
    BY <2>1, HandlersAssumption, Zenon
  <2> QED
    BY <2>1, <2>2
<1>10. \A p \in Seq(STRING) : p \in Paths
  <2>1. STRING \subseteq STRING \cup Names
    OBVIOUS
  <2> QED
    BY <2>1, SeqMonotonic DEF Paths
<1>11. PlanOf(asked) = plan
  BY <1>6, <1>7
<1>12. SUFFICES ASSUME NEW k \in DOMAIN plan
                PROVE  /\ Methods[plan[k].method].on \in Paths
                       /\ \/ Methods[plan[k].method].checked
                          \/ Routed(asked).op = "RunFabricValidationTest" /\ k = Len(plan)
                       /\ Len(plan[k].args) \in 0..2
                       /\ \A i \in DOMAIN plan[k].args :
                            \/ plan[k].args[i] = Body
                            \/ plan[k].args[i] = P1 /\ 1 \in DOMAIN Routed(asked).names
                            \/ plan[k].args[i] = P2 /\ 2 \in DOMAIN Routed(asked).names
  BY <1>8, <1>11
<1>13. Methods[plan[k].method].on \in Paths
  BY <1>9, <1>10
<1>14. Methods[plan[k].method].checked \/ (op = "RunFabricValidationTest" /\ k = Len(plan))
  BY <1>9
<1>15. Methods[plan[k].method].checked \/ (Routed(asked).op = "RunFabricValidationTest" /\ k = Len(plan))
  BY <1>2, <1>14
<1>16. /\ Len(plan[k].args) \in 0..2
       /\ \A i \in DOMAIN plan[k].args :
            \/ plan[k].args[i] = Body
            \/ plan[k].args[i] = P1 /\ 1 \in DOMAIN Routed(asked).names
            \/ plan[k].args[i] = P2 /\ 2 \in DOMAIN Routed(asked).names
  BY <1>3, <1>9
<1> QED
  BY <1>13, <1>15, <1>16

(* A plan with its names filled in has the methods of the plan.            *)
LEMMA StepsType ==
  ASSUME NEW asked, Sensible(asked)
  PROVE  /\ Steps(asked, Routed(asked)) \in Seq(PlanSteps)
         /\ Len(Steps(asked, Routed(asked))) = Len(PlanOf(asked))
         /\ DOMAIN Steps(asked, Routed(asked)) = DOMAIN PlanOf(asked)
         /\ \A k \in DOMAIN PlanOf(asked) :
              Steps(asked, Routed(asked))[k].method = PlanOf(asked)[k].method
<1>1. PICK given : given = Routed(asked)
  OBVIOUS
<1>2. PICK plan : plan = PlanOf(asked)
  OBVIOUS
<1>3. asked \in Request /\ given \in Givens /\ asked.named \in Names /\ given.names \in Seq(Names)
  BY <1>1, GivenType DEF Sensible, Request, Givens
<1>4. plan \in PlanSet
  BY <1>2, PlanType
<1> DEFINE Value(a)  == CASE a = P1 -> given.names[1] [] a = P2 -> given.names[2] [] a = Body -> asked.named
           Slots(s)  == {<<A1, A2>>[i] : i \in DOMAIN s.args}
           Fill(s)   == [p \in Slots(s) |-> Value(s.args[IF p = A1 THEN 1 ELSE 2])]
           On(s)     == Filled(Methods[s.method].on, Fill(s))
<1>5. Steps(asked, given) = [k \in DOMAIN plan |-> [method |-> plan[k].method, on |-> On(plan[k])]]
  BY <1>1, <1>2 DEF Steps, PlanOf
<1>6. \A k \in DOMAIN plan : On(plan[k]) \in Paths
  <2> SUFFICES ASSUME NEW k \in DOMAIN plan
               PROVE  On(plan[k]) \in Paths
    OBVIOUS
  <2>1. PICK s : s = plan[k]
    OBVIOUS
  <2>2. /\ Methods[s.method].on \in Paths /\ Len(s.args) \in 0..2
        /\ \A i \in DOMAIN s.args : \/ s.args[i] = Body
                                    \/ s.args[i] = P1 /\ 1 \in DOMAIN given.names
                                    \/ s.args[i] = P2 /\ 2 \in DOMAIN given.names
    BY <1>1, <1>2, <2>1, PlanType
  <2>3. \A i \in DOMAIN s.args : Value(s.args[i]) \in Names
    <3>1. Body # P1 /\ Body # P2 /\ P1 # P2
      BY DEF Body, P1, P2
    <3>2. \A i \in DOMAIN given.names : given.names[i] \in Names
      BY <1>3, ElementOfSeq, LenProperties
    <3> QED
      BY <1>3, <2>2, <3>1, <3>2
  <2>4. \A p \in Slots(s) : (IF p = A1 THEN 1 ELSE 2) \in DOMAIN s.args
    <3>1. DOMAIN s.args = 1..Len(s.args)
      <4>1. s.args \in Seq({P1, P2, Body})
        <5>1. k \in 1..Len(plan)
          BY <1>4, LenProperties DEF PlanSet
        <5>2. s \in [method : DOMAIN Methods, args : Seq({P1, P2, Body})]
          BY <1>4, <2>1, <5>1, ElementOfSeq DEF PlanSet
        <5> QED
          BY <5>2
      <4> QED
        BY <4>1, LenProperties
    <3>2. A1 # A2
      BY DEF A1, A2, P1, P2
    <3> SUFFICES ASSUME NEW i \in DOMAIN s.args
                 PROVE  (IF <<A1, A2>>[i] = A1 THEN 1 ELSE 2) \in DOMAIN s.args
      OBVIOUS
    <3>3. i \in 1..2
      BY <2>2, <3>1
    <3>4. <<A1, A2>>[i] = IF i = 1 THEN A1 ELSE A2
      BY <3>3, PairOf
    <3> QED
      BY <3>2, <3>3, <3>4
  <2>5. Fill(s) \in [Slots(s) -> Names]
    BY <2>3, <2>4
  <2> HIDE DEF Fill, Slots
  <2> QED
    BY <2>1, <2>2, <2>5, FilledType
<1> HIDE DEF On
<1>7. \A k \in DOMAIN plan : plan[k].method \in DOMAIN Methods
  <2>1. \A k \in 1..Len(plan) : plan[k] \in [method : DOMAIN Methods, args : Seq({P1, P2, Body})]
    BY <1>4, ElementOfSeq DEF PlanSet
  <2> QED
    BY <1>4, <2>1, LenProperties DEF PlanSet
<1>8. DOMAIN plan = 1..Len(plan) /\ Len(plan) \in Nat
  BY <1>4, LenProperties DEF PlanSet
<1>9. \A k \in DOMAIN plan : [method |-> plan[k].method, on |-> On(plan[k])] \in PlanSteps
  BY <1>6, <1>7 DEF PlanSteps
<1>10. Steps(asked, given) \in Seq(PlanSteps) /\ Len(Steps(asked, given)) = Len(plan)
  BY <1>5, <1>8, <1>9
<1> QED
  BY <1>1, <1>2, <1>5, <1>10

-----------------------------------------------------------------------------
(***************************************************************************)
(* Calls.  Two states of a call are alike if they differ only in what was  *)
(* there and missing.                                                      *)
(***************************************************************************)
Alike(k, l) ==
  /\ k.asked = l.asked /\ k.given = l.given /\ k.plan = l.plan /\ k.pc = l.pc /\ k.step = l.step
  /\ k.resp = l.resp /\ k.did = l.did /\ k.status = l.status /\ k.seen = l.seen

(* What a call is about are paths.                                         *)
LEMMA AboutType ==
  ASSUME NEW asked \in Request
  PROVE  Owner(asked) \in Paths /\ Made(asked) \in Paths
<1>1. PICK path \in Paths : path = PathOf(asked)
  BY AskedTypes
<1>2. PICK n : n = LastParameter(Requests[asked.op].path)
  OBVIOUS
<1>3. n \in 0..Len(path)
  <2>1. PICK pattern : pattern = Requests[asked.op].path
    OBVIOUS
  <2>2. LastParameter(pattern) \in 0..Len(pattern)
    BY <2>1, AskedTypes, RoutesAssumption
  <2>3. Len(path) = Len(pattern)
    BY <1>1, <2>1, AskedTypes
  <2> QED
    BY <1>2, <2>1, <2>2, <2>3
<1>4. SubSeq(path, 1, n) \in Paths
  <2>1. n \in Int /\ \A i \in 1..n : path[i] \in STRING \cup Names
    BY <1>3, ElementOfSeq, LenProperties DEF Paths
  <2> QED
    BY <2>1, SubSeqProperties DEF Paths
<1>5. asked.named \in STRING \cup Names
  BY DEF Request
<1>6. Append(path, asked.named) \in Paths
  BY <1>5, AppendProperties DEF Paths
<1> QED
  BY <1>1, <1>2, <1>4, <1>6 DEF Owner, Made

(* To watch calls changes only what they have seen of UFM.                 *)
LEMMA WatchedCalls ==
  ASSUME NEW D, NEW cs \in [D -> Calls], NEW set
  PROVE  /\ Watched(cs, set) \in [D -> Calls]
         /\ \A c \in D : Alike(Watched(cs, set)[c], cs[c])
<1> DEFINE Has(path)   == path = <<>> \/ path \in set
           About(call) == {Owner(call.asked), Made(call.asked)}
           Seen(k)     == [k EXCEPT !.there   = @ \cup {path \in About(k) : Has(path)},
                                    !.missing = @ \cup {path \in About(k) : ~Has(path)}]
<1>1. \A c \in D : Watched(cs, set)[c] = IF cs[c].pc \in {"sent", "answered"} THEN Seen(cs[c]) ELSE cs[c]
  BY DEF Watched
<1>2. \A k \in Calls : Seen(k) \in Calls /\ Alike(Seen(k), k)
  <2> SUFFICES ASSUME NEW k \in Calls
               PROVE  Seen(k) \in Calls /\ Alike(Seen(k), k)
    OBVIOUS
  <2>1. About(k) \subseteq Paths
    BY AboutType DEF Calls
  <2>2. PICK there \in SUBSET Paths : there = k.there \cup {path \in About(k) : Has(path)}
    BY <2>1 DEF Calls
  <2>3. PICK missing \in SUBSET Paths : missing = k.missing \cup {path \in About(k) : ~Has(path)}
    BY <2>1 DEF Calls
  <2>4. Seen(k) = [k EXCEPT !.there = there, !.missing = missing]
    BY <2>2, <2>3
  <2> HIDE DEF Seen
  <2> QED
    BY <2>4 DEF Calls, Alike
<1>3. \A k \in Calls : Alike(k, k)
  BY DEF Alike
<1>4. Watched(cs, set) = [c \in D |-> IF cs[c].pc \in {"sent", "answered"} THEN Seen(cs[c]) ELSE cs[c]]
  BY DEF Watched
<1> HIDE DEF Seen
<1> QED
  BY <1>1, <1>2, <1>3, <1>4

-----------------------------------------------------------------------------
(***************************************************************************)
(* The inductive invariant.  A step on the wire is the present one of its  *)
(* call and not carried out; and of a call UFM has carried out what its    *)
(* handler knows or, while no answer has come, perhaps one step more.      *)
(***************************************************************************)
Outstanding(c) == \E m \in wire : m.call = c

Untested(k) == k.given.op # "RunFabricValidationTest"

AsPlanned(k) ==
  /\ Sensible(k.asked) /\ k.given = Routed(k.asked) /\ k.plan = Steps(k.asked, k.given)
  /\ Len(k.did) <= Len(k.plan) /\ \A i \in 1..Len(k.did) : k.did[i] = k.plan[i]

Knows(k, out) ==
  /\ k.pc = "unmade" => ~out
  /\ k.pc = "sent" => Len(k.did) = k.step - 1
  /\ k.pc = "answered" => Len(k.did) \in {k.step - 1, k.step}
  /\ k.pc = "answered" /\ k.resp.got =>
       /\ ~out
       /\ Methods[k.plan[k.step].method].checked =>
            Len(k.did) = IF k.resp.status < 400 THEN k.step ELSE k.step - 1
  /\ k.pc = "replied" /\ k.status # BadGateway => ~out
  /\ k.pc = "replied" /\ Untested(k) =>
       /\ k.status < 400 => Len(k.did) = Len(k.plan)
       /\ k.status \in PassedOn /\ Len(k.plan) # 0 => Len(k.did) < Len(k.plan)

Sees(k) ==
  /\ k.pc \in {"unmade", "sent", "answered"} => k.seen \in {Waiting, NoAnswer}
  /\ k.pc = "replied" /\ k.status < 400 =>
       /\ k.status = Handlers[k.given.op].status
       /\ \/ k.seen = NoAnswer
          \/ \E shape \in ShapesOf(Handlers[k.given.op].shape) :
               k.seen = ParseResponse(k.asked.op, k.status, shape)

CallInv(k, out) == AsPlanned(k) /\ Knows(k, out) /\ Sees(k)

Fresh(m, k) == m.step = k.step /\ Len(k.did) = m.step - 1 /\ k.pc # "unmade"

FacadeInv ==
  /\ \A m \in wire : Fresh(m, calls[m.call])
  /\ \A c \in DOMAIN calls : CallInv(calls[c], Outstanding(c))

(* The invariant of a call speaks of what alike calls share.               *)
LEMMA AlikeInv ==
  ASSUME NEW k, NEW l, Alike(k, l), NEW out \in BOOLEAN, NEW still \in BOOLEAN, still => out,
         CallInv(l, out)
  PROVE  CallInv(k, still)
<1>1. AsPlanned(k)
  BY DEF Alike, CallInv, AsPlanned
<1>2. Knows(k, still)
  BY DEF Alike, CallInv, Knows, Untested
<1>3. Sees(k)
  BY DEF Alike, CallInv, Sees
<1> QED
  BY <1>1, <1>2, <1>3 DEF CallInv

Messages == [call : DOMAIN calls, step : Nat \ {0}]

(* A step that makes call c be like k and leaves the others as they are.   *)
Turns(c, k) ==
  /\ DOMAIN calls' = DOMAIN calls /\ calls' \in [DOMAIN calls -> Calls]
  /\ Alike(calls'[c], k)
  /\ \A d \in DOMAIN calls \ {c} : Alike(calls'[d], calls[d])

(* The invariant is kept if it holds of the call that turned.              *)
LEMMA TurnKeeps ==
  ASSUME TypeOK, FacadeInv, NEW c \in DOMAIN calls, NEW k \in Calls, Turns(c, k),
         exists' \subseteq Paths, wire' \subseteq Messages,
         \A m \in wire' : m.call # c => m \in wire,
         \A m \in wire' : m.call = c => Fresh(m, k) /\ m.step \in DOMAIN k.plan,
         InOrder(k), CallInv(k, \E m \in wire' : m.call = c)
  PROVE  TypeOK' /\ FacadeInv'
<1>1. DOMAIN calls' = DOMAIN calls /\ calls' \in [DOMAIN calls' -> Calls] /\ Alike(calls'[c], k)
  BY DEF Turns
<1>2. \A d \in DOMAIN calls : d # c => Alike(calls'[d], calls[d])
  BY DEF Turns
<1>3. wire' \subseteq [call : DOMAIN calls', step : Nat \ {0}]
  BY <1>1 DEF Messages
<1>4. ASSUME NEW m \in wire'
      PROVE  /\ m.step \in 1..calls'[m.call].step /\ m.step \in DOMAIN calls'[m.call].plan
             /\ Fresh(m, calls'[m.call])
  <2>1. PICK d : d = m.call
    OBVIOUS
  <2>2. m.step \in Nat \ {0} /\ d \in DOMAIN calls
    BY <2>1 DEF Messages
  <2>3. CASE d = c
    <3>1. Fresh(m, k) /\ m.step \in DOMAIN k.plan
      BY <2>1, <2>3
    <3>2. Fresh(m, calls'[d]) /\ m.step \in DOMAIN calls'[d].plan
      BY <1>1, <2>3, <3>1 DEF Fresh, Alike
    <3> QED
      BY <2>1, <2>2, <3>2 DEF Fresh
  <2>4. CASE d # c
    <3>1. m \in wire
      BY <2>1, <2>4
    <3>2. Fresh(m, calls[d]) /\ m.step \in DOMAIN calls[d].plan
      BY <2>1, <3>1 DEF FacadeInv, TypeOK
    <3>3. Fresh(m, calls'[d]) /\ m.step \in DOMAIN calls'[d].plan
      BY <1>2, <2>2, <2>4, <3>2 DEF Fresh, Alike
    <3> QED
      BY <2>1, <2>2, <3>3 DEF Fresh
  <2> QED
    BY <2>3, <2>4
<1>5. ASSUME NEW d \in DOMAIN calls
      PROVE  InOrder(calls'[d]) /\ CallInv(calls'[d], Outstanding(d)')
  <2>1. CASE d = c
    <3>1. InOrder(calls'[d])
      BY <1>1, <2>1 DEF InOrder, Alike
    <3>2. PICK out \in BOOLEAN : out = \E m \in wire' : m.call = c
      OBVIOUS
    <3>3. Outstanding(d)' = out
      BY <2>1, <3>2 DEF Outstanding
    <3>4. CallInv(calls'[d], out)
      BY <1>1, <2>1, <3>2, AlikeInv
    <3> QED
      BY <3>1, <3>3, <3>4
  <2>2. CASE d # c
    <3>1. Alike(calls'[d], calls[d]) /\ InOrder(calls[d]) /\ CallInv(calls[d], Outstanding(d))
      BY <1>2, <2>2 DEF TypeOK, FacadeInv
    <3>2. InOrder(calls'[d])
      BY <3>1 DEF InOrder, Alike
    <3>3. PICK out \in BOOLEAN : out = Outstanding(d)
      BY DEF Outstanding
    <3>4. PICK still \in BOOLEAN : still = Outstanding(d)'
      BY DEF Outstanding
    <3>5. still => out
      BY <2>2, <3>3, <3>4 DEF Outstanding
    <3>6. CallInv(calls'[d], still)
      BY <3>1, <3>3, <3>5, AlikeInv
    <3> QED
      BY <3>2, <3>4, <3>6
  <2> QED
    BY <2>1, <2>2
<1>6. TypeOK'
  BY <1>1, <1>3, <1>4, <1>5 DEF TypeOK
<1>7. FacadeInv'
  BY <1>1, <1>4, <1>5 DEF FacadeInv
<1> QED
  BY <1>6, <1>7

-----------------------------------------------------------------------------
(***************************************************************************)
(* The beginning.                                                          *)
(***************************************************************************)
(* What a caller may hold, and what it holds while it waits.               *)
LEMMA FieldNames ==
  /\ \A seen \in {Waiting, NoAnswer, GoError, "nothing", "typed", "default"} : seen \in Fields
  /\ \A seen \in {NoAnswer, GoError, "nothing", "typed", "default"} : seen # Waiting
  /\ \A seen \in {Waiting, GoError, "nothing", "typed", "default"} : seen # NoAnswer
BY DEF Fields, Waiting, NoAnswer, GoError

(* A call that is not made.                                                *)
LEMMA UnmadeCall ==
  ASSUME NEW asked, Sensible(asked)
  PROVE  Unmade(asked) \in Calls /\ InOrder(Unmade(asked)) /\ CallInv(Unmade(asked), FALSE)
<1>1. PICK given : given = Routed(asked)
  OBVIOUS
<1>2. PICK plan : plan = Steps(asked, given)
  OBVIOUS
<1>3. PICK k : k = [asked |-> asked, given |-> given, plan |-> plan, pc |-> "unmade", step |-> 1,
                    resp |-> Silence, did |-> <<>>, status |-> 0, seen |-> Waiting,
                    there |-> {}, missing |-> {}]
  OBVIOUS
<1>4. k = Unmade(asked)
  BY <1>1, <1>2, <1>3 DEF Unmade
<1>5. asked \in Request /\ given \in Givens /\ plan \in Seq(PlanSteps)
  <2>1. asked \in Request
    BY DEF Sensible
  <2>2. given \in Givens
    BY <1>1, <2>1, GivenType
  <2>3. plan \in Seq(PlanSteps)
    BY <1>1, <1>2, StepsType
  <2> QED
    BY <2>1, <2>2, <2>3
<1>6. Silence \in Responses /\ Waiting \in Fields
  <2>1. Silence \in Responses
    BY DEF Silence, Responses
  <2>2. Waiting \in Fields
    BY FieldNames
  <2> QED
    BY <2>1, <2>2
<1>7. k \in Calls
  BY <1>3, <1>5, <1>6 DEF Calls
<1>8. InOrder(k)
  BY <1>3 DEF InOrder
<1>9. AsPlanned(k)
  <2>1. Len(plan) \in Nat /\ Len(<<>>) = 0
    BY <1>5, LenProperties
  <2> QED
    BY <1>1, <1>2, <1>3, <2>1 DEF AsPlanned
<1>10. Knows(k, FALSE) /\ Sees(k)
  BY <1>3 DEF Knows, Sees
<1> QED
  BY <1>4, <1>7, <1>8, <1>9, <1>10 DEF CallInv

(* The invariant holds at first.                                           *)
LEMMA InvInit == Init => TypeOK /\ FacadeInv
<1> SUFFICES ASSUME Init
             PROVE  TypeOK /\ FacadeInv
  OBVIOUS
<1>1. exists \subseteq Paths /\ wire = {}
  BY InitialAssumption DEF Init
<1>2. PICK script \in Scripts : calls = [c \in DOMAIN script |-> Unmade(script[c])]
  BY DEF Init
<1>3. \A c \in DOMAIN script : Sensible(script[c])
  <2>1. script \in Seq(Request)
    BY ScriptsAssumption
  <2>2. \A c \in DOMAIN script : script[c] \in Request
    BY <2>1, ElementOfSeq, LenProperties
  <2> QED
    BY <2>2, ScriptsAssumption DEF Sensible
<1>4. \A c \in DOMAIN calls : calls[c] \in Calls /\ InOrder(calls[c]) /\ CallInv(calls[c], FALSE)
  BY <1>2, <1>3, UnmadeCall
<1>5. calls \in [DOMAIN calls -> Calls]
  BY <1>2, <1>4
<1>6. \A c \in DOMAIN calls : Outstanding(c) = FALSE
  BY <1>1 DEF Outstanding
<1> QED
  BY <1>1, <1>4, <1>5, <1>6 DEF TypeOK, FacadeInv

-----------------------------------------------------------------------------
(***************************************************************************)
(* The steps of a handler and its caller.                                  *)
(***************************************************************************)
LEMMA TurnPlain ==
  ASSUME TypeOK, NEW c \in DOMAIN calls, NEW k \in Calls, calls' = [calls EXCEPT ![c] = k]
  PROVE  Turns(c, k)
BY DEF Turns, TypeOK, Alike

(* A step that sets one call and has all calls see what UFM has.           *)
LEMMA TurnWatched ==
  ASSUME TypeOK, NEW c \in DOMAIN calls, NEW k \in Calls, NEW set,
         calls' = Watched([calls EXCEPT ![c] = k], set)
  PROVE  Turns(c, k)
<1>1. PICK cs : cs = [calls EXCEPT ![c] = k]
  OBVIOUS
<1>2. cs \in [DOMAIN calls -> Calls] /\ cs[c] = k /\ \A d \in DOMAIN calls \ {c} : cs[d] = calls[d]
  BY <1>1 DEF TypeOK
<1>3. calls' \in [DOMAIN calls -> Calls] /\ \A d \in DOMAIN calls : Alike(calls'[d], cs[d])
  BY <1>1, <1>2, WatchedCalls
<1> QED
  BY <1>2, <1>3 DEF Turns

(* A step that sends nothing.                                              *)
LEMMA QuietTurn ==
  ASSUME TypeOK, FacadeInv, NEW c \in DOMAIN calls, NEW k \in Calls, calls' = [calls EXCEPT ![c] = k],
         wire' = wire, exists' = exists, k.pc # "unmade",
         k.step = calls[c].step, k.did = calls[c].did, k.plan = calls[c].plan,
         InOrder(k), CallInv(k, Outstanding(c))
  PROVE  TypeOK' /\ FacadeInv'
<1>1. Turns(c, k)
  BY TurnPlain
<1>2. exists' \subseteq Paths /\ wire' \subseteq Messages /\ \A m \in wire' : m \in wire
  BY DEF TypeOK, Messages
<1>3. \A m \in wire' : m.call = c => Fresh(m, k) /\ m.step \in DOMAIN k.plan
  <2>1. \A m \in wire : m.call = c => Fresh(m, calls[c]) /\ m.step \in DOMAIN calls[c].plan
    BY DEF FacadeInv, TypeOK
  <2> QED
    BY <2>1 DEF Fresh
<1>4. CallInv(k, \E m \in wire' : m.call = c)
  BY DEF Outstanding
<1> QED
  BY <1>1, <1>2, <1>3, <1>4, TurnKeeps

(* A call is made: its first step is sent, of which nothing is done.       *)
LEMMA CallKeeps ==
  ASSUME TypeOK, FacadeInv, NEW c \in DOMAIN calls, Call(c)
  PROVE  TypeOK' /\ FacadeInv'
<1>1. PICK l \in Calls : l = calls[c]
  BY DEF TypeOK
<1>2. InOrder(l) /\ CallInv(l, Outstanding(c)) /\ l.pc = "unmade" /\ l.plan # <<>>
  BY <1>1 DEF TypeOK, FacadeInv, Call
<1>3. PICK k : k = [l EXCEPT !.pc = "sent"]
  OBVIOUS
<1>4. /\ k \in Calls /\ k.pc = "sent" /\ k.asked = l.asked /\ k.given = l.given /\ k.plan = l.plan
      /\ k.step = l.step /\ k.did = l.did /\ k.status = l.status /\ k.seen = l.seen
  BY <1>3 DEF Calls
<1>5. PICK new : new = [call |-> c, step |-> 1]
  OBVIOUS
<1>6. /\ calls' = Watched([calls EXCEPT ![c] = k], exists)
      /\ wire' = wire \cup {new} /\ exists' = exists
  BY <1>1, <1>3, <1>5 DEF Call
<1>7. l.step = 1 /\ l.did = <<>> /\ l.status = 0 /\ l.seen = Waiting /\ ~Outstanding(c)
  BY <1>2 DEF InOrder, CallInv, Knows
<1>8. 1 \in DOMAIN l.plan /\ Len(<<>>) = 0
  BY <1>2 DEF Calls
<1>9. Turns(c, k)
  BY <1>4, <1>6, TurnWatched
<1>10. exists' \subseteq Paths /\ wire' \subseteq Messages
  BY <1>5, <1>6 DEF TypeOK, Messages
<1>11. /\ \A m \in wire' : m.call # c => m \in wire
       /\ \A m \in wire' : m.call = c => Fresh(m, k) /\ m.step \in DOMAIN k.plan
  BY <1>4, <1>5, <1>6, <1>7, <1>8 DEF Outstanding, Fresh
<1>12. InOrder(k)
  BY <1>4, <1>7, <1>8 DEF InOrder
<1>13. AsPlanned(k) /\ Sees(k)
  BY <1>2, <1>4, <1>7 DEF CallInv, AsPlanned, Sees
<1>14. \A out \in BOOLEAN : Knows(k, out)
  BY <1>4, <1>7, <1>8 DEF Knows
<1>15. CallInv(k, \E m \in wire' : m.call = c)
  BY <1>13, <1>14 DEF CallInv
<1> QED
  BY <1>4, <1>9, <1>10, <1>11, <1>12, <1>15, TurnKeeps

(* A reply.  The caller that waits is given what the client reads.         *)
LEMMA ReadIsType ==
  ASSUME NEW op, NEW status, NEW shape
  PROVE  /\ ParseResponse(op, status, shape) \in Fields
         /\ ParseResponse(op, status, shape) # Waiting
         /\ ParseResponse(op, status, shape) # NoAnswer
<1>1. ParseResponse(op, status, shape) \in {"nothing", GoError, "typed", "default"}
  <2>1. CASE shape = "none"
    BY <2>1 DEF ParseResponse, Objects
  <2>2. CASE shape # "none" /\ ParseResponse(op, status, shape) # GoError
    <3>1. ParseResponse(op, status, shape) = IF status \in Readers[op].statuses THEN "typed" ELSE "default"
      BY <2>2 DEF ParseResponse
    <3> QED
      BY <3>1
  <2> QED
    BY <2>1, <2>2
<1> QED
  BY <1>1, FieldNames

(* A reply ends the call and changes no more than what the caller sees.    *)
LEMMA RepliedFields ==
  ASSUME NEW l \in Calls, NEW status \in Nat, NEW shape
  PROVE  /\ Replied(l, status, shape) \in Calls
         /\ LET k == Replied(l, status, shape)
            IN /\ k.asked = l.asked /\ k.given = l.given /\ k.plan = l.plan /\ k.step = l.step
               /\ k.resp = l.resp /\ k.did = l.did /\ k.pc = "replied" /\ k.status = status
               /\ k.seen # Waiting
               /\ k.seen = l.seen \/ k.seen = ParseResponse(l.asked.op, status, shape)
<1>1. PICK seen : seen = IF l.seen = Waiting THEN ParseResponse(l.asked.op, status, shape) ELSE l.seen
  OBVIOUS
<1>2. Replied(l, status, shape) = [l EXCEPT !.pc = "replied", !.status = status, !.seen = seen]
  BY <1>1 DEF Replied
<1>3. seen \in Fields /\ seen # Waiting
  <2>1. l.seen \in Fields
    BY DEF Calls
  <2> QED
    BY <1>1, <2>1, ReadIsType
<1>4. seen = l.seen \/ seen = ParseResponse(l.asked.op, status, shape)
  BY <1>1
<1> QED
  BY <1>2, <1>3, <1>4 DEF Calls

(* A handler may give a reply that goes with what it knows.                *)
LEMMA ReplyKeeps ==
  ASSUME TypeOK, FacadeInv, NEW c \in DOMAIN calls, calls[c].pc \in {"unmade", "answered"},
         NEW status \in Nat \ {0}, NEW shape,
         calls' = [calls EXCEPT ![c] = Replied(calls[c], status, shape)],
         wire' = wire, exists' = exists,
         status # BadGateway => ~Outstanding(c),
         status < 400 => /\ status = Handlers[calls[c].given.op].status
                         /\ shape \in ShapesOf(Handlers[calls[c].given.op].shape),
         Untested(calls[c]) =>
           /\ status < 400 => Len(calls[c].did) = Len(calls[c].plan)
           /\ status \in PassedOn /\ Len(calls[c].plan) # 0 => Len(calls[c].did) < Len(calls[c].plan)
  PROVE  TypeOK' /\ FacadeInv'
<1>1. PICK l \in Calls : l = calls[c]
  BY DEF TypeOK
<1>2. InOrder(l) /\ AsPlanned(l) /\ Sees(l)
  BY <1>1 DEF TypeOK, FacadeInv, CallInv
<1>3. PICK k : k = Replied(l, status, shape)
  OBVIOUS
<1>4. /\ k \in Calls /\ k.asked = l.asked /\ k.given = l.given /\ k.plan = l.plan /\ k.step = l.step
      /\ k.resp = l.resp /\ k.did = l.did /\ k.pc = "replied" /\ k.status = status
      /\ k.seen # Waiting
      /\ k.seen = l.seen \/ k.seen = ParseResponse(l.asked.op, status, shape)
  BY <1>3, RepliedFields
<1>5. l.seen \in {Waiting, NoAnswer}
  BY <1>1, <1>2 DEF Sees
<1>6. InOrder(k)
  BY <1>2, <1>4 DEF InOrder
<1>7. AsPlanned(k)
  BY <1>2, <1>4 DEF AsPlanned
<1>8. Knows(k, Outstanding(c))
  <2>1. PICK out \in BOOLEAN : out = Outstanding(c)
    BY DEF Outstanding
  <2>2. status # BadGateway => ~out
    BY <2>1
  <2>3. Untested(k) =>
          /\ status < 400 => Len(k.did) = Len(k.plan)
          /\ status \in PassedOn /\ Len(k.plan) # 0 => Len(k.did) < Len(k.plan)
    BY <1>1, <1>4 DEF Untested
  <2>4. Knows(k, out)
    BY <1>4, <2>2, <2>3 DEF Knows
  <2> QED
    BY <2>1, <2>4
<1>9. Sees(k)
  <2>1. PICK h : h = Handlers[l.given.op]
    OBVIOUS
  <2>2. status < 400 => status = h.status /\ shape \in ShapesOf(h.shape)
    BY <1>1, <2>1
  <2>3. k.seen = NoAnswer \/ k.seen = ParseResponse(k.asked.op, k.status, shape)
    BY <1>4, <1>5
  <2> QED
    BY <1>4, <2>1, <2>2, <2>3 DEF Sees
<1>10. calls' = [calls EXCEPT ![c] = k]
  BY <1>1, <1>3
<1>11. CallInv(k, Outstanding(c))
  BY <1>7, <1>8, <1>9 DEF CallInv
<1>12. k.pc # "unmade" /\ k.step = calls[c].step /\ k.did = calls[c].did /\ k.plan = calls[c].plan
  BY <1>1, <1>4
<1> QED
  BY <1>4, <1>6, <1>10, <1>11, <1>12, QuietTurn

(* A refused call has done nothing, and 400 says so.                       *)
LEMMA CallRefusedKeeps ==
  ASSUME TypeOK, FacadeInv, NEW c \in DOMAIN calls, CallRefused(c)
  PROVE  TypeOK' /\ FacadeInv'
<1>1. PICK l \in Calls : l = calls[c]
  BY DEF TypeOK
<1>2. InOrder(l) /\ CallInv(l, Outstanding(c)) /\ l.pc = "unmade"
  BY <1>1 DEF TypeOK, FacadeInv, CallRefused
<1>3. l.did = <<>> /\ ~Outstanding(c)
  BY <1>2 DEF InOrder, CallInv, Knows
<1>4. Len(l.did) = 0 /\ Len(l.plan) \in Nat
  BY <1>3 DEF Calls
<1>5. calls' = [calls EXCEPT ![c] = Replied(calls[c], BadRequest, "error")] /\ wire' = wire /\ exists' = exists
  BY DEF CallRefused
<1>6. PICK status : status = BadRequest
  OBVIOUS
<1>7. status \in Nat \ {0} /\ ~(status < 400)
  BY <1>6 DEF BadRequest
<1>8. calls' = [calls EXCEPT ![c] = Replied(calls[c], status, "error")]
  BY <1>5, <1>6
<1>9. Len(calls[c].plan) # 0 => Len(calls[c].did) < Len(calls[c].plan)
  BY <1>1, <1>4
<1> QED
  BY <1>1, <1>2, <1>3, <1>5, <1>7, <1>8, <1>9, ReplyKeeps

(* A handler without a plan has done all of it.                            *)
LEMMA CallNothingKeeps ==
  ASSUME TypeOK, FacadeInv, NEW c \in DOMAIN calls, CallNothing(c)
  PROVE  TypeOK' /\ FacadeInv'
<1>1. PICK l \in Calls : l = calls[c]
  BY DEF TypeOK
<1>2. InOrder(l) /\ CallInv(l, Outstanding(c)) /\ l.pc = "unmade" /\ l.plan = <<>>
  BY <1>1 DEF TypeOK, FacadeInv, CallNothing
<1>3. l.did = <<>> /\ ~Outstanding(c)
  BY <1>2 DEF InOrder, CallInv, Knows
<1>4. Len(l.did) = 0 /\ Len(l.plan) = 0
  BY <1>2, <1>3
<1>5. PICK h : h = Handlers[l.given.op]
  OBVIOUS
<1>6. PICK status \in Nat \ {0} : status = h.status /\ status < 400
  <2>1. l.given.op \in Operations
    BY DEF Calls, Givens
  <2> QED
    <3>1. h.status \in 200..299
      BY <1>5, <2>1, HandlersAssumption
    <3> QED
      BY <3>1
<1>7. PICK shape : shape = h.shape
  OBVIOUS
<1>8. shape \in ShapesOf(shape)
  <2>1. PICK asked : asked = l.asked
    OBVIOUS
  <2>2. l.given = Routed(asked) /\ Sensible(asked) /\ l.plan = Steps(asked, Routed(asked))
    BY <1>2, <2>1 DEF CallInv, AsPlanned
  <2>3. PICK plan \in PlanSet : plan = PlanOf(asked)
    BY <2>2, PlanType
  <2>4. Len(plan) = 0
    BY <1>4, <2>2, <2>3, StepsType
  <2>5. plan = <<>>
    BY <2>4, EmptySeq DEF PlanSet
  <2>6. Routed(asked).op \in Operations
    <3>1. asked \in Request
      BY <2>2 DEF Sensible
    <3> QED
      BY <3>1, HandlerOfRequest
  <2>7. shape # "any"
    <3>1. PICK op \in Operations : op = Routed(asked).op
      BY <2>6
    <3>2. Handlers[op].shape = "any" => \A n \in DOMAIN Handlers[op].plans : Handlers[op].plans[n] # <<>>
      BY <3>1, ReadersAssumption, Zenon
    <3> QED
      BY <1>5, <1>7, <2>2, <2>3, <2>5, <3>1, <3>2, PlanOfHandler
  <2> QED
    BY <2>7 DEF ShapesOf
<1>9. calls' = [calls EXCEPT ![c] = Replied(calls[c], status, shape)] /\ wire' = wire /\ exists' = exists
  BY <1>1, <1>5, <1>6, <1>7 DEF CallNothing
<1> QED
  BY <1>1, <1>2, <1>3, <1>4, <1>5, <1>6, <1>7, <1>8, <1>9, ReplyKeeps

(* The error value of a step tells what has come back.                     *)
LEMMA ErrorFacts ==
  ASSUME NEW l \in Calls
  PROVE  /\ ErrorOf(l) = NoError =>
              l.resp.got /\ (Methods[l.plan[l.step].method].checked => l.resp.status < 400)
         /\ ErrorOf(l) # NoError =>
              /\ handleUFMError(ErrorOf(l)) \in PassedOn \cup {BadGateway}
              /\ handleUFMError(ErrorOf(l)) # BadGateway =>
                   l.resp.got /\ (Methods[l.plan[l.step].method].checked => l.resp.status >= 400)
<1>1. PICK m : m = Methods[l.plan[l.step].method]
  OBVIOUS
<1>2. PICK resp \in Responses : resp = l.resp
  BY DEF Calls
<1>3. resp.status \in Nat
  BY DEF Responses
<1>4. PICK err : err = ErrorOf(l)
  OBVIOUS
<1>5. /\ m.checked => err = do(resp, m.wants)
      /\ ~m.checked /\ ~resp.got => err = OtherError
      /\ ~m.checked /\ resp.got => err \in {APIError(409), NoError}
  BY <1>1, <1>2, <1>4 DEF ErrorOf
<1>6. /\ OtherError # NoError /\ handleUFMError(OtherError) = BadGateway
      /\ \A status : APIError(status) # NoError
      /\ \A status : handleUFMError(APIError(status)) \in {status, BadGateway}
      /\ \A status : handleUFMError(APIError(status)) \in PassedOn \cup {BadGateway}
  BY DEF OtherError, NoError, APIError, handleUFMError
<1>7. CASE ~resp.got
  <2>1. do(resp, m.wants) = OtherError
    BY <1>7 DEF do
  <2>2. err = OtherError
    BY <1>5, <1>7, <2>1
  <2> QED
    BY <1>4, <1>6, <2>2
<1>8. CASE resp.got /\ ~m.checked
  <2>1. err \in {APIError(409), NoError}
    BY <1>5, <1>8
  <2> QED
    BY <1>1, <1>2, <1>4, <1>6, <1>8, <2>1
<1>9. CASE resp.got /\ m.checked
  <2>1. err = do(resp, m.wants)
    BY <1>5, <1>9
  <2>2. CASE resp.status >= 400
    <3>1. err = APIError(resp.status)
      BY <1>9, <2>1, <2>2 DEF do
    <3> QED
      BY <1>1, <1>2, <1>4, <1>6, <1>9, <2>2, <3>1
  <2>3. CASE resp.status < 400
    <3>1. ~(resp.status >= 400)
      BY <1>3, <2>3
    <3>2. err \in {OtherError, NoError}
      BY <1>9, <2>1, <3>1 DEF do
    <3> QED
      BY <1>1, <1>2, <1>4, <1>6, <1>9, <2>3, <3>2
  <2> QED
    BY <1>3, <2>2, <2>3
<1> QED
  BY <1>7, <1>8, <1>9

(* Only the last step of a validation test lets errors pass.               *)
LEMMA StepChecked ==
  ASSUME NEW l, AsPlanned(l), NEW k \in DOMAIN l.plan
  PROVE  Methods[l.plan[k].method].checked \/ (~Untested(l) /\ k = Len(l.plan))
<1>1. PICK asked : asked = l.asked
  OBVIOUS
<1>2. Sensible(asked) /\ l.given = Routed(asked) /\ l.plan = Steps(asked, Routed(asked))
  BY <1>1 DEF AsPlanned
<1>3. PICK plan : plan = PlanOf(asked)
  OBVIOUS
<1>4. /\ k \in DOMAIN plan /\ Len(l.plan) = Len(plan)
      /\ l.plan[k].method = plan[k].method
  BY <1>2, <1>3, StepsType
<1>5. Methods[plan[k].method].checked \/ (Routed(asked).op = "RunFabricValidationTest" /\ k = Len(plan))
  BY <1>2, <1>3, <1>4, PlanType
<1> QED
  BY <1>2, <1>4, <1>5 DEF Untested

(* A handler that was answered knows how far UFM has come.                 *)
LEMMA AnswerTells ==
  ASSUME TypeOK, FacadeInv, NEW c \in DOMAIN calls, calls[c].pc = "answered", calls[c].resp.got
  PROVE  /\ ~Outstanding(c)
         /\ calls[c].step \in DOMAIN calls[c].plan
         /\ Methods[calls[c].plan[calls[c].step].method].checked =>
              Len(calls[c].did) = IF calls[c].resp.status < 400 THEN calls[c].step ELSE calls[c].step - 1
<1>1. InOrder(calls[c]) /\ Knows(calls[c], Outstanding(c))
  BY DEF TypeOK, FacadeInv, CallInv
<1>2. calls[c].step \in DOMAIN calls[c].plan
  BY <1>1 DEF InOrder
<1>3. PICK out \in BOOLEAN : out = Outstanding(c)
  BY DEF Outstanding
<1>4. /\ ~out
      /\ Methods[calls[c].plan[calls[c].step].method].checked =>
           Len(calls[c].did) = IF calls[c].resp.status < 400 THEN calls[c].step ELSE calls[c].step - 1
  BY <1>1, <1>3 DEF Knows
<1> QED
  BY <1>2, <1>3, <1>4

(* The numbers of a call.                                                  *)
LEMMA CallLengths ==
  ASSUME TypeOK, NEW c \in DOMAIN calls
  PROVE  /\ calls[c] \in Calls /\ InOrder(calls[c])
         /\ calls[c].step \in Nat \ {0} /\ Len(calls[c].plan) \in Nat /\ Len(calls[c].did) \in Nat
         /\ DOMAIN calls[c].plan = 1..Len(calls[c].plan) /\ calls[c].resp.status \in Nat
<1>1. PICK l \in Calls : l = calls[c]
  BY DEF TypeOK
<1>2. InOrder(l)
  BY <1>1 DEF TypeOK
<1>3. l.plan \in Seq(PlanSteps) /\ l.did \in Seq(PlanSteps) /\ l.resp \in Responses
  BY DEF Calls
<1>4. l.step \in Nat \ {0} /\ l.resp.status \in Nat
  BY <1>2, <1>3 DEF InOrder, Responses
<1> QED
  BY <1>1, <1>2, <1>3, <1>4, LenProperties

(* A handler replies with success after its last step, and with what went  *)
(* wrong in a step that was not carried out or of which it knows nothing.  *)
LEMMA ReplyStepKeeps ==
  ASSUME TypeOK, FacadeInv, NEW c \in DOMAIN calls, Reply(c)
  PROVE  TypeOK' /\ FacadeInv'
<1>1. PICK l \in Calls : l = calls[c]
  BY CallLengths
<1>2. InOrder(l) /\ AsPlanned(l) /\ l.pc = "answered"
  BY <1>1 DEF TypeOK, FacadeInv, CallInv, Reply
<1>3. PICK m : m = Methods[l.plan[l.step].method]
  OBVIOUS
<1>4. /\ l.resp.got => ~Outstanding(c)
      /\ l.resp.got /\ m.checked =>
           Len(l.did) = IF l.resp.status < 400 THEN l.step ELSE l.step - 1
  BY <1>1, <1>2, <1>3, AnswerTells
<1>5. /\ l.step \in 1..Len(l.plan) /\ Len(l.plan) \in Nat /\ Len(l.did) \in Nat /\ l.resp.status \in Nat
      /\ l.step \in DOMAIN l.plan
  BY <1>1, <1>2, CallLengths DEF InOrder
<1>6. Untested(l) => m.checked
  BY <1>2, <1>3, <1>5, StepChecked
<1>7. wire' = wire /\ exists' = exists
  BY DEF Reply
<1>8. CASE ErrorOf(l) # NoError
  <2>1. PICK status : status = handleUFMError(ErrorOf(l))
    OBVIOUS
  <2>2. /\ status \in PassedOn \cup {BadGateway}
        /\ status # BadGateway => l.resp.got /\ (m.checked => l.resp.status >= 400)
    BY <1>3, <1>8, <2>1, ErrorFacts
  <2>3. status \in Nat \ {0} /\ ~(status < 400) /\ (status \in PassedOn => status # BadGateway)
    BY <2>2 DEF PassedOn, BadGateway
  <2>4. calls' = [calls EXCEPT ![c] = Replied(calls[c], status, "error")]
    BY <1>1, <1>8, <2>1 DEF Reply
  <2>5. status # BadGateway => ~Outstanding(c)
    BY <1>4, <2>2
  <2>6. Untested(l) /\ status \in PassedOn => Len(l.did) < Len(l.plan)
    BY <1>4, <1>5, <1>6, <2>2, <2>3
  <2> QED
    BY <1>1, <1>2, <1>7, <2>3, <2>4, <2>5, <2>6, ReplyKeeps
<1>9. CASE ErrorOf(l) = NoError
  <2>1. PICK h : h = Handlers[l.given.op]
    OBVIOUS
  <2>2. l.step = Len(l.plan)
    BY <1>1, <1>9 DEF Reply
  <2>3. PICK shape \in ShapesOf(h.shape) : calls' = [calls EXCEPT ![c] = Replied(calls[c], h.status, shape)]
    BY <1>1, <1>9, <2>1 DEF Reply
  <2>4. PICK status \in 200..299 : status = h.status
    <3>1. l.given.op \in Operations
      BY DEF Calls, Givens
    <3>2. h.status \in 200..299
      BY <2>1, <3>1, HandlersAssumption
    <3> QED
      BY <3>2
  <2>5. status \in Nat \ {0} /\ status < 400 /\ status \notin PassedOn
    BY DEF PassedOn
  <2>6. l.resp.got /\ (m.checked => l.resp.status < 400)
    BY <1>3, <1>9, ErrorFacts
  <2>7. ~Outstanding(c)
    BY <1>4, <2>6
  <2>8. Untested(l) => Len(l.did) = Len(l.plan)
    BY <1>4, <1>6, <2>2, <2>6
  <2> QED
    BY <1>1, <1>2, <1>7, <2>1, <2>3, <2>4, <2>5, <2>7, <2>8, ReplyKeeps
<1> QED
  BY <1>8, <1>9

(* A handler that gives up knows nothing of its last step.                 *)
LEMMA GiveUpKeeps ==
  ASSUME TypeOK, FacadeInv, NEW c \in DOMAIN calls, GiveUp(c)
  PROVE  TypeOK' /\ FacadeInv'
<1>1. PICK l \in Calls : l = calls[c]
  BY CallLengths
<1>2. InOrder(l) /\ CallInv(l, Outstanding(c)) /\ l.pc = "sent"
  BY <1>1 DEF TypeOK, FacadeInv, GiveUp
<1>3. PICK k : k = [l EXCEPT !.pc = "answered", !.resp = Silence]
  OBVIOUS
<1>4. Silence \in Responses /\ ~Silence.got
  BY DEF Silence, Responses
<1>5. /\ k \in Calls /\ k.pc = "answered" /\ k.resp = Silence /\ k.asked = l.asked /\ k.given = l.given
      /\ k.plan = l.plan /\ k.step = l.step /\ k.did = l.did /\ k.status = l.status /\ k.seen = l.seen
  BY <1>3, <1>4 DEF Calls
<1>6. calls' = [calls EXCEPT ![c] = k] /\ wire' = wire /\ exists' = exists
  BY <1>1, <1>3 DEF GiveUp
<1>7. InOrder(k)
  BY <1>2, <1>5 DEF InOrder
<1>8. AsPlanned(k) /\ Sees(k)
  BY <1>2, <1>5 DEF CallInv, AsPlanned, Sees
<1>9. Len(k.did) = k.step - 1 /\ ~k.resp.got
  BY <1>2, <1>4, <1>5 DEF CallInv, Knows
<1>10. \A out \in BOOLEAN : Knows(k, out)
  BY <1>5, <1>9 DEF Knows
<1>11. CallInv(k, Outstanding(c))
  BY <1>8, <1>10 DEF CallInv, Outstanding
<1> QED
  BY <1>1, <1>5, <1>6, <1>7, <1>11, QuietTurn

(* A caller that leaves changes nothing for the handler.                   *)
LEMMA AbandonKeeps ==
  ASSUME TypeOK, FacadeInv, NEW c \in DOMAIN calls, Abandon(c)
  PROVE  TypeOK' /\ FacadeInv'
<1>1. PICK l \in Calls : l = calls[c]
  BY CallLengths
<1>2. InOrder(l) /\ CallInv(l, Outstanding(c)) /\ l.pc \in {"sent", "answered"}
  BY <1>1 DEF TypeOK, FacadeInv, Abandon
<1>3. PICK k : k = [l EXCEPT !.seen = NoAnswer]
  OBVIOUS
<1>4. NoAnswer \in Fields
  BY FieldNames
<1>5. /\ k \in Calls /\ k.pc = l.pc /\ k.resp = l.resp /\ k.asked = l.asked /\ k.given = l.given
      /\ k.plan = l.plan /\ k.step = l.step /\ k.did = l.did /\ k.status = l.status /\ k.seen = NoAnswer
  BY <1>3, <1>4 DEF Calls
<1>6. calls' = [calls EXCEPT ![c] = k] /\ wire' = wire /\ exists' = exists
  BY <1>1, <1>3 DEF Abandon
<1>7. InOrder(k)
  BY <1>2, <1>5 DEF InOrder
<1>8. AsPlanned(k)
  BY <1>2, <1>5 DEF CallInv, AsPlanned
<1>9. Sees(k)
  BY <1>2, <1>5 DEF Sees
<1>10. Knows(k, Outstanding(c))
  <2>1. PICK out \in BOOLEAN : out = Outstanding(c)
    BY DEF Outstanding
  <2>2. Knows(l, out)
    BY <1>2, <2>1 DEF CallInv
  <2>3. Knows(k, out)
    BY <1>2, <1>5, <2>2 DEF Knows, Untested
  <2> QED
    BY <2>1, <2>3
<1>11. CallInv(k, Outstanding(c))
  BY <1>8, <1>9, <1>10 DEF CallInv
<1>12. k.pc # "unmade"
  BY <1>2, <1>5
<1> QED
  BY <1>1, <1>5, <1>6, <1>7, <1>11, <1>12, QuietTurn

(* A handler goes on after a step it knows was carried out.                *)
LEMMA ContinueKeeps ==
  ASSUME TypeOK, FacadeInv, NEW c \in DOMAIN calls, Continue(c)
  PROVE  TypeOK' /\ FacadeInv'
<1>1. PICK l \in Calls : l = calls[c]
  BY CallLengths
<1>2. InOrder(l) /\ AsPlanned(l) /\ Sees(l) /\ l.pc = "answered" /\ ErrorOf(l) = NoError /\ l.step < Len(l.plan)
  BY <1>1 DEF TypeOK, FacadeInv, CallInv, Continue
<1>3. PICK m : m = Methods[l.plan[l.step].method]
  OBVIOUS
<1>4. /\ l.step \in 1..Len(l.plan) /\ Len(l.plan) \in Nat /\ Len(l.did) \in Nat /\ l.step \in Nat \ {0}
      /\ l.step \in DOMAIN l.plan /\ l.step + 1 \in DOMAIN l.plan
  BY <1>1, <1>2, CallLengths DEF InOrder
<1>5. m.checked
  BY <1>2, <1>3, <1>4, StepChecked
<1>6. l.resp.got /\ l.resp.status < 400
  BY <1>2, <1>3, <1>5, ErrorFacts
<1>7. ~Outstanding(c) /\ Len(l.did) = l.step
  BY <1>1, <1>2, <1>3, <1>5, <1>6, AnswerTells
<1>8. PICK k : k = [l EXCEPT !.pc = "sent", !.step = l.step + 1]
  OBVIOUS
<1>9. /\ k \in Calls /\ k.pc = "sent" /\ k.asked = l.asked /\ k.given = l.given
      /\ k.plan = l.plan /\ k.step = l.step + 1 /\ k.did = l.did /\ k.status = l.status /\ k.seen = l.seen
  <2>1. PICK next \in Nat : next = l.step + 1
    BY <1>4
  <2>2. k = [l EXCEPT !.pc = "sent", !.step = next]
    BY <1>8, <2>1
  <2> QED
    BY <2>1, <2>2 DEF Calls
<1>10. PICK new : new = [call |-> c, step |-> l.step + 1]
  OBVIOUS
<1>11. calls' = [calls EXCEPT ![c] = k] /\ wire' = wire \cup {new} /\ exists' = exists
  BY <1>1, <1>8, <1>10 DEF Continue
<1>12. Turns(c, k)
  BY <1>9, <1>11, TurnPlain
<1>13. exists' \subseteq Paths /\ wire' \subseteq Messages
  BY <1>4, <1>10, <1>11 DEF TypeOK, Messages
<1>14. Fresh(new, k) /\ new.step \in DOMAIN k.plan
  BY <1>4, <1>7, <1>9, <1>10 DEF Fresh
<1>15. /\ \A n \in wire' : n.call # c => n \in wire
       /\ \A n \in wire' : n.call = c => Fresh(n, k) /\ n.step \in DOMAIN k.plan
  BY <1>7, <1>10, <1>11, <1>14 DEF Outstanding
<1>16. InOrder(k)
  BY <1>2, <1>4, <1>9 DEF InOrder
<1>17. AsPlanned(k) /\ Sees(k)
  BY <1>2, <1>9 DEF AsPlanned, Sees
<1>18. \A out \in BOOLEAN : Knows(k, out)
  BY <1>4, <1>7, <1>9 DEF Knows
<1>19. CallInv(k, \E n \in wire' : n.call = c)
  BY <1>17, <1>18 DEF CallInv
<1> QED
  BY <1>9, <1>12, <1>13, <1>15, <1>16, <1>19, TurnKeeps

(* A facade that stops loses its calls and leaves the wire alone.          *)
LEMMA RestartKeeps ==
  ASSUME TypeOK, FacadeInv, Restart
  PROVE  TypeOK' /\ FacadeInv'
<1> DEFINE Lost(l) == [l EXCEPT !.pc = "lost", !.seen = NoAnswer]
<1>1. /\ DOMAIN calls' = DOMAIN calls /\ wire' = wire /\ exists' = exists
      /\ \A c \in DOMAIN calls :
           calls'[c] = IF calls[c].pc \in {"sent", "answered"} THEN Lost(calls[c]) ELSE calls[c]
      /\ calls' = [c \in DOMAIN calls |->
                     IF calls[c].pc \in {"sent", "answered"} THEN Lost(calls[c]) ELSE calls[c]]
  BY DEF Restart
<1>2. NoAnswer \in Fields /\ NoAnswer # Waiting
  BY FieldNames
<1>3. ASSUME NEW c \in DOMAIN calls
      PROVE  /\ calls'[c] \in Calls /\ InOrder(calls'[c]) /\ CallInv(calls'[c], Outstanding(c))
             /\ calls'[c].plan = calls[c].plan /\ calls'[c].step = calls[c].step
             /\ calls'[c].did = calls[c].did /\ (calls'[c].pc = "unmade" => calls[c].pc = "unmade")
  <2>1. PICK l \in Calls : l = calls[c] /\ InOrder(l) /\ CallInv(l, Outstanding(c))
    BY CallLengths DEF FacadeInv
  <2>2. CASE l.pc \notin {"sent", "answered"}
    <3>1. calls'[c] = l
      BY <1>1, <2>1, <2>2
    <3> QED
      BY <2>1, <3>1
  <2>3. CASE l.pc \in {"sent", "answered"}
    <3>1. PICK k : k = Lost(l)
      OBVIOUS
    <3>2. calls'[c] = k
      BY <1>1, <2>1, <2>3, <3>1
    <3>3. /\ k \in Calls /\ k.pc = "lost" /\ k.asked = l.asked /\ k.given = l.given /\ k.resp = l.resp
          /\ k.plan = l.plan /\ k.step = l.step /\ k.did = l.did /\ k.status = l.status /\ k.seen = NoAnswer
      BY <1>2, <3>1 DEF Calls
    <3> HIDE DEF Lost
    <3>4. InOrder(k)
      BY <1>2, <2>1, <2>3, <3>3 DEF InOrder
    <3>5. AsPlanned(k) /\ Sees(k)
      BY <2>1, <3>3 DEF CallInv, AsPlanned, Sees
    <3>6. \A out \in BOOLEAN : Knows(k, out)
      BY <3>3 DEF Knows
    <3>7. CallInv(k, Outstanding(c))
      BY <3>5, <3>6 DEF CallInv, Outstanding
    <3> QED
      BY <2>1, <3>2, <3>3, <3>4, <3>7
  <2> QED
    BY <2>2, <2>3
<1> HIDE DEF Lost
<1>4. calls' \in [DOMAIN calls' -> Calls]
  BY <1>1, <1>3
<1>5. ASSUME NEW m \in wire
      PROVE  /\ m.call \in DOMAIN calls /\ m \in [call : DOMAIN calls, step : Nat \ {0}]
             /\ m.step \in 1..calls'[m.call].step /\ m.step \in DOMAIN calls'[m.call].plan
             /\ Fresh(m, calls'[m.call])
  <2>1. m \in [call : DOMAIN calls, step : Nat \ {0}] /\ m.step \in 1..calls[m.call].step
        /\ m.step \in DOMAIN calls[m.call].plan /\ Fresh(m, calls[m.call])
    BY DEF TypeOK, FacadeInv
  <2>2. PICK c \in DOMAIN calls : c = m.call
    BY <2>1
  <2> QED
    BY <1>3, <2>1, <2>2 DEF Fresh
<1>6. \A c \in DOMAIN calls' : InOrder(calls'[c]) /\ CallInv(calls'[c], Outstanding(c)')
  BY <1>1, <1>3 DEF Outstanding
<1>7. exists' \subseteq Paths /\ wire' \subseteq [call : DOMAIN calls', step : Nat \ {0}]
  BY <1>1, <1>5 DEF TypeOK
<1>8. TypeOK'
  BY <1>1, <1>4, <1>5, <1>6, <1>7 DEF TypeOK
<1>9. FacadeInv'
  BY <1>1, <1>5, <1>6 DEF FacadeInv
<1> QED
  BY <1>8, <1>9

-----------------------------------------------------------------------------
(***************************************************************************)
(* The steps of UFM and the wire.                                          *)
(***************************************************************************)
LEMMA MessageFacts ==
  ASSUME TypeOK, FacadeInv, NEW m \in wire
  PROVE  /\ m.call \in DOMAIN calls /\ m.step \in DOMAIN calls[m.call].plan
         /\ StepOf(m) = calls[m.call].plan[m.step] /\ StepOf(m) \in PlanSteps
         /\ Fresh(m, calls[m.call]) /\ Outstanding(m.call)
         /\ \A n \in wire : n.call = m.call => n = m
<1>1. \A n \in wire : n \in [call : DOMAIN calls, step : Nat \ {0}] /\ Fresh(n, calls[n.call])
  BY DEF TypeOK, FacadeInv
<1>2. m.step \in DOMAIN calls[m.call].plan /\ m.call \in DOMAIN calls
  BY <1>1 DEF TypeOK
<1>3. calls[m.call].plan \in Seq(PlanSteps)
  BY <1>2 DEF TypeOK, Calls
<1>4. calls[m.call].plan[m.step] \in PlanSteps
  BY <1>2, <1>3, ElementOfSeq, LenProperties
<1>5. \A n \in wire : n.call = m.call => n = m
  BY <1>1 DEF Fresh
<1> QED
  BY <1>1, <1>2, <1>4, <1>5 DEF StepOf, Outstanding

(* A step that takes m off the wire and makes its call be like k.          *)
LEMMA TakenKeeps ==
  ASSUME TypeOK, FacadeInv, NEW m \in wire, NEW k \in Calls, Turns(m.call, k),
         wire' = wire \ {m}, exists' \subseteq Paths,
         InOrder(k), CallInv(k, FALSE)
  PROVE  TypeOK' /\ FacadeInv'
<1>1. PICK c \in DOMAIN calls : c = m.call
  BY MessageFacts
<1>2. \A n \in wire' : n \in wire /\ n.call # c
  BY <1>1, MessageFacts
<1>3. wire' \subseteq Messages
  BY <1>2 DEF TypeOK, Messages
<1>4. (\E n \in wire' : n.call = c) = FALSE
  BY <1>2
<1> QED
  BY <1>1, <1>2, <1>3, <1>4, TurnKeeps

(* What UFM has are paths.                                                 *)
LEMMA EffectType ==
  ASSUME TypeOK, NEW m, StepOf(m) \in PlanSteps, NEW set \in Effect(m)
  PROVE  set \subseteq Paths
<1>1. PICK on \in Paths : on = StepOf(m).on
  BY DEF PlanSteps
<1>2. exists \subseteq Paths
  BY DEF TypeOK
<1>3. \A n \in Names : Filled(on, [p \in {A1} |-> n]) \in Paths
  BY <1>1, FilledType
<1>4. \/ set = exists \cup {on}
      \/ set = {path \in exists : ~IsPrefix(on, path)}
      \/ set = exists
      \/ \E path \in {Filled(on, [p \in {A1} |-> n]) : n \in Names} : set = exists \cup {path}
  <2>1. PICK effect : effect = MethodOf(m).effect
    OBVIOUS
  <2>2. CASE effect \in {"create", "put"}
    BY <1>1, <2>1, <2>2 DEF Effect
  <2>3. CASE effect = "start"
    BY <1>1, <2>1, <2>3 DEF Effect
  <2>4. CASE effect = "delete"
    BY <1>1, <2>1, <2>4 DEF Effect
  <2>5. CASE effect \notin {"create", "put", "start", "delete"}
    BY <1>1, <2>1, <2>5 DEF Effect
  <2> QED
    BY <2>2, <2>3, <2>4, <2>5
<1> QED
  BY <1>1, <1>2, <1>3, <1>4

(* What the answer makes of a call, and what the call is besides.          *)
Heard(l, step, resp) ==
  IF l.pc = "sent" /\ l.step = step THEN [l EXCEPT !.pc = "answered", !.resp = resp] ELSE l

(* To hear of an answer changes what the handler knows, and no more.       *)
LEMMA HeardFields ==
  ASSUME NEW l \in Calls, NEW resp \in Responses
  PROVE  LET k == Heard(l, l.step, resp)
         IN /\ k \in Calls /\ k.asked = l.asked /\ k.given = l.given /\ k.plan = l.plan /\ k.step = l.step
            /\ k.did = l.did /\ k.status = l.status /\ k.seen = l.seen
            /\ l.pc = "sent" => k.pc = "answered" /\ k.resp = resp
            /\ l.pc # "sent" => k.pc = l.pc /\ k.resp = l.resp
<1>1. CASE l.pc = "sent"
  BY <1>1 DEF Heard, Calls
<1>2. CASE l.pc # "sent"
  BY <1>2 DEF Heard
<1> QED
  BY <1>1, <1>2

(* An answer is heard by the call it is for.                               *)
LEMMA DeliveredIs ==
  ASSUME TypeOK, NEW m, NEW c \in DOMAIN calls, c = m.call, NEW resp
  PROVE  Delivered(m, resp) = [calls EXCEPT ![c] = Heard(calls[c], m.step, resp)]
<1>1. CASE calls[c].pc = "sent" /\ calls[c].step = m.step
  BY <1>1 DEF Delivered, Heard, TypeOK
<1>2. CASE ~(calls[c].pc = "sent" /\ calls[c].step = m.step)
  BY <1>2 DEF Delivered, Heard, TypeOK
<1> QED
  BY <1>1, <1>2

(* The responses of UFM.                                                   *)
LEMMA ResponseType ==
  ASSUME NEW status \in Nat
  PROVE  /\ Response(status) \in Responses /\ Response(status).got /\ Response(status).status = status
         /\ Unreadable(status) \in Responses /\ Unreadable(status).got /\ Unreadable(status).status = status
<1>1. PICK yes \in BOOLEAN : yes = TRUE
  OBVIOUS
<1>2. PICK no \in BOOLEAN : no = FALSE
  OBVIOUS
<1>3. PICK answer : answer = [got |-> yes, status |-> status, decodes |-> yes]
  OBVIOUS
<1>4. PICK garbled : garbled = [got |-> yes, status |-> status, decodes |-> no]
  OBVIOUS
<1>5. Response(status) = answer /\ Unreadable(status) = garbled
  BY <1>1, <1>2, <1>3, <1>4 DEF Response, Unreadable
<1>6. answer \in Responses /\ garbled \in Responses
  BY <1>3, <1>4 DEF Responses
<1>7. answer.got = yes /\ garbled.got = yes /\ answer.status = status /\ garbled.status = status
  BY <1>3, <1>4
<1> QED
  BY <1>1, <1>5, <1>6, <1>7

(* UFM answers an error for what it has not carried out.                   *)
LEMMA UfmAnswersKeeps ==
  ASSUME TypeOK, FacadeInv, NEW m \in wire, NEW status \in Nat, status >= 400, UfmAnswers(m, status)
  PROVE  TypeOK' /\ FacadeInv'
<1>1. PICK c \in DOMAIN calls : c = m.call
  BY MessageFacts
<1>2. PICK l \in Calls : l = calls[c]
  BY CallLengths
<1>3. InOrder(l) /\ AsPlanned(l) /\ Sees(l) /\ Knows(l, Outstanding(c)) /\ Outstanding(c)
      /\ m.step = l.step /\ Len(l.did) = l.step - 1 /\ l.pc # "unmade" /\ l.step \in DOMAIN l.plan
  BY <1>1, <1>2, MessageFacts DEF TypeOK, FacadeInv, CallInv, Fresh
<1>4. PICK resp \in Responses : resp = Response(status) /\ resp.got /\ resp.status = status
  BY ResponseType
<1>5. PICK k : k = Heard(l, l.step, resp)
  OBVIOUS
<1>6. /\ k \in Calls /\ k.asked = l.asked /\ k.given = l.given /\ k.plan = l.plan /\ k.step = l.step
      /\ k.did = l.did /\ k.status = l.status /\ k.seen = l.seen
      /\ l.pc = "sent" => k.pc = "answered" /\ k.resp = resp
      /\ l.pc # "sent" => k.pc = l.pc /\ k.resp = l.resp
  BY <1>5, HeardFields
<1>7. calls' = [calls EXCEPT ![c] = k] /\ wire' = wire \ {m} /\ exists' = exists
  BY <1>1, <1>2, <1>3, <1>4, <1>5, DeliveredIs DEF UfmAnswers
<1>8. Turns(m.call, k)
  BY <1>1, <1>6, <1>7, TurnPlain
<1>9. InOrder(k)
  BY <1>3, <1>6 DEF InOrder
<1>10. AsPlanned(k)
  BY <1>3, <1>6 DEF AsPlanned
<1>11. Sees(k)
  BY <1>3, <1>6 DEF Sees
<1>12. Knows(k, FALSE)
  <2>1. CASE l.pc = "sent"
    BY <1>3, <1>4, <1>6, <2>1 DEF Knows
  <2>2. CASE l.pc # "sent"
    <3>1. PICK out \in BOOLEAN : out = Outstanding(c)
      BY DEF Outstanding
    <3>2. Knows(l, out)
      BY <1>3, <3>1
    <3> QED
      BY <1>3, <1>6, <2>2, <3>2 DEF Knows, Untested
  <2> QED
    BY <2>1, <2>2
<1>13. CallInv(k, FALSE)
  BY <1>10, <1>11, <1>12 DEF CallInv
<1>14. exists' \subseteq Paths
  BY <1>7 DEF TypeOK
<1> QED
  BY <1>6, <1>7, <1>8, <1>9, <1>13, <1>14, TakenKeeps

(* What is lost on the wire is not carried out.                            *)
LEMMA WireLosesKeeps ==
  ASSUME TypeOK, FacadeInv, NEW m \in wire, WireLoses(m)
  PROVE  TypeOK' /\ FacadeInv'
<1>1. PICK c \in DOMAIN calls : c = m.call
  BY MessageFacts
<1>2. PICK l \in Calls : l = calls[c]
  BY CallLengths
<1>3. InOrder(l) /\ CallInv(l, Outstanding(c)) /\ Alike(l, l)
  BY <1>1, <1>2 DEF TypeOK, FacadeInv, Alike
<1>4. calls' = [calls EXCEPT ![c] = l] /\ wire' = wire \ {m} /\ exists' = exists
  BY <1>1, <1>2 DEF WireLoses, TypeOK
<1>5. Turns(m.call, l)
  BY <1>1, <1>4, TurnPlain
<1>6. PICK out \in BOOLEAN : out = Outstanding(c)
  BY DEF Outstanding
<1>7. CallInv(l, FALSE)
  <2>1. CallInv(l, out)
    BY <1>3, <1>6
  <2>2. PICK still \in BOOLEAN : still = FALSE
    OBVIOUS
  <2>3. CallInv(l, still)
    BY <1>3, <2>1, <2>2, AlikeInv
  <2> QED
    BY <2>2, <2>3
<1>8. exists' \subseteq Paths
  BY <1>4 DEF TypeOK
<1> QED
  BY <1>3, <1>4, <1>5, <1>7, <1>8, TakenKeeps

(* What UFM carries out is added to what it has done for the call.         *)
LEMMA UfmDoesTurns ==
  ASSUME TypeOK, FacadeInv, NEW m \in wire, UfmDoes(m)
  PROVE  \E k \in Calls : Turns(m.call, k) /\ InOrder(k) /\ CallInv(k, FALSE)
<1>1. PICK c \in DOMAIN calls : c = m.call
  BY MessageFacts
<1>2. PICK l \in Calls : l = calls[c]
  BY CallLengths
<1>3. InOrder(l) /\ AsPlanned(l) /\ Sees(l) /\ Knows(l, Outstanding(c)) /\ Outstanding(c)
      /\ m.step = l.step /\ Len(l.did) = l.step - 1 /\ l.pc # "unmade" /\ l.step \in DOMAIN l.plan
      /\ StepOf(m) = l.plan[l.step] /\ StepOf(m) \in PlanSteps
  BY <1>1, <1>2, MessageFacts DEF TypeOK, FacadeInv, CallInv, Fresh
<1>4. PICK resp \in {Response(200), Unreadable(200)} :
        calls' = Watched([Delivered(m, resp) EXCEPT ![m.call].did = Append(@, StepOf(m))], exists')
  <2>1. PICK resps : resps = IF MethodOf(m).wants THEN {Unreadable(200)} ELSE {}
    OBVIOUS
  <2>2. PICK resp \in {Response(200)} \cup resps :
          calls' = Watched([Delivered(m, resp) EXCEPT ![m.call].did = Append(@, StepOf(m))], exists')
    BY <2>1, Zenon DEF UfmDoes
  <2>3. resps \subseteq {Unreadable(200)}
    BY <2>1
  <2> QED
    BY <2>2, <2>3, Zenon
<1>5. resp \in Responses /\ resp.got /\ resp.status < 400
  <2>1. 200 \in Nat /\ 200 < 400
    OBVIOUS
  <2> QED
    BY <1>4, <2>1, ResponseType
<1>6. PICK h : h = Heard(l, l.step, resp)
  OBVIOUS
<1>7. /\ h \in Calls /\ h.asked = l.asked /\ h.given = l.given /\ h.plan = l.plan /\ h.step = l.step
      /\ h.did = l.did /\ h.status = l.status /\ h.seen = l.seen
      /\ l.pc = "sent" => h.pc = "answered" /\ h.resp = resp
      /\ l.pc # "sent" => h.pc = l.pc /\ h.resp = l.resp
  BY <1>5, <1>6, HeardFields
<1>8. PICK did : did = Append(l.did, StepOf(m))
  OBVIOUS
<1>9. /\ did \in Seq(PlanSteps) /\ Len(did) = l.step
      /\ \A i \in 1..l.step : did[i] = IF i = l.step THEN l.plan[i] ELSE l.did[i]
  <2>1. l.did \in Seq(PlanSteps) /\ l.step \in Nat
    BY DEF Calls
  <2> QED
    BY <1>3, <1>8, <2>1, AppendProperties
<1>10. PICK k : k = [h EXCEPT !.did = did]
  OBVIOUS
<1>11. /\ k \in Calls /\ k.asked = l.asked /\ k.given = l.given /\ k.plan = l.plan /\ k.step = l.step
       /\ k.did = did /\ k.status = l.status /\ k.seen = l.seen
       /\ l.pc = "sent" => k.pc = "answered" /\ k.resp = resp
       /\ l.pc # "sent" => k.pc = l.pc /\ k.resp = l.resp
  BY <1>7, <1>9, <1>10 DEF Calls
<1>12. [Delivered(m, resp) EXCEPT ![m.call].did = Append(@, StepOf(m))] = [calls EXCEPT ![c] = k]
  <2>1. Delivered(m, resp) = [calls EXCEPT ![c] = h]
    BY <1>1, <1>2, <1>3, <1>6, DeliveredIs
  <2>2. [calls EXCEPT ![c] = h][c].did = l.did
    BY <1>7
  <2> QED
    BY <1>1, <1>8, <1>10, <2>1, <2>2
<1>13. Turns(m.call, k)
  BY <1>1, <1>4, <1>11, <1>12, TurnWatched
<1>14. InOrder(k)
  BY <1>3, <1>11 DEF InOrder
<1>15. AsPlanned(k)
  <2>1. l.step <= Len(l.plan) /\ l.step \in Nat \ {0}
    BY <1>1, <1>2, <1>3, CallLengths
  <2>2. \A i \in 1..Len(l.did) : l.did[i] = l.plan[i]
    BY <1>3 DEF AsPlanned
  <2>3. \A i \in 1..l.step : did[i] = l.plan[i]
    BY <1>3, <1>9, <2>1, <2>2
  <2> QED
    BY <1>3, <1>9, <1>11, <2>1, <2>3 DEF AsPlanned
<1>16. Sees(k)
  BY <1>3, <1>11 DEF Sees
<1>17. Knows(k, FALSE)
  <2>1. CASE l.pc = "sent"
    BY <1>5, <1>9, <1>11, <2>1 DEF Knows
  <2>2. CASE l.pc = "answered"
    <3>1. ~l.resp.got
      <4>1. PICK out \in BOOLEAN : out = Outstanding(c)
        BY DEF Outstanding
      <4> QED
        BY <1>3, <2>2, <4>1 DEF Knows
    <3> QED
      BY <1>9, <1>11, <2>2, <3>1 DEF Knows
  <2>3. CASE l.pc = "replied"
    <3>1. l.status = BadGateway
      <4>1. PICK out \in BOOLEAN : out = Outstanding(c)
        BY DEF Outstanding
      <4> QED
        BY <1>3, <2>3, <4>1 DEF Knows
    <3> QED
      BY <1>11, <2>3, <3>1 DEF Knows, BadGateway, PassedOn
  <2>4. CASE l.pc = "lost"
    BY <1>11, <2>4 DEF Knows
  <2> QED
    BY <1>3, <2>1, <2>2, <2>3, <2>4 DEF Calls
<1>18. CallInv(k, FALSE)
  BY <1>15, <1>16, <1>17 DEF CallInv
<1> QED
  BY <1>11, <1>13, <1>14, <1>18

(* UFM carries out a step of the wire, and the handler may hear of it.     *)
LEMMA UfmDoesKeeps ==
  ASSUME TypeOK, FacadeInv, NEW m \in wire, UfmDoes(m)
  PROVE  TypeOK' /\ FacadeInv'
<1>1. PICK k \in Calls : Turns(m.call, k) /\ InOrder(k) /\ CallInv(k, FALSE)
  BY UfmDoesTurns
<1>2. StepOf(m) \in PlanSteps
  BY MessageFacts
<1>3. exists' \subseteq Paths /\ wire' = wire \ {m}
  BY <1>2, EffectType DEF UfmDoes
<1> QED
  BY <1>1, <1>3, TakenKeeps

-----------------------------------------------------------------------------
(***************************************************************************)
(* The theorems.                                                           *)
(***************************************************************************)
LEMMA InvStep ==
  TypeOK /\ FacadeInv /\ [Next]_vars => TypeOK' /\ FacadeInv'
<1> SUFFICES ASSUME TypeOK, FacadeInv, [Next]_vars
             PROVE  TypeOK' /\ FacadeInv'
  OBVIOUS
<1>1. ASSUME NEW c \in DOMAIN calls,
             Call(c) \/ CallRefused(c) \/ CallNothing(c) \/ GiveUp(c) \/ Continue(c) \/ Reply(c) \/ Abandon(c)
      PROVE  TypeOK' /\ FacadeInv'
  BY <1>1, CallKeeps, CallRefusedKeeps, CallNothingKeeps, GiveUpKeeps, ContinueKeeps, ReplyStepKeeps, AbandonKeeps
<1>2. ASSUME NEW m \in wire, NEW status \in Nat, status >= 400, UfmAnswers(m, status)
      PROVE  TypeOK' /\ FacadeInv'
  BY <1>2, UfmAnswersKeeps
<1>3. ASSUME NEW m \in wire, UfmFindsNothing(m) \/ UfmFindsItThere(m) \/ UfmIsBusy(m)
      PROVE  TypeOK' /\ FacadeInv'
  <2>1. UfmAnswers(m, 404) \/ UfmAnswers(m, 409)
    BY <1>3 DEF UfmFindsNothing, UfmFindsItThere, UfmIsBusy
  <2> QED
    BY <1>2, <2>1
<1>4. ASSUME NEW m \in wire, UfmRefuses(m)
      PROVE  TypeOK' /\ FacadeInv'
  <2>1. PICK status \in Refusals : UfmAnswers(m, status)
    BY <1>4 DEF UfmRefuses
  <2>2. status \in Nat /\ status >= 400
    BY RefusalsAssumption
  <2> QED
    BY <1>2, <2>1, <2>2
<1>5. ASSUME NEW m \in wire, UfmDoes(m)
      PROVE  TypeOK' /\ FacadeInv'
  BY <1>5, UfmDoesKeeps
<1>6. ASSUME NEW m \in wire, WireLoses(m)
      PROVE  TypeOK' /\ FacadeInv'
  BY <1>6, WireLosesKeeps
<1>7. CASE Restart
  BY <1>7, RestartKeeps
<1>8. CASE UNCHANGED vars
  BY <1>8 DEF vars, TypeOK, FacadeInv, Outstanding
<1> QED
  BY <1>1, <1>3, <1>4, <1>5, <1>6, <1>7, <1>8 DEF Next

(* Values keep their kinds, and what is on the wire is a step of a call    *)
(* that got that far.                                                      *)
THEOREM TypeCorrect == Spec => []TypeOK
<1>1. Init => TypeOK /\ FacadeInv
  BY InvInit
<1>2. TypeOK /\ FacadeInv /\ [Next]_vars => (TypeOK /\ FacadeInv)'
  BY InvStep
<1> QED
  BY <1>1, <1>2, PTL DEF Spec

(* The inductive invariant: a step that is on the wire is the present one  *)
(* of its call and was not carried out, and of a call UFM has carried out  *)
(* the beginning of its plan that its handler knows of, or one step more   *)
(* while no answer to that has come.                                       *)
THEOREM FacadeInvCorrect == Spec => [](TypeOK /\ FacadeInv)
<1>1. Init => TypeOK /\ FacadeInv
  BY InvInit
<1>2. TypeOK /\ FacadeInv /\ [Next]_vars => (TypeOK /\ FacadeInv)'
  BY InvStep
<1> QED
  BY <1>1, <1>2, PTL DEF Spec

(* A request reaches the handler of its operation with the names and the   *)
(* query its caller gave, whatever the names of resources are: no name can *)
(* make the router take the path for one of another operation, but the     *)
(* system called power.                                                    *)
THEOREM ReachesCorrect == Spec => []ReachesItsHandler
<1>1. TypeOK /\ FacadeInv => ReachesItsHandler
  <2> SUFFICES ASSUME TypeOK, FacadeInv, NEW c \in DOMAIN calls
               PROVE  LET asked == calls[c].asked
                          given == calls[c].given
                      IN IF asked.op = "GetSystem" /\ asked.names[P1] = "power"
                         THEN given.op = "ListSystemsPower"
                         ELSE /\ given.op = asked.op
                              /\ given.names = [i \in DOMAIN given.names |-> asked.names[<<P1, P2>>[i]]]
                              /\ Len(given.names) = Cardinality(Range(Requests[asked.op].path) \cap Parameters)
                              /\ given.query = asked.query
                              /\ asked.op # "GetSystem" => given.query \subseteq Handlers[given.op].uses
    BY DEF ReachesItsHandler
  <2>1. PICK asked : asked = calls[c].asked
    OBVIOUS
  <2>2. PICK given : given = calls[c].given
    OBVIOUS
  <2>3. given = Routed(asked) /\ Sensible(asked) /\ asked \in Request /\ asked.query \subseteq Requests[asked.op].query
    BY <2>1, <2>2 DEF FacadeInv, CallInv, AsPlanned, Sensible
  <2>4. CASE AsksForPower(asked)
    BY <2>1, <2>2, <2>3, <2>4, HandlerOfRequest DEF AsksForPower
  <2>5. CASE ~AsksForPower(asked)
    <3>1. PICK takes : takes = Wrappers[asked.op]
      OBVIOUS
    <3>2. given.op = asked.op /\ asked.op \in Operations
      BY <2>3, <2>5, HandlerOfRequest
    <3>3. /\ takes.names \in Seq(Parameters)
          /\ Len(takes.names) = Cardinality(Range(Requests[asked.op].path) \cap Parameters)
          /\ asked.op # "GetSystem" => Requests[asked.op].query \subseteq Handlers[asked.op].uses
      BY <3>1, <3>2, RoutesAssumption
    <3>4. DOMAIN given.names = DOMAIN takes.names /\ given.names \in Seq(Names)
      BY <2>3, <3>1, <3>2, GivenType DEF Givens
    <3>5. given.names = [i \in DOMAIN given.names |-> asked.names[<<P1, P2>>[i]]]
      BY <2>3, <2>5, <3>1, <3>4, GivenAsAsked
    <3>6. Len(given.names) = Len(takes.names)
      BY <3>3, <3>4, LenProperties
    <3>7. given.query = asked.query
      BY <2>3, <2>5, GivenAsAsked
    <3> QED
      BY <2>1, <2>2, <2>3, <2>5, <3>2, <3>3, <3>5, <3>6, <3>7 DEF AsksForPower
  <2> QED
    BY <2>4, <2>5
<1> QED
  BY <1>1, FacadeInvCorrect, PTL

(* A success is answered only after the whole plan was carried out, and a  *)
(* refusal only if it was not.                                             *)
THEOREM SuccessIsDoneCorrect == Spec => []SuccessIsDone
<1>1. TypeOK /\ FacadeInv => SuccessIsDone
  <2> SUFFICES ASSUME TypeOK, FacadeInv, NEW c \in DOMAIN calls, calls[c].pc = "replied",
                      calls[c].asked.op # "RunFabricValidationTest"
               PROVE  /\ calls[c].status < 400 => calls[c].did = calls[c].plan
                      /\ calls[c].status \in PassedOn /\ calls[c].plan # <<>> => calls[c].did # calls[c].plan
    BY DEF SuccessIsDone
  <2>1. PICK l \in Calls : l = calls[c]
    BY CallLengths
  <2>2. Sensible(l.asked) /\ l.given = Routed(l.asked) /\ \A i \in 1..Len(l.did) : l.did[i] = l.plan[i]
    BY <2>1 DEF FacadeInv, CallInv, AsPlanned
  <2>3. Untested(l)
    <3>1. l.given.op \in {l.asked.op, "ListSystemsPower"}
      BY <2>2, HandlerOfRequest DEF Sensible
    <3> QED
      BY <2>1, <3>1 DEF Untested
  <2>4. /\ l.status < 400 => Len(l.did) = Len(l.plan)
        /\ l.status \in PassedOn /\ Len(l.plan) # 0 => Len(l.did) < Len(l.plan)
    BY <2>1, <2>3 DEF FacadeInv, CallInv, Knows
  <2>5. l.did \in Seq(PlanSteps) /\ l.plan \in Seq(PlanSteps)
    BY DEF Calls
  <2>6. ASSUME l.status < 400
        PROVE  l.did = l.plan
    BY <2>2, <2>4, <2>5, <2>6, SeqEqual
  <2>7. ASSUME l.status \in PassedOn, l.plan # <<>>
        PROVE  l.did # l.plan
    <3>1. Len(l.plan) # 0 /\ Len(l.plan) \in Nat
      BY <2>5, <2>7, EmptySeq, LenProperties
    <3> QED
      BY <2>4, <2>7, <3>1
  <2> QED
    BY <2>1, <2>6, <2>7
<1> QED
  BY <1>1, FacadeInvCorrect, PTL

(* What the client makes of the success of an operation.                   *)
LEMMA SuccessRead ==
  ASSUME NEW op \in Operations, NEW shape \in ShapesOf(Handlers[op].shape)
  PROVE  LET seen == ParseResponse(op, Handlers[op].status, shape)
         IN \/ seen = IF HasSuccessBody(op) THEN "typed" ELSE "nothing"
            \/ op \in SentWithoutBody /\ seen = "nothing"
            \/ op \in ReadAsErrors /\ seen = "default"
            \/ op \in PassedOnAsIs /\ seen = GoError
<1>1. PICK h : h = Handlers[op]
  OBVIOUS
<1>2. PICK r : r = Readers[op]
  OBVIOUS
<1>3. PICK seen : seen = ParseResponse(op, h.status, shape)
  OBVIOUS
<1>4. PICK bodied \in BOOLEAN : bodied = HasSuccessBody(op)
  BY DEF HasSuccessBody
<1>5. /\ h.shape \in {"none", "object", "page", "list", "any"}
      /\ op \in SentWithoutBody => h.shape = "none"
      /\ op \in ReadAsErrors => h.shape = "object" /\ h.status \notin r.statuses
      /\ op \in PassedOnAsIs <=> h.shape = "any"
      /\ op \notin SentWithoutBody \cup ReadAsErrors =>
           /\ bodied = (h.shape # "none")
           /\ h.shape # "none" => h.status \in r.statuses /\ r.list = (h.shape = "list")
  BY <1>1, <1>2, <1>4, ReadersAssumption
<1>6. IF h.shape = "any" THEN shape \in {"object", "list"} ELSE shape = h.shape
  BY <1>1, <1>5 DEF ShapesOf
<1>7. CASE h.shape = "none"
  <2>1. seen = "nothing"
    BY <1>3, <1>6, <1>7 DEF ParseResponse, Objects
  <2> QED
    BY <1>1, <1>3, <1>4, <1>5, <1>7, <2>1
<1>8. CASE op \in ReadAsErrors
  <2>1. seen = "default"
    BY <1>2, <1>3, <1>5, <1>6, <1>8 DEF ParseResponse, Objects
  <2> QED
    BY <1>1, <1>3, <1>8, <2>1
<1>9. CASE h.shape # "none" /\ op \notin ReadAsErrors
  <2>1. bodied /\ h.status \in r.statuses /\ r.list = (h.shape = "list")
    BY <1>5, <1>9
  <2>2. CASE h.shape = "any" /\ shape = "list"
    <3>1. seen = GoError
      BY <1>2, <1>3, <2>1, <2>2 DEF ParseResponse, Objects
    <3> QED
      BY <1>1, <1>3, <1>5, <2>2, <3>1
  <2>3. CASE h.shape # "any" \/ shape # "list"
    <3>1. shape \in {"object", "page", "list"} /\ (shape = "list") = (h.shape = "list")
      BY <1>5, <1>6, <1>9, <2>3
    <3>2. seen = "typed"
      BY <1>2, <1>3, <2>1, <3>1 DEF ParseResponse, Objects
    <3> QED
      BY <1>1, <1>3, <1>4, <2>1, <3>2
  <2> QED
    BY <2>2, <2>3
<1> QED
  BY <1>7, <1>8, <1>9

(* A caller that has the answer to a success finds its body in the field   *)
(* for its status where the document gives it one, and nowhere a body the  *)
(* document does not give it, with the exceptions the property names.      *)
THEOREM SuccessReadCorrect == Spec => []SuccessIsReadWhereKnown
<1>1. TypeOK /\ FacadeInv => SuccessIsReadWhereKnown
  <2> SUFFICES ASSUME TypeOK, FacadeInv, NEW c \in DOMAIN calls, calls[c].pc = "replied",
                      calls[c].status < 400, calls[c].asked.op = calls[c].given.op,
                      calls[c].seen # NoAnswer
               PROVE  LET op   == calls[c].given.op
                          seen == calls[c].seen
                      IN \/ seen = IF HasSuccessBody(op) THEN "typed" ELSE "nothing"
                         \/ op \in SentWithoutBody /\ seen = "nothing"
                         \/ op \in ReadAsErrors /\ seen = "default"
                         \/ op \in PassedOnAsIs /\ seen = GoError
    BY DEF SuccessIsReadWhereKnown
  <2>1. PICK l \in Calls : l = calls[c]
    BY CallLengths
  <2>2. PICK op \in Operations : op = l.given.op /\ op = l.asked.op
    BY <2>1 DEF Calls, Givens
  <2>3. \E shape \in ShapesOf(Handlers[op].shape) : l.seen = ParseResponse(op, Handlers[op].status, shape)
    BY <2>1, <2>2 DEF FacadeInv, CallInv, Sees
  <2> QED
    BY <2>1, <2>2, <2>3, SuccessRead
<1> QED
  BY <1>1, FacadeInvCorrect, PTL

-----------------------------------------------------------------------------
(* What UFM has done for a call grows only by a step that is on the wire.  *)
LEMMA TurnDoesNothing ==
  ASSUME TypeOK, NEW c \in DOMAIN calls, NEW d \in DOMAIN calls, NEW k, calls' = [calls EXCEPT ![c] = k],
         k.did = calls[c].did
  PROVE  calls'[d].did = calls[d].did
BY DEF TypeOK

(* Nothing is done for a call that has nothing on the wire.                *)
LEMMA OnlyTheWireDoes ==
  ASSUME TypeOK, FacadeInv, Next, NEW d \in DOMAIN calls, ~Outstanding(d)
  PROVE  calls'[d].did = calls[d].did
<1>1. ASSUME NEW c \in DOMAIN calls, CallRefused(c) \/ CallNothing(c) \/ Reply(c)
      PROVE  calls'[d].did = calls[d].did
  <2>1. PICK status, shape : calls' = [calls EXCEPT ![c] = Replied(calls[c], status, shape)]
    BY <1>1 DEF CallRefused, CallNothing, Reply
  <2>2. calls[c] \in Calls
    BY CallLengths
  <2>3. Replied(calls[c], status, shape).did = calls[c].did
    BY <2>2 DEF Replied, Calls
  <2> QED
    BY <2>1, <2>3, TurnDoesNothing
<1>2. ASSUME NEW c \in DOMAIN calls, GiveUp(c) \/ Continue(c) \/ Abandon(c)
      PROVE  calls'[d].did = calls[d].did
  <2>1. PICK l \in Calls : l = calls[c]
    BY CallLengths
  <2>2. CASE GiveUp(c)
    <3>1. calls' = [calls EXCEPT ![c] = [l EXCEPT !.pc = "answered", !.resp = Silence]]
      BY <2>1, <2>2 DEF GiveUp
    <3>2. [l EXCEPT !.pc = "answered", !.resp = Silence].did = l.did
      BY DEF Calls
    <3> QED
      BY <2>1, <3>1, <3>2, TurnDoesNothing
  <2>3. CASE Continue(c)
    <3>1. calls' = [calls EXCEPT ![c] = [l EXCEPT !.pc = "sent", !.step = l.step + 1]]
      BY <2>1, <2>3 DEF Continue
    <3>2. [l EXCEPT !.pc = "sent", !.step = l.step + 1].did = l.did
      BY DEF Calls
    <3> QED
      BY <2>1, <3>1, <3>2, TurnDoesNothing
  <2>4. CASE Abandon(c)
    <3>1. calls' = [calls EXCEPT ![c] = [l EXCEPT !.seen = NoAnswer]]
      BY <2>1, <2>4 DEF Abandon
    <3>2. [l EXCEPT !.seen = NoAnswer].did = l.did
      BY DEF Calls
    <3> QED
      BY <2>1, <3>1, <3>2, TurnDoesNothing
  <2> QED
    BY <1>2, <2>2, <2>3, <2>4
<1>3. ASSUME NEW c \in DOMAIN calls, Call(c)
      PROVE  calls'[d].did = calls[d].did
  <2>1. PICK l \in Calls : l = calls[c]
    BY CallLengths
  <2>2. PICK k \in Calls : k = [l EXCEPT !.pc = "sent"] /\ k.did = l.did
    <3>1. PICK k : k = [l EXCEPT !.pc = "sent"]
      OBVIOUS
    <3>2. k \in Calls /\ k.did = l.did
      BY <3>1 DEF Calls
    <3> QED
      BY <3>1, <3>2
  <2>3. calls' = Watched([calls EXCEPT ![c] = k], exists)
    BY <1>3, <2>1, <2>2 DEF Call
  <2>4. Turns(c, k)
    BY <2>3, TurnWatched
  <2> QED
    BY <2>1, <2>2, <2>4 DEF Turns, Alike
<1>4. ASSUME NEW m \in wire, NEW status, UfmAnswers(m, status)
      PROVE  calls'[d].did = calls[d].did
  <2>1. PICK c \in DOMAIN calls : c = m.call
    BY MessageFacts
  <2>2. d # c
    BY <2>1 DEF Outstanding
  <2>3. calls' = [calls EXCEPT ![c] = Heard(calls[c], m.step, Response(status))]
    BY <1>4, <2>1, DeliveredIs DEF UfmAnswers
  <2> QED
    BY <2>2, <2>3 DEF TypeOK
<1>5. ASSUME NEW m \in wire, UfmFindsNothing(m) \/ UfmFindsItThere(m) \/ UfmRefuses(m) \/ UfmIsBusy(m)
      PROVE  calls'[d].did = calls[d].did
  BY <1>4, <1>5 DEF UfmFindsNothing, UfmFindsItThere, UfmRefuses, UfmIsBusy
<1>6. ASSUME NEW m \in wire, UfmDoes(m)
      PROVE  calls'[d].did = calls[d].did
  <2>1. PICK c \in DOMAIN calls : c = m.call
    BY MessageFacts
  <2>2. d # c
    BY <2>1 DEF Outstanding
  <2>3. PICK k \in Calls : Turns(c, k)
    BY <1>6, <2>1, UfmDoesTurns
  <2> QED
    BY <2>2, <2>3 DEF Turns, Alike
<1>7. ASSUME NEW m \in wire, WireLoses(m)
      PROVE  calls'[d].did = calls[d].did
  BY <1>7 DEF WireLoses
<1>8. CASE Restart
  <2>1. calls'[d] = IF calls[d].pc \in {"sent", "answered"}
                    THEN [calls[d] EXCEPT !.pc = "lost", !.seen = NoAnswer] ELSE calls[d]
    BY <1>8 DEF Restart
  <2>2. calls[d] \in Calls
    BY CallLengths
  <2>3. [calls[d] EXCEPT !.pc = "lost", !.seen = NoAnswer].did = calls[d].did
    BY <2>2 DEF Calls
  <2> QED
    BY <2>1, <2>3
<1> QED
  BY <1>1, <1>2, <1>3, <1>5, <1>6, <1>7, <1>8 DEF Next

(* After an answer other than 502 nothing more is done for a call, however *)
(* late the requests are that were sent before it.                         *)
THEOREM AnswerFinalCorrect == Spec => AnswerIsFinal
<1>1. TypeOK /\ FacadeInv /\ [Next]_vars =>
        [\A c \in DOMAIN calls :
           calls[c].pc = "replied" /\ calls[c].status # BadGateway => calls'[c].did = calls[c].did]_vars
  <2> SUFFICES ASSUME TypeOK, FacadeInv, Next, NEW c \in DOMAIN calls,
                      calls[c].pc = "replied", calls[c].status # BadGateway
               PROVE  calls'[c].did = calls[c].did
    OBVIOUS
  <2>1. PICK out \in BOOLEAN : out = Outstanding(c)
    BY DEF Outstanding
  <2>2. ~out
    BY <2>1 DEF FacadeInv, CallInv, Knows
  <2> QED
    BY <2>1, <2>2, OnlyTheWireDoes
<1> QED
  BY <1>1, FacadeInvCorrect, PTL DEF Spec, AnswerIsFinal
====
