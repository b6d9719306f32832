------------------------ MODULE FacadeAnswers_proofs -------------------------
(***************************************************************************)
(* More theorems about Facade: that UFM acts on what the path of a request *)
(* names and on nothing a handler could not read; that what a status says  *)
(* of the resources was true at some moment of the call; and that things   *)
(* appear and disappear only where a call that was made says.              *)
(*                                                                         *)
(* Each step of a plan is shown to be about what the request names, from   *)
(* SubjectsAssumption, which speaks of the patterns of the tables.  What   *)
(* is true at some moment is carried from there to the answer by a second  *)
(* invariant, on top of that of Facade_proofs.                             *)
(***************************************************************************)
EXTENDS Facade_proofs

(* What a segment of a pattern stands for in a request.                    *)
Meant(asked, a) ==
  IF a \in Parameters THEN asked.names[a] ELSE IF a = Body THEN asked.named ELSE a

(* The values a handler gives for the arguments of its methods.            *)
Given(asked, a) ==
  CASE a = P1 -> Routed(asked).names[1] [] a = P2 -> Routed(asked).names[2] [] a = Body -> asked.named

(* The placeholders are different, and A1 and A2 are those of a path.      *)
LEMMA Placeholders == /\ P1 # P2 /\ Body \notin Parameters /\ A1 = P1 /\ A2 = P2
                      /\ \A a : a \in Parameters <=> a = P1 \/ a = P2
BY DEF P1, P2, A1, A2, Body, Parameters

(* The assumption, of the plan that is chosen.                             *)
LEMMA PlanSuits ==
  ASSUME NEW asked, Sensible(asked), NEW k \in DOMAIN PlanOf(asked)
  PROVE  Suits(Routed(asked).op, PlanOf(asked)[k])
<1>1. PICK op \in Operations : op = Routed(asked).op
  BY HandlerOfRequest DEF Sensible
<1>2. PICK n \in DOMAIN Handlers[op].plans : PlanOf(asked) = Handlers[op].plans[n]
  BY <1>1, PlanOfHandler
<1>3. \A j \in DOMAIN Handlers[op].plans[n] : Suits(op, Handlers[op].plans[n][j])
  BY SubjectsAssumption, Zenon
<1> QED
  BY <1>1, <1>2, <1>3

(* What a step of a plan is about, segment by segment.                     *)
LEMMA StepIs ==
  ASSUME NEW asked, Sensible(asked), NEW k \in DOMAIN PlanOf(asked)
  PROVE  LET s    == PlanOf(asked)[k]
             on   == Methods[s.method].on
             step == Steps(asked, Routed(asked))[k]
         IN /\ step.method = s.method /\ step.on \in Paths /\ on \in Paths
            /\ DOMAIN step.on = DOMAIN on /\ Len(step.on) = Len(on)
            /\ \A i \in DOMAIN on :
                 step.on[i] = IF on[i] = A1 /\ 1 \in DOMAIN s.args THEN Given(asked, s.args[1])
                              ELSE IF on[i] = A2 /\ 2 \in DOMAIN s.args THEN Given(asked, s.args[2])
                              ELSE on[i]
<1>1. PICK given : given = Routed(asked)
  OBVIOUS
<1>2. PICK plan : plan = PlanOf(asked)
  OBVIOUS
<1>3. PICK s : s = plan[k]
  OBVIOUS
<1>4. PICK on \in Paths : on = Methods[s.method].on
  BY <1>2, <1>3, PlanType
<1>5. PICK step : step = Steps(asked, given)[k]
  OBVIOUS
<1> DEFINE Value(a)   == CASE a = P1 -> given.names[1] [] a = P2 -> given.names[2] [] a = Body -> asked.named
           SlotsOf(x) == {<<A1, A2>>[i] : i \in DOMAIN x.args}
           FillOf(x)  == [p \in SlotsOf(x) |-> Value(x.args[IF p = A1 THEN 1 ELSE 2])]
           Slots      == SlotsOf(s)
           Fill       == FillOf(s)
<1>6. step = [method |-> s.method, on |-> Filled(on, Fill)]
  <2>1. Steps(asked, given) =
          [j \in DOMAIN plan |-> [method |-> plan[j].method,
                                  on |-> Filled(Methods[plan[j].method].on, FillOf(plan[j]))]]
    BY <1>1, <1>2 DEF Steps, PlanOf
  <2> HIDE DEF FillOf
  <2>2. step = [method |-> plan[k].method, on |-> Filled(Methods[plan[k].method].on, FillOf(plan[k]))]
    BY <1>2, <1>5, <2>1
  <2> QED
    BY <1>3, <1>4, <2>2
<1>7. \A a : Value(a) = Given(asked, a)
  BY <1>1 DEF Given
<1>8. DOMAIN s.args \subseteq 1..2
  <2>1. Len(s.args) \in 0..2
    BY <1>2, <1>3, PlanType
  <2>2. s \in [method : DOMAIN Methods, args : Seq({P1, P2, Body})]
    <3>1. plan \in PlanSet
      BY <1>2, PlanType
    <3>2. k \in 1..Len(plan)
      BY <1>2, <3>1, LenProperties DEF PlanSet
    <3> QED
      BY <1>3, <3>1, <3>2, ElementOfSeq DEF PlanSet
  <2>3. s.args \in Seq({P1, P2, Body})
    BY <2>2
  <2>4. DOMAIN s.args = 1..Len(s.args)
    BY <2>3, LenProperties
  <2>5. PICK n \in 0..2 : n = Len(s.args)
    BY <2>1
  <2>6. 1..n \subseteq 1..2
    OBVIOUS
  <2> QED
    BY <2>4, <2>5, <2>6
<1>9. /\ A1 \in Slots <=> 1 \in DOMAIN s.args
      /\ A2 \in Slots <=> 2 \in DOMAIN s.args
      /\ \A p \in Slots : p = A1 \/ p = A2
  <2>1. A1 # A2 /\ \A i \in DOMAIN s.args : (i = 1 /\ <<A1, A2>>[i] = A1) \/ (i = 2 /\ <<A1, A2>>[i] = A2)
    BY <1>8, PairOf, Placeholders
  <2>2. \A i \in DOMAIN s.args : <<A1, A2>>[i] \in Slots
    OBVIOUS
  <2>3. \A p \in Slots : \E i \in DOMAIN s.args : p = <<A1, A2>>[i]
    OBVIOUS
  <2> HIDE DEF Slots
  <2>4. 1 \in DOMAIN s.args => A1 \in Slots
    BY <2>2, PairOf
  <2>5. 2 \in DOMAIN s.args => A2 \in Slots
    BY <2>2, PairOf
  <2>6. \A p \in Slots : (p = A1 /\ 1 \in DOMAIN s.args) \/ (p = A2 /\ 2 \in DOMAIN s.args)
    BY <2>1, <2>3
  <2> QED
    BY <2>1, <2>4, <2>5, <2>6
<1>10. Filled(on, Fill) = [i \in DOMAIN on |-> IF on[i] \in Slots THEN Fill[on[i]] ELSE on[i]]
  <2>1. DOMAIN Fill = Slots
    OBVIOUS
  <2> HIDE DEF Fill, Slots
  <2> QED
    BY <2>1 DEF Filled
<1>11. \A i \in DOMAIN on :
         Filled(on, Fill)[i] = IF on[i] = A1 /\ 1 \in DOMAIN s.args THEN Value(s.args[1])
                               ELSE IF on[i] = A2 /\ 2 \in DOMAIN s.args THEN Value(s.args[2]) ELSE on[i]
  <2> SUFFICES ASSUME NEW i \in DOMAIN on
               PROVE  Filled(on, Fill)[i] =
                        IF on[i] = A1 /\ 1 \in DOMAIN s.args THEN Value(s.args[1])
                        ELSE IF on[i] = A2 /\ 2 \in DOMAIN s.args THEN Value(s.args[2]) ELSE on[i]
    OBVIOUS
  <2>1. A1 # A2
    BY Placeholders
  <2>2. Filled(on, Fill)[i] = IF on[i] \in Slots THEN Fill[on[i]] ELSE on[i]
    BY <1>10
  <2>3. ASSUME on[i] \in Slots
        PROVE  Fill[on[i]] = Value(s.args[IF on[i] = A1 THEN 1 ELSE 2])
    BY <2>3
  <2> HIDE DEF Slots, Fill, Value
  <2> QED
    BY <1>9, <2>1, <2>2, <2>3
<1>12. step.on \in Paths
  <2>1. Steps(asked, given) \in Seq(PlanSteps) /\ k \in 1..Len(Steps(asked, given))
    BY <1>1, StepsType, LenProperties
  <2>2. step \in PlanSteps
    BY <1>5, <2>1, ElementOfSeq
  <2> QED
    BY <2>2 DEF PlanSteps
<1> HIDE DEF Value, Slots, Fill
<1>13. step.method = s.method /\ step.on = Filled(on, Fill)
  BY <1>6
<1>14. DOMAIN step.on = DOMAIN on
  BY <1>10, <1>13
<1>15. Len(step.on) = Len(on)
  BY <1>4, <1>12, <1>14, LenProperties DEF Paths
<1>16. \A i \in DOMAIN on :
         step.on[i] = IF on[i] = A1 /\ 1 \in DOMAIN s.args THEN Given(asked, s.args[1])
                      ELSE IF on[i] = A2 /\ 2 \in DOMAIN s.args THEN Given(asked, s.args[2])
                      ELSE on[i]
  BY <1>7, <1>11, <1>13
<1> QED
  BY <1>1, <1>2, <1>3, <1>4, <1>5, <1>12, <1>13, <1>14, <1>15, <1>16

(* A handler gives its methods what the request means.                     *)
LEMMA GivenIsMeant ==
  ASSUME NEW asked, Sensible(asked), ~AsksForPower(asked),
         NEW k \in DOMAIN PlanOf(asked), NEW i \in DOMAIN PlanOf(asked)[k].args
  PROVE  Given(asked, PlanOf(asked)[k].args[i]) = Meant(asked, PlanOf(asked)[k].args[i])
<1>1. PICK a : a = PlanOf(asked)[k].args[i]
  OBVIOUS
<1>2. \/ a = Body
      \/ a = P1 /\ 1 \in DOMAIN Routed(asked).names
      \/ a = P2 /\ 2 \in DOMAIN Routed(asked).names
  BY <1>1, PlanType
<1>3. asked \in Request
  BY DEF Sensible
<1>4. \A j \in DOMAIN Routed(asked).names : Routed(asked).names[j] = asked.names[<<P1, P2>>[j]]
  BY <1>3, GivenAsAsked
<1>5. <<P1, P2>>[1] = P1 /\ <<P1, P2>>[2] = P2
  BY PairOf
<1>6. CASE a = Body
  BY <1>1, <1>6, Placeholders DEF Given, Meant
<1>7. CASE a = P1 /\ 1 \in DOMAIN Routed(asked).names
  BY <1>1, <1>4, <1>5, <1>7, Placeholders DEF Given, Meant
<1>8. CASE a = P2 /\ 2 \in DOMAIN Routed(asked).names
  BY <1>1, <1>4, <1>5, <1>8, Placeholders DEF Given, Meant
<1> QED
  BY <1>2, <1>6, <1>7, <1>8

(* A step is about what its subject means in the request, unless UFM       *)
(* chooses the name.                                                       *)
LEMMA StepIsSubject ==
  ASSUME NEW asked, Sensible(asked), ~AsksForPower(asked), NEW k \in DOMAIN PlanOf(asked),
         Methods[PlanOf(asked)[k].method].effect # "start"
  PROVE  LET about == Subject(PlanOf(asked)[k])
             step  == Steps(asked, Routed(asked))[k]
         IN /\ DOMAIN step.on = DOMAIN about /\ Len(step.on) = Len(about)
            /\ DOMAIN about = 1..Len(about) /\ Len(about) \in Nat
            /\ \A i \in DOMAIN about : step.on[i] = Meant(asked, about[i])
<1>1. PICK s : s = PlanOf(asked)[k]
  OBVIOUS
<1>2. PICK on \in Paths : on = Methods[s.method].on
  BY <1>1, StepIs
<1>3. PICK step : step = Steps(asked, Routed(asked))[k]
  OBVIOUS
<1>4. PICK about : about = Subject(s)
  OBVIOUS
<1>5. about = [i \in DOMAIN on |->
                 IF on[i] = A1 /\ 1 \in DOMAIN s.args THEN s.args[1]
                 ELSE IF on[i] = A2 /\ 2 \in DOMAIN s.args THEN s.args[2] ELSE on[i]]
  BY <1>2, <1>4 DEF Subject
<1>6. Complete(s)
  BY <1>1, PlanSuits DEF Suits
<1>7. /\ \A i \in DOMAIN on : /\ on[i] = A1 => 1 \in DOMAIN s.args
                              /\ on[i] = A2 => 2 \in DOMAIN s.args
      /\ \A i \in DOMAIN on : on[i] # Body
  <2>1. PICK method : method = Methods[s.method]
    OBVIOUS
  <2>2. /\ Body \notin Range(method.on)
        /\ method.effect # "start" =>
             \A i \in DOMAIN method.on : /\ method.on[i] = A1 => 1 \in DOMAIN s.args
                                         /\ method.on[i] = A2 => 2 \in DOMAIN s.args
    BY <1>6, <2>1 DEF Complete
  <2>3. method.on = on /\ method.effect # "start"
    BY <1>1, <1>2, <2>1
  <2>4. \A i \in DOMAIN on : on[i] \in Range(on)
    BY DEF Range
  <2> QED
    BY <2>2, <2>3, <2>4
<1>8. /\ DOMAIN step.on = DOMAIN on /\ Len(step.on) = Len(on)
      /\ \A i \in DOMAIN on :
           step.on[i] = IF on[i] = A1 /\ 1 \in DOMAIN s.args THEN Given(asked, s.args[1])
                        ELSE IF on[i] = A2 /\ 2 \in DOMAIN s.args THEN Given(asked, s.args[2])
                        ELSE on[i]
  BY <1>1, <1>2, <1>3, StepIs
<1>9. \A i \in DOMAIN s.args : Given(asked, s.args[i]) = Meant(asked, s.args[i])
  BY <1>1, GivenIsMeant
<1>10. \A i \in DOMAIN on : step.on[i] = Meant(asked, about[i])
  <2> SUFFICES ASSUME NEW i \in DOMAIN on
               PROVE  step.on[i] = Meant(asked, about[i])
    OBVIOUS
  <2>1. CASE on[i] = A1
    BY <1>5, <1>7, <1>8, <1>9, <2>1
  <2>2. CASE on[i] = A2
    BY <1>5, <1>7, <1>8, <1>9, <2>2, Placeholders
  <2>3. CASE on[i] # A1 /\ on[i] # A2
    <3>1. step.on[i] = on[i] /\ about[i] = on[i]
      BY <1>5, <1>8, <2>3
    <3>2. Meant(asked, on[i]) = on[i]
      BY <1>7, <2>3, Placeholders DEF Meant
    <3> QED
      BY <3>1, <3>2
  <2> QED
    BY <2>1, <2>2, <2>3
<1>11. DOMAIN about = DOMAIN on /\ Len(about) = Len(on) /\ DOMAIN on = 1..Len(on) /\ Len(on) \in Nat
  BY <1>5, LenProperties DEF Paths
<1> QED
  BY <1>1, <1>3, <1>4, <1>8, <1>10, <1>11


-----------------------------------------------------------------------------
(***************************************************************************)
(* What the steps of a plan have to do with the path of the request.       *)
(***************************************************************************)
LEMMA PathIs ==
  ASSUME NEW asked \in Request
  PROVE  LET path == Requests[asked.op].path
             full == PathOf(asked)
         IN /\ full \in Paths /\ DOMAIN full = DOMAIN path /\ Len(full) = Len(path)
            /\ DOMAIN path = 1..Len(path) /\ Len(path) \in Nat \ {0}
            /\ \A i \in DOMAIN path : full[i] = Meant(asked, path[i])
            /\ path[1] \notin Parameters /\ full[1] = path[1]
<1>1. PICK path \in Paths : path = Requests[asked.op].path
  BY AskedTypes
<1>2. PICK full \in Paths : full = PathOf(asked)
  BY AskedTypes
<1>3. /\ DOMAIN full = DOMAIN path /\ Len(full) = Len(path)
      /\ \A i \in DOMAIN path : full[i] = IF path[i] \in Parameters THEN asked.names[path[i]] ELSE path[i]
  BY <1>1, <1>2, AskedTypes
<1>4. path # <<>> /\ path[1] \notin Parameters /\ Body \notin Range(path)
  BY <1>1, AskedTypes, SubjectsAssumption
<1>5. DOMAIN path = 1..Len(path) /\ Len(path) \in Nat
  BY LenProperties DEF Paths
<1>6. Len(path) # 0
  BY <1>4, EmptySeq DEF Paths
<1>7. \A i \in DOMAIN path : path[i] # Body
  BY <1>4 DEF Range
<1>8. \A i \in DOMAIN path : full[i] = Meant(asked, path[i])
  BY <1>3, <1>7 DEF Meant
<1>9. full[1] = path[1]
  BY <1>3, <1>4, <1>5, <1>6
<1> QED
  BY <1>1, <1>2, <1>3, <1>4, <1>5, <1>6, <1>8, <1>9

(* What owns the path, and what a body adds to it.                         *)
LEMMA OwnerIs ==
  ASSUME NEW asked \in Request
  PROVE  LET owner == LastParameter(Requests[asked.op].path)
         IN /\ owner \in 0..Len(PathOf(asked)) /\ Len(Owner(asked)) = owner
            /\ Owner(asked) \in Paths /\ DOMAIN Owner(asked) = 1..owner
            /\ \A i \in 1..owner : Owner(asked)[i] = PathOf(asked)[i]
            /\ owner = 0 => Owner(asked) = <<>>
<1>1. PICK full \in Paths : full = PathOf(asked)
  BY AskedTypes
<1>2. PICK owner : owner = LastParameter(Requests[asked.op].path)
  OBVIOUS
<1>3. owner \in 0..Len(full)
  <2>1. owner \in 0..Len(Requests[asked.op].path)
    BY <1>2, AskedTypes, RoutesAssumption
  <2> QED
    BY <1>1, <2>1, AskedTypes
<1>4. Owner(asked) = SubSeq(full, 1, owner)
  BY <1>1, <1>2 DEF Owner
<1>5. /\ Len(SubSeq(full, 1, owner)) = owner
      /\ \A i \in 1..owner : SubSeq(full, 1, owner)[i] = full[i]
  <2>1. Len(full) \in Nat
    BY LenProperties DEF Paths
  <2> QED
    BY <1>3, <2>1 DEF Paths
<1>6. Owner(asked) \in Paths
  BY AboutType
<1>7. DOMAIN Owner(asked) = 1..owner
  BY <1>4, <1>5, <1>6, LenProperties DEF Paths
<1>8. owner = 0 => Owner(asked) = <<>>
  BY <1>4, <1>5, <1>6, EmptySeq DEF Paths
<1> QED
  BY <1>1, <1>2, <1>3, <1>4, <1>5, <1>6, <1>7, <1>8

(* Sequences that agree up to a length are prefixes, and cut there equal.  *)
LEMMA PrefixIs ==
  ASSUME NEW S, NEW p \in Seq(S), NEW q \in Seq(S), Len(p) <= Len(q), \A i \in 1..Len(p) : p[i] = q[i]
  PROVE  IsPrefix(p, q) /\ SubSeq(q, 1, Len(p)) = p
<1>1. Len(p) \in Nat /\ Len(q) \in Nat
  BY LenProperties
<1>2. SubSeq(q, 1, Len(p)) = p
  <2>1. \A i \in 1..Len(p) : q[i] \in S
    BY <1>1, ElementOfSeq
  <2>2. /\ SubSeq(q, 1, Len(p)) \in Seq(S) /\ Len(SubSeq(q, 1, Len(p))) = Len(p)
        /\ \A i \in 1..Len(p) : SubSeq(q, 1, Len(p))[i] = q[i]
    BY <1>1
  <2> QED
    BY <2>2, SeqEqual
<1>3. SubSeq(p, 1, Len(p)) = p
  BY <1>1, SubSeqFull
<1> QED
  BY <1>2, <1>3 DEF IsPrefix

(* A pattern without parameters.                                           *)
LEMMA NoParameter ==
  ASSUME NEW pattern, Range(pattern) \cap Parameters = {}
  PROVE  LastParameter(pattern) = 0
<1>1. {i \in DOMAIN pattern : pattern[i] \in Parameters} = {}
  BY DEF Range
<1>2. LastParameter(pattern) = CHOOSE x \in {0} \cup {} : \A y \in {0} \cup {} : x >= y
  BY <1>1 DEF LastParameter, Max
<1>3. \E x \in {0} \cup {} : \A y \in {0} \cup {} : x >= y
  OBVIOUS
<1> QED
  BY <1>2, <1>3

(* The power of systems has no parameter in its path.                      *)
LEMMA PowerPath ==
  /\ "ListSystemsPower" \in Operations /\ Requests["ListSystemsPower"].method = "GET"
  /\ Requests["ListSystemsPower"].path[1] = Requests["GetSystem"].path[1]
  /\ LastParameter(Requests["ListSystemsPower"].path) = 0
<1>1. PICK power : power = <<"systems", "power">>
  OBVIOUS
<1>2. DOMAIN power = 1..2 /\ power[1] = "systems" /\ power[2] = "power"
  BY <1>1, PairOf
<1>3. Range(power) \cap Parameters = {}
  BY <1>2, Segments, PairOf DEF Range
<1>4. LastParameter(power) = 0
  BY <1>3, NoParameter
<1>5. Requests["ListSystemsPower"].path = power /\ Requests["GetSystem"].path = <<"systems", P1>>
  BY <1>1, RoutesAssumption
<1>6. <<"systems", P1>>[1] = "systems"
  BY PairOf
<1> QED
  BY <1>2, <1>4, <1>5, <1>6, RoutesAssumption


(* What is said of a step of the plan, by the operation of its handler.    *)
LEMMA StepBelongs ==
  ASSUME NEW asked, Sensible(asked), NEW k \in DOMAIN PlanOf(asked)
  PROVE  LET op == IF AsksForPower(asked) THEN "ListSystemsPower" ELSE asked.op
             s  == PlanOf(asked)[k]
         IN Complete(s) /\ Belongs(op, s) /\ Changes(op, s) /\ op \in Operations
BY PlanSuits, HandlerOfRequest DEF Suits, Sensible

(* A step that is about what the request names has its owner first.        *)
LEMMA StepIsOwned ==
  ASSUME NEW asked, Sensible(asked), ~AsksForPower(asked), NEW k \in DOMAIN PlanOf(asked),
         asked.op \notin ByBody \cup AboutAll
  PROVE  LET step   == Steps(asked, Routed(asked))[k]
             method == Methods[step.method]
             need   == SubSeq(step.on, 1, Required(method))
         IN /\ IsPrefix(Owner(asked), step.on)
            /\ need = Owner(asked) \/ (need = <<>> /\ method.effect = "put" /\ step.on = Owner(asked))
<1>1. PICK s : s = PlanOf(asked)[k]
  OBVIOUS
<1>2. PICK step : step = Steps(asked, Routed(asked))[k]
  OBVIOUS
<1>3. step.method = s.method /\ step.on \in Paths /\ Len(step.on) \in Nat
  BY <1>1, <1>2, StepIs, LenProperties DEF Paths
<1>4. PICK method : method = Methods[s.method]
  OBVIOUS
<1>5. asked \in Request
  BY DEF Sensible
<1>6. PICK path : path = Requests[asked.op].path
  OBVIOUS
<1>7. PICK owner : owner = LastParameter(path)
  OBVIOUS
<1>8. PICK own \in Paths : own = Owner(asked)
  BY <1>5, OwnerIs
<1>9. PICK full \in Paths : full = PathOf(asked)
  BY <1>5, PathIs
<1>10. /\ owner \in 0..Len(full) /\ Len(own) = owner /\ \A i \in 1..owner : own[i] = full[i]
       /\ owner = 0 => own = <<>>
  BY <1>5, <1>6, <1>7, <1>8, <1>9, OwnerIs
<1>11. /\ DOMAIN path = 1..Len(full) /\ Len(full) \in Nat
       /\ \A i \in DOMAIN path : full[i] = Meant(asked, path[i])
  BY <1>5, <1>6, <1>9, PathIs
<1>12. PICK about : about = Subject(s)
  OBVIOUS
<1>13. /\ owner <= Len(about) /\ \A i \in 1..owner : about[i] = path[i]
       /\ \/ Required(method) = owner
          \/ Required(method) = 0 /\ method.effect = "put" /\ Len(about) = owner
  <2>1. Belongs(asked.op, s)
    BY <1>1, StepBelongs
  <2> QED
    BY <1>4, <1>6, <1>7, <1>12, <2>1 DEF Belongs
<1>14. method.effect = "start" => owner = 0
  <2>1. Changes(asked.op, s)
    BY <1>1, StepBelongs
  <2> QED
    BY <1>4, <1>6, <1>7, <2>1, NoParameter DEF Changes
<1>15. owner <= Len(step.on) /\ \A i \in 1..owner : own[i] = step.on[i]
  <2>1. CASE method.effect = "start"
    BY <1>3, <1>14, <2>1
  <2>2. CASE method.effect # "start"
    <3>1. /\ Len(step.on) = Len(about) /\ DOMAIN about = 1..Len(about)
          /\ \A i \in DOMAIN about : step.on[i] = Meant(asked, about[i])
      BY <1>1, <1>2, <1>4, <1>12, <2>2, StepIsSubject
    <3>2. \A i \in 1..owner : i \in DOMAIN about /\ i \in DOMAIN path
      BY <1>3, <1>10, <1>11, <1>13, <3>1
    <3>3. ASSUME NEW i \in 1..owner
          PROVE  own[i] = step.on[i]
      BY <1>10, <1>11, <1>13, <3>1, <3>2
    <3> QED
      BY <1>13, <3>1, <3>3
  <2> QED
    BY <2>1, <2>2
<1>16. IsPrefix(own, step.on) /\ SubSeq(step.on, 1, owner) = own
  BY <1>3, <1>10, <1>15, PrefixIs DEF Paths
<1>17. ASSUME Required(method) # owner
       PROVE  SubSeq(step.on, 1, Required(method)) = <<>> /\ method.effect = "put" /\ step.on = own
  <2>1. Required(method) = 0 /\ method.effect = "put" /\ Len(about) = owner
    BY <1>13, <1>17
  <2>2. Len(step.on) = owner
    BY <1>1, <1>2, <1>4, <1>12, <2>1, StepIsSubject
  <2>3. SubSeq(step.on, 1, owner) = step.on
    BY <1>3, <2>2, SubSeqFull DEF Paths
  <2>4. SubSeq(step.on, 1, 0) = <<>>
    BY <1>3, SubSeqEmpty DEF Paths
  <2> QED
    BY <1>16, <2>1, <2>3, <2>4
<1> QED
  BY <1>1, <1>2, <1>3, <1>4, <1>8, <1>16, <1>17

(* A step needs what owns the path of its request, or nothing.             *)
LEMMA StepNeeds ==
  ASSUME NEW asked, Sensible(asked), NEW k \in DOMAIN PlanOf(asked), asked.op \notin ByBody
  PROVE  LET step == Steps(asked, Routed(asked))[k]
             need == SubSeq(step.on, 1, Required(Methods[step.method]))
         IN need = <<>> \/ need = Owner(asked)
<1>1. PICK s : s = PlanOf(asked)[k]
  OBVIOUS
<1>2. PICK step : step = Steps(asked, Routed(asked))[k]
  OBVIOUS
<1>3. step.method = s.method /\ step.on \in Paths
  BY <1>1, <1>2, StepIs
<1>4. PICK method : method = Methods[s.method]
  OBVIOUS
<1>5. SubSeq(step.on, 1, 0) = <<>>
  BY <1>3, SubSeqEmpty DEF Paths
<1>6. CASE AsksForPower(asked)
  <2>1. Belongs("ListSystemsPower", s)
    BY <1>1, <1>6, StepBelongs
  <2>2. "ListSystemsPower" \notin ByBody \cup AboutAll
    BY DEF ByBody, AboutAll
  <2>3. Required(method) = 0
    BY <1>4, <2>1, <2>2, PowerPath DEF Belongs
  <2> QED
    BY <1>2, <1>3, <1>4, <1>5, <2>3
<1>7. CASE ~AsksForPower(asked) /\ asked.op \in AboutAll
  <2>1. Belongs(asked.op, s)
    BY <1>1, <1>7, StepBelongs
  <2>2. Required(method) = 0
    BY <1>4, <1>7, <2>1 DEF Belongs
  <2> QED
    BY <1>2, <1>3, <1>4, <1>5, <2>2
<1>8. CASE ~AsksForPower(asked) /\ asked.op \notin AboutAll
  BY <1>8, StepIsOwned
<1> QED
  BY <1>6, <1>7, <1>8

(* A step begins where the path of its request does.                       *)
LEMMA StepBegins ==
  ASSUME NEW asked, Sensible(asked), NEW k \in DOMAIN PlanOf(asked), asked.op # "CollectLinkDump"
  PROVE  Head(Steps(asked, Routed(asked))[k].on) = Head(PathOf(asked))
<1>1. PICK s : s = PlanOf(asked)[k]
  OBVIOUS
<1>2. PICK step : step = Steps(asked, Routed(asked))[k]
  OBVIOUS
<1>3. PICK on \in Paths : on = Methods[s.method].on
  BY <1>1, StepIs
<1>4. PICK op \in Operations : op = IF AsksForPower(asked) THEN "ListSystemsPower" ELSE asked.op
  BY PowerPath DEF Sensible, Request
<1>5. on # <<>> /\ on[1] = Requests[op].path[1]
  <2>1. op # "CollectLinkDump"
    BY <1>4
  <2>2. Complete(s) /\ Belongs(op, s)
    BY <1>1, <1>4, StepBelongs
  <2>3. on # <<>>
    BY <1>3, <2>2 DEF Complete
  <2>4. on[1] = Requests[op].path[1]
    BY <1>3, <2>1, <2>2 DEF Belongs
  <2> QED
    BY <2>3, <2>4
<1>6. Requests[op].path[1] = Requests[asked.op].path[1]
  BY <1>4, PowerPath DEF AsksForPower
<1>7. on[1] \notin Parameters
  <2>1. asked \in Request
    BY DEF Sensible
  <2> QED
    BY <1>5, <1>6, <2>1, PathIs
<1>8. Len(on) \in Nat \ {0} /\ 1 \in DOMAIN on
  BY <1>3, <1>5, EmptySeq, LenProperties DEF Paths
<1>9. step.on[1] = on[1]
  BY <1>1, <1>2, <1>3, <1>7, <1>8, StepIs, Placeholders
<1>10. PathOf(asked)[1] = Requests[asked.op].path[1]
  BY PathIs DEF Sensible
<1>11. Head(step.on) = step.on[1] /\ Head(PathOf(asked)) = PathOf(asked)[1]
  <2>1. step.on \in Paths /\ PathOf(asked) \in Paths
    BY <1>1, <1>2, StepIs, AskedTypes DEF Sensible
  <2> QED
    BY <2>1 DEF Paths
<1> QED
  BY <1>2, <1>5, <1>6, <1>9, <1>10, <1>11

(* A body a handler cannot read is refused, but by RebootSystem.           *)
LEMMA UnreadRefused ==
  ASSUME NEW asked, Sensible(asked), asked.body = "unreadable", asked.op # "RebootSystem"
  PROVE  Handlers[Routed(asked).op].binds
<1>1. asked \in Request /\ asked.op \in Operations /\ Requests[asked.op].body
  BY DEF Sensible, Request
<1>2. Requests[asked.op].method # "GET" /\ Handlers[asked.op].binds
  BY <1>1, SubjectsAssumption
<1>3. ~AsksForPower(asked)
  BY <1>2, RoutesAssumption DEF AsksForPower
<1> QED
  BY <1>1, <1>2, <1>3, HandlerOfRequest

(* A path is the same as another if it is as long and has its segments.    *)
LEMMA SamePath ==
  ASSUME NEW p \in Paths, NEW q \in Paths, Len(p) = Len(q), \A i \in 1..Len(q) : p[i] = q[i]
  PROVE  p = q
BY SeqEqual DEF Paths

(* What a body adds to the path.                                           *)
LEMMA MadeIs ==
  ASSUME NEW asked \in Request
  PROVE  /\ Made(asked) \in Paths /\ Len(Made(asked)) = Len(PathOf(asked)) + 1
         /\ \A i \in 1..Len(Made(asked)) :
              Made(asked)[i] = IF i = Len(PathOf(asked)) + 1 THEN asked.named ELSE PathOf(asked)[i]
<1>1. PICK full \in Paths : full = PathOf(asked)
  BY AskedTypes
<1>2. asked.named \in STRING \cup Names
  BY DEF Request
<1> QED
  BY <1>1, <1>2, AboutType, AppendProperties, LenProperties DEF Made, Paths

(* Of a request only what its method and its path say is changed.          *)
LEMMA StepChanges ==
  ASSUME NEW asked, Sensible(asked), NEW k \in DOMAIN PlanOf(asked)
  PROVE  LET step   == Steps(asked, Routed(asked))[k]
             effect == Methods[step.method].effect
         IN /\ effect \in {"create", "put", "start"} => Requests[asked.op].method = "POST"
            /\ effect = "create" => step.on = Made(asked)
            /\ effect = "put" => step.on \in {Made(asked), Owner(asked)}
            /\ effect = "start" =>
                 /\ asked.op = "CreateMonitoringSession" /\ Len(step.on) = Len(PathOf(asked)) + 1
                 /\ \A i \in DOMAIN PathOf(asked) :
                      step.on[i] = PathOf(asked)[i] /\ PathOf(asked)[i] \notin Parameters
            /\ effect = "delete" =>
                 Requests[asked.op].method = "DELETE" /\ IsPrefix(PathOf(asked), step.on)
            /\ step.method = "RunFabricValidationTest" => asked.op = "RunFabricValidationTest"
<1>1. PICK s : s = PlanOf(asked)[k]
  OBVIOUS
<1>2. PICK step : step = Steps(asked, Routed(asked))[k]
  OBVIOUS
<1>3. step.method = s.method /\ step.on \in Paths /\ Len(step.on) \in Nat
  BY <1>1, <1>2, StepIs, LenProperties DEF Paths
<1>4. PICK method : method = Methods[s.method]
  OBVIOUS
<1>5. asked \in Request
  BY DEF Sensible
<1>6. CASE AsksForPower(asked)
  <2>1. Changes("ListSystemsPower", s)
    BY <1>1, <1>6, StepBelongs
  <2>2. method.effect \notin {"create", "put", "start", "delete"}
    BY <1>4, <2>1, PowerPath DEF Changes
  <2>3. s.method # "RunFabricValidationTest"
    BY <2>1 DEF Changes
  <2> QED
    BY <1>2, <1>3, <1>4, <2>2, <2>3
<1>7. CASE ~AsksForPower(asked)
  <2>1. PICK path : path = Requests[asked.op].path
    OBVIOUS
  <2>2. PICK full \in Paths : full = PathOf(asked)
    BY <1>5, PathIs
  <2>3. path \in Seq(STRING) /\ DOMAIN path = 1..Len(path) /\ Len(path) = Len(full) /\ Len(path) \in Nat
        /\ \A i \in DOMAIN path : full[i] = Meant(asked, path[i])
    <3>1. path \in Seq(STRING)
      BY <1>5, <2>1, AskedTypes, RoutesAssumption
    <3> QED
      BY <1>5, <2>1, <2>2, <3>1, PathIs
  <2>4. PICK owner : owner = LastParameter(path)
    OBVIOUS
  <2>5. PICK about : about = Subject(s)
    OBVIOUS
  <2>6. PICK made : made = Append(path, Body)
    OBVIOUS
  <2>7. /\ method.effect \in {"create", "put", "start"} => Requests[asked.op].method = "POST"
        /\ method.effect = "create" => about = made
        /\ method.effect = "put" => about = made \/ about = SubSeq(path, 1, owner)
        /\ method.effect = "start" => /\ asked.op = "CreateMonitoringSession" /\ s.args = <<>>
                                      /\ method.on = Append(path, A1) /\ Range(path) \cap Parameters = {}
        /\ method.effect = "delete" =>
             /\ Requests[asked.op].method = "DELETE" /\ Len(path) <= Len(about)
             /\ \A i \in DOMAIN path : about[i] = path[i]
        /\ s.method = "RunFabricValidationTest" => asked.op = "RunFabricValidationTest"
    <3>1. Changes(asked.op, s)
      BY <1>1, <1>7, StepBelongs
    <3> QED
      BY <1>4, <2>1, <2>4, <2>5, <2>6, <3>1 DEF Changes
  <2>8. ASSUME method.effect # "start"
        PROVE  /\ Len(step.on) = Len(about) /\ DOMAIN about = 1..Len(about)
               /\ \A i \in DOMAIN about : step.on[i] = Meant(asked, about[i])
    BY <1>1, <1>2, <1>4, <1>7, <2>5, <2>8, StepIsSubject
  <2>9. /\ Len(made) = Len(path) + 1
        /\ \A i \in 1..Len(path) : made[i] = path[i]
        /\ made[Len(path) + 1] = Body
    BY <2>3, <2>6, AppendProperties
  <2>10. ASSUME method.effect # "start", about = made
         PROVE  step.on = Made(asked)
    <3>1. Len(step.on) = Len(full) + 1
      BY <2>3, <2>8, <2>9, <2>10
    <3>2. Meant(asked, Body) = asked.named
      BY Placeholders DEF Meant
    <3>3. \A i \in 1..(Len(full) + 1) : step.on[i] = IF i = Len(full) + 1 THEN asked.named ELSE full[i]
      <4> SUFFICES ASSUME NEW i \in 1..(Len(full) + 1)
                   PROVE  step.on[i] = IF i = Len(full) + 1 THEN asked.named ELSE full[i]
        OBVIOUS
      <4>1. step.on[i] = Meant(asked, made[i])
        BY <2>3, <2>8, <2>9, <2>10
      <4>2. CASE i = Len(full) + 1
        BY <2>3, <2>9, <3>2, <4>1, <4>2
      <4>3. CASE i # Len(full) + 1
        <5>1. i \in 1..Len(path) /\ i \in DOMAIN path
          BY <2>3, <4>3
        <5> QED
          BY <2>3, <2>9, <4>1, <4>3, <5>1
      <4> QED
        BY <4>2, <4>3
    <3> QED
      BY <1>3, <1>5, <2>2, <3>1, <3>3, MadeIs, SamePath
  <2>11. ASSUME method.effect # "start", about = SubSeq(path, 1, owner)
         PROVE  step.on = Owner(asked)
    <3>1. owner \in 0..Len(path)
      BY <1>5, <2>1, <2>4, AskedTypes, RoutesAssumption
    <3>2. Len(about) = owner /\ \A i \in 1..owner : about[i] = path[i]
      BY <2>3, <2>11, <3>1
    <3>3. Len(step.on) = owner
      BY <2>8, <2>11, <3>2
    <3>4. \A i \in 1..owner : step.on[i] = full[i]
      <4> SUFFICES ASSUME NEW i \in 1..owner
                   PROVE  step.on[i] = full[i]
        OBVIOUS
      <4>1. i \in DOMAIN about /\ i \in DOMAIN path
        BY <2>3, <2>8, <2>11, <3>1, <3>2
      <4>2. step.on[i] = Meant(asked, path[i])
        BY <2>8, <2>11, <3>2, <4>1
      <4> QED
        BY <2>3, <4>1, <4>2
    <3>5. PICK own \in Paths : own = Owner(asked)
      BY <1>5, OwnerIs
    <3>6. Len(own) = owner /\ \A i \in 1..owner : own[i] = full[i]
      BY <1>5, <2>1, <2>2, <2>4, <3>5, OwnerIs
    <3>7. step.on = own
      BY <1>3, <3>3, <3>4, <3>6, SamePath
    <3> QED
      BY <3>5, <3>7
  <2>12. ASSUME method.effect = "start"
         PROVE  Len(step.on) = Len(full) + 1 /\ \A i \in DOMAIN full : step.on[i] = full[i] /\ full[i] \notin Parameters
    <3>1. /\ DOMAIN step.on = DOMAIN method.on /\ Len(step.on) = Len(method.on)
          /\ \A i \in DOMAIN method.on : step.on[i] = method.on[i]
      <4>1. 1 \notin DOMAIN s.args /\ 2 \notin DOMAIN s.args
        BY <2>7, <2>12
      <4> QED
        BY <1>1, <1>2, <1>4, <4>1, StepIs
    <3>2. method.on = Append(path, A1)
      BY <2>7, <2>12
    <3>3. /\ Len(method.on) = Len(path) + 1 /\ method.on[Len(path) + 1] = A1
          /\ \A i \in 1..Len(path) : method.on[i] = path[i]
      BY <2>3, <3>2, AppendProperties
    <3>4. \A i \in DOMAIN path : full[i] = path[i] /\ path[i] \notin Parameters
      <4>1. \A i \in DOMAIN path : path[i] \notin Parameters
        BY <2>7, <2>12 DEF Range
      <4>2. Body \notin Range(path)
        BY <1>5, <2>1, AskedTypes, SubjectsAssumption
      <4>3. \A i \in DOMAIN path : path[i] # Body
        BY <4>2 DEF Range
      <4> QED
        BY <2>3, <4>1, <4>3 DEF Meant
    <3>5. DOMAIN step.on = 1..(Len(full) + 1) /\ Len(step.on) = Len(full) + 1
      BY <1>3, <2>3, <3>1, <3>3, LenProperties DEF Paths
    <3>6. DOMAIN full = DOMAIN path
      BY <2>3, LenProperties DEF Paths
    <3>7. ASSUME NEW i \in DOMAIN full
          PROVE  step.on[i] = full[i] /\ full[i] \notin Parameters
      <4>1. i \in 1..Len(path) /\ i \in DOMAIN step.on /\ i \in DOMAIN path
        BY <2>3, <3>5, <3>6
      <4> QED
        BY <3>1, <3>3, <3>4, <4>1
    <3> QED
      BY <3>5, <3>7
  <2>13. ASSUME method.effect = "delete"
         PROVE  IsPrefix(full, step.on)
    <3>1. /\ Len(step.on) = Len(about) /\ DOMAIN about = 1..Len(about)
          /\ \A i \in DOMAIN about : step.on[i] = Meant(asked, about[i])
      BY <2>8, <2>13
    <3>2. Len(full) <= Len(step.on) /\ \A i \in 1..Len(full) : i \in DOMAIN path /\ i \in DOMAIN about
      BY <1>3, <2>3, <2>7, <2>13, <3>1
    <3>3. \A i \in 1..Len(full) : full[i] = step.on[i]
      BY <2>3, <2>7, <2>13, <3>1, <3>2
    <3> QED
      BY <1>3, <3>2, <3>3, PrefixIs DEF Paths
  <2> QED
    BY <1>2, <1>3, <1>4, <2>2, <2>7, <2>10, <2>11, <2>12, <2>13
<1> QED
  BY <1>6, <1>7

-----------------------------------------------------------------------------
(***************************************************************************)
(* The second invariant.  A call that is under way has seen all UFM has    *)
(* and lacks of what it is about; and an answer, when the handler has it   *)
(* and when the caller has, says what the call has seen.                   *)
(***************************************************************************)
Bound(k) ==
  /\ k.asked.op = k.given.op /\ k.plan # <<>>
  /\ k.asked.op \notin ByBody \cup AboutAll \cup {"RunFabricValidationTest"}

Tells(k, status) ==
  /\ status = 404 /\ k.asked.op \notin ByBody => Owner(k.asked) \in k.missing
  /\ status = 409 /\ k.asked.op # "RunFabricValidationTest" => Made(k.asked) \in k.there
  /\ status < 400 /\ Bound(k) => Owner(k.asked) \in k.there

Honest(k) ==
  /\ Refused(k) => k.did = <<>> /\ (k.pc = "unmade" \/ (k.pc = "replied" /\ k.status = BadRequest))
  /\ k.pc = "answered" /\ k.resp.got => Tells(k, k.resp.status)
  /\ k.pc = "replied" => Tells(k, k.status)

Noticed(k, set) ==
  k.pc \in {"sent", "answered"} =>
    \A path \in {Owner(k.asked), Made(k.asked)} :
      IF path = <<>> \/ path \in set THEN path \in k.there ELSE path \in k.missing

TruthInv == \A c \in DOMAIN calls : Honest(calls[c]) /\ Noticed(calls[c], exists)

(* What a status says stays true of a call that sees more.                 *)
LEMMA TellsMore ==
  ASSUME NEW l, NEW k, k.asked = l.asked, k.given = l.given, k.plan = l.plan,
         l.there \subseteq k.there, l.missing \subseteq k.missing, NEW status, Tells(l, status)
  PROVE  Tells(k, status)
BY DEF Tells, Bound

(* And so does all an answer says.                                         *)
LEMMA HonestMore ==
  ASSUME NEW l, NEW k, Alike(k, l), l.there \subseteq k.there, l.missing \subseteq k.missing, Honest(l)
  PROVE  Honest(k)
<1>1. \A status : Tells(l, status) => Tells(k, status)
  BY TellsMore DEF Alike
<1>2. Refused(k) => Refused(l)
  BY DEF Alike, Refused
<1> QED
  BY <1>1, <1>2 DEF Alike, Honest

(* To watch a call is to have it see what there is.                        *)
LEMMA WatchedMore ==
  ASSUME NEW D, NEW cs \in [D -> Calls], NEW set, NEW c \in D
  PROVE  LET k == Watched(cs, set)[c]
         IN /\ Alike(k, cs[c]) /\ Noticed(k, set)
            /\ cs[c].there \subseteq k.there /\ cs[c].missing \subseteq k.missing
<1>1. PICK l \in Calls : l = cs[c]
  OBVIOUS
<1>2. PICK k : k = Watched(cs, set)[c]
  OBVIOUS
<1>3. Alike(k, l)
  BY <1>1, <1>2, WatchedCalls
<1>4. PICK about : about = {Owner(l.asked), Made(l.asked)}
  OBVIOUS
<1>5. k = IF l.pc \in {"sent", "answered"}
          THEN [l EXCEPT !.there   = l.there \cup {path \in about : path = <<>> \/ path \in set},
                         !.missing = l.missing \cup {path \in about : ~(path = <<>> \/ path \in set)}]
          ELSE l
  BY <1>1, <1>2, <1>4 DEF Watched
<1>6. CASE l.pc \in {"sent", "answered"}
  <2>1. /\ k.there = l.there \cup {path \in about : path = <<>> \/ path \in set}
        /\ k.missing = l.missing \cup {path \in about : ~(path = <<>> \/ path \in set)}
    BY <1>5, <1>6 DEF Calls
  <2>2. \A path \in about : IF path = <<>> \/ path \in set THEN path \in k.there ELSE path \in k.missing
    BY <2>1
  <2>3. about = {Owner(k.asked), Made(k.asked)}
    BY <1>3, <1>4 DEF Alike
  <2>4. Noticed(k, set)
    BY <2>2, <2>3 DEF Noticed
  <2> QED
    BY <1>1, <1>2, <1>3, <2>1, <2>4
<1>7. CASE l.pc \notin {"sent", "answered"}
  <2>1. k = l
    BY <1>5, <1>7
  <2> QED
    BY <1>1, <1>2, <1>3, <1>7, <2>1 DEF Noticed
<1> QED
  BY <1>6, <1>7

(* A step that sets one call keeps the invariant if that call does.        *)
LEMMA TruthPlain ==
  ASSUME TypeOK, TruthInv, NEW c \in DOMAIN calls, NEW k, calls' = [calls EXCEPT ![c] = k],
         exists' = exists, Honest(k), Noticed(k, exists)
  PROVE  TruthInv'
<1>1. DOMAIN calls' = DOMAIN calls /\ calls'[c] = k /\ \A d \in DOMAIN calls \ {c} : calls'[d] = calls[d]
  BY DEF TypeOK
<1>2. \A d \in DOMAIN calls : Honest(calls[d]) /\ Noticed(calls[d], exists)
  BY DEF TruthInv
<1>3. \A d \in DOMAIN calls' : Honest(calls'[d]) /\ Noticed(calls'[d], exists')
  BY <1>1, <1>2
<1> QED
  BY <1>3 DEF TruthInv

(* And so does one that has all calls see what UFM has then.               *)
LEMMA TruthWatched ==
  ASSUME TypeOK, TruthInv, NEW c \in DOMAIN calls, NEW k \in Calls,
         calls' = Watched([calls EXCEPT ![c] = k], exists'), Honest(calls'[c])
  PROVE  TruthInv'
<1>1. PICK cs : cs = [calls EXCEPT ![c] = k]
  OBVIOUS
<1>2. cs \in [DOMAIN calls -> Calls] /\ \A d \in DOMAIN calls \ {c} : cs[d] = calls[d]
  BY <1>1 DEF TypeOK
<1>3. calls' \in [DOMAIN calls -> Calls]
  BY <1>1, <1>2, WatchedCalls
<1>4. ASSUME NEW d \in DOMAIN calls
      PROVE  /\ Noticed(calls'[d], exists') /\ Alike(calls'[d], cs[d])
             /\ cs[d].there \subseteq calls'[d].there /\ cs[d].missing \subseteq calls'[d].missing
  BY <1>1, <1>2, WatchedMore
<1>5. ASSUME NEW d \in DOMAIN calls \ {c}
      PROVE  Honest(calls'[d])
  <2>1. Honest(cs[d])
    BY <1>2 DEF TruthInv
  <2> QED
    BY <1>4, <2>1, HonestMore
<1>6. \A d \in DOMAIN calls' : Honest(calls'[d]) /\ Noticed(calls'[d], exists')
  BY <1>3, <1>4, <1>5
<1> QED
  BY <1>6 DEF TruthInv

-----------------------------------------------------------------------------
(***************************************************************************)
(* The steps of a handler and its caller keep it.                          *)
(***************************************************************************)
(* A call that is under way was not refused.                               *)
LEMMA NotRefused ==
  ASSUME NEW l, Honest(l), l.pc # "unmade", l.pc = "replied" => l.status # BadRequest
  PROVE  ~Refused(l)
BY DEF Honest

(* A reply keeps the invariant if what its status says was seen.           *)
LEMMA TruthReplied ==
  ASSUME TypeOK, TruthInv, NEW c \in DOMAIN calls, NEW status \in Nat, NEW shape,
         calls' = [calls EXCEPT ![c] = Replied(calls[c], status, shape)], exists' = exists,
         Refused(calls[c]) => calls[c].did = <<>> /\ status = BadRequest,
         Tells(calls[c], status)
  PROVE  TruthInv'
<1>1. PICK l \in Calls : l = calls[c]
  BY CallLengths
<1>2. PICK k : k = Replied(l, status, shape)
  OBVIOUS
<1>3. /\ k.asked = l.asked /\ k.given = l.given /\ k.plan = l.plan
      /\ k.did = l.did /\ k.pc = "replied" /\ k.status = status
  BY <1>2, RepliedFields
<1>4. k.there = l.there /\ k.missing = l.missing
  BY <1>2 DEF Replied, Calls
<1>5. Tells(k, status)
  BY <1>1, <1>3, <1>4, TellsMore
<1>6. Refused(k) => Refused(l)
  BY <1>3 DEF Refused
<1>7. Honest(k) /\ Noticed(k, exists)
  BY <1>1, <1>3, <1>5, <1>6 DEF Honest, Noticed
<1> QED
  BY <1>1, <1>2, <1>7, TruthPlain

(* The wrapper and the handler that refuse say nothing of resources.       *)
LEMMA CallRefusedTruth ==
  ASSUME TypeOK, TruthInv, NEW c \in DOMAIN calls, CallRefused(c)
  PROVE  TruthInv'
<1>1. calls[c].did = <<>>
  BY CallLengths DEF CallRefused, InOrder
<1>2. PICK status : status = BadRequest
  OBVIOUS
<1>3. status \in Nat /\ status # 404 /\ status # 409 /\ ~(status < 400)
  BY <1>2 DEF BadRequest
<1>4. Tells(calls[c], status)
  BY <1>3 DEF Tells
<1>5. calls' = [calls EXCEPT ![c] = Replied(calls[c], status, "error")] /\ exists' = exists
  BY <1>2 DEF CallRefused
<1> QED
  BY <1>1, <1>2, <1>3, <1>4, <1>5, TruthReplied

(* The status of a success is one, and says nothing else.                  *)
LEMMA SuccessStatus ==
  ASSUME NEW op \in Operations
  PROVE  LET status == Handlers[op].status
         IN status \in Nat /\ status < 400 /\ status # 404 /\ status # 409
<1>1. Handlers[op].status \in 200..299
  BY HandlersAssumption
<1> QED
  BY <1>1

(* A handler that asks UFM nothing says nothing of what UFM has.           *)
LEMMA CallNothingTruth ==
  ASSUME TypeOK, TruthInv, NEW c \in DOMAIN calls, CallNothing(c)
  PROVE  TruthInv'
<1>1. PICK status : status = Handlers[calls[c].given.op].status
  OBVIOUS
<1>2. calls[c].given.op \in Operations
  BY CallLengths DEF Calls, Givens
<1>3. status \in Nat /\ status # 404 /\ status # 409
  BY <1>1, <1>2, SuccessStatus
<1>4. ~Bound(calls[c]) /\ ~Refused(calls[c]) /\ exists' = exists
  BY DEF CallNothing, Bound
<1>5. Tells(calls[c], status)
  BY <1>3, <1>4 DEF Tells
<1>6. PICK shape : calls' = [calls EXCEPT ![c] = Replied(calls[c], status, shape)]
  BY <1>1 DEF CallNothing
<1> QED
  BY <1>3, <1>4, <1>5, <1>6, TruthReplied

(* A call that is made sees what there is.                                 *)
LEMMA CallTruth ==
  ASSUME TypeOK, TruthInv, NEW c \in DOMAIN calls, Call(c)
  PROVE  TruthInv'
<1>1. PICK l \in Calls : l = calls[c]
  BY CallLengths
<1>2. PICK k \in Calls : /\ k = [l EXCEPT !.pc = "sent"]
                         /\ k.pc = "sent" /\ k.asked = l.asked /\ k.given = l.given
  <2>1. PICK k : k = [l EXCEPT !.pc = "sent"]
    OBVIOUS
  <2>2. k \in Calls /\ k.pc = "sent" /\ k.asked = l.asked /\ k.given = l.given
    BY <2>1 DEF Calls
  <2> QED
    BY <2>1, <2>2
<1>3. ~Refused(l) /\ calls' = Watched([calls EXCEPT ![c] = k], exists) /\ exists' = exists
  BY <1>1, <1>2 DEF Call
<1>4. Turns(c, k)
  BY <1>3, TurnWatched
<1>5. PICK new : new = calls'[c]
  OBVIOUS
<1>6. new.pc = "sent" /\ new.asked = l.asked /\ new.given = l.given
  BY <1>2, <1>4, <1>5 DEF Turns, Alike
<1>7. Honest(new)
  BY <1>3, <1>6 DEF Honest, Refused
<1> QED
  BY <1>3, <1>5, <1>7, TruthWatched

(* A step after which the handler knows no more, and the call is still     *)
(* under way.                                                              *)
LEMMA TruthUnderway ==
  ASSUME TypeOK, TruthInv, NEW c \in DOMAIN calls, calls[c].pc \in {"sent", "answered"},
         NEW k, calls' = [calls EXCEPT ![c] = k], exists' = exists,
         k.asked = calls[c].asked, k.given = calls[c].given, k.plan = calls[c].plan,
         k.there = calls[c].there, k.missing = calls[c].missing,
         k.pc \in {"sent", "answered"},
         k.pc = "answered" /\ k.resp.got => Tells(calls[c], k.resp.status)
  PROVE  TruthInv'
<1>1. PICK l : l = calls[c]
  OBVIOUS
<1>2. Honest(l) /\ Noticed(l, exists)
  BY <1>1 DEF TruthInv
<1>3. ~Refused(l)
  BY <1>1, <1>2, NotRefused
<1>4. ~Refused(k)
  BY <1>1, <1>3 DEF Refused
<1>5. k.pc = "answered" /\ k.resp.got => Tells(k, k.resp.status)
  BY <1>1, TellsMore
<1>6. Honest(k)
  BY <1>4, <1>5 DEF Honest
<1>7. Noticed(k, exists)
  BY <1>1, <1>2 DEF Noticed
<1> QED
  BY <1>6, <1>7, TruthPlain

(* A handler that gives up has no answer.                                  *)
LEMMA GiveUpTruth ==
  ASSUME TypeOK, TruthInv, NEW c \in DOMAIN calls, GiveUp(c)
  PROVE  TruthInv'
<1>1. PICK l \in Calls : l = calls[c]
  BY CallLengths
<1>2. PICK k : k = [l EXCEPT !.pc = "answered", !.resp = Silence]
  OBVIOUS
<1>3. ~Silence.got
  BY DEF Silence
<1>4. /\ k.asked = l.asked /\ k.given = l.given /\ k.plan = l.plan /\ k.there = l.there
      /\ k.missing = l.missing /\ k.pc = "answered" /\ k.resp = Silence
  BY <1>2 DEF Calls
<1>5. l.pc = "sent" /\ calls' = [calls EXCEPT ![c] = k] /\ exists' = exists
  BY <1>1, <1>2 DEF GiveUp
<1> QED
  BY <1>1, <1>3, <1>4, <1>5, TruthUnderway

(* A handler that goes on forgets the answer it had.                       *)
LEMMA ContinueTruth ==
  ASSUME TypeOK, TruthInv, NEW c \in DOMAIN calls, Continue(c)
  PROVE  TruthInv'
<1>1. PICK l \in Calls : l = calls[c]
  BY CallLengths
<1>2. PICK k : k = [l EXCEPT !.pc = "sent", !.step = l.step + 1]
  OBVIOUS
<1>3. /\ k.asked = l.asked /\ k.given = l.given /\ k.plan = l.plan /\ k.there = l.there
      /\ k.missing = l.missing /\ k.pc = "sent"
  BY <1>2 DEF Calls
<1>4. l.pc = "answered" /\ calls' = [calls EXCEPT ![c] = k] /\ exists' = exists
  BY <1>1, <1>2 DEF Continue
<1> QED
  BY <1>1, <1>3, <1>4, TruthUnderway

(* A caller that leaves changes nothing for the handler.                   *)
LEMMA AbandonTruth ==
  ASSUME TypeOK, TruthInv, NEW c \in DOMAIN calls, Abandon(c)
  PROVE  TruthInv'
<1>1. PICK l \in Calls : l = calls[c]
  BY CallLengths
<1>2. PICK k : k = [l EXCEPT !.seen = NoAnswer]
  OBVIOUS
<1>3. /\ k.asked = l.asked /\ k.given = l.given /\ k.plan = l.plan /\ k.there = l.there
      /\ k.missing = l.missing /\ k.pc = l.pc /\ k.resp = l.resp
  BY <1>2 DEF Calls
<1>4. l.pc \in {"sent", "answered"} /\ calls' = [calls EXCEPT ![c] = k] /\ exists' = exists
  BY <1>1, <1>2 DEF Abandon
<1>5. l.pc = "answered" /\ l.resp.got => Tells(l, l.resp.status)
  BY <1>1 DEF TruthInv, Honest
<1> QED
  BY <1>1, <1>3, <1>4, <1>5, TruthUnderway

(* A call that is lost is not answered.                                    *)
LEMMA RestartTruth ==
  ASSUME TypeOK, TruthInv, Restart
  PROVE  TruthInv'
<1>1. /\ DOMAIN calls' = DOMAIN calls /\ exists' = exists
      /\ \A c \in DOMAIN calls :
           calls'[c] = IF calls[c].pc \in {"sent", "answered"}
                       THEN [calls[c] EXCEPT !.pc = "lost", !.seen = NoAnswer] ELSE calls[c]
  BY DEF Restart
<1>2. ASSUME NEW c \in DOMAIN calls
      PROVE  Honest(calls'[c]) /\ Noticed(calls'[c], exists)
  <2>1. PICK l \in Calls : l = calls[c]
    BY CallLengths
  <2>2. Honest(l) /\ Noticed(l, exists)
    BY <2>1 DEF TruthInv
  <2>3. PICK k : k = [l EXCEPT !.pc = "lost", !.seen = NoAnswer]
    OBVIOUS
  <2>4. k.pc = "lost" /\ k.asked = l.asked /\ k.given = l.given
    BY <2>3 DEF Calls
  <2>5. CASE l.pc \in {"sent", "answered"}
    <3>1. ~Refused(l)
      BY <2>2, <2>5, NotRefused
    <3>2. Honest(k) /\ Noticed(k, exists)
      BY <2>4, <3>1 DEF Honest, Noticed, Refused
    <3> QED
      BY <1>1, <2>1, <2>3, <2>5, <3>2
  <2>6. CASE l.pc \notin {"sent", "answered"}
    BY <1>1, <2>1, <2>2, <2>6
  <2> QED
    BY <2>5, <2>6
<1> QED
  BY <1>1, <1>2 DEF TruthInv

(* An error becomes the status UFM has sent, or 502.                       *)
LEMMA ErrorPasses ==
  ASSUME NEW l \in Calls, ErrorOf(l) # NoError
  PROVE  LET status == handleUFMError(ErrorOf(l))
         IN status = BadGateway \/ (l.resp.got /\ status = l.resp.status)
<1>1. PICK m : m = Methods[l.plan[l.step].method]
  OBVIOUS
<1>2. PICK resp \in Responses : resp = l.resp
  BY DEF Calls
<1>3. PICK err : err = ErrorOf(l) /\ err # NoError
  OBVIOUS
<1>4. /\ handleUFMError(OtherError) = BadGateway
      /\ \A status : handleUFMError(APIError(status)) \in {status, BadGateway}
  BY DEF OtherError, APIError, handleUFMError
<1>5. CASE m.checked
  <2>1. err = do(resp, m.wants)
    BY <1>1, <1>2, <1>3, <1>5 DEF ErrorOf
  <2>2. err = OtherError \/ (resp.got /\ err = APIError(resp.status))
    BY <1>3, <2>1 DEF do
  <2> QED
    BY <1>2, <1>3, <1>4, <2>2
<1>6. CASE ~m.checked
  <2>1. err = OtherError \/ (resp.got /\ resp.status = 409 /\ err = APIError(409))
    BY <1>1, <1>2, <1>3, <1>6 DEF ErrorOf
  <2>2. \A status : err = APIError(status) => handleUFMError(err) \in {status, BadGateway}
    BY <1>4
  <2>3. CASE err = OtherError
    BY <1>3, <1>4, <2>3
  <2>4. CASE resp.got /\ resp.status = 409 /\ err = APIError(409)
    <3>1. err = APIError(resp.status)
      BY <2>4
    <3> QED
      BY <1>2, <1>3, <2>2, <2>4, <3>1
  <2> QED
    BY <2>1, <2>3, <2>4
<1> QED
  BY <1>5, <1>6

(* What UFM says, the handler says, or that it knows nothing.              *)
LEMMA ReplyTruth ==
  ASSUME TypeOK, FacadeInv, TruthInv, NEW c \in DOMAIN calls, Reply(c)
  PROVE  TruthInv'
<1>1. PICK l \in Calls : l = calls[c]
  BY CallLengths
<1>2. InOrder(l) /\ AsPlanned(l) /\ l.pc = "answered" /\ exists' = exists /\ Honest(l)
  BY <1>1 DEF TypeOK, FacadeInv, CallInv, TruthInv, Reply
<1>3. ~Refused(l)
  BY <1>2, NotRefused
<1>4. l.resp.got => Tells(l, l.resp.status)
  BY <1>2 DEF Honest
<1>5. CASE ErrorOf(l) # NoError
  <2>1. PICK status : status = handleUFMError(ErrorOf(l))
    OBVIOUS
  <2>2. calls' = [calls EXCEPT ![c] = Replied(calls[c], status, "error")]
    BY <1>1, <1>5, <2>1 DEF Reply
  <2>3. status = BadGateway \/ (l.resp.got /\ status = l.resp.status)
    BY <1>5, <2>1, ErrorPasses
  <2>4. BadGateway \in Nat /\ BadGateway # 404 /\ BadGateway # 409 /\ ~(BadGateway < 400)
    BY DEF BadGateway
  <2>5. Tells(l, BadGateway)
    BY <2>4 DEF Tells
  <2>6. status \in Nat /\ Tells(l, status)
    BY <1>1, <1>4, <2>3, <2>4, <2>5, CallLengths
  <2> QED
    BY <1>1, <1>2, <1>3, <2>2, <2>6, TruthReplied
<1>6. CASE ErrorOf(l) = NoError
  <2>1. PICK status : status = Handlers[l.given.op].status
    OBVIOUS
  <2>2. status \in Nat /\ status # 404 /\ status # 409
    <3>1. l.given.op \in Operations
      BY DEF Calls, Givens
    <3> QED
      BY <2>1, <3>1, SuccessStatus
  <2>3. PICK shape : calls' = [calls EXCEPT ![c] = Replied(calls[c], status, shape)]
    BY <1>1, <1>6, <2>1 DEF Reply
  <2>4. ASSUME Bound(l)
        PROVE  Owner(l.asked) \in l.there
    <3>1. Untested(l)
      BY <2>4 DEF Bound, Untested
    <3>2. l.step \in DOMAIN l.plan
      BY <1>2 DEF InOrder
    <3>3. Methods[l.plan[l.step].method].checked
      BY <1>2, <3>1, <3>2, StepChecked
    <3>4. l.resp.got /\ l.resp.status < 400
      BY <1>6, <3>3, ErrorFacts
    <3> QED
      BY <1>4, <2>4, <3>4 DEF Tells
  <2>5. Tells(l, status)
    BY <2>2, <2>4 DEF Tells
  <2> QED
    BY <1>1, <1>2, <1>3, <2>2, <2>3, <2>5, TruthReplied
<1> QED
  BY <1>5, <1>6

-----------------------------------------------------------------------------
(***************************************************************************)
(* The steps of UFM keep it.                                               *)
(***************************************************************************)
(* Of the call of what is on the wire.                                     *)
LEMMA SentFacts ==
  ASSUME TypeOK, FacadeInv, TruthInv, NEW m \in wire
  PROVE  LET l == calls[m.call]
         IN /\ m.call \in DOMAIN calls /\ l \in Calls /\ Honest(l) /\ Noticed(l, exists)
            /\ Sensible(l.asked) /\ l.given = Routed(l.asked)
            /\ StepOf(m) = Steps(l.asked, Routed(l.asked))[m.step] /\ m.step \in DOMAIN PlanOf(l.asked)
            /\ l.step = m.step /\ l.pc \in {"sent", "answered", "replied", "lost"} /\ ~Refused(l)
            /\ l.pc = "answered" => ~l.resp.got
            /\ l.pc = "replied" => l.status = BadGateway
<1>1. PICK c \in DOMAIN calls : c = m.call
  BY MessageFacts
<1>2. PICK l \in Calls : l = calls[c]
  BY CallLengths
<1>3. /\ m.step \in DOMAIN l.plan /\ StepOf(m) = l.plan[m.step] /\ Fresh(m, l) /\ Outstanding(c)
  BY <1>1, <1>2, MessageFacts
<1>4. AsPlanned(l) /\ Knows(l, Outstanding(c)) /\ Honest(l) /\ Noticed(l, exists)
  BY <1>2 DEF FacadeInv, CallInv, TruthInv
<1>5. Sensible(l.asked) /\ l.given = Routed(l.asked) /\ l.plan = Steps(l.asked, Routed(l.asked))
  BY <1>4 DEF AsPlanned
<1>6. m.step \in DOMAIN PlanOf(l.asked)
  BY <1>3, <1>5, StepsType
<1>7. /\ l.pc = "answered" => ~l.resp.got
      /\ l.pc = "replied" => l.status = BadGateway
  <2>1. PICK out \in BOOLEAN : out = Outstanding(c)
    BY DEF Outstanding
  <2>2. Knows(l, out) /\ out
    BY <1>3, <1>4, <2>1
  <2> QED
    BY <2>2 DEF Knows
<1>8. l.step = m.step /\ l.pc # "unmade" /\ l.pc \in {"unmade", "sent", "answered", "replied", "lost"}
  BY <1>3 DEF Fresh, Calls
<1>9. BadGateway # BadRequest
  BY DEF BadGateway, BadRequest
<1>10. ~Refused(l)
  BY <1>4, <1>7, <1>8, <1>9, NotRefused
<1> QED
  BY <1>1, <1>2, <1>3, <1>4, <1>5, <1>6, <1>7, <1>8, <1>10

(* An answer that is heard keeps the invariant if what it says was seen.   *)
LEMMA UfmAnswersTruth ==
  ASSUME TypeOK, FacadeInv, TruthInv, NEW m \in wire, NEW status \in Nat, UfmAnswers(m, status),
         calls[m.call].pc = "sent" => Tells(calls[m.call], status)
  PROVE  TruthInv'
<1>1. PICK c \in DOMAIN calls : c = m.call
  BY MessageFacts
<1>2. PICK l \in Calls : l = calls[c]
  BY CallLengths
<1>3. l.step = m.step
  BY <1>1, <1>2, SentFacts
<1>4. PICK resp : resp = Response(status) /\ resp.got /\ resp.status = status
  BY ResponseType
<1>5. calls' = [calls EXCEPT ![c] = Heard(l, m.step, resp)] /\ exists' = exists
  BY <1>1, <1>2, <1>4, DeliveredIs DEF UfmAnswers
<1>6. CASE l.pc = "sent"
  <2>1. PICK k : k = [l EXCEPT !.pc = "answered", !.resp = resp]
    OBVIOUS
  <2>2. /\ k.asked = l.asked /\ k.given = l.given /\ k.plan = l.plan /\ k.there = l.there
        /\ k.missing = l.missing /\ k.pc = "answered" /\ k.resp = resp
    BY <2>1 DEF Calls
  <2>3. calls' = [calls EXCEPT ![c] = k]
    BY <1>3, <1>5, <1>6, <2>1 DEF Heard
  <2>4. Tells(calls[c], k.resp.status)
    <3>1. calls[m.call].pc = "sent"
      BY <1>1, <1>2, <1>6
    <3>2. Tells(calls[c], status)
      BY <1>1, <3>1
    <3> QED
      BY <1>4, <2>2, <3>2
  <2>5. calls[c].pc \in {"sent", "answered"} /\ k.pc \in {"sent", "answered"}
    BY <1>2, <1>6, <2>2
  <2> QED
    BY <1>2, <1>5, <2>2, <2>3, <2>4, <2>5, TruthUnderway
<1>7. CASE l.pc # "sent"
  <2>1. calls' = [calls EXCEPT ![c] = l]
    BY <1>5, <1>7 DEF Heard
  <2>2. Honest(l) /\ Noticed(l, exists)
    BY <1>2 DEF TruthInv
  <2> QED
    BY <1>5, <2>1, <2>2, TruthPlain
<1> QED
  BY <1>6, <1>7

(* 404 says that the owner is missing: it is all a step needs.             *)
LEMMA UfmFindsNothingTruth ==
  ASSUME TypeOK, FacadeInv, TruthInv, NEW m \in wire, UfmFindsNothing(m)
  PROVE  TruthInv'
<1>1. PICK l : l = calls[m.call]
  OBVIOUS
<1>2. ASSUME l.pc = "sent", l.asked.op \notin ByBody
      PROVE  Owner(l.asked) \in l.missing
  <2>1. PICK owner : owner = Owner(l.asked)
    OBVIOUS
  <2>2. Needed(m) = <<>> \/ Needed(m) = owner
    BY <1>1, <1>2, <2>1, SentFacts, StepNeeds DEF Needed, MethodOf
  <2>3. owner # <<>> /\ owner \notin exists
    BY <2>2 DEF UfmFindsNothing, Present
  <2> QED
    BY <1>1, <1>2, <2>1, <2>3, SentFacts DEF Noticed
<1>3. PICK status : status = 404
  OBVIOUS
<1>4. status \in Nat /\ status # 409 /\ ~(status < 400)
  BY <1>3
<1>5. l.pc = "sent" => Tells(l, status)
  BY <1>2, <1>4 DEF Tells
<1>6. UfmAnswers(m, status)
  BY <1>3 DEF UfmFindsNothing
<1> QED
  BY <1>1, <1>4, <1>5, <1>6, UfmAnswersTruth

(* 409 says that what is to be made is there.                              *)
LEMMA UfmFindsItThereTruth ==
  ASSUME TypeOK, FacadeInv, TruthInv, NEW m \in wire, UfmFindsItThere(m)
  PROVE  TruthInv'
<1>1. PICK l : l = calls[m.call]
  OBVIOUS
<1>2. ASSUME l.pc = "sent"
      PROVE  Made(l.asked) \in l.there
  <2>1. PICK made : made = Made(l.asked)
    OBVIOUS
  <2>2. MethodOf(m).effect = "create" /\ StepOf(m).on \in exists
    BY DEF UfmFindsItThere, Conflict
  <2>3. StepOf(m).on = made
    BY <1>1, <2>1, <2>2, SentFacts, StepChanges DEF MethodOf
  <2> QED
    BY <1>1, <1>2, <2>1, <2>2, <2>3, SentFacts DEF Noticed
<1>3. PICK status : status = 409
  OBVIOUS
<1>4. status \in Nat /\ status # 404 /\ ~(status < 400)
  BY <1>3
<1>5. l.pc = "sent" => Tells(l, status)
  BY <1>2, <1>4 DEF Tells
<1>6. UfmAnswers(m, status)
  BY <1>3 DEF UfmFindsItThere
<1> QED
  BY <1>1, <1>4, <1>5, <1>6, UfmAnswersTruth

(* What else UFM refuses with says nothing of what it has.                 *)
LEMMA UfmRefusesTruth ==
  ASSUME TypeOK, FacadeInv, TruthInv, NEW m \in wire, UfmRefuses(m)
  PROVE  TruthInv'
<1>1. PICK status \in Refusals : UfmAnswers(m, status)
  BY DEF UfmRefuses
<1>2. status \in Nat /\ status # 404 /\ status # 409 /\ ~(status < 400)
  BY RefusalsAssumption
<1>3. Tells(calls[m.call], status)
  BY <1>2 DEF Tells
<1> QED
  BY <1>1, <1>2, <1>3, UfmAnswersTruth

(* A test that is running is not what is to be made.                       *)
LEMMA UfmIsBusyTruth ==
  ASSUME TypeOK, FacadeInv, TruthInv, NEW m \in wire, UfmIsBusy(m)
  PROVE  TruthInv'
<1>1. PICK l : l = calls[m.call]
  OBVIOUS
<1>2. l.asked.op = "RunFabricValidationTest"
  BY <1>1, SentFacts, StepChanges DEF UfmIsBusy
<1>3. PICK status : status = 409
  OBVIOUS
<1>4. status \in Nat /\ status # 404 /\ ~(status < 400)
  BY <1>3
<1>5. Tells(l, status)
  BY <1>2, <1>4 DEF Tells
<1>6. UfmAnswers(m, status)
  BY <1>3 DEF UfmIsBusy
<1> QED
  BY <1>1, <1>4, <1>5, <1>6, UfmAnswersTruth

(* What UFM carries out it heard of a call, and says so.                   *)
LEMMA UfmDoesIs ==
  ASSUME TypeOK, FacadeInv, TruthInv, NEW m \in wire, UfmDoes(m)
  PROVE  LET l == calls[m.call]
         IN \E k \in Calls :
              /\ calls' = Watched([calls EXCEPT ![m.call] = k], exists')
              /\ k.asked = l.asked /\ k.given = l.given /\ k.plan = l.plan /\ k.status = l.status
              /\ k.there = l.there /\ k.missing = l.missing
              /\ l.pc = "sent" => k.pc = "answered" /\ k.resp.status = 200
              /\ l.pc # "sent" => k.pc = l.pc /\ k.resp = l.resp
<1>1. PICK c \in DOMAIN calls : c = m.call
  BY MessageFacts
<1>2. PICK l \in Calls : l = calls[c]
  BY CallLengths
<1>3. l.step = m.step /\ StepOf(m) \in PlanSteps
  BY <1>1, <1>2, SentFacts, MessageFacts
<1>4. PICK resp \in {Response(200), Unreadable(200)} :
        calls' = Watched([Delivered(m, resp) EXCEPT ![m.call].did = Append(@, StepOf(m))], exists')
  <2>1. PICK resps : resps = IF MethodOf(m).wants THEN {Unreadable(200)} ELSE {}
    OBVIOUS
  <2>2. PICK resp \in {Response(200)} \cup resps :
          calls' = Watched([Delivered(m, resp) EXCEPT ![m.call].did = Append(@, StepOf(m))], exists')
    BY <2>1, Zenon DEF UfmDoes
  <2>3. resps \subseteq {Unreadable(200)}
    BY <2>1
  <2> QED
    BY <2>2, <2>3, Zenon
<1>5. resp \in Responses /\ resp.status = 200
  <2>1. 200 \in Nat
    OBVIOUS
  <2> QED
    BY <1>4, <2>1, ResponseType
<1>6. PICK h : h = Heard(l, l.step, resp)
  OBVIOUS
<1>7. /\ h \in Calls /\ h.asked = l.asked /\ h.given = l.given /\ h.plan = l.plan
      /\ h.did = l.did /\ h.status = l.status
      /\ l.pc = "sent" => h.pc = "answered" /\ h.resp = resp
      /\ l.pc # "sent" => h.pc = l.pc /\ h.resp = l.resp
  BY <1>5, <1>6, HeardFields
<1>8. h.there = l.there /\ h.missing = l.missing
  BY <1>6 DEF Heard, Calls
<1>9. PICK did : did = Append(l.did, StepOf(m))
  OBVIOUS
<1>10. did \in Seq(PlanSteps)
  BY <1>3, <1>9, AppendProperties DEF Calls
<1>11. PICK k : k = [h EXCEPT !.did = did]
  OBVIOUS
<1>12. /\ k \in Calls /\ k.asked = h.asked /\ k.given = h.given /\ k.plan = h.plan /\ k.status = h.status
       /\ k.there = h.there /\ k.missing = h.missing /\ k.pc = h.pc /\ k.resp = h.resp
  BY <1>7, <1>10, <1>11 DEF Calls
<1>13. [Delivered(m, resp) EXCEPT ![m.call].did = Append(@, StepOf(m))] = [calls EXCEPT ![c] = k]
  <2>1. Delivered(m, resp) = [calls EXCEPT ![c] = h]
    BY <1>1, <1>2, <1>3, <1>6, DeliveredIs
  <2>2. [calls EXCEPT ![c] = h][c].did = l.did
    BY <1>7
  <2> QED
    BY <1>1, <1>9, <1>11, <2>1, <2>2
<1>14. /\ k.asked = l.asked /\ k.given = l.given /\ k.plan = l.plan /\ k.status = l.status
       /\ k.there = l.there /\ k.missing = l.missing
       /\ l.pc = "sent" => k.pc = "answered" /\ k.resp.status = 200
       /\ l.pc # "sent" => k.pc = l.pc /\ k.resp = l.resp
  BY <1>5, <1>7, <1>8, <1>12
<1>15. calls' = Watched([calls EXCEPT ![c] = k], exists')
  BY <1>4, <1>13
<1> QED
  BY <1>1, <1>2, <1>12, <1>14, <1>15, Zenon

(* A success says that the owner was there when UFM carried out the step,  *)
(* or is there since.                                                      *)
LEMMA UfmDoesTruth ==
  ASSUME TypeOK, FacadeInv, TruthInv, NEW m \in wire, UfmDoes(m)
  PROVE  TruthInv'
<1>1. PICK c \in DOMAIN calls : c = m.call
  BY MessageFacts
<1>2. PICK l \in Calls : l = calls[c]
  BY CallLengths
<1>3. PICK k \in Calls :
        /\ calls' = Watched([calls EXCEPT ![c] = k], exists')
        /\ k.asked = l.asked /\ k.given = l.given /\ k.plan = l.plan /\ k.status = l.status
        /\ k.there = l.there /\ k.missing = l.missing
        /\ l.pc = "sent" => k.pc = "answered" /\ k.resp.status = 200
        /\ l.pc # "sent" => k.pc = l.pc /\ k.resp = l.resp
  BY <1>1, <1>2, UfmDoesIs
<1>4. PICK new : new = calls'[c]
  OBVIOUS
<1>5. Alike(new, k) /\ Noticed(new, exists') /\ k.there \subseteq new.there /\ k.missing \subseteq new.missing
  <2>1. PICK cs : cs = [calls EXCEPT ![c] = k]
    OBVIOUS
  <2>2. cs \in [DOMAIN calls -> Calls] /\ cs[c] = k
    BY <2>1 DEF TypeOK
  <2>3. PICK set : set = exists'
    OBVIOUS
  <2>4. new = Watched(cs, set)[c]
    BY <1>3, <1>4, <2>1, <2>3
  <2>5. Alike(new, cs[c]) /\ Noticed(new, set) /\ cs[c].there \subseteq new.there /\ cs[c].missing \subseteq new.missing
    BY <2>2, <2>4, WatchedMore, Zenon
  <2> QED
    BY <2>2, <2>3, <2>5
<1>6. /\ Honest(l) /\ Noticed(l, exists) /\ Sensible(l.asked) /\ l.given = Routed(l.asked) /\ ~Refused(l)
      /\ StepOf(m) = Steps(l.asked, Routed(l.asked))[m.step] /\ m.step \in DOMAIN PlanOf(l.asked)
      /\ l.pc = "answered" => ~l.resp.got
      /\ l.pc = "replied" => l.status = BadGateway
      /\ l.pc \in {"sent", "answered", "replied", "lost"}
  BY <1>1, <1>2, SentFacts
<1>7. ~Refused(new)
  BY <1>3, <1>5, <1>6 DEF Alike, Refused
<1>8. ASSUME l.pc = "sent", Bound(l)
      PROVE  Owner(l.asked) \in new.there
  <2>1. PICK owner : owner = Owner(l.asked)
    OBVIOUS
  <2>2. ~AsksForPower(l.asked) /\ l.asked.op \notin ByBody \cup AboutAll
    <3>1. l.asked.op = Routed(l.asked).op
      BY <1>6, <1>8 DEF Bound
    <3>2. Routed(l.asked).op = IF AsksForPower(l.asked) THEN "ListSystemsPower" ELSE l.asked.op
      BY <1>6, HandlerOfRequest DEF Sensible
    <3> QED
      BY <1>8, <3>1, <3>2 DEF AsksForPower, Bound
  <2>3. \/ Needed(m) = owner
        \/ MethodOf(m).effect = "put" /\ StepOf(m).on = owner
    BY <1>6, <2>1, <2>2, StepIsOwned DEF Needed, MethodOf
  <2>4. CASE Needed(m) = owner
    <3>1. owner = <<>> \/ owner \in exists
      BY <2>4 DEF UfmDoes, Present
    <3>2. owner \in l.there
      BY <1>6, <1>8, <2>1, <3>1 DEF Noticed
    <3> QED
      BY <1>3, <1>5, <2>1, <3>2
  <2>5. CASE MethodOf(m).effect = "put" /\ StepOf(m).on = owner
    <3>1. exists' \in {exists \cup {owner}}
      BY <2>5 DEF UfmDoes, Effect
    <3>2. owner \in exists'
      BY <3>1
    <3>3. new.pc = "answered" /\ new.asked = l.asked
      BY <1>3, <1>5, <1>8 DEF Alike
    <3> QED
      BY <1>5, <2>1, <3>2, <3>3 DEF Noticed
  <2> QED
    BY <2>3, <2>4, <2>5
<1>9. Bound(new) => Bound(l)
  BY <1>3, <1>5 DEF Alike, Bound
<1>10. new.pc = "answered" /\ new.resp.got => Tells(new, new.resp.status)
  <2>1. CASE l.pc = "sent"
    <3>1. PICK status : status = new.resp.status
      OBVIOUS
    <3>2. status = 200
      BY <1>3, <1>5, <2>1, <3>1 DEF Alike
    <3>3. status # 404 /\ status # 409
      BY <3>2
    <3>4. Bound(new) => Owner(new.asked) \in new.there
      BY <1>3, <1>5, <1>8, <1>9, <2>1 DEF Alike
    <3>5. Tells(new, status)
      BY <3>3, <3>4 DEF Tells
    <3> QED
      BY <3>1, <3>5
  <2>2. CASE l.pc # "sent"
    BY <1>3, <1>5, <1>6, <2>2 DEF Alike
  <2> QED
    BY <2>1, <2>2
<1>11. new.pc = "replied" => Tells(new, new.status)
  <2>1. SUFFICES ASSUME new.pc = "replied"
                 PROVE  Tells(new, new.status)
    OBVIOUS
  <2>2. new.status = BadGateway
    BY <1>3, <1>5, <1>6, <2>1 DEF Alike
  <2>3. BadGateway # 404 /\ BadGateway # 409 /\ ~(BadGateway < 400)
    BY DEF BadGateway
  <2> QED
    BY <2>2, <2>3 DEF Tells
<1>12. Honest(new)
  BY <1>7, <1>10, <1>11 DEF Honest
<1> QED
  BY <1>3, <1>4, <1>12, TruthWatched

-----------------------------------------------------------------------------
(***************************************************************************)
(* The theorems.                                                           *)
(***************************************************************************)
(* Before a call is made there is nothing to say.                          *)
LEMMA TruthInit == Init => TruthInv
<1> SUFFICES ASSUME Init
             PROVE  TruthInv
  OBVIOUS
<1>1. PICK script \in Scripts : calls = [c \in DOMAIN script |-> Unmade(script[c])]
  BY DEF Init
<1>2. ASSUME NEW c \in DOMAIN calls
      PROVE  calls[c].pc = "unmade" /\ calls[c].did = <<>>
  BY <1>1, <1>2 DEF Unmade
<1> QED
  BY <1>2 DEF TruthInv, Honest, Noticed

(* Every step keeps the second invariant.                                  *)
LEMMA TruthStep ==
  ASSUME TypeOK, FacadeInv, TruthInv, [Next]_vars
  PROVE  TruthInv'
<1>1. ASSUME NEW c \in DOMAIN calls, Call(c) \/ CallRefused(c) \/ CallNothing(c)
      PROVE  TruthInv'
  BY <1>1, CallTruth, CallRefusedTruth, CallNothingTruth
<1>2. ASSUME NEW c \in DOMAIN calls, GiveUp(c) \/ Continue(c) \/ Reply(c) \/ Abandon(c)
      PROVE  TruthInv'
  BY <1>2, GiveUpTruth, ContinueTruth, ReplyTruth, AbandonTruth
<1>3. ASSUME NEW m \in wire, UfmFindsNothing(m) \/ UfmFindsItThere(m) \/ UfmRefuses(m) \/ UfmIsBusy(m)
      PROVE  TruthInv'
  BY <1>3, UfmFindsNothingTruth, UfmFindsItThereTruth, UfmRefusesTruth, UfmIsBusyTruth
<1>4. ASSUME NEW m \in wire, UfmDoes(m)
      PROVE  TruthInv'
  BY <1>4, UfmDoesTruth
<1>5. CASE UNCHANGED <<exists, calls>>
  BY <1>5 DEF TruthInv
<1>6. ASSUME NEW m \in wire, WireLoses(m)
      PROVE  TruthInv'
  BY <1>5, <1>6 DEF WireLoses
<1>7. CASE UNCHANGED vars
  BY <1>5, <1>7 DEF vars
<1>8. CASE Restart
  BY <1>8, RestartTruth
<1> QED
  BY <1>1, <1>2, <1>3, <1>4, <1>6, <1>7, <1>8 DEF Next

(* The two invariants.  What a 404, a 409 or a success says of what a call *)
(* is about, the call has seen since it was made; and of a call that was   *)
(* refused for what could not be read UFM does nothing.                    *)
THEOREM TruthInvCorrect == Spec => [](TypeOK /\ FacadeInv /\ TruthInv)
<1>1. Init => TypeOK /\ FacadeInv /\ TruthInv
  BY InvInit, TruthInit
<1>2. TypeOK /\ FacadeInv /\ TruthInv /\ [Next]_vars => (TypeOK /\ FacadeInv /\ TruthInv)'
  BY InvStep, TruthStep
<1> QED
  BY <1>1, <1>2, PTL DEF Spec

(* What a status says of the resources was true at some moment of the      *)
(* call, for all operations and whatever other calls change meanwhile.     *)
THEOREM StatusCorrect == Spec => []StatusIsTrue
<1>1. TypeOK /\ FacadeInv /\ TruthInv => StatusIsTrue
  <2> SUFFICES ASSUME TruthInv, NEW c \in DOMAIN calls, calls[c].pc = "replied"
               PROVE  LET call == calls[c]
                          op   == call.asked.op
                      IN /\ call.status = 404 /\ op \notin ByBody => Owner(call.asked) \in call.missing
                         /\ call.status = 409 /\ op # "RunFabricValidationTest" => Made(call.asked) \in call.there
                         /\ call.status < 400 =>
                              \/ Owner(call.asked) \in call.there
                              \/ op \in ByBody \cup AboutAll \cup {"RunFabricValidationTest"}
                              \/ op # call.given.op
                              \/ call.plan = <<>>
    BY DEF StatusIsTrue
  <2>1. Tells(calls[c], calls[c].status)
    BY DEF TruthInv, Honest
  <2> QED
    BY <2>1 DEF Tells, Bound
<1> QED
  BY <1>1, TruthInvCorrect, PTL

(* What UFM carries out for a call is the beginning of its plan, in order; *)
(* it begins with, and but for the exceptions is in, what the path of the  *)
(* request names; and nothing is done for what could not be read.          *)
THEOREM ActsCorrect == Spec => []ActsOnWhatIsNamed
<1>1. TypeOK /\ FacadeInv /\ TruthInv => ActsOnWhatIsNamed
  <2> SUFFICES ASSUME TypeOK, FacadeInv, TruthInv, NEW c \in DOMAIN calls
               PROVE  LET call == calls[c]
                          op   == call.asked.op
                      IN /\ IsPrefix(call.did, call.plan)
                         /\ call.asked.body = "unreadable" /\ call.did # <<>> => op = "RebootSystem"
                         /\ \A step \in Range(call.did) :
                              /\ op # "CollectLinkDump" => Head(step.on) = Head(PathOf(call.asked))
                              /\ \/ IsPrefix(Owner(call.asked), step.on)
                                 \/ op \in ByBody \cup AboutAll
                                 \/ op # call.given.op
    BY DEF ActsOnWhatIsNamed
  <2>1. PICK l \in Calls : l = calls[c]
    BY CallLengths
  <2>2. PICK asked : asked = l.asked
    OBVIOUS
  <2>3. /\ Sensible(asked) /\ l.given = Routed(asked) /\ l.plan = Steps(asked, Routed(asked))
        /\ Len(l.did) <= Len(l.plan) /\ \A i \in 1..Len(l.did) : l.did[i] = l.plan[i]
    BY <2>1, <2>2 DEF FacadeInv, CallInv, AsPlanned
  <2>4. l.did \in Seq(PlanSteps) /\ l.plan \in Seq(PlanSteps)
    BY DEF Calls
  <2>5. IsPrefix(l.did, l.plan)
    BY <2>3, <2>4, PrefixIs
  <2>6. ASSUME asked.body = "unreadable", l.did # <<>>
        PROVE  asked.op = "RebootSystem"
    <3>1. ~Refused(l)
      BY <2>1, <2>6 DEF TruthInv, Honest
    <3>2. ~Handlers[Routed(asked).op].binds
      BY <2>2, <2>3, <2>6, <3>1 DEF Refused
    <3> QED
      BY <2>3, <2>6, <3>2, UnreadRefused
  <2>7. ASSUME NEW step \in Range(l.did)
        PROVE  \E k \in DOMAIN PlanOf(asked) : step = Steps(asked, Routed(asked))[k]
    <3>1. PICK k \in DOMAIN l.did : step = l.did[k]
      BY DEF Range
    <3>2. k \in 1..Len(l.did) /\ k \in DOMAIN l.plan
      BY <2>3, <2>4, <3>1, LenProperties
    <3>3. DOMAIN l.plan = DOMAIN PlanOf(asked)
      BY <2>3, StepsType
    <3> QED
      BY <2>3, <3>1, <3>2, <3>3
  <2>8. ASSUME NEW step \in Range(l.did), asked.op # "CollectLinkDump"
        PROVE  Head(step.on) = Head(PathOf(asked))
    BY <2>3, <2>7, <2>8, StepBegins
  <2>9. ASSUME NEW step \in Range(l.did), asked.op \notin ByBody \cup AboutAll, asked.op = l.given.op
        PROVE  IsPrefix(Owner(asked), step.on)
    <3>1. Routed(asked).op = IF AsksForPower(asked) THEN "ListSystemsPower" ELSE asked.op
      BY <2>3, HandlerOfRequest DEF Sensible
    <3>2. ~AsksForPower(asked)
      BY <2>3, <2>9, <3>1 DEF AsksForPower
    <3> QED
      BY <2>3, <2>7, <2>9, <3>2, StepIsOwned
  <2> QED
    BY <2>1, <2>2, <2>5, <2>6, <2>8, <2>9
<1> QED
  BY <1>1, TruthInvCorrect, PTL

(* What is in what is in a path is in the path.                            *)
LEMMA PrefixOfPrefix ==
  ASSUME NEW p \in Paths, NEW q \in Paths, NEW r \in Paths, IsPrefix(p, q), IsPrefix(q, r)
  PROVE  IsPrefix(p, r)
<1>1. Len(p) \in Nat /\ Len(q) \in Nat /\ Len(r) \in Nat /\ Len(p) <= Len(q) /\ Len(q) <= Len(r)
  BY LenProperties DEF Paths, IsPrefix
<1>2. ASSUME NEW s \in Paths, NEW t \in Paths, IsPrefix(s, t), NEW i \in 1..Len(s)
      PROVE  s[i] = t[i]
  <2>1. Len(s) \in Nat /\ Len(t) \in Nat /\ Len(s) <= Len(t) /\ SubSeq(s, 1, Len(s)) = SubSeq(t, 1, Len(s))
    BY <1>2, LenProperties DEF Paths, IsPrefix
  <2>2. SubSeq(s, 1, Len(s))[i] = s[i] /\ SubSeq(t, 1, Len(s))[i] = t[i]
    BY <1>2, <2>1 DEF Paths
  <2> QED
    BY <2>1, <2>2
<1>3. \A i \in 1..Len(p) : i \in 1..Len(q) /\ p[i] = q[i] /\ q[i] = r[i]
  BY <1>1, <1>2
<1> QED
  BY <1>1, <1>3, PrefixIs DEF Paths

(* What UFM has changes only when it carries out a step.                   *)
LEMMA OnlyUfmChanges ==
  ASSUME Next, exists' # exists
  PROVE  \E m \in wire : UfmDoes(m)
<1>1. ASSUME NEW c \in DOMAIN calls, Call(c) \/ CallRefused(c) \/ CallNothing(c)
      PROVE  exists' = exists
  BY <1>1 DEF Call, CallRefused, CallNothing
<1>2. ASSUME NEW c \in DOMAIN calls, GiveUp(c) \/ Continue(c) \/ Reply(c) \/ Abandon(c)
      PROVE  exists' = exists
  BY <1>2 DEF GiveUp, Continue, Reply, Abandon
<1>3. ASSUME NEW m \in wire, \/ UfmFindsNothing(m) \/ UfmFindsItThere(m)
                             \/ UfmRefuses(m) \/ UfmIsBusy(m) \/ WireLoses(m)
      PROVE  exists' = exists
  BY <1>3 DEF UfmFindsNothing, UfmFindsItThere, UfmRefuses, UfmIsBusy, WireLoses, UfmAnswers
<1>4. Restart => exists' = exists
  BY DEF Restart
<1> QED
  BY <1>1, <1>2, <1>3, <1>4 DEF Next

(* And then as the request of the call says.                               *)
LEMMA UfmDoesAsAsked ==
  ASSUME TypeOK, FacadeInv, NEW m \in wire, UfmDoes(m)
  PROVE  LET asked == calls[m.call].asked
         IN /\ \A path \in exists' \ exists : MayAdd(asked, path)
            /\ \A path \in exists \ exists' : MayRemove(asked, path)
<1>1. PICK asked : asked = calls[m.call].asked
  OBVIOUS
<1>2. Sensible(asked) /\ m.step \in DOMAIN PlanOf(asked) /\ StepOf(m) = Steps(asked, Routed(asked))[m.step]
  <2>1. PICK c \in DOMAIN calls : c = m.call
    BY MessageFacts
  <2>2. AsPlanned(calls[c])
    BY DEF FacadeInv, CallInv
  <2>3. m.step \in DOMAIN calls[c].plan /\ StepOf(m) = calls[c].plan[m.step]
    BY <2>1, MessageFacts
  <2> QED
    BY <1>1, <2>1, <2>2, <2>3, StepsType DEF AsPlanned
<1>3. PICK on \in Paths : on = StepOf(m).on
  BY MessageFacts DEF PlanSteps
<1>4. PICK effect : effect = MethodOf(m).effect
  OBVIOUS
<1>5. PICK full \in Paths : full = PathOf(asked)
  BY <1>2, AskedTypes DEF Sensible
<1>6. /\ effect \in {"create", "put", "start"} => Requests[asked.op].method = "POST"
      /\ effect = "create" => on = Made(asked)
      /\ effect = "put" => on \in {Made(asked), Owner(asked)}
      /\ effect = "start" =>
           /\ asked.op = "CreateMonitoringSession" /\ Len(on) = Len(full) + 1
           /\ \A i \in DOMAIN full : on[i] = full[i] /\ full[i] \notin Parameters
      /\ effect = "delete" => Requests[asked.op].method = "DELETE" /\ IsPrefix(full, on)
  BY <1>2, <1>3, <1>4, <1>5, StepChanges DEF MethodOf
<1>7. exists' \in Effect(m) /\ exists \subseteq Paths
  BY DEF UfmDoes, TypeOK
<1>8. CASE effect \in {"create", "put"}
  <2>1. exists' = exists \cup {on}
    BY <1>3, <1>4, <1>7, <1>8 DEF Effect
  <2>2. on \in {Made(asked), Owner(asked)} /\ Requests[asked.op].method = "POST"
    BY <1>6, <1>8
  <2> QED
    BY <1>1, <2>1, <2>2 DEF MayAdd
<1>9. CASE effect = "start"
  <2>1. exists' \in {exists \cup {path} : path \in {Filled(on, [p \in {A1} |-> n]) : n \in Names} \ exists}
    BY <1>3, <1>4, <1>7, <1>9 DEF Effect
  <2>2. PICK n \in Names : exists' = exists \cup {Filled(on, [p \in {A1} |-> n])}
    BY <2>1
  <2>3. PICK value \in [{A1} -> Names] : value = [p \in {A1} |-> n]
    OBVIOUS
  <2>4. PICK new : new = Filled(on, value)
    OBVIOUS
  <2>5. /\ new \in Paths /\ DOMAIN new = DOMAIN on /\ Len(new) = Len(on)
        /\ \A i \in DOMAIN on : new[i] = IF on[i] \in {A1} THEN value[on[i]] ELSE on[i]
    BY <2>4, FilledType
  <2>6. Len(full) \in Nat /\ DOMAIN full = 1..Len(full) /\ DOMAIN on = 1..Len(on) /\ Len(new) = Len(full) + 1
    BY <1>6, <1>9, <2>5, LenProperties DEF Paths
  <2>7. \A i \in 1..Len(full) : full[i] = new[i]
    <3>1. A1 \in Parameters
      BY Placeholders
    <3> QED
      BY <1>6, <1>9, <2>5, <2>6, <3>1
  <2>8. SubSeq(new, 1, Len(full)) = full
    BY <2>5, <2>6, <2>7, PrefixIs DEF Paths
  <2>9. Front(new) = full
    BY <2>6, <2>8 DEF Front
  <2>10. MayAdd(asked, new)
    BY <1>5, <1>6, <1>9, <2>9 DEF MayAdd
  <2>11. exists' = exists \cup {new}
    BY <2>2, <2>3, <2>4
  <2> QED
    BY <1>1, <2>10, <2>11
<1>10. CASE effect = "delete"
  <2>1. exists' = {path \in exists : ~IsPrefix(on, path)}
    BY <1>3, <1>4, <1>7, <1>10 DEF Effect
  <2>2. ASSUME NEW path \in exists, IsPrefix(on, path)
        PROVE  MayRemove(asked, path)
    <3>1. IsPrefix(full, on) /\ Requests[asked.op].method = "DELETE"
      BY <1>6, <1>10
    <3>2. IsPrefix(full, path)
      BY <1>7, <2>2, <3>1, PrefixOfPrefix
    <3> QED
      BY <1>5, <3>1, <3>2 DEF MayRemove
  <2> QED
    BY <1>1, <2>1, <2>2
<1>11. CASE effect \notin {"create", "put", "start", "delete"}
  <2>1. exists' = exists
    BY <1>4, <1>7, <1>11 DEF Effect
  <2> QED
    BY <2>1
<1> QED
  BY <1>8, <1>9, <1>10, <1>11

(* A resource appears only where a call that was made puts it, and         *)
(* disappears only with what a DELETE names, also when the call was given  *)
(* up, its caller is gone or the facade was stopped.                       *)
THEOREM OnlyAsAskedCorrect == Spec => OnlyAsAsked
<1>1. TypeOK /\ FacadeInv /\ [Next]_vars =>
        [LET asked == {calls[c].asked : c \in {d \in DOMAIN calls : calls[d].pc # "unmade"}}
         IN /\ \A path \in exists' \ exists : \E a \in asked : MayAdd(a, path)
            /\ \A path \in exists \ exists' : \E a \in asked : MayRemove(a, path)]_vars
  <2> SUFFICES ASSUME TypeOK, FacadeInv, Next
               PROVE  LET asked == {calls[c].asked : c \in {d \in DOMAIN calls : calls[d].pc # "unmade"}}
                      IN /\ \A path \in exists' \ exists : \E a \in asked : MayAdd(a, path)
                         /\ \A path \in exists \ exists' : \E a \in asked : MayRemove(a, path)
    OBVIOUS
  <2>1. CASE exists' = exists
    BY <2>1
  <2>2. CASE exists' # exists
    <3>1. PICK m \in wire : UfmDoes(m)
      BY <2>2, OnlyUfmChanges
    <3>2. m.call \in DOMAIN calls /\ calls[m.call].pc # "unmade"
      BY MessageFacts DEF Fresh
    <3> QED
      BY <3>1, <3>2, UfmDoesAsAsked
  <2> QED
    BY <2>1, <2>2
<1> QED
  BY <1>1, FacadeInvCorrect, PTL DEF Spec, OnlyAsAsked
=============================================================================
