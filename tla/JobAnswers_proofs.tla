-------------------------- MODULE JobAnswers_proofs ---------------------------
(***************************************************************************)
(* More theorems about Jobs: that a request starts one job at most, and    *)
(* that what a handler reports as done is done, for any jobs, API clients  *)
(* and refusals.                                                           *)
(***************************************************************************)
EXTENDS Jobs_proofs, FiniteSetTheorems

-----------------------------------------------------------------------------
(***************************************************************************)
(* OneJobPerRequest.  A request is on the wire until it has started a job  *)
(* or is lost: the jobs and the requests on the wire are together no more  *)
(* than the requests that were made.                                       *)
(***************************************************************************)
CountInv ==
  /\ IsFiniteSet(Known) /\ IsFiniteSet(wire)
  /\ Cardinality(Known) + Cardinality(wire) <= requests

LEMMA CountInit == Init => CountInv
<1> SUFFICES ASSUME Init PROVE CountInv
  OBVIOUS
<1>1. Known = {} /\ wire = {} /\ requests = 0
  BY DEF Init, Known
<1> QED
  BY <1>1, FS_EmptySet DEF CountInv

(* A step that puts nothing on the wire and starts no job.                 *)
LEMMA CountRests ==
  ASSUME TypeOK, CountInv, wire' \subseteq wire, Known' = Known, requests' = requests
  PROVE  CountInv'
<1>1. IsFiniteSet(wire') /\ Cardinality(wire') <= Cardinality(wire)
  BY FS_Subset DEF CountInv
<1>2. Cardinality(wire) \in Nat /\ Cardinality(wire') \in Nat /\ Cardinality(Known) \in Nat
  BY <1>1, FS_CardinalityType DEF CountInv
<1>3. requests \in Nat
  BY DEF TypeOK
<1> QED
  BY <1>1, <1>2, <1>3 DEF CountInv

LEMMA CountSend ==
  ASSUME TypeOK, CountInv, NEW r, wire' = wire \cup {r}, Known' = Known, requests' = requests + 1
  PROVE  CountInv'
<1>1. /\ IsFiniteSet(wire \cup {r})
      /\ Cardinality(wire \cup {r}) = IF r \in wire THEN Cardinality(wire) ELSE Cardinality(wire) + 1
  BY FS_AddElement DEF CountInv
<1>2. Cardinality(wire) \in Nat /\ Cardinality(Known) \in Nat
  BY FS_CardinalityType DEF CountInv
<1>3. requests \in Nat
  BY DEF TypeOK
<1> QED
  BY <1>1, <1>2, <1>3 DEF CountInv

LEMMA CountStart ==
  ASSUME TypeOK, CountInv, NEW r \in wire, NEW j \in JobIds,
         wire' = wire \ {r}, Known' = Known \cup {j}, requests' = requests
  PROVE  CountInv'
<1>1. IsFiniteSet(wire \ {r}) /\ Cardinality(wire \ {r}) = Cardinality(wire) - 1
  BY FS_RemoveElement DEF CountInv
<1>2. /\ IsFiniteSet(Known \cup {j})
      /\ Cardinality(Known \cup {j}) = IF j \in Known THEN Cardinality(Known) ELSE Cardinality(Known) + 1
  BY FS_AddElement DEF CountInv
<1>3. Cardinality(wire) \in Nat /\ Cardinality(Known) \in Nat
  BY FS_CardinalityType DEF CountInv
<1>4. requests \in Nat
  BY DEF TypeOK
<1> QED
  BY <1>1, <1>2, <1>3, <1>4 DEF CountInv

LEMMA CountStep ==
  ASSUME TypeOK, CountInv, [Next]_vars
  PROVE  CountInv'
<1>1. ASSUME NEW c \in Callers, NEW op, NEW j, Send(c, op, j) PROVE CountInv'
  <2>1. requests' = requests + 1 /\ Known' = Known
    BY <1>1 DEF Send, Known, ufmVars
  <2>2. wire' = wire \cup {[caller |-> c, number |-> requests + 1, op |-> op, job |-> j]}
    BY <1>1 DEF Send
  <2> QED
    BY <2>1, <2>2, CountSend
<1>2. ASSUME NEW c \in Callers, GiveUp(c) \/ Reply(c) PROVE CountInv'
  <2>1. wire' = wire /\ Known' = Known /\ requests' = requests
    BY <1>2 DEF GiveUp, Reply, Known, ufmVars
  <2> QED
    BY <2>1, CountRests
<1>3. ASSUME NEW r \in wire, UfmHandles(r) PROVE CountInv'
  <2>1. wire' = wire \ {r} /\ requests' = requests
    BY <1>3 DEF UfmHandles
  <2>2. ASSUME UfmStartsJob(r) PROVE CountInv'
    <3>1. PICK j \in JobIds : state' = [state EXCEPT ![j] = "running"]
      BY <2>2 DEF UfmStartsJob
    <3>2. Known' = Known \cup {j}
      BY <3>1 DEF Known, TypeOK
    <3> QED
      BY <2>1, <3>2, CountStart
  <2>3. ASSUME UfmShowsJob(r) \/ UfmDeletesJob(r) \/ UfmAbortsJobs(r) \/ UfmRefuses(r) PROVE CountInv'
    <3>1. Known' = Known
      BY <2>3 DEF UfmShowsJob, UfmDeletesJob, UfmAbortsJobs, UfmRefuses, ufmVars, Known, Running, TypeOK
    <3> QED
      BY <2>1, <3>1, CountRests
  <2> QED
    BY <1>3, <2>2, <2>3 DEF UfmHandles
<1>4. ASSUME NEW r \in wire, WireLoses(r) PROVE CountInv'
  <2>1. wire' \subseteq wire /\ Known' = Known /\ requests' = requests
    BY <1>4 DEF WireLoses, Known, ufmVars
  <2> QED
    BY <2>1, CountRests
<1>5. ASSUME NEW j \in JobIds, UfmEndsJob(j) PROVE CountInv'
  <2>1. wire' = wire /\ requests' = requests
    BY <1>5 DEF UfmEndsJob, callVars
  <2>2. Known' = Known
    BY <1>5 DEF UfmEndsJob, Known, Running, TypeOK
  <2> QED
    BY <2>1, <2>2, CountRests
<1>6. ASSUME NEW w \in Waiters, WaitStep(w) \/ Expire(w) \/ \E j \in JobIds : StartWait(w, j)
      PROVE  CountInv'
  <2>1. wire' = wire /\ Known' = Known /\ requests' = requests
    BY <1>6 DEF WaitStep, Poll, PollAnswered, PollFails, Decide, PauseEnds, Expire, StartWait,
                ufmVars, callVars, Known
  <2> QED
    BY <2>1, CountRests
<1>7. CASE UNCHANGED vars
  BY <1>7 DEF vars, CountInv, Known
<1> QED
  BY <1>1, <1>2, <1>3, <1>4, <1>5, <1>6, <1>7 DEF Next, Handle

(* However late or lost the answers, no request of the facade starts a     *)
(* second job.                                                             *)
THEOREM OneJobCorrect == Spec => []OneJobPerRequest
<1>1. Init => TypeOK /\ CountInv
  BY TypeInit, CountInit
<1>2. TypeOK /\ CountInv /\ [Next]_vars => (TypeOK /\ CountInv)'
  BY TypeStep, CountStep
<1>3. TypeOK /\ CountInv => OneJobPerRequest
  <2> SUFFICES ASSUME TypeOK, CountInv PROVE OneJobPerRequest
    OBVIOUS
  <2>1. Cardinality(wire) \in Nat /\ Cardinality(Known) \in Nat /\ requests \in Nat
    BY FS_CardinalityType DEF CountInv, TypeOK
  <2> QED
    BY <2>1 DEF CountInv, OneJobPerRequest
<1> QED
  BY <1>1, <1>2, <1>3, PTL DEF Spec

-----------------------------------------------------------------------------
(***************************************************************************)
(* AbortReportedIsDone, AcceptedNamesAJob, DeleteReportedIsDone.  What a   *)
(* request claims once it has succeeded is made true by UFM before the     *)
(* answer reaches the handler (Trusted), and no later step of anybody      *)
(* undoes it.  For this the handler must have the answer to its own        *)
(* request: a request on the wire that bears the number of its caller's    *)
(* present one is that one (WireInv).                                      *)
(***************************************************************************)
Aborts   == {"AbortJob", "AbortAllJobs"}
Accepted == {"AddPartitionHosts", "CreateReport"}

(* The status the handler has: UFM's, later its own.                       *)
Said(k) == IF k.pc = "answered" THEN k.resp.status ELSE k.status

Holds(k) ==
  /\ k.op \in Aborts => k.runningBefore \cap Running = {}
  /\ k.op \in Accepted => k.job \in Known
  /\ k.op = "DeleteJob" => \/ state[k.job] = "deleted"
                           \/ Said(k) = 404 /\ k.job \in k.unknownBefore

Claims(op, status) ==
  \/ status < 400
  \/ op = "DeleteJob" /\ status = 404 /\ 404 \notin Refusals

Claiming == Aborts \cup Accepted \cup {"DeleteJob"}

Trusted(k) ==
  /\ k.op \in Claiming
  /\ \/ k.pc = "answered" /\ k.resp.got /\ Claims(k.op, k.resp.status)
     \/ k.pc = "replied" /\ Claims(k.op, k.status)

WireInv ==
  \A r \in wire :
    /\ r.number \in 1..requests
    /\ r.op = "DeleteJob" => r.job \in JobIds
    /\ call[r.caller].number = r.number =>
         /\ call[r.caller].op = r.op
         /\ r.op = "DeleteJob" => call[r.caller].job = r.job

CallInv(k) ==
  /\ k.number \in 0..requests
  /\ k.runningBefore \subseteq Known
  /\ k.op = "DeleteJob" => k.job \in JobIds /\ k.job \in Known \cup k.unknownBefore
  /\ Trusted(k) => Holds(k)

AnswerInv == WireInv /\ \A c \in Callers : CallInv(call[c])

(* No job that is known starts running, none is forgotten, and none that   *)
(* is deleted comes back.                                                  *)
Onward ==
  /\ requests <= requests'
  /\ \A j \in JobIds :
       /\ state[j] # "none" => state'[j] # "none"
       /\ state[j] # "none" /\ state'[j] = "running" => state[j] = "running"
       /\ state[j] = "deleted" => state'[j] = "deleted"

LEMMA OnwardStep ==
  ASSUME TypeOK, [Next]_vars
  PROVE  Onward
<1>0. requests \in Nat
  BY DEF TypeOK
<1>1. CASE UNCHANGED ufmVars /\ (requests' = requests \/ requests' = requests + 1)
  BY <1>0, <1>1 DEF Onward, ufmVars
<1>2. ASSUME NEW c \in Callers, Handle(c)
      PROVE  UNCHANGED ufmVars /\ (requests' = requests \/ requests' = requests + 1)
  BY <1>2 DEF Handle, GiveUp, Reply, Send
<1>3. ASSUME NEW r \in wire, WireLoses(r) PROVE UNCHANGED ufmVars /\ requests' = requests
  BY <1>3 DEF WireLoses
<1>4. ASSUME NEW w \in Waiters, WaitStep(w) \/ Expire(w) \/ \E j \in JobIds : StartWait(w, j)
      PROVE  UNCHANGED ufmVars /\ requests' = requests
  BY <1>4 DEF WaitStep, Poll, PollAnswered, PollFails, Decide, PauseEnds, Expire, StartWait, callVars
<1>5. ASSUME NEW j \in JobIds, UfmEndsJob(j) PROVE Onward
  BY <1>0, <1>5 DEF UfmEndsJob, Onward, TypeOK, Running, callVars
<1>6. ASSUME NEW r \in wire, UfmHandles(r) PROVE Onward
  <2>1. requests' = requests
    BY <1>6 DEF UfmHandles
  <2> SUFFICES ASSUME NEW i \in JobIds
               PROVE  /\ state[i] # "none" => state'[i] # "none"
                      /\ state[i] # "none" /\ state'[i] = "running" => state[i] = "running"
                      /\ state[i] = "deleted" => state'[i] = "deleted"
    BY <1>0, <2>1 DEF Onward
  <2> state \in [JobIds -> States]
    BY DEF TypeOK
  <2>2. CASE UfmStartsJob(r)
    BY <2>2 DEF UfmStartsJob
  <2>3. CASE UfmDeletesJob(r)
    BY <2>3 DEF UfmDeletesJob
  <2>4. CASE UfmAbortsJobs(r)
    BY <2>4 DEF UfmAbortsJobs, Running
  <2>5. CASE UfmShowsJob(r) \/ UfmRefuses(r)
    BY <2>5 DEF UfmShowsJob, UfmRefuses, ufmVars
  <2> QED
    BY <1>6, <2>2, <2>3, <2>4, <2>5 DEF UfmHandles
<1> QED
  BY <1>1, <1>2, <1>3, <1>4, <1>5, <1>6 DEF Next, vars, ufmVars

(* What is known of a handler that rests stays true.                       *)
LEMMA CallRests ==
  ASSUME TypeOK, NEW k \in Calls, CallInv(k), Onward, requests' \in Nat
  PROVE  CallInv(k)'
<1>1. Known \subseteq Known' /\ k.runningBefore \subseteq Known'
  BY DEF Onward, Known, CallInv
<1>2. k.number \in 0..requests'
  BY DEF Onward, CallInv, TypeOK
<1>3. ASSUME Trusted(k), k.op \in Aborts PROVE k.runningBefore \cap Running' = {}
  <2>1. k.runningBefore \cap Running = {} /\ k.runningBefore \subseteq Known
    BY <1>3 DEF CallInv, Holds
  <2> QED
    BY <2>1 DEF Onward, Running, Known
<1>4. ASSUME Trusted(k), k.op \in Accepted PROVE k.job \in Known'
  BY <1>1, <1>4 DEF CallInv, Holds
<1>5. ASSUME Trusted(k), k.op = "DeleteJob"
      PROVE  state'[k.job] = "deleted" \/ (Said(k) = 404 /\ k.job \in k.unknownBefore)
  BY <1>5 DEF CallInv, Holds, Onward
<1>6. Trusted(k)' = Trusted(k)
  BY DEF Trusted
<1>7. k.op = "DeleteJob" => k.job \in JobIds /\ k.job \in Known' \cup k.unknownBefore
  BY <1>1 DEF CallInv
<1>8. Said(k)' = Said(k)
  BY DEF Said
<1> QED
  BY <1>1, <1>2, <1>3, <1>4, <1>5, <1>6, <1>7, <1>8 DEF CallInv, Holds

LEMMA WireRests ==
  ASSUME TypeOK, WireInv, Onward, requests' \in Nat, wire' \subseteq wire,
         \A c \in Callers : /\ call'[c].number \in {0, call[c].number} /\ call'[c].op = call[c].op
                            /\ call[c].op = "DeleteJob" => call'[c].job = call[c].job
  PROVE  WireInv'
<1> SUFFICES ASSUME NEW r \in wire'
             PROVE  /\ r.number \in 1..requests'
                    /\ r.op = "DeleteJob" => r.job \in JobIds
                    /\ call'[r.caller].number = r.number =>
                         /\ call'[r.caller].op = r.op
                         /\ r.op = "DeleteJob" => call'[r.caller].job = r.job
  BY DEF WireInv
<1>1. /\ r \in wire /\ r.caller \in Callers /\ r.number \in 1..requests
      /\ r.op = "DeleteJob" => r.job \in JobIds
      /\ call[r.caller].number = r.number =>
           /\ call[r.caller].op = r.op
           /\ r.op = "DeleteJob" => call[r.caller].job = r.job
  BY DEF TypeOK, Wired, WireInv
<1>2. requests <= requests' /\ requests \in Nat
  BY DEF Onward, TypeOK
<1>3. r.number \in 1..requests'
  BY <1>1, <1>2
<1>4. call'[r.caller].number = r.number => call[r.caller].number = r.number
  BY <1>1
<1> QED
  BY <1>1, <1>2, <1>3, <1>4

(* One handler's state changes, the others rest.                           *)
LEMMA CallsRest ==
  ASSUME TypeOK, AnswerInv, Onward, requests' \in Nat, NEW c \in Callers, NEW k,
         call' = [call EXCEPT ![c] = k], CallInv(k)'
  PROVE  \A d \in Callers : CallInv(call[d])'
<1> SUFFICES ASSUME NEW d \in Callers PROVE CallInv(call[d])'
  OBVIOUS
<1>1. call \in [Callers -> Calls]
  BY DEF TypeOK
<1>2. CASE d = c
  <2>1. call'[d] = k
    BY <1>1, <1>2
  <2> QED
    BY <2>1 DEF CallInv, Trusted, Holds, Said
<1>3. CASE d # c
  <2>1. call'[d] = call[d] /\ call[d] \in Calls /\ CallInv(call[d])
    BY <1>1, <1>3 DEF AnswerInv
  <2>2. PICK h \in Calls : h = call[d]
    BY <2>1
  <2>3. CallInv(h)'
    <3>1. CallInv(h)
      BY <2>1, <2>2
    <3> QED
      BY <3>1, CallRests
  <2> QED
    BY <2>1, <2>2, <2>3 DEF CallInv, Trusted, Holds, Said
<1> QED
  BY <1>2, <1>3

(* A handler claims nothing that its answer from UFM does not.             *)
LEMMA StatusClaims ==
  ASSUME NEW op \in Claiming, NEW resp \in Responses, Claims(op, StatusOf(op, resp))
  PROVE  /\ resp.got /\ Claims(op, resp.status)
         /\ resp.status = 404 => StatusOf(op, resp) = 404
<1>1. op # "RunFabricValidationTest"
  BY DEF Claiming, Aborts, Accepted
<1>2. CASE ErrorOf(op, resp) = NoError
  <2>1. do(resp, WantsResult(op)) = NoError
    BY <1>1, <1>2 DEF ErrorOf
  <2>2. OtherError # NoError /\ APIError(resp.status) # NoError
    BY DEF OtherError, NoError, APIError
  <2>3. resp.got /\ ~(resp.status >= 400)
    <3>1. CASE ~resp.got
      BY <2>1, <2>2, <3>1 DEF do
    <3>2. CASE resp.got /\ resp.status >= 400
      BY <2>1, <2>2, <3>2 DEF do
    <3> QED
      BY <3>1, <3>2 DEF Responses
  <2> QED
    BY <2>3 DEF Claims, Responses
<1>3. CASE ErrorOf(op, resp) # NoError
  <2>1. StatusOf(op, resp) = handleUFMError(ErrorOf(op, resp))
    BY <1>3 DEF StatusOf
  <2>2. handleUFMError(ErrorOf(op, resp)) = 404 /\ op = "DeleteJob" /\ 404 \notin Refusals
    BY <2>1 DEF Claims, handleUFMError, PassedOn, BadGateway
  <2>3. ErrorOf(op, resp).kind = "api" /\ ErrorOf(op, resp).status = 404
    BY <2>2 DEF handleUFMError, BadGateway
  <2>4. resp.got /\ Claims(op, resp.status)
    BY <1>1, <2>2, <2>3 DEF ErrorOf, do, NoError, APIError, OtherError, Claims
  <2> QED
    BY <2>1, <2>2, <2>4
<1> QED
  BY <1>2, <1>3

LEMMA AnswerSend ==
  ASSUME TypeOK, AnswerInv, Onward, NEW c \in Callers, NEW op \in Operations,
         NEW j \in JobIds \cup {"none"}, Send(c, op, j)
  PROVE  AnswerInv'
<1> DEFINE before == IF Upstream(op) = "POST abortall" THEN Running ELSE {}
           sent == [caller |-> c, number |-> requests + 1, op |-> op, job |-> j]
<1>0. requests \in Nat /\ call \in [Callers -> Calls] /\ requests' = requests + 1
      /\ Known' = Known
  BY DEF TypeOK, Send, Known, ufmVars
<1>1. PICK old : old = before
  OBVIOUS
<1>2. old \subseteq Known
  BY <1>1 DEF Running, Known
<1> DEFINE unknown == {j} \cap (JobIds \ Known)
           k == [NoCall EXCEPT !.pc = "sent", !.op = op, !.job = j, !.number = requests + 1,
                               !.runningBefore = old, !.unknownBefore = unknown]
<1>3. call' = [call EXCEPT ![c] = k]
  BY <1>1 DEF Send
<1>4. /\ k.pc = "sent" /\ k.op = op /\ k.job = j /\ k.number = requests + 1
      /\ k.runningBefore = old /\ k.unknownBefore = unknown
  BY DEF NoCall
<1>5. op = "DeleteJob" => j \in JobIds /\ j \in Known \cup unknown
  BY DEF Send, Starters, Known
<1> HIDE DEF k, before, unknown
<1>6. PICK h : h = k
  OBVIOUS
<1>7. \A d \in Callers : CallInv(call[d])'
  <2>1. call' = [call EXCEPT ![c] = h]
    BY <1>3, <1>6
  <2>2. /\ h.pc = "sent" /\ h.op = op /\ h.job = j /\ h.number = requests + 1
        /\ h.runningBefore = old /\ h.unknownBefore = unknown
    BY <1>4, <1>6
  <2>3. CallInv(h)'
    <3>1. h.number \in 0..requests' /\ h.runningBefore \subseteq Known'
      BY <1>0, <1>2, <2>2
    <3>2. /\ h.op = "DeleteJob" => h.job \in JobIds /\ h.job \in Known' \cup h.unknownBefore
          /\ ~Trusted(h)'
      BY <1>0, <1>5, <2>2 DEF Trusted
    <3> QED
      BY <3>1, <3>2 DEF CallInv
  <2>4. requests' \in Nat
    BY <1>0
  <2> QED
    BY <2>1, <2>3, <2>4, CallsRest
<1>8. WireInv'
  <2> SUFFICES ASSUME NEW r \in wire'
               PROVE  /\ r.number \in 1..requests'
                      /\ r.op = "DeleteJob" => r.job \in JobIds
                      /\ call'[r.caller].number = r.number =>
                           /\ call'[r.caller].op = r.op
                           /\ r.op = "DeleteJob" => call'[r.caller].job = r.job
    BY DEF WireInv
  <2>1. r \in wire \/ r = sent
    BY DEF Send
  <2>2. CASE r \in wire
    <3>1. /\ r.caller \in Callers /\ r.number \in 1..requests
          /\ r.op = "DeleteJob" => r.job \in JobIds
          /\ call[r.caller].number = r.number =>
               /\ call[r.caller].op = r.op
               /\ r.op = "DeleteJob" => call[r.caller].job = r.job
      BY <2>2 DEF TypeOK, Wired, AnswerInv, WireInv
    <3> QED
      BY <1>0, <1>3, <1>4, <3>1
  <2>3. CASE r = sent
    BY <1>0, <1>3, <1>4, <1>5, <2>3
  <2> QED
    BY <2>1, <2>2, <2>3
<1> QED
  BY <1>7, <1>8 DEF AnswerInv

LEMMA AnswerGiveUp ==
  ASSUME TypeOK, AnswerInv, Onward, NEW c \in Callers, GiveUp(c)
  PROVE  AnswerInv'
<1>0. /\ requests \in Nat /\ call \in [Callers -> Calls] /\ call[c] \in Calls
      /\ UNCHANGED <<wire, requests, ufmVars>> /\ Known' = Known /\ Running' = Running
      /\ CallInv(call[c])
  BY DEF TypeOK, GiveUp, Known, Running, ufmVars, AnswerInv
<1>1. PICK k : call' = [call EXCEPT ![c] = k] /\ k.number = call[c].number /\ k.op = call[c].op
               /\ k.job = call[c].job /\ k.runningBefore = call[c].runningBefore
               /\ k.unknownBefore = call[c].unknownBefore
               /\ (Trusted(k) => Trusted(call[c]) /\ Said(k) = Said(call[c]))
  <2>1. CASE call' = [call EXCEPT ![c].pc = "answered", ![c].resp = Silence]
    <3> DEFINE k == [call[c] EXCEPT !.pc = "answered", !.resp = Silence]
    <3>1. ~Trusted(k)
      BY <1>0 DEF Trusted, Calls, Silence
    <3> QED
      BY <1>0, <2>1, <3>1 DEF Calls
  <2>2. CASE call[c].pc = "answered" /\ call' = [call EXCEPT ![c].resp.decodes = FALSE]
    <3> DEFINE k == [call[c] EXCEPT !.resp.decodes = FALSE]
    <3>1. Trusted(k) => Trusted(call[c]) /\ Said(k) = Said(call[c])
      BY <1>0, <2>2 DEF Trusted, Said, Calls, Responses
    <3> QED
      BY <1>0, <2>2, <3>1 DEF Calls
  <2> QED
    BY <2>1, <2>2 DEF GiveUp
<1>2. CallInv(k)'
  BY <1>0, <1>1 DEF CallInv, Trusted, Holds, ufmVars
<1>3. WireInv'
  BY <1>0, <1>1, WireRests DEF AnswerInv
<1> QED
  BY <1>0, <1>1, <1>2, <1>3, CallsRest DEF AnswerInv

LEMMA AnswerReply ==
  ASSUME TypeOK, AnswerInv, Onward, NEW c \in Callers, Reply(c)
  PROVE  AnswerInv'
<1>0. /\ requests \in Nat /\ call \in [Callers -> Calls] /\ call[c] \in Calls
      /\ UNCHANGED <<wire, requests, ufmVars>> /\ Known' = Known /\ Running' = Running
      /\ CallInv(call[c]) /\ call[c].pc = "answered"
  BY DEF TypeOK, Reply, Known, Running, ufmVars, AnswerInv
<1>1. PICK k : k = [call[c] EXCEPT !.pc = "replied", !.number = 0, !.resp = Silence,
                                   !.status = StatusOf(call[c].op, call[c].resp)]
  OBVIOUS
<1>2. /\ call' = [call EXCEPT ![c] = k] /\ k.number = 0 /\ k.op = call[c].op /\ k.job = call[c].job
      /\ k.runningBefore = call[c].runningBefore /\ k.unknownBefore = call[c].unknownBefore
      /\ k.pc = "replied"
      /\ k.status = StatusOf(call[c].op, call[c].resp)
  BY <1>0, <1>1 DEF Reply, Calls
<1>3. Trusted(k) => Trusted(call[c]) /\ (Said(call[c]) = 404 => Said(k) = 404)
  BY <1>0, <1>2, StatusClaims DEF Trusted, Said, Calls
<1>4. CallInv(k)'
  BY <1>0, <1>2, <1>3 DEF CallInv, Trusted, Holds, ufmVars
<1>5. WireInv'
  BY <1>0, <1>2, WireRests DEF AnswerInv
<1> QED
  BY <1>0, <1>2, <1>4, <1>5, CallsRest DEF AnswerInv

(* What UFM's answer to a request claims is true when UFM gives it.        *)
LEMMA UfmTells ==
  ASSUME TypeOK, WireInv, NEW r \in wire, UfmHandles(r)
  PROVE  \E j \in JobIds \cup {"none"}, resp \in Responses :
           /\ Deliver(r, j, resp)
           /\ r.op = "DeleteJob" => j \in JobIds /\ j = r.job
           /\ Claims(r.op, resp.status) =>
                /\ r.op \in Aborts => Running' = {}
                /\ r.op \in Accepted => j \in Known'
                /\ r.op = "DeleteJob" => \/ state'[j] = "deleted"
                                         \/ resp.status = 404 /\ j \notin Known
<1>0. /\ r.op \in Operations /\ r.job \in JobIds \cup {"none"} /\ state \in [JobIds -> States]
      /\ r.op = "DeleteJob" => r.job \in JobIds
  BY DEF TypeOK, Wired, WireInv
<1>a. Response(200) \in Responses /\ Response(204) \in Responses /\ Response(404) \in Responses
  BY ResponseType
<1>1. CASE UfmStartsJob(r)
  <2>1. PICK j \in JobIds : state' = [state EXCEPT ![j] = "running"] /\ Deliver(r, j, Response(200))
    BY <1>1 DEF UfmStartsJob
  <2>2. r.op \in Starters
    BY <1>0, <1>1 DEF UfmStartsJob, Upstream, Operations
  <2>3. r.op \notin Aborts /\ r.op # "DeleteJob"
    BY <2>2 DEF Starters, Aborts
  <2>4. j \in Known'
    BY <1>0, <2>1 DEF Known
  <2> QED
    BY <1>a, <2>1, <2>3, <2>4
<1>2. CASE UfmShowsJob(r)
  <2>1. PICK resp \in Responses : Deliver(r, r.job, resp)
    BY <1>2, <1>a DEF UfmShowsJob
  <2>2. r.op \notin Aborts \cup Accepted \cup {"DeleteJob"}
    BY <1>2 DEF UfmShowsJob, Upstream, Starters, Aborts, Accepted
  <2> QED
    BY <1>0, <2>1, <2>2
<1>3. CASE UfmDeletesJob(r)
  <2>1. r.op = "DeleteJob"
    BY <1>0, <1>3 DEF UfmDeletesJob, Upstream, Operations, Starters
  <2>2. CASE state[r.job] = "none"
    <3>1. Deliver(r, r.job, Response(404)) /\ Response(404).status = 404 /\ r.job \notin Known
      BY <1>3, <2>2 DEF UfmDeletesJob, Response, Known
    <3> QED
      BY <1>0, <1>a, <2>1, <3>1 DEF Aborts, Accepted
  <2>3. CASE state[r.job] # "none"
    <3>1. PICK resp \in Responses : Deliver(r, r.job, resp)
      BY <1>3, <1>a DEF UfmDeletesJob
    <3>2. state'[r.job] = "deleted"
      BY <1>0, <1>3, <2>1, <2>3 DEF UfmDeletesJob
    <3> QED
      BY <1>0, <2>1, <3>1, <3>2 DEF Aborts, Accepted
  <2> QED
    BY <2>2, <2>3
<1>4. CASE UfmAbortsJobs(r)
  <2>1. r.op \in Aborts
    BY <1>0, <1>4 DEF UfmAbortsJobs, Upstream, Operations, Starters, Aborts
  <2>2. Running' = {}
    BY <1>0, <1>4 DEF UfmAbortsJobs, Running
  <2> QED
    BY <1>0, <1>4, <1>a, <2>1, <2>2 DEF UfmAbortsJobs, Aborts, Accepted
<1>5. CASE UfmRefuses(r)
  <2>1. PICK s \in Refusals : Deliver(r, r.job, Response(s))
    BY <1>5 DEF UfmRefuses
  <2>2. s \in 400..599 /\ Response(s) \in Responses /\ Response(s).status = s
    BY <2>1, JobsAssumption, ResponseType DEF Response
  <2>3. ~Claims(r.op, Response(s).status)
    BY <2>2 DEF Claims
  <2> QED
    BY <1>0, <2>1, <2>2, <2>3
<1> QED
  BY <1>1, <1>2, <1>3, <1>4, <1>5 DEF UfmHandles

LEMMA AnswerUfm ==
  ASSUME TypeOK, AnswerInv, Onward, NEW r \in wire, UfmHandles(r)
  PROVE  AnswerInv'
<1>0. /\ requests \in Nat /\ requests' = requests /\ call \in [Callers -> Calls]
      /\ wire' \subseteq wire /\ r.caller \in Callers
      /\ call[r.caller] \in Calls /\ CallInv(call[r.caller])
      /\ call[r.caller].number = r.number =>
           /\ call[r.caller].op = r.op
           /\ r.op = "DeleteJob" => call[r.caller].job = r.job
  BY DEF TypeOK, Wired, UfmHandles, AnswerInv, WireInv
<1>1. PICK j \in JobIds \cup {"none"}, resp \in Responses :
           /\ Deliver(r, j, resp)
           /\ r.op = "DeleteJob" => j \in JobIds /\ j = r.job
           /\ Claims(r.op, resp.status) =>
                /\ r.op \in Aborts => Running' = {}
                /\ r.op \in Accepted => j \in Known'
                /\ r.op = "DeleteJob" => \/ state'[j] = "deleted"
                                         \/ resp.status = 404 /\ j \notin Known
  BY UfmTells DEF AnswerInv
<1>2. CASE call' = call
  <2>1. PICK k : k = call[r.caller]
    OBVIOUS
  <2>2. CallInv(k)
    BY <1>0, <2>1
  <2>3. call' = [call EXCEPT ![r.caller] = k] /\ CallInv(k)'
    BY <1>0, <1>2, <2>1, <2>2, CallRests
  <2>4. WireInv'
    BY <1>0, <1>2, WireRests DEF AnswerInv
  <2> QED
    BY <1>0, <2>3, <2>4, CallsRest DEF AnswerInv
<1>3. CASE /\ call[r.caller].pc = "sent" /\ call[r.caller].number = r.number
           /\ call' = [call EXCEPT ![r.caller].pc = "answered", ![r.caller].job = j,
                                   ![r.caller].resp = resp]
  <2>1. PICK k : k = [call[r.caller] EXCEPT !.pc = "answered", !.job = j, !.resp = resp]
    OBVIOUS
  <2>2. /\ call' = [call EXCEPT ![r.caller] = k] /\ k.pc = "answered" /\ k.job = j /\ k.resp = resp
        /\ k.number = call[r.caller].number /\ k.op = r.op
        /\ k.runningBefore = call[r.caller].runningBefore
        /\ k.unknownBefore = call[r.caller].unknownBefore
    BY <1>0, <1>3, <2>1 DEF Calls
  <2>3. Known \subseteq Known'
    BY DEF Onward, Known
  <2>d. k.op = "DeleteJob" => k.job \in Known \cup k.unknownBefore /\ k.job = call[r.caller].job
    BY <1>0, <1>1, <1>3, <2>2 DEF CallInv
  <2>4. Trusted(k) => /\ k.op \in Aborts => Running' = {}
                      /\ k.op \in Accepted => k.job \in Known'
                      /\ k.op = "DeleteJob" => \/ state'[k.job] = "deleted"
                                               \/ Said(k) = 404 /\ k.job \in k.unknownBefore
    BY <1>1, <2>2, <2>d DEF Trusted, Said
  <2>5. CallInv(k)'
    <3>1. k.number \in 0..requests' /\ k.runningBefore \subseteq Known'
      BY <1>0, <2>2, <2>3 DEF CallInv
    <3>2. k.op = "DeleteJob" => k.job \in JobIds /\ k.job \in Known' \cup k.unknownBefore
      BY <1>1, <2>2, <2>3, <2>d
    <3>3. Trusted(k)' => Holds(k)'
      BY <2>4 DEF Trusted, Holds, Said
    <3> QED
      BY <3>1, <3>2, <3>3 DEF CallInv
  <2>6. WireInv'
    <3>1. \A c \in Callers : /\ call'[c].number \in {0, call[c].number} /\ call'[c].op = call[c].op
                             /\ call[c].op = "DeleteJob" => call'[c].job = call[c].job
      BY <1>0, <1>3, <2>2, <2>d
    <3> QED
      BY <1>0, <3>1, WireRests DEF AnswerInv
  <2> QED
    BY <1>0, <2>2, <2>5, <2>6, CallsRest DEF AnswerInv
<1> QED
  BY <1>1, <1>2, <1>3 DEF Deliver

LEMMA AnswerInit == Init => AnswerInv
<1> SUFFICES ASSUME Init PROVE AnswerInv
  OBVIOUS
<1>1. WireInv
  BY DEF Init, WireInv
<1>2. ASSUME NEW c \in Callers PROVE CallInv(call[c])
  <2>1. call[c] = NoCall /\ requests = 0
    BY DEF Init
  <2>2. NoCall.pc = "idle" /\ NoCall.number = 0 /\ NoCall.runningBefore = {} /\ NoCall.op = "none"
    BY DEF NoCall
  <2> HIDE DEF NoCall
  <2> QED
    BY <2>1, <2>2 DEF CallInv, Trusted
<1> QED
  BY <1>1, <1>2 DEF AnswerInv

LEMMA AnswerStep == TypeOK /\ AnswerInv /\ [Next]_vars => AnswerInv'
<1> SUFFICES ASSUME TypeOK, AnswerInv, [Next]_vars PROVE AnswerInv'
  OBVIOUS
<1>0. Onward /\ TypeOK' /\ requests' \in Nat /\ Offered \subseteq Operations
  BY OnwardStep, TypeStep, JobsAssumption DEF TypeOK
<1>1. ASSUME NEW c \in Callers, Handle(c) PROVE AnswerInv'
  BY <1>0, <1>1, AnswerSend, AnswerGiveUp, AnswerReply DEF Handle
<1>2. ASSUME NEW r \in wire, UfmHandles(r) PROVE AnswerInv'
  BY <1>0, <1>2, AnswerUfm
<1>3. CASE call' = call /\ wire' \subseteq wire
  <2>1. WireInv'
    BY <1>0, <1>3, WireRests DEF AnswerInv
  <2>2. ASSUME NEW c \in Callers PROVE CallInv(call[c])'
    <3>1. PICK k : k = call[c]
      OBVIOUS
    <3>2. k \in Calls /\ CallInv(k)
      BY <3>1 DEF TypeOK, AnswerInv
    <3>3. CallInv(k)'
      BY <1>0, <3>2, CallRests
    <3> QED
      BY <1>3, <3>1, <3>3 DEF CallInv, Trusted, Holds, Said
  <2> QED
    BY <2>1, <2>2 DEF AnswerInv
<1>4. ASSUME NEW r \in wire, WireLoses(r) PROVE call' = call /\ wire' \subseteq wire
  BY <1>4 DEF WireLoses
<1>5. ASSUME NEW j \in JobIds, UfmEndsJob(j) PROVE call' = call /\ wire' \subseteq wire
  BY <1>5 DEF UfmEndsJob, callVars
<1>6. ASSUME NEW w \in Waiters, WaitStep(w) \/ Expire(w) \/ \E j \in JobIds : StartWait(w, j)
      PROVE  call' = call /\ wire' \subseteq wire
  BY <1>6 DEF WaitStep, Poll, PollAnswered, PollFails, Decide, PauseEnds, Expire, StartWait, callVars
<1>7. CASE UNCHANGED vars
  BY <1>3, <1>7 DEF vars
<1> QED
  BY <1>1, <1>2, <1>3, <1>4, <1>5, <1>6, <1>7 DEF Next

LEMMA AnswerCorrect == Spec => [](TypeOK /\ AnswerInv)
<1>1. Init => TypeOK /\ AnswerInv
  BY TypeInit, AnswerInit
<1>2. TypeOK /\ AnswerInv /\ [Next]_vars => (TypeOK /\ AnswerInv)'
  BY TypeStep, AnswerStep
<1> QED
  BY <1>1, <1>2, PTL DEF Spec

(* Success of AbortJob means that the job it names, and of AbortAllJobs    *)
(* that every job, has ended if the request found it running, whatever     *)
(* others have started meanwhile.                                          *)
THEOREM AbortCorrect == Spec => []AbortReportedIsDone
<1>1. TypeOK /\ AnswerInv => AbortReportedIsDone
  <2> SUFFICES ASSUME AnswerInv, NEW c \in Callers,
                      call[c].op \in {"AbortJob", "AbortAllJobs"},
                      call[c].pc = "replied", call[c].status < 400
               PROVE  call[c].runningBefore \cap Running = {}
    BY DEF AbortReportedIsDone, Abortees
  <2>1. call[c].op \in Claiming /\ Claims(call[c].op, call[c].status)
    BY DEF Claiming, Aborts, Accepted, Claims
  <2>2. Holds(call[c])
    BY <2>1 DEF AnswerInv, CallInv, Trusted
  <2> QED
    BY <2>2 DEF Holds, Aborts, Accepted
<1> QED
  BY <1>1, AnswerCorrect, PTL

(* A 202 for added hosts or for a report names a job of UFM.               *)
THEOREM AcceptedCorrect == Spec => []AcceptedNamesAJob
<1>1. TypeOK /\ AnswerInv => AcceptedNamesAJob
  <2> SUFFICES ASSUME AnswerInv, NEW c \in Callers,
                      call[c].op \in {"AddPartitionHosts", "CreateReport"},
                      call[c].pc = "replied", call[c].status = 202
               PROVE  call[c].job \in Known
    BY DEF AcceptedNamesAJob
  <2>1. call[c].op \in Claiming /\ Claims(call[c].op, call[c].status)
    BY DEF Claiming, Aborts, Accepted, Claims
  <2>2. Holds(call[c])
    BY <2>1 DEF AnswerInv, CallInv, Trusted
  <2> QED
    BY <2>2 DEF Holds, Aborts, Accepted
<1> QED
  BY <1>1, AnswerCorrect, PTL

(* After 204 of DeleteJob the job's record is gone for good, and after 404 *)
(* it is gone or UFM did not have the job when the request was made, if    *)
(* UFM says 404 of no job it has.                                          *)
THEOREM DeleteCorrect ==
  ASSUME 404 \notin Refusals
  PROVE  Spec => []DeleteReportedIsDone
<1>1. TypeOK /\ AnswerInv => DeleteReportedIsDone
  <2> SUFFICES ASSUME AnswerInv, NEW c \in Callers,
                      call[c].op = "DeleteJob",
                      call[c].pc = "replied", call[c].status \in {204, 404}
               PROVE  \/ state[call[c].job] = "deleted"
                      \/ call[c].status = 404 /\ call[c].job \in call[c].unknownBefore
    BY DEF DeleteReportedIsDone
  <2>1. call[c].op \in Claiming /\ Claims(call[c].op, call[c].status)
    BY DEF Claiming, Aborts, Accepted, Claims
  <2>2. Holds(call[c])
    BY <2>1 DEF AnswerInv, CallInv, Trusted
  <2> QED
    BY <2>2 DEF Holds, Said, Aborts, Accepted
<1> QED
  BY <1>1, AnswerCorrect, PTL
=============================================================================
