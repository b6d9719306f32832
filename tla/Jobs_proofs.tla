----------------------------- MODULE Jobs_proofs -----------------------------
(***************************************************************************)
(* Theorems about Jobs, for any jobs, API clients, waiters, words and      *)
(* refusals: type correctness, and that what WaitForJob returns is true.   *)
(***************************************************************************)
EXTENDS Jobs, TLAPS

(* Changing one handler's state to another well-typed one.                 *)
LEMMA CallUpdate ==
  ASSUME TypeOK, NEW c \in Callers, NEW k \in Calls,
         k.pc \in {"sent", "answered"} => k.op \in Operations,
         call' = [call EXCEPT ![c] = k]
  PROVE  /\ call' \in [Callers -> Calls]
         /\ \A d \in Callers : call'[d].pc \in {"sent", "answered"} => call'[d].op \in Operations
BY DEF TypeOK

(* Changing one waiter's state to another well-typed one.                  *)
LEMMA WaitUpdate ==
  ASSUME TypeOK, NEW w \in Waiters, NEW k \in Waits, k.pc # "idle" => k.job \in JobIds,
         wait' = [wait EXCEPT ![w] = k], UNCHANGED <<ufmVars, callVars, expired>>
  PROVE  TypeOK'
BY DEF TypeOK, ufmVars, callVars

(* An answer of UFM that reaches a handler leaves the handlers well typed. *)
LEMMA DeliverType ==
  ASSUME TypeOK, NEW r \in wire, NEW j \in JobIds \cup {"none"}, NEW resp \in Responses,
         Deliver(r, j, resp)
  PROVE  /\ call' \in [Callers -> Calls]
         /\ \A c \in Callers : call'[c].pc \in {"sent", "answered"} => call'[c].op \in Operations
<1>1. r.caller \in Callers
  BY DEF TypeOK, Wired
<1>2. CASE call' = call
  BY <1>2 DEF TypeOK
<1>3. CASE /\ call[r.caller].pc = "sent"
           /\ call' = [call EXCEPT ![r.caller].pc = "answered", ![r.caller].job = j,
                                   ![r.caller].resp = resp]
  <2> DEFINE k == [call[r.caller] EXCEPT !.pc = "answered", !.job = j, !.resp = resp]
  <2>1. call[r.caller] \in Calls /\ call[r.caller].op \in Operations
    BY <1>1, <1>3 DEF TypeOK
  <2>2. k \in Calls /\ k.op \in Operations
    BY <2>1 DEF Calls
  <2>3. call' = [call EXCEPT ![r.caller] = k]
    BY <1>3
  <2> HIDE DEF k
  <2> QED
    BY <1>1, <2>2, <2>3, CallUpdate
<1> QED
  BY <1>2, <1>3 DEF Deliver

(* The answers UFM gives are responses.                                    *)
LEMMA ResponseType ==
  /\ Silence \in Responses
  /\ \A s \in Nat : Response(s) \in Responses
  /\ \A s \in Refusals : Response(s) \in Responses
<1>1. Refusals \subseteq Nat
  BY JobsAssumption
<1> QED
  BY <1>1 DEF Silence, Response, Responses

(* Every status a handler answers with is one of the facade's.             *)
LEMMA StatusType ==
  ASSUME NEW op \in Operations, NEW resp \in Responses
  PROVE  StatusOf(op, resp) \in Statuses
<1>1. Success(op) \in {200, 202, 204}
  BY DEF Success, Operations, Starters
<1>2. \A err : handleUFMError(err) \in PassedOn \cup {BadGateway}
  BY DEF handleUFMError
<1> QED
  BY <1>1, <1>2 DEF StatusOf, Statuses

LEMMA TypeInit == Init => TypeOK
<1> SUFFICES ASSUME Init PROVE TypeOK
  OBVIOUS
<1>1. NoCall \in Calls /\ NoCall.pc = "idle"
  BY ResponseType DEF NoCall, Calls, Statuses
<1>2. NoWait \in Waits /\ NoWait.pc = "idle"
  BY DEF NoWait, Waits
<1> QED
  BY <1>1, <1>2 DEF Init, TypeOK, States

(* UFM's handling of a request keeps every variable in its type.           *)
LEMMA TypeUfmHandles ==
  ASSUME TypeOK, NEW r \in wire, UfmHandles(r)
  PROVE  TypeOK'
<1>0. r \in Wired /\ r.job \in JobIds \cup {"none"}
  BY DEF TypeOK, Wired
<1>1. wire' \subseteq Wired /\ requests' = requests /\ wait' = wait /\ expired' = expired
  BY DEF TypeOK, UfmHandles, waitVars
<1>2. SUFFICES /\ state' \in [JobIds -> States]
               /\ outcome' \in [JobIds -> Ended \cup {"none"}]
               /\ \E j \in JobIds \cup {"none"}, resp \in Responses : Deliver(r, j, resp)
  BY <1>1, <1>2, DeliverType DEF TypeOK
<1>3. CASE UfmStartsJob(r)
  <2>1. PICK j \in JobIds : state' = [state EXCEPT ![j] = "running"] /\ Deliver(r, j, Response(200))
    BY <1>3 DEF UfmStartsJob
  <2> QED
    BY <1>3, <2>1, ResponseType DEF UfmStartsJob, TypeOK, States
<1>4. CASE UfmShowsJob(r)
  <2> DEFINE status == IF state[r.job] \in {"none", "deleted"} THEN 404 ELSE 200
  <2>1. Response(status) \in Responses
    BY ResponseType
  <2> HIDE DEF status
  <2>2. Deliver(r, r.job, Response(status))
    BY <1>4 DEF UfmShowsJob, status
  <2>3. state' = state /\ outcome' = outcome
    BY <1>4 DEF UfmShowsJob, ufmVars
  <2> QED
    BY <1>0, <2>1, <2>2, <2>3 DEF TypeOK
<1>5. CASE UfmDeletesJob(r)
  <2>1. state' \in [JobIds -> States] /\ outcome' = outcome
    BY <1>5 DEF UfmDeletesJob, TypeOK, States
  <2>2. Deliver(r, r.job, Response(404)) \/ Deliver(r, r.job, Response(204))
    BY <1>5 DEF UfmDeletesJob
  <2> QED
    BY <1>0, <2>1, <2>2, ResponseType DEF TypeOK
<1>6. CASE UfmAbortsJobs(r)
  <2>1. state' \in [JobIds -> States] /\ outcome' \in [JobIds -> Ended \cup {"none"}]
    BY <1>6 DEF UfmAbortsJobs, TypeOK, States, Ended
  <2> QED
    BY <1>0, <1>6, <2>1, ResponseType DEF UfmAbortsJobs
<1>7. CASE UfmRefuses(r)
  BY <1>0, <1>7, ResponseType DEF UfmRefuses, TypeOK, ufmVars
<1> QED
  BY <1>3, <1>4, <1>5, <1>6, <1>7 DEF UfmHandles

(* So do the handlers.                                                     *)
LEMMA TypeHandle ==
  ASSUME TypeOK, NEW c \in Callers, Handle(c)
  PROVE  TypeOK'
<1>1. ASSUME NEW op \in Operations, NEW j \in JobIds \cup {"none"}, Send(c, op, j)
      PROVE  TypeOK'
  <2> DEFINE before == IF Upstream(op) = "POST abortall" THEN Running ELSE {}
             unknown == {j} \cap (JobIds \ Known)
             new == [NoCall EXCEPT !.pc = "sent", !.op = op, !.job = j, !.number = requests + 1,
                                   !.runningBefore = before, !.unknownBefore = unknown]
  <2>0. before \subseteq JobIds /\ unknown \subseteq JobIds /\ requests + 1 \in Nat
    <3>1. before \subseteq JobIds /\ unknown \subseteq JobIds
      BY DEF Running
    <3>2. requests \in Nat
      BY DEF TypeOK
    <3> HIDE DEF before, unknown
    <3> QED
      BY <3>1, <3>2
  <2>1. new \in Calls /\ new.pc = "sent" /\ new.op = op
    <3> HIDE DEF before, unknown
    <3>1. NoCall \in Calls
      BY ResponseType DEF NoCall, Calls, Statuses
    <3> QED
      BY <2>0, <3>1 DEF Calls
  <2>2. [caller |-> c, number |-> requests + 1, op |-> op, job |-> j] \in Wired
    BY DEF TypeOK, Wired
  <2>3. call' = [call EXCEPT ![c] = new]
    BY <1>1 DEF Send
  <2> HIDE DEF new, before, unknown
  <2>4. /\ call' \in [Callers -> Calls]
        /\ \A d \in Callers : call'[d].pc \in {"sent", "answered"} => call'[d].op \in Operations
    BY <2>1, <2>3, CallUpdate
  <2>5. wire' \subseteq Wired /\ requests' \in Nat
    BY <1>1, <2>2 DEF Send, TypeOK
  <2> QED
    BY <1>1, <2>4, <2>5 DEF Send, TypeOK, ufmVars, waitVars
<1>2. CASE GiveUp(c)
  <2>1. call[c] \in Calls /\ call[c].op \in Operations
    BY <1>2 DEF GiveUp, TypeOK
  <2>2. PICK resp \in Responses : call' = [call EXCEPT ![c].pc = "answered", ![c].resp = resp]
    <3>1. CASE call' = [call EXCEPT ![c].pc = "answered", ![c].resp = Silence]
      BY <3>1, ResponseType
    <3>2. CASE call[c].pc = "answered" /\ call' = [call EXCEPT ![c].resp.decodes = FALSE]
      <4>1. [call[c].resp EXCEPT !.decodes = FALSE] \in Responses
        BY <2>1 DEF Calls, Responses
      <4>2. call' = [call EXCEPT ![c].pc = "answered",
                                 ![c].resp = [call[c].resp EXCEPT !.decodes = FALSE]]
        BY <2>1, <3>2 DEF Calls, TypeOK
      <4> QED
        BY <4>1, <4>2
    <3> QED
      BY <1>2, <3>1, <3>2 DEF GiveUp
  <2> DEFINE k == [call[c] EXCEPT !.pc = "answered", !.resp = resp]
  <2>3. k \in Calls /\ k.op \in Operations
    BY <2>1 DEF Calls
  <2>4. call' = [call EXCEPT ![c] = k]
    BY <2>2
  <2> HIDE DEF k
  <2>5. /\ call' \in [Callers -> Calls]
        /\ \A d \in Callers : call'[d].pc \in {"sent", "answered"} => call'[d].op \in Operations
    BY <2>3, <2>4, CallUpdate
  <2> QED
    BY <1>2, <2>5 DEF GiveUp, TypeOK, ufmVars, waitVars
<1>3. CASE Reply(c)
  <2> DEFINE status == StatusOf(call[c].op, call[c].resp)
             k == [call[c] EXCEPT !.pc = "replied", !.number = 0, !.resp = Silence, !.status = status]
  <2>1. call[c] \in Calls /\ call[c].op \in Operations
    BY <1>3 DEF Reply, TypeOK
  <2>2. call' = [call EXCEPT ![c] = k]
    BY <1>3 DEF Reply
  <2>3. status \in Statuses
    BY <2>1, StatusType DEF Calls
  <2> HIDE DEF status
  <2>4. k \in Calls /\ k.op \in Operations
    BY <2>1, <2>3, ResponseType DEF Calls
  <2> HIDE DEF k
  <2>5. /\ call' \in [Callers -> Calls]
        /\ \A d \in Callers : call'[d].pc \in {"sent", "answered"} => call'[d].op \in Operations
    BY <2>2, <2>4, CallUpdate
  <2> QED
    BY <1>3, <2>5 DEF Reply, TypeOK, ufmVars, waitVars
<1>4. Offered \subseteq Operations
  BY JobsAssumption
<1> QED
  BY <1>1, <1>2, <1>3, <1>4 DEF Handle

(* So do the steps of a waiter, up to those that end the wait.             *)
LEMMA TypeWait ==
  ASSUME TypeOK, NEW w \in Waiters,
         WaitStep(w) \/ Expire(w) \/ \E j \in JobIds : StartWait(w, j)
  PROVE  TypeOK'
<1>0. wait[w] \in Waits /\ (wait[w].pc # "idle" => wait[w].job \in JobIds)
  BY DEF TypeOK
<1>1. CASE Poll(w)
  <2>0. wait[w].job \in JobIds /\ UNCHANGED <<ufmVars, callVars, expired>>
    BY <1>0, <1>1 DEF Poll
  <2>1. CASE Return(w, "error")
    <3> DEFINE k == [wait[w] EXCEPT !.pc = "returned", !.verdict = "error"]
    <3>1. k \in Waits /\ k.job = wait[w].job /\ wait' = [wait EXCEPT ![w] = k]
      BY <1>0, <2>1 DEF Return, Waits
    <3> HIDE DEF k
    <3> QED
      BY <2>0, <3>1, WaitUpdate
  <2>2. CASE wait' = [wait EXCEPT ![w].pc = "asked"]
    <3> DEFINE k == [wait[w] EXCEPT !.pc = "asked"]
    <3>1. k \in Waits /\ k.job = wait[w].job /\ wait' = [wait EXCEPT ![w] = k]
      BY <1>0, <2>2 DEF Waits
    <3> HIDE DEF k
    <3> QED
      BY <2>0, <3>1, WaitUpdate
  <2> QED
    BY <1>1, <2>1, <2>2 DEF Poll
<1>2. CASE PollAnswered(w)
  <2>0. wait[w].job \in JobIds /\ UNCHANGED <<ufmVars, callVars, expired>>
    BY <1>0, <1>2 DEF PollAnswered
  <2>1. CASE Return(w, "error")
    <3> DEFINE k == [wait[w] EXCEPT !.pc = "returned", !.verdict = "error"]
    <3>1. k \in Waits /\ k.job = wait[w].job /\ wait' = [wait EXCEPT ![w] = k]
      BY <1>0, <2>1 DEF Return, Waits
    <3> HIDE DEF k
    <3> QED
      BY <2>0, <3>1, WaitUpdate
  <2>2. CASE ~Return(w, "error")
    <3>1. state[wait[w].job] \in {"running"} \cup Ended
      BY <1>2, <2>0, <2>2 DEF PollAnswered, States, TypeOK
    <3>2. PICK word \in Words[state[wait[w].job]] :
            wait' = [wait EXCEPT ![w].pc = "decide", ![w].word = word]
      BY <1>2, <2>2 DEF PollAnswered
    <3> DEFINE k == [wait[w] EXCEPT !.pc = "decide", !.word = word]
    <3>3. word \in UNION {Words[s] : s \in {"running"} \cup Ended}
      BY <3>1
    <3>4. k \in Waits /\ k.job = wait[w].job /\ wait' = [wait EXCEPT ![w] = k]
      BY <1>0, <3>2, <3>3 DEF Waits
    <3> HIDE DEF k
    <3> QED
      BY <2>0, <3>4, WaitUpdate
  <2> QED
    BY <2>1, <2>2
<1>3. CASE PollFails(w)
  <2>0. wait[w].job \in JobIds /\ UNCHANGED <<ufmVars, callVars, expired>>
    BY <1>0, <1>3 DEF PollFails
  <2> DEFINE k == [wait[w] EXCEPT !.pc = "returned", !.verdict = "error", !.word = "lost"]
  <2>1. k \in Waits /\ k.job = wait[w].job /\ wait' = [wait EXCEPT ![w] = k]
    BY <1>0, <1>3 DEF PollFails, Waits
  <2> HIDE DEF k
  <2> QED
    BY <2>0, <2>1, WaitUpdate
<1>4. CASE Decide(w)
  <2>0. wait[w].job \in JobIds /\ UNCHANGED <<ufmVars, callVars, expired>>
    BY <1>0, <1>4 DEF Decide
  <2>1. ASSUME NEW v \in Ended, Return(w, v) PROVE TypeOK'
    <3> DEFINE k == [wait[w] EXCEPT !.pc = "returned", !.verdict = v]
    <3>1. k \in Waits /\ k.job = wait[w].job /\ wait' = [wait EXCEPT ![w] = k]
      BY <1>0, <2>1 DEF Return, Waits
    <3> HIDE DEF k
    <3> QED
      BY <2>0, <3>1, WaitUpdate
  <2>2. CASE wait' = [wait EXCEPT ![w].pc = "pause", ![w].word = "none"]
    <3> DEFINE k == [wait[w] EXCEPT !.pc = "pause", !.word = "none"]
    <3>1. k \in Waits /\ k.job = wait[w].job /\ wait' = [wait EXCEPT ![w] = k]
      BY <1>0, <2>2 DEF Waits
    <3> HIDE DEF k
    <3> QED
      BY <2>0, <3>1, WaitUpdate
  <2> QED
    BY <1>4, <2>1, <2>2 DEF Decide, Ended
<1>5. CASE PauseEnds(w)
  <2>0. wait[w].job \in JobIds /\ UNCHANGED <<ufmVars, callVars, expired>>
    BY <1>0, <1>5 DEF PauseEnds
  <2>1. PICK pc \in {"returned", "poll"}, v \in {"deadline", wait[w].verdict} :
          wait' = [wait EXCEPT ![w].pc = pc, ![w].verdict = v]
    <3>1. CASE Return(w, "deadline")
      BY <3>1 DEF Return
    <3>2. CASE wait' = [wait EXCEPT ![w].pc = "poll"]
      <4>1. wait' = [wait EXCEPT ![w].pc = "poll", ![w].verdict = wait[w].verdict]
        BY <1>0, <3>2 DEF Waits, TypeOK
      <4> QED
        BY <4>1
    <3> QED
      BY <1>5, <3>1, <3>2 DEF PauseEnds
  <2> DEFINE k == [wait[w] EXCEPT !.pc = pc, !.verdict = v]
  <2>2. k \in Waits /\ k.job = wait[w].job /\ wait' = [wait EXCEPT ![w] = k]
    BY <1>0, <2>1 DEF Waits
  <2> HIDE DEF k
  <2> QED
    BY <2>0, <2>2, WaitUpdate
<1>6. CASE Expire(w)
  BY <1>6 DEF Expire, TypeOK, ufmVars, callVars
<1>7. ASSUME NEW j \in JobIds, StartWait(w, j) PROVE TypeOK'
  <2> DEFINE k == [wait[w] EXCEPT !.pc = "poll", !.job = j, !.known = {j} \cap Known]
  <2>0. {j} \cap Known \subseteq JobIds
    OBVIOUS
  <2>1. k \in Waits /\ k.job = j /\ wait' = [wait EXCEPT ![w] = k]
    BY <1>0, <1>7, <2>0 DEF StartWait, Waits
  <2>2. UNCHANGED <<ufmVars, callVars, expired>>
    BY <1>7 DEF StartWait
  <2> HIDE DEF k
  <2> QED
    BY <2>1, <2>2, WaitUpdate
<1> QED
  BY <1>1, <1>2, <1>3, <1>4, <1>5, <1>6, <1>7 DEF WaitStep

LEMMA TypeStep == TypeOK /\ [Next]_vars => TypeOK'
<1> SUFFICES ASSUME TypeOK, [Next]_vars PROVE TypeOK'
  OBVIOUS
<1>1. ASSUME NEW r \in wire, WireLoses(r) PROVE TypeOK'
  BY <1>1 DEF WireLoses, TypeOK, ufmVars, waitVars
<1>2. ASSUME NEW j \in JobIds, UfmEndsJob(j) PROVE TypeOK'
  BY <1>2 DEF UfmEndsJob, TypeOK, States, Ended, callVars, waitVars
<1>3. CASE UNCHANGED vars
  BY <1>3 DEF vars, TypeOK
<1> QED
  BY <1>1, <1>2, <1>3, TypeUfmHandles, TypeHandle, TypeWait DEF Next

(* Every reachable state of Jobs is well typed; in particular the facade   *)
(* answers with no status but those of TypeOK, whatever UFM answers.       *)
THEOREM TypeCorrect == Spec => []TypeOK
<1> QED
  BY TypeInit, TypeStep, PTL DEF Spec

-----------------------------------------------------------------------------
(* How a job's record and its end hang together.                           *)
Fate ==
  \A j \in JobIds : /\ state[j] \in Ended => outcome[j] = state[j]
                    /\ state[j] \in {"none", "running"} => outcome[j] = "none"

(* A job's end is final, a job that is known stays known, and one whose    *)
(* record is gone does not come back.                                      *)
Steady ==
  \A j \in JobIds : /\ outcome[j] \in Ended => outcome'[j] = outcome[j]
                    /\ state[j] # "none" => state'[j] # "none"
                    /\ state[j] = "deleted" => state'[j] = "deleted"

(* What is known of a waiter: a job UFM had when the wait began was        *)
(* started; the word the waiter holds, if it understands it, says how the  *)
(* job ended; and so does its verdict.                                     *)
WaiterInv(w) ==
  /\ wait[w].job \in wait[w].known => state[wait[w].job] # "none"
  /\ wait[w].verdict # "none" => wait[w].pc = "returned"
  /\ wait[w].pc = "decide" =>
       \A e \in Ended : wait[w].word \in Understood[e] => outcome[wait[w].job] = e
  /\ wait[w].verdict \in Ended => outcome[wait[w].job] = wait[w].verdict
  /\ wait[w].verdict = "deadline" => w \in expired
  /\ wait[w].verdict = "error" =>
       \/ wait[w].job \notin wait[w].known
       \/ state[wait[w].job] = "deleted" \/ w \in expired \/ wait[w].word = "lost"

WaitInv == TypeOK /\ Fate /\ \A w \in Waiters : WaiterInv(w)

LEMMA FateUfmHandles ==
  ASSUME TypeOK, Fate, NEW r \in wire, UfmHandles(r)
  PROVE  Fate' /\ Steady
<1>1. CASE UfmStartsJob(r)
  BY <1>1 DEF UfmStartsJob, Fate, Steady, TypeOK, Ended
<1>2. CASE UfmShowsJob(r)
  BY <1>2 DEF UfmShowsJob, Fate, Steady, ufmVars
<1>3. CASE UfmDeletesJob(r)
  BY <1>3 DEF UfmDeletesJob, Fate, Steady, TypeOK, Ended
<1>4. CASE UfmAbortsJobs(r)
  BY <1>4 DEF UfmAbortsJobs, Fate, Steady, TypeOK, Ended, Running
<1>5. CASE UfmRefuses(r)
  BY <1>5 DEF UfmRefuses, Fate, Steady, ufmVars
<1> QED
  BY <1>1, <1>2, <1>3, <1>4, <1>5 DEF UfmHandles

LEMMA FateStep ==
  ASSUME TypeOK, Fate, [Next]_vars
  PROVE  Fate' /\ Steady
<1>1. CASE UNCHANGED ufmVars
  BY <1>1 DEF Fate, Steady, ufmVars
<1>2. ASSUME NEW j \in JobIds, UfmEndsJob(j) PROVE Fate' /\ Steady
  BY <1>2 DEF UfmEndsJob, Fate, Steady, TypeOK, Ended, Running
<1>3. ASSUME NEW c \in Callers, Handle(c) PROVE UNCHANGED ufmVars
  BY <1>3 DEF Handle, GiveUp, Reply, Send
<1>4. ASSUME NEW r \in wire, WireLoses(r) PROVE UNCHANGED ufmVars
  BY <1>4 DEF WireLoses
<1>5. ASSUME NEW w \in Waiters, WaitStep(w) \/ Expire(w) \/ \E j \in JobIds : StartWait(w, j)
      PROVE  UNCHANGED ufmVars
  BY <1>5 DEF WaitStep, Poll, PollAnswered, PollFails, Decide, PauseEnds, Expire, StartWait
<1> QED
  BY <1>1, <1>2, <1>3, <1>4, <1>5, FateUfmHandles DEF Next, vars, ufmVars

(* A waiter that does nothing keeps what is known of it.                   *)
LEMMA WaiterRests ==
  ASSUME WaitInv, Steady, NEW w \in Waiters, wait'[w] = wait[w], expired \subseteq expired'
  PROVE  WaiterInv(w)'
<1>1. /\ WaiterInv(w) /\ (wait[w].pc # "idle" => wait[w].job \in JobIds)
      /\ wait[w].known \subseteq JobIds
  BY DEF WaitInv, TypeOK, Waits
<1>2. CASE wait[w].pc = "idle"
  BY <1>1, <1>2 DEF WaiterInv, Steady, Ended
<1>3. CASE wait[w].pc # "idle"
  BY <1>1, <1>3 DEF WaiterInv, Steady, Ended
<1> QED
  BY <1>2, <1>3

(* A step of a waiter of its own keeps it, too.                            *)
LEMMA WaiterMoves ==
  ASSUME WaitInv, NEW w \in Waiters,
         WaitStep(w) \/ \E j \in JobIds : StartWait(w, j)
  PROVE  WaiterInv(w)'
<1>0. /\ WaiterInv(w) /\ wait[w] \in Waits /\ wait \in [Waiters -> Waits]
      /\ wait[w].pc # "idle" => wait[w].job \in JobIds
      /\ state \in [JobIds -> States] /\ Fate
  BY DEF WaitInv, TypeOK
<1>a. UNCHANGED <<ufmVars, expired>>
  BY DEF WaitStep, Poll, PollAnswered, PollFails, Decide, PauseEnds, StartWait
<1>1. CASE Poll(w)
  BY <1>0, <1>1, <1>a DEF Poll, Return, WaiterInv, ufmVars, Ended, Waits
<1>2. CASE PollAnswered(w)
  <2>1. wait[w].job \in JobIds /\ wait[w].verdict = "none"
    BY <1>0, <1>2 DEF PollAnswered, WaiterInv
  <2>2. CASE state[wait[w].job] \in {"none", "deleted"}
    BY <1>0, <1>2, <1>a, <2>1, <2>2 DEF PollAnswered, Return, WaiterInv, ufmVars, Ended, Waits
  <2>3. CASE state[wait[w].job] \notin {"none", "deleted"}
    <3>1. state[wait[w].job] \in {"running"} \cup Ended
      BY <1>0, <2>1, <2>3 DEF States
    <3>2. PICK word \in Words[state[wait[w].job]] :
            wait' = [wait EXCEPT ![w].pc = "decide", ![w].word = word]
      BY <1>2, <2>1, <2>3 DEF PollAnswered
    <3>3. \A e \in Ended : word \in Understood[e] => state[wait[w].job] = e
      BY <3>1, WordsAssumption
    <3>4. \A e \in Ended : word \in Understood[e] => outcome[wait[w].job] = e
      BY <1>0, <2>1, <3>3 DEF Fate
    <3> QED
      BY <1>0, <1>a, <2>1, <3>2, <3>4 DEF WaiterInv, ufmVars, Ended, Waits
  <2> QED
    BY <2>2, <2>3
<1>3. CASE PollFails(w)
  BY <1>0, <1>3, <1>a DEF PollFails, WaiterInv, ufmVars, Ended, Waits
<1>4. CASE Decide(w)
  <2>1. ASSUME NEW e \in Ended, wait[w].word \in Understood[e], Return(w, e)
        PROVE  WaiterInv(w)'
    <3>1. outcome[wait[w].job] = e /\ wait[w].job \in JobIds
      BY <1>0, <1>4, <2>1 DEF Decide, WaiterInv
    <3> QED
      BY <1>0, <1>4, <1>a, <2>1, <3>1 DEF Decide, Return, WaiterInv, ufmVars, Ended, Waits
  <2>2. CASE wait' = [wait EXCEPT ![w].pc = "pause", ![w].word = "none"]
    BY <1>0, <1>4, <1>a, <2>2 DEF Decide, WaiterInv, ufmVars, Ended, Waits
  <2> QED
    BY <1>4, <2>1, <2>2 DEF Decide, Understood, Ended
<1>5. CASE PauseEnds(w)
  BY <1>0, <1>5, <1>a DEF PauseEnds, Return, WaiterInv, ufmVars, Ended, Waits
<1>6. ASSUME NEW j \in JobIds, StartWait(w, j) PROVE WaiterInv(w)'
  BY <1>0, <1>6, <1>a DEF StartWait, WaiterInv, ufmVars, Ended, Waits, Known
<1> QED
  BY <1>1, <1>2, <1>3, <1>4, <1>5, <1>6 DEF WaitStep

LEMMA WaitInit == Init => WaitInv
<1> SUFFICES ASSUME Init PROVE WaitInv
  OBVIOUS
<1>1. Fate
  BY DEF Init, Fate, Ended
<1>2. ASSUME NEW w \in Waiters PROVE WaiterInv(w)
  BY DEF Init, NoWait, WaiterInv, Ended
<1> QED
  BY <1>1, <1>2, TypeInit DEF WaitInv

LEMMA WaitNext == WaitInv /\ [Next]_vars => WaitInv'
<1> SUFFICES ASSUME WaitInv, [Next]_vars PROVE WaitInv'
  OBVIOUS
<1>1. TypeOK' /\ Fate' /\ Steady
  BY TypeStep, FateStep DEF WaitInv
<1>2. SUFFICES ASSUME NEW w \in Waiters PROVE WaiterInv(w)'
  BY <1>1 DEF WaitInv
<1>3. CASE wait' = wait /\ expired \subseteq expired'
  BY <1>1, <1>3, WaiterRests
<1>4. ASSUME NEW v \in Waiters, WaitStep(v) \/ \E j \in JobIds : StartWait(v, j)
      PROVE  WaiterInv(w)'
  <2>1. CASE v = w
    BY <1>4, <2>1, WaiterMoves
  <2>2. CASE v # w
    <3>1. wait'[w] = wait[w] /\ expired' = expired
      BY <1>4, <2>2 DEF WaitStep, Poll, PollAnswered, PollFails, Decide, PauseEnds, StartWait,
                        Return, WaitInv, TypeOK
    <3> QED
      BY <1>1, <3>1, WaiterRests
  <2> QED
    BY <2>1, <2>2
<1>5. ASSUME NEW v \in Waiters, Expire(v) PROVE wait' = wait /\ expired \subseteq expired'
  BY <1>5 DEF Expire
<1>6. ASSUME NEW c \in Callers, Handle(c) PROVE wait' = wait /\ expired \subseteq expired'
  BY <1>6 DEF Handle, GiveUp, Reply, Send, waitVars
<1>7. ASSUME NEW r \in wire, UfmHandles(r) \/ WireLoses(r)
      PROVE  wait' = wait /\ expired \subseteq expired'
  BY <1>7 DEF UfmHandles, WireLoses, waitVars
<1>8. ASSUME NEW j \in JobIds, UfmEndsJob(j) PROVE wait' = wait /\ expired \subseteq expired'
  BY <1>8 DEF UfmEndsJob, waitVars
<1>9. CASE UNCHANGED vars
  BY <1>3, <1>9 DEF vars
<1> QED
  BY <1>3, <1>4, <1>5, <1>6, <1>7, <1>8, <1>9 DEF Next

(* What WaitForJob says of a job's end is the job's end, for any number of *)
(* jobs, waiters and API clients, whatever gets lost or comes late.        *)
THEOREM VerdictCorrect == Spec => []VerdictIsTrue
<1>1. WaitInv => VerdictIsTrue
  BY DEF WaitInv, WaiterInv, VerdictIsTrue
<1> QED
  BY <1>1, WaitInit, WaitNext, PTL DEF Spec

(* WaitForJob gives up only for one of the reasons it has.                 *)
THEOREM FailureCorrect == Spec => []FailureHasACause
<1>1. WaitInv => FailureHasACause
  BY DEF WaitInv, WaiterInv, FailureHasACause
<1> QED
  BY <1>1, WaitInit, WaitNext, PTL DEF Spec
=============================================================================
