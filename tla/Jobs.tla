-------------------------------- MODULE Jobs --------------------------------
(***************************************************************************)
(* UFM's asynchronous jobs as this repository sees them: the facade's      *)
(* handlers that start, look at, delete and abort jobs                     *)
(* (internal/handler/server.go), and Client.WaitForJob                     *)
(* (pkg/ufmclient/jobs.go), which polls one job until it ends.             *)
(*                                                                         *)
(* Requests of several API clients, polls of several waiting goroutines    *)
(* and UFM's own progress interleave.  A request travels to UFM on a wire  *)
(* that is slower than the facade may wait: when the facade gives up, the  *)
(* request is still under way and may be carried out later, or never.      *)
(*                                                                         *)
(* UFM itself is external: it is modelled by what the code asks of it.     *)
(***************************************************************************)
EXTENDS UfmCall, FiniteSets

CONSTANTS
  JobIds,        \* the identifiers UFM gives to jobs
  Callers,       \* API clients of the facade, one request at a time each
  Waiters,       \* calls of WaitForJob
  WithDeadline,  \* those of them whose context ends some time
  Words,         \* Words[s]: the words UFM may report a job in state s with
  Offered,       \* the operations API clients use
  Refusals,      \* statuses UFM may refuse any request with
  MaxRequests    \* bound: requests the API clients make altogether

Starters   == {"AddPartitionHosts", "CreateReport", "RunFabricValidationTest"}
Operations == Starters \cup {"GetJob", "DeleteJob", "AbortJob", "AbortAllJobs"}

ASSUME JobsAssumption ==
  /\ Offered \subseteq Operations
  /\ "none" \notin JobIds
  /\ WithDeadline \subseteq Waiters
  /\ Refusals \subseteq 400..599
  /\ MaxRequests \in Nat

Ended == {"completed", "failed", "aborted"}
States == {"none", "running", "deleted"} \cup Ended

(* The words WaitForJob takes for each end of a job; UFM uses none of them *)
(* for another state.                                                      *)
Understood == [completed |-> {"completed", "Completed"}, failed |-> {"failed", "Failed"},
               aborted   |-> {"aborted", "Aborted"}]

ASSUME WordsAssumption ==
  \A s \in {"running"} \cup Ended : \A e \in Ended : s # e => Words[s] \cap Understood[e] = {}

VARIABLES
  state,     \* UFM: state[j] of job j; "none" before it is started
  outcome,   \* history: how job j ended, "none" as long as it has not
  wire,      \* requests of the facade on their way to UFM
  call,      \* call[c]: the latest request of caller c and its handling
  requests,  \* history: the number of requests made so far
  wait,      \* wait[w]: the progress of waiter w
  expired    \* the waiters whose context has ended

vars == <<state, outcome, wire, call, requests, wait, expired>>

ufmVars == <<state, outcome>>
callVars == <<wire, call, requests>>
waitVars == <<wait, expired>>

-----------------------------------------------------------------------------
(* The handlers: which call to UFM each makes, whether it reads a result   *)
(* from it, and its status when the call succeeds.                         *)

(* Mutated form of Upstream: deleting a job aborts the jobs instead.       *)
UpstreamDeleteAborts(op) ==
  CASE op \in Starters -> "POST"
    [] op = "GetJob"   -> "GET job"
    [] OTHER           -> "POST abortall"

Upstream(op) ==
  CASE op \in Starters                     -> "POST"
    [] op = "GetJob"                       -> "GET job"
    [] op = "DeleteJob"                    -> "DELETE job"
    [] op \in {"AbortJob", "AbortAllJobs"} -> "POST abortall"

WantsResult(op) == op \in {"AddPartitionHosts", "CreateReport", "GetJob"}

Success(op) ==
  CASE op \in Starters \cup {"AbortJob"}     -> 202
    [] op = "GetJob"                        -> 200
    [] op \in {"DeleteJob", "AbortAllJobs"} -> 204

(* RunFabricValidationTest does not use Client.do: of all the statuses UFM *)
(* may answer with it takes 409 only for an error.                         *)
ErrorOf(op, resp) ==
  IF op = "RunFabricValidationTest"
  THEN IF ~resp.got THEN OtherError ELSE IF resp.status = 409 THEN APIError(409) ELSE NoError
  ELSE do(resp, WantsResult(op))

StatusOf(op, resp) ==
  IF ErrorOf(op, resp) = NoError THEN Success(op) ELSE handleUFMError(ErrorOf(op, resp))

-----------------------------------------------------------------------------
Known   == {j \in JobIds : state[j] # "none"}
Running == {j \in JobIds : state[j] = "running"}

NoCall == [pc |-> "idle", op |-> "none", job |-> "none", number |-> 0,
           runningBefore |-> {}, unknownBefore |-> {}, resp |-> Silence, status |-> 0]

NoWait == [pc |-> "idle", job |-> "none", known |-> {}, word |-> "none", verdict |-> "none"]

Init ==
  /\ state = [j \in JobIds |-> "none"]
  /\ outcome = [j \in JobIds |-> "none"]
  /\ wire = {}
  /\ call = [c \in Callers |-> NoCall]
  /\ requests = 0
  /\ wait = [w \in Waiters |-> NoWait]
  /\ expired = {}

(* A handler is entered and sends its one request, about any job the       *)
(* client names.  Two fields are history: the jobs an abort finds running  *)
(* when it comes in, and the job itself if UFM has never had it by then.   *)
Send(c, op, j) ==
  /\ call[c].pc \in {"idle", "replied"}
  /\ requests < MaxRequests
  /\ IF op \in Starters \cup {"AbortAllJobs"} THEN j = "none" ELSE j \in JobIds
  /\ requests' = requests + 1
  /\ wire' = wire \cup {[caller |-> c, number |-> requests + 1, op |-> op, job |-> j]}
  /\ call' = [call EXCEPT ![c] =
       [NoCall EXCEPT !.pc = "sent", !.op = op, !.job = j, !.number = requests + 1,
                      !.runningBefore = IF Upstream(op) = "POST abortall" THEN Running ELSE {},
                      !.unknownBefore = {j} \cap (JobIds \ Known)]]
  /\ UNCHANGED <<ufmVars, waitVars>>

(* UFM's answer to request r about job j reaches the handler, if that still *)
(* waits for it.                                                           *)
Deliver(r, j, resp) ==
  call' = IF call[r.caller].pc = "sent" /\ call[r.caller].number = r.number
          THEN [call EXCEPT ![r.caller].pc = "answered", ![r.caller].job = j,
                            ![r.caller].resp = resp]
          ELSE call

(* UFM carries out a request of each kind, or refuses it.                  *)
UfmStartsJob(r) ==
  /\ Upstream(r.op) = "POST"
  /\ \E j \in JobIds :
       /\ state[j] = "none"
       /\ state' = [state EXCEPT ![j] = "running"]
       /\ Deliver(r, j, Response(200))
  /\ UNCHANGED outcome

UfmShowsJob(r) ==
  /\ Upstream(r.op) = "GET job"
  /\ Deliver(r, r.job, Response(IF state[r.job] \in {"none", "deleted"} THEN 404 ELSE 200))
  /\ UNCHANGED ufmVars

UfmDeletesJob(r) ==
  /\ Upstream(r.op) = "DELETE job"
  /\ IF state[r.job] \in {"none", "deleted"}
     THEN state' = state /\ Deliver(r, r.job, Response(404))
     ELSE state' = [state EXCEPT ![r.job] = "deleted"] /\ Deliver(r, r.job, Response(204))
  /\ UNCHANGED outcome

UfmAbortsJobs(r) ==
  /\ Upstream(r.op) = "POST abortall"
  /\ state' = [j \in JobIds |-> IF j \in Running THEN "aborted" ELSE state[j]]
  /\ outcome' = [j \in JobIds |-> IF j \in Running THEN "aborted" ELSE outcome[j]]
  /\ Deliver(r, r.job, Response(200))

UfmRefuses(r) ==
  /\ \E s \in Refusals : Deliver(r, r.job, Response(s))
  /\ UNCHANGED ufmVars

UfmHandles(r) ==
  /\ UfmStartsJob(r) \/ UfmShowsJob(r) \/ UfmDeletesJob(r) \/ UfmAbortsJobs(r) \/ UfmRefuses(r)
  /\ wire' = wire \ {r}
  /\ UNCHANGED <<requests, waitVars>>

(* A request never arrives.                                                *)
WireLoses(r) ==
  /\ wire' = wire \ {r}
  /\ UNCHANGED <<ufmVars, call, requests, waitVars>>

(* Mutated form of GiveUp: a request without an answer is sent once more.  *)
GiveUpAndResend(c) ==
  /\ call[c].pc \in {"sent", "answered"}
  /\ wire' = wire \cup {[caller |-> c, number |-> call[c].number, op |-> call[c].op, job |-> call[c].job]}
  /\ call' = [call EXCEPT ![c].pc = "sent", ![c].resp = Silence]
  /\ UNCHANGED <<ufmVars, requests, waitVars>>

(* The handler gets no answer: the timeout of the HTTP client or the end   *)
(* of the API client's connection, before or after UFM acted; or it gets   *)
(* one it cannot decode.                                                   *)
GiveUp(c) ==
  /\ call[c].pc \in {"sent", "answered"}
  /\ \/ call' = [call EXCEPT ![c].pc = "answered", ![c].resp = Silence]
     \/ /\ call[c].pc = "answered"
        /\ call' = [call EXCEPT ![c].resp.decodes = FALSE]
  /\ UNCHANGED <<ufmVars, wire, requests, waitVars>>

(* The handler answers its client.                                         *)
Reply(c) ==
  /\ call[c].pc = "answered"
  /\ call' = [call EXCEPT ![c].pc = "replied", ![c].number = 0, ![c].resp = Silence,
                              ![c].status = StatusOf(call[c].op, call[c].resp)]
  /\ UNCHANGED <<ufmVars, wire, requests, waitVars>>

(* A job ends by itself.                                                   *)
UfmEndsJob(j) ==
  /\ j \in Running
  /\ \E s \in {"completed", "failed"} :
       state' = [state EXCEPT ![j] = s] /\ outcome' = [outcome EXCEPT ![j] = s]
  /\ UNCHANGED <<callVars, waitVars>>

-----------------------------------------------------------------------------
(* WaitForJob.                                                             *)

(* A goroutine waits for any job; whether UFM has it by then is history.   *)
StartWait(w, j) ==
  /\ wait[w].pc = "idle"
  /\ wait' = [wait EXCEPT ![w].pc = "poll", ![w].job = j, ![w].known = {j} \cap Known]
  /\ UNCHANGED <<ufmVars, callVars, expired>>

Return(w, verdict) ==
  wait' = [wait EXCEPT ![w].pc = "returned", ![w].verdict = verdict]

(* Mutated form of Poll: GetJob is not given the context.                  *)
PollIgnoringContext(w) ==
  /\ wait[w].pc = "poll"
  /\ wait' = [wait EXCEPT ![w].pc = "asked"]
  /\ UNCHANGED <<ufmVars, callVars, expired>>

(* GetJob sends its request; under a context that has ended it fails at    *)
(* once.                                                                   *)
Poll(w) ==
  /\ wait[w].pc = "poll"
  /\ IF w \in expired THEN Return(w, "error") ELSE wait' = [wait EXCEPT ![w].pc = "asked"]
  /\ UNCHANGED <<ufmVars, callVars, expired>>

(* UFM reports the job; one it does not have is an APIError of GetJob.     *)
PollAnswered(w) ==
  /\ wait[w].pc = "asked"
  /\ LET s == state[wait[w].job] IN
       IF s \in {"none", "deleted"} THEN Return(w, "error")
       ELSE \E word \in Words[s] :
              wait' = [wait EXCEPT ![w].pc = "decide", ![w].word = word]
  /\ UNCHANGED <<ufmVars, callVars, expired>>

(* GetJob fails otherwise: no connection, a timeout, an error status, an   *)
(* answer that does not decode, or the end of the context meanwhile.  One  *)
(* such failure ends the wait.                                             *)
PollFails(w) ==
  /\ wait[w].pc = "asked"
  /\ wait' = [wait EXCEPT ![w].pc = "returned", ![w].verdict = "error", ![w].word = "lost"]
  /\ UNCHANGED <<ufmVars, callVars, expired>>

(* Mutated form of Decide: "Aborted" is not among the words that end the   *)
(* wait.                                                                   *)
DecideMissingAborted(w) ==
  /\ wait[w].pc = "decide"
  /\ \/ wait[w].word \in {"completed", "Completed"} /\ Return(w, "completed")
     \/ wait[w].word \in {"failed", "Failed"}       /\ Return(w, "failed")
     \/ wait[w].word = "aborted"                    /\ Return(w, "aborted")
     \/ /\ wait[w].word \notin {"completed", "Completed", "failed", "Failed", "aborted"}
        /\ wait' = [wait EXCEPT ![w].pc = "pause", ![w].word = "none"]
  /\ UNCHANGED <<ufmVars, callVars, expired>>

(* Mutated form of Decide: whatever is not running has completed.          *)
DecideCarelessly(w) ==
  /\ wait[w].pc = "decide"
  /\ \/ wait[w].word \notin {"running", "Running"} /\ Return(w, "completed")
     \/ /\ wait[w].word \in {"running", "Running"}
        /\ wait' = [wait EXCEPT ![w].pc = "pause", ![w].word = "none"]
  /\ UNCHANGED <<ufmVars, callVars, expired>>

(* The switch on the reported word.                                        *)
Decide(w) ==
  /\ wait[w].pc = "decide"
  /\ \/ wait[w].word \in {"completed", "Completed"} /\ Return(w, "completed")
     \/ wait[w].word \in {"failed", "Failed"}       /\ Return(w, "failed")
     \/ wait[w].word \in {"aborted", "Aborted"}     /\ Return(w, "aborted")
     \/ /\ wait[w].word \notin {"completed", "Completed", "failed", "Failed", "aborted", "Aborted"}
        /\ wait' = [wait EXCEPT ![w].pc = "pause", ![w].word = "none"]
  /\ UNCHANGED <<ufmVars, callVars, expired>>

(* Mutated form of PauseEnds: the wait is given up before the deadline.    *)
PauseEndsEarly(w) ==
  /\ wait[w].pc = "pause"
  /\ Return(w, "deadline") \/ wait' = [wait EXCEPT ![w].pc = "poll"]
  /\ UNCHANGED <<ufmVars, callVars, expired>>

(* The select between the context and the timer: when both are ready Go    *)
(* takes either.                                                           *)
PauseEnds(w) ==
  /\ wait[w].pc = "pause"
  /\ \/ w \in expired /\ Return(w, "deadline")
     \/ wait' = [wait EXCEPT ![w].pc = "poll"]
  /\ UNCHANGED <<ufmVars, callVars, expired>>

Expire(w) ==
  /\ w \in WithDeadline \ expired
  /\ wait[w].pc \notin {"idle", "returned"}
  /\ expired' = expired \cup {w}
  /\ UNCHANGED <<ufmVars, callVars, wait>>

-----------------------------------------------------------------------------
Handle(c) == GiveUp(c) \/ Reply(c) \/ \E op \in Offered, j \in JobIds \cup {"none"} : Send(c, op, j)

WaitStep(w) ==
  Poll(w) \/ PollAnswered(w) \/ PollFails(w) \/ Decide(w) \/ PauseEnds(w)

Next ==
  \/ \E c \in Callers : Handle(c)
  \/ \E r \in wire : UfmHandles(r) \/ WireLoses(r)
  \/ \E j \in JobIds : UfmEndsJob(j)
  \/ \E w \in Waiters : WaitStep(w) \/ Expire(w) \/ \E j \in JobIds : StartWait(w, j)

Spec == Init /\ [][Next]_vars

(* A goroutine in WaitForJob runs on; a poll ends, by the HTTP client's    *)
(* timeout if not before; a context with a deadline ends.  Nothing is      *)
(* assumed of UFM's jobs or of the API clients.                            *)
FairSpec ==
  /\ Spec
  /\ \A w \in Waiters : WF_vars(WaitStep(w))
  /\ \A w \in WithDeadline : WF_vars(Expire(w))

-----------------------------------------------------------------------------
Statuses == {0, 200, 202, 204, BadGateway} \cup PassedOn

Calls == [pc : {"idle", "sent", "answered", "replied"}, op : Operations \cup {"none"},
          job : JobIds \cup {"none"}, number : Nat, runningBefore : SUBSET JobIds,
          unknownBefore : SUBSET JobIds, resp : Responses, status : Statuses]

Waits == [pc : {"idle", "poll", "asked", "decide", "pause", "returned"},
          job : JobIds \cup {"none"}, known : SUBSET JobIds,
          word : {"none", "lost"} \cup UNION {Words[s] : s \in {"running"} \cup Ended},
          verdict : Ended \cup {"none", "error", "deadline"}]

Wired == [caller : Callers, number : Nat, op : Operations, job : JobIds \cup {"none"}]

(* Every variable holds a value of its kind, a handler that waits or has   *)
(* an answer works on an operation and a waiter that started on a job; and *)
(* the statuses of the facade are the six it passes on, 502 and those of   *)
(* success.                                                                *)
TypeOK ==
  /\ state \in [JobIds -> States]
  /\ outcome \in [JobIds -> Ended \cup {"none"}]
  /\ wire \subseteq Wired
  /\ requests \in Nat
  /\ call \in [Callers -> Calls]
  /\ \A c \in Callers : call[c].pc \in {"sent", "answered"} => call[c].op \in Operations
  /\ wait \in [Waiters -> Waits]
  /\ \A w \in Waiters : wait[w].pc # "idle" => wait[w].job \in JobIds
  /\ expired \subseteq WithDeadline

(* What WaitForJob says of how a job ended is how it ended, whoever else   *)
(* polled, deleted or aborted jobs meanwhile; so two waiters never         *)
(* contradict each other.                                                  *)
VerdictIsTrue ==
  \A w \in Waiters :
    wait[w].verdict \in Ended => outcome[wait[w].job] = wait[w].verdict

(* WaitForJob fails without a job only if UFM did not have the job when    *)
(* the wait began, the job's record is gone, its own context has ended, or *)
(* a poll was lost; it gives up with the last job seen only after its      *)
(* context has ended.                                                      *)
FailureHasACause ==
  \A w \in Waiters :
    /\ wait[w].verdict = "deadline" => w \in expired
    /\ wait[w].verdict = "error" =>
         \/ wait[w].job \notin wait[w].known
         \/ state[wait[w].job] = "deleted" \/ w \in expired \/ wait[w].word = "lost"

(* The jobs an abort is asked to end, of those running when it comes in.   *)
Abortees(k) == IF k.op = "AbortJob" THEN k.runningBefore \cap {k.job} ELSE k.runningBefore

(* After AbortJob reported success the job it names, and after             *)
(* AbortAllJobs reported success every job, is no longer running if it was *)
(* running when the request came in, although answers are late or lost and *)
(* other clients start, abort and delete jobs meanwhile.                   *)
AbortReportedIsDone ==
  \A c \in Callers :
    call[c].op \in {"AbortJob", "AbortAllJobs"} /\ call[c].pc = "replied" /\ call[c].status < 400
      => Abortees(call[c]) \cap Running = {}

(* POST /jobs/{job_id}/abort is documented to abort the job it names       *)
(* (api/openapi.yaml:1086 and 1091): carrying it out leaves the others as  *)
(* they are.  The handler's own comment says it does not (server.go:831).  *)
AbortEndsItsJobOnly ==
  [][\A r \in wire \ wire' :
       r.op = "AbortJob" => \A j \in JobIds \ {r.job} : state'[j] = state[j]]_vars

(* A request that starts a job starts at most one, even if it is answered  *)
(* too late or not at all: nothing in the facade sends a request twice.    *)
OneJobPerRequest ==
  Cardinality(Known) <= requests

(* A 202 for added hosts or for a report names a job UFM knows.            *)
AcceptedNamesAJob ==
  \A c \in Callers :
    call[c].op \in {"AddPartitionHosts", "CreateReport"} /\ call[c].pc = "replied" /\ call[c].status = 202
      => call[c].job \in Known

(* After DeleteJob answered 204 the job's record is gone for good; after   *)
(* 404 it is gone as well, or UFM did not have the job when the request    *)
(* was made.                                                               *)
DeleteReportedIsDone ==
  \A c \in Callers :
    call[c].op = "DeleteJob" /\ call[c].pc = "replied" /\ call[c].status \in {204, 404}
      => \/ state[call[c].job] = "deleted"
         \/ call[c].status = 404 /\ call[c].job \in call[c].unknownBefore

(* POST /fabric-validations/{test_name} is documented to answer 202 when   *)
(* the test is started and to return a job: a 202 names a job UFM knows.   *)
StartedTestHasAJob ==
  \A c \in Callers :
    call[c].op = "RunFabricValidationTest" /\ call[c].pc = "replied" /\ call[c].status = 202
      => call[c].job \in Known

(* WaitForJob under a context with a deadline returns, whatever UFM and    *)
(* the job do.                                                             *)
WaitWithDeadlineReturns ==
  \A w \in WithDeadline : wait[w].pc = "poll" ~> wait[w].pc = "returned"

(* WaitForJob notices that its job has ended, by itself, by somebody's     *)
(* abort or by deletion, even without a deadline, unless UFM has a word    *)
(* for that end that WaitForJob does not know (jobs.go:83).                *)
Noticeable == {"deleted"} \cup {s \in Ended : Words[s] \subseteq Understood[s]}
WaitForEndedJobReturns ==
  \A w \in Waiters :
    (wait[w].pc # "idle" /\ state[wait[w].job] \in Noticeable) ~> wait[w].pc = "returned"
=============================================================================
