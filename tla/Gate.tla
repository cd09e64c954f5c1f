-------------------------------- MODULE Gate --------------------------------
(***************************************************************************)
(* The request handlers of internal/api/server.go behind requireRole, and  *)
(* the commands of cmd/skgate/main.go that change the store, on one store. *)
(* An evaluation asks the store twice, counts, and saves, so everything    *)
(* else can happen between its steps.                                      *)
(*                                                                         *)
(* The store is the file store.  Its mutex is one per process: within the  *)
(* server a call is one step, but a command's Unquarantine removes the     *)
(* file and writes it anew under the server's eyes, so an Unquarantine is  *)
(* taken apart here.  The other calls are single steps, which may fail;    *)
(* what becomes of a Promote among several processes is the subject of     *)
(* FileStore and SQLStore.                                                 *)
(*                                                                         *)
(* A worker is a goroutine that serves POST /api/v1/evaluate, or a process *)
(* that runs evaluate or reassess.                                         *)
(***************************************************************************)
EXTENDS Admission, Auth

CONSTANTS
    Workers,
    Role,        \* "serve", "evaluate" or "reassess": what each worker runs
    Server,      \* the server process
    Homes,       \* the processes in which an Unquarantine may run
    PolicyFiles, \* the policies a process may be started with
    Deployments, \* whether serve runs in production, and its SKGATE_API_TOKEN
    Callers,     \* the Authorization headers of its callers
    Inputs,      \* the evaluation requests that may arrive
    NoJob,
    MaxCalls,    \* bound on the requests and commands issued
    MaxFaults    \* bound on failing store calls and restarts

ASSUME GateAssumption ==
    /\ IsFiniteSet(Workers)
    /\ Role \in [Workers -> {"serve", "evaluate", "reassess"}]
    /\ Server \in Homes
    /\ PolicyFiles \subseteq Policies
    /\ PolicyFiles # {}
    /\ Deployments \subseteq [production : BOOLEAN, token : Tokens \cup {NoToken}]
    /\ Callers \subseteq Headers
    /\ Inputs \subseteq Requests
    /\ MaxCalls \in Nat
    /\ MaxFaults \in Nat

VARIABLES
    policy,                             \* the policy of the running server
    production, authenticator,          \* whom it serves
    decisions,                          \* the audit log, in the order of saving
    promotions, revocations, quarantines,
    rewriting,                          \* per process, the step its Unquarantine is at,
                                        \* and the quarantines it has yet to write
    total, denied,                      \* the server's counters
    pc, job,
    queue,                              \* what a reassess has still to do
    blocks,                             \* history: per worker, the kinds of block in
                                        \* force ever since its evaluation began
    answered,                           \* history: the decisions the server, since
                                        \* its start, answered with status 200
    now, nextID, issued, faults

store    == <<decisions, promotions, revocations, quarantines, rewriting>>
counters == <<total, denied>>
bounds   == <<issued, faults>>
process  == <<policy, production, authenticator>>
vars     == <<process, store, counters, pc, job, queue, blocks, answered, now, nextID,
              bounds>>

-----------------------------------------------------------------------------
(* Blocks in force.                                                        *)

(* The lists for one environment, or with AnyEnv all of it.                *)
GetRevocations(revs, e) == {r \in revs : e = AnyEnv \/ r.env = e}

GetQuarantines(quars, e) == {q \in quars : e = AnyEnv \/ q.env \in {AnyEnv, e}}

IsRevoked(revs, d, e) == \E r \in GetRevocations(revs, e) : AppliesTo(r, d, e)

IsQuarantined(quars, d, e) == \E q \in GetQuarantines(quars, e) : AppliesTo(q, d, e)

(* Mutant: Unquarantine does not take the mutex.                           *)
NeverLocked == FALSE

(* An Unquarantine holds the mutex of the server.                          *)
Locked == rewriting[Server].step # "idle"

(* A goroutine of the server waits with its calls of the store.            *)
Waits(w) == Role[w] = "serve" /\ Locked

(* What the Unquarantines of the processes H have yet to write.            *)
Kept(rew, H) == UNION {rew[h].left : h \in H}

Own(w) == IF Role[w] = "serve" THEN {Server} ELSE {}

(* History: the kinds of block in force against w's request r.             *)
(*    revocation: a revocation that names its environment;                 *)
(*    quarantine: a quarantine that is on file, or that an Unquarantine of *)
(*                w's own process has yet to write;                        *)
(*    held:       a quarantine that is on file, or that any Unquarantine   *)
(*                has yet to write.                                        *)
Blocks(w, revs, quars, rew, r) ==
    {k \in {"revocation", "quarantine", "held"} :
        \/ /\ k = "revocation"
           /\ \E v \in revs : v.env # AnyEnv /\ AppliesTo(v, r.digest, r.env)
        \/ /\ k = "quarantine"
           /\ \E q \in quars \cup Kept(rew, Own(w)) : AppliesTo(q, r.digest, r.env)
        \/ /\ k = "held"
           /\ \E q \in quars \cup Kept(rew, Homes) : AppliesTo(q, r.digest, r.env)}

(* After the store has changed to these.                                   *)
StillBlocked(revs, quars, rew) ==
    blocks' = [w \in Workers |->
                  IF job[w] = NoJob THEN {}
                  ELSE blocks[w] \cap Blocks(w, revs, quars, rew, job[w].request)]

-----------------------------------------------------------------------------
(* One evaluation.                                                         *)

Goto(w, s) == pc' = [pc EXCEPT ![w] = s]

Fault == faults < MaxFaults /\ faults' = faults + 1

Issue == issued < MaxCalls /\ issued' = issued + 1

(* Evaluate reads the clock, draws a decision_id, and begins its checks.   *)
Begin(w, p, r) ==
    /\ Goto(w, "revocation")
    /\ job' = [job EXCEPT ![w] = [policy |-> p, request |-> r, at |-> now,
                                  id |-> nextID, revoked |-> "no",
                                  quarantined |-> "no", outcome |-> "ALLOW"]]
    /\ nextID' = nextID + 1
    /\ blocks' = [blocks EXCEPT ![w] = Blocks(w, revocations, quarantines, rewriting, r)]

(* requireRole lets somebody through to the handler of endpoint e.         *)
Served(e) ==
    \E h \in Callers :
        200 \in requireRole(production, authenticator, h, RequiredRole[e], now)

evaluate(w) ==
    /\ Role[w] = "serve"
    /\ pc[w] = "idle"
    /\ Served("evaluate")
    /\ Issue
    /\ \E r \in Inputs : Begin(w, policy, r)
    /\ UNCHANGED <<process, store, counters, queue, answered, now, faults>>

runEvaluate(w) ==
    /\ Role[w] = "evaluate"
    /\ pc[w] = "idle"
    /\ Issue
    /\ \E p \in PolicyFiles, r \in Inputs : Begin(w, p, r)
    /\ UNCHANGED <<process, store, counters, queue, answered, now, faults>>

CheckRevoked(w) ==
    LET r == job[w].request
        found == IF IsRevoked(revocations, r.digest, r.env) THEN "yes" ELSE "no"
    IN  /\ pc[w] = "revocation"
        /\ ~Waits(w)
        /\ \/ /\ job' = [job EXCEPT ![w].revoked = found]
              /\ UNCHANGED faults
           \/ /\ Fault
              /\ job' = [job EXCEPT ![w].revoked = "error"]
        /\ Goto(w, "quarantine")
        /\ UNCHANGED <<process, store, counters, queue, blocks, answered, now,
                       nextID, issued>>

(* After the second lookup the rest of Evaluate touches nothing shared.    *)
(* The verifier of admission.New has empty pools, and nothing fills them.  *)
Decide(w, quarantined) ==
    LET j == job[w]
    IN  job' = [job EXCEPT
                  ![w].quarantined = quarantined,
                  ![w].outcome = Evaluate(j.policy, j.request, NewTrustRoots,
                                          j.revoked, quarantined, j.at, now)]

CheckQuarantined(w) ==
    LET r == job[w].request
        found == IF IsQuarantined(quarantines, r.digest, r.env) THEN "yes" ELSE "no"
    IN  /\ pc[w] = "quarantine"
        /\ ~Waits(w)
        /\ \/ Decide(w, found) /\ UNCHANGED faults
           \/ Decide(w, "error") /\ Fault
        /\ Goto(w, IF Role[w] = "serve" THEN "total" ELSE "save")
        /\ UNCHANGED <<process, store, counters, queue, blocks, answered, now,
                       nextID, issued>>

(* Mutant: a decision that is not ALLOW is not counted as denied.          *)
CountTotalOnly(w) ==
    /\ pc[w] = "total"
    /\ total' = total + 1
    /\ Goto(w, "save")
    /\ UNCHANGED <<process, store, denied, job, queue, blocks, answered, now, nextID,
                   bounds>>

(* s.total.Add(1), then s.denied.Add(1).                                   *)
CountTotal(w) ==
    /\ pc[w] = "total"
    /\ total' = total + 1
    /\ Goto(w, IF job[w].outcome # "ALLOW" THEN "denied" ELSE "save")
    /\ UNCHANGED <<process, store, denied, job, queue, blocks, answered, now, nextID,
                   bounds>>

CountDenied(w) ==
    /\ pc[w] = "denied"
    /\ denied' = denied + 1
    /\ Goto(w, "save")
    /\ UNCHANGED <<process, store, total, job, queue, blocks, answered, now, nextID,
                   bounds>>

Decision(w) ==
    [id |-> job[w].id, outcome |-> job[w].outcome, digest |-> job[w].request.digest,
     env |-> job[w].request.env, expires |-> job[w].at + Lifetime,
     policy |-> job[w].policy]

(* Mutant: the worker's job outlives its evaluation.                       *)
SavedAndKept(w) ==
    /\ Goto(w, IF Role[w] = "reassess" THEN "next" ELSE "idle")
    /\ UNCHANGED <<process, promotions, revocations, quarantines, rewriting, counters, job,
                   queue, blocks, now, nextID, issued>>

(* The handler answers 500 when saving fails; the commands do not look at  *)
(* the error.  An error may come after the line was written.               *)
Saved(w) ==
    /\ Goto(w, IF Role[w] = "reassess" THEN "next" ELSE "idle")
    /\ job' = [job EXCEPT ![w] = NoJob]
    /\ blocks' = [blocks EXCEPT ![w] = {}]
    /\ UNCHANGED <<process, promotions, revocations, quarantines, rewriting, counters,
                   queue, now, nextID, issued>>

SaveDecision(w) ==
    /\ pc[w] = "save"
    /\ ~Waits(w)
    /\ decisions' = Append(decisions, Decision(w))
    /\ answered' = IF Role[w] = "serve" THEN answered \cup {Decision(w)} ELSE answered
    /\ Saved(w)
    /\ UNCHANGED faults

(* Mutant: the handler ignores the error, as the commands do.              *)
SaveDecisionFailsSilently(w) ==
    /\ pc[w] = "save"
    /\ ~Waits(w)
    /\ Fault
    /\ UNCHANGED decisions
    /\ answered' = IF Role[w] = "serve" THEN answered \cup {Decision(w)} ELSE answered
    /\ Saved(w)

SaveDecisionFails(w) ==
    /\ pc[w] = "save"
    /\ ~Waits(w)
    /\ Fault
    /\ decisions' \in {decisions, Append(decisions, Decision(w))}
    /\ UNCHANGED answered
    /\ Saved(w)

-----------------------------------------------------------------------------
(* reassess: every decision on file is evaluated anew, on made-up evidence.*)
(* The list is read once, before the first evaluation.                     *)

runReassess(w) ==
    /\ Role[w] = "reassess"
    /\ pc[w] = "idle"
    /\ Issue
    /\ \E p \in PolicyFiles : queue' = [queue EXCEPT ![w] = [policy |-> p,
                                                             old |-> decisions]]
    /\ Goto(w, "next")
    /\ UNCHANGED <<process, store, counters, job, blocks, answered, now, nextID, faults>>

NextReassessment(w) ==
    LET p == queue[w].policy
        d == Head(queue[w].old)
    IN  /\ pc[w] = "next"
        /\ queue[w].old # <<>>
        /\ Begin(w, p, Reassessment(p, d.digest, d.env, now))
        /\ queue' = [queue EXCEPT ![w].old = Tail(@)]
        /\ UNCHANGED <<process, store, counters, answered, now, bounds>>

EndReassess(w) ==
    /\ pc[w] = "next"
    /\ queue[w].old = <<>>
    /\ Goto(w, "idle")
    /\ queue' = [queue EXCEPT ![w] = NoJob]
    /\ UNCHANGED <<process, store, counters, job, blocks, answered, now, nextID, bounds>>

-----------------------------------------------------------------------------
(* The other handlers, and the commands that do the same without a role.   *)

Idle == <<process, counters, pc, job, queue, answered, now, nextID>>

(* Mutant: a decision that was shown to somebody is as good as a record.   *)
PromoteShown ==
    /\ Issue
    /\ \E i \in 1 .. nextID - 1, d \in Digests, e \in Envs :
          promotions' = promotions \cup {[decision |-> i, digest |-> d, env |-> e]}
    /\ UNCHANGED <<Idle, decisions, revocations, quarantines, rewriting, blocks, faults>>

(* The first decision of that id decides.                                  *)
Promote ==
    /\ Issue
    /\ \E i \in DOMAIN decisions :
          LET d == decisions[i]
              p == [decision |-> d.id, digest |-> d.digest, env |-> d.env]
          IN  /\ \A j \in 1 .. i - 1 : decisions[j].id # d.id
              /\ Supports(d, p)
              /\ ~Expired(d, now)
              /\ \A r \in revocations \cup quarantines : ~AppliesTo(r, p.digest, p.env)
              /\ promotions' = promotions \cup {p}
    /\ UNCHANGED <<Idle, decisions, revocations, quarantines, rewriting, blocks, faults>>

promote    == Served("promote") /\ ~Locked /\ Promote
runPromote == Promote

Revoke ==
    /\ Issue
    /\ \E r \in Revocations : revocations' = revocations \cup {r}
    /\ StillBlocked(revocations', quarantines, rewriting)
    /\ UNCHANGED <<Idle, decisions, promotions, quarantines, rewriting, faults>>

revoke    == Served("revoke") /\ ~Locked /\ Revoke
runRevoke == Revoke

Quarantine ==
    /\ Issue
    /\ \E q \in Quarantines : quarantines' = quarantines \cup {q}
    /\ StillBlocked(revocations, quarantines', rewriting)
    /\ UNCHANGED <<Idle, decisions, promotions, revocations, rewriting, faults>>

quarantine    == Served("quarantine") /\ ~Locked /\ Quarantine
runQuarantine == Quarantine

Rewrite(h, s, rest) == rewriting' = [rewriting EXCEPT ![h] = [step |-> s, left |-> rest]]

(* Reads the file, and leaves out what the key names.                      *)
Unquarantine(h) ==
    /\ rewriting[h].step = "idle"
    /\ Issue
    /\ \E key \in QuarantineIDs \cup Digests :
          Rewrite(h, "remove", {q \in quarantines : key \notin {q.id, q.digest}})
    /\ UNCHANGED <<Idle, decisions, promotions, revocations, quarantines, blocks, faults>>

unquarantine       == Served("unquarantine") /\ Unquarantine(Server)
runUnquarantine(h) == h # Server /\ Unquarantine(h)

(* Nobody looks at the error of os.Remove, which leaves the file alone.    *)
RemoveQuarantines(h) ==
    LET rest == rewriting[h].left
    IN  /\ rewriting[h].step = "remove"
        /\ \/ quarantines' = {} /\ UNCHANGED faults
           \/ UNCHANGED quarantines /\ Fault
        /\ Rewrite(h, IF rest = {} THEN "idle" ELSE "append", rest)
        /\ StillBlocked(revocations, quarantines', rewriting')
        /\ UNCHANGED <<Idle, decisions, promotions, revocations, issued>>

AppendRemaining(h) ==
    /\ rewriting[h].step = "append"
    /\ \E q \in rewriting[h].left :
          LET rest == rewriting[h].left \ {q}
          IN  /\ quarantines' = quarantines \cup {q}
              /\ Rewrite(h, IF rest = {} THEN "idle" ELSE "append", rest)
    /\ UNCHANGED <<Idle, decisions, promotions, revocations, blocks, bounds>>

(* An append fails, which ends the call, or the command is killed.         *)
CutShort(h) ==
    /\ rewriting[h].step \in (IF h = Server THEN {"append"} ELSE {"remove", "append"})
    /\ Fault
    /\ Rewrite(h, "idle", {})
    /\ StillBlocked(revocations, quarantines, rewriting')
    /\ UNCHANGED <<Idle, decisions, promotions, revocations, quarantines, issued>>

(* runServe.                                                               *)
Serve(p, d) ==
    /\ policy' = p
    /\ production' = d.production
    /\ authenticator' = NewAuthenticator(d.token, NoSecret, NoName, NoName)

(* serve ends, by a signal or a crash, and is started again, perhaps with  *)
(* another policy and token.  Its requests get no answer; its counters are *)
(* gone, and what its Unquarantine had yet to write.                       *)
Restart ==
    /\ Fault
    /\ \E p \in PolicyFiles, d \in Deployments : Serve(p, d)
    /\ pc' = [w \in Workers |-> IF Role[w] = "serve" THEN "idle" ELSE pc[w]]
    /\ job' = [w \in Workers |-> IF Role[w] = "serve" THEN NoJob ELSE job[w]]
    /\ Rewrite(Server, "idle", {})
    /\ blocks' = [w \in Workers |->
                     IF Role[w] = "serve" \/ job[w] = NoJob THEN {}
                     ELSE blocks[w] \cap Blocks(w, revocations, quarantines, rewriting',
                                                job[w].request)]
    /\ total' = 0
    /\ denied' = 0
    /\ answered' = {}
    /\ UNCHANGED <<decisions, promotions, revocations, quarantines, queue, now, nextID,
                   issued>>

(* A command is killed half way.                                           *)
Interrupt(w) ==
    /\ Role[w] # "serve"
    /\ pc[w] # "idle"
    /\ Fault
    /\ Goto(w, "idle")
    /\ job' = [job EXCEPT ![w] = NoJob]
    /\ queue' = [queue EXCEPT ![w] = NoJob]
    /\ blocks' = [blocks EXCEPT ![w] = {}]
    /\ UNCHANGED <<process, store, counters, answered, now, nextID, issued>>

Tick ==
    /\ now < MaxTime
    /\ now' = now + 1
    /\ UNCHANGED <<process, store, counters, pc, job, queue, blocks, answered, nextID,
                   bounds>>

-----------------------------------------------------------------------------

Init ==
    /\ policy \in PolicyFiles
    /\ \E d \in Deployments :
          /\ production = d.production
          /\ authenticator = NewAuthenticator(d.token, NoSecret, NoName, NoName)
    /\ decisions = <<>>
    /\ promotions = {}
    /\ revocations = {}
    /\ quarantines = {}
    /\ rewriting = [h \in Homes |-> [step |-> "idle", left |-> {}]]
    /\ total = 0
    /\ denied = 0
    /\ pc = [w \in Workers |-> "idle"]
    /\ job = [w \in Workers |-> NoJob]
    /\ queue = [w \in Workers |-> NoJob]
    /\ blocks = [w \in Workers |-> {}]
    /\ answered = {}
    /\ now = 1
    /\ nextID = 1
    /\ issued = 0
    /\ faults = 0

Arrive(w) == evaluate(w) \/ runEvaluate(w) \/ runReassess(w)

Continue(w) ==
    \/ CheckRevoked(w) \/ CheckQuarantined(w) \/ CountTotal(w) \/ CountDenied(w)
    \/ SaveDecision(w) \/ SaveDecisionFails(w)
    \/ NextReassessment(w) \/ EndReassess(w)

(* The bound on calls is reached and every worker is done.                 *)
Finished == /\ issued = MaxCalls
            /\ \A w \in Workers : pc[w] = "idle"
            /\ \A h \in Homes : rewriting[h].step = "idle"
            /\ UNCHANGED vars

Next ==
    \/ \E w \in Workers : Arrive(w) \/ Continue(w) \/ Interrupt(w)
    \/ promote \/ revoke \/ quarantine \/ unquarantine
    \/ runPromote \/ runRevoke \/ runQuarantine
    \/ \E h \in Homes :
          runUnquarantine(h) \/ RemoveQuarantines(h) \/ AppendRemaining(h) \/ CutShort(h)
    \/ Restart \/ Tick \/ Finished

Spec == Init /\ [][Next]_vars

-----------------------------------------------------------------------------
(* Properties.                                                             *)

Jobs ==
    [policy : Policies, request : Requests, at : Times, id : Nat,
     revoked : {"no", "yes", "error"}, quarantined : {"no", "yes", "error"},
     outcome : Outcomes]

LoggedDecisions ==
    [id : Nat, outcome : Outcomes, digest : Digests \cup {BadDigest}, env : Envs,
     expires : Nat, policy : Policies]

Queues == [policy : Policies, old : Seq(LoggedDecisions)]

ASSUME NoJobAssumption == NoJob \notin Jobs \cup Queues

Running == {"revocation", "quarantine", "total", "denied", "save"}

(* Every variable has its type; a worker has a job exactly while it is     *)
(* evaluating, and a queue exactly while it reassesses; an Unquarantine    *)
(* that is over has nothing left to write.                                 *)
TypeOK ==
    /\ policy \in PolicyFiles
    /\ production \in BOOLEAN
    /\ authenticator \in Authenticators
    /\ decisions \in Seq(LoggedDecisions)
    /\ promotions \subseteq [decision : Nat, digest : Digests, env : Envs]
    /\ revocations \subseteq Revocations
    /\ quarantines \subseteq Quarantines
    /\ rewriting \in [Homes -> [step : {"idle", "remove", "append"},
                                left : SUBSET Quarantines]]
    /\ \A h \in Homes : rewriting[h].step = "idle" => rewriting[h].left = {}
    /\ total \in Nat
    /\ denied \in Nat
    /\ pc \in [Workers -> Running \cup {"idle", "next"}]
    /\ \A w \in Workers :
          /\ job[w] \in Jobs \cup {NoJob}
          /\ job[w] # NoJob <=> pc[w] \in Running
          /\ queue[w] # NoJob <=> Role[w] = "reassess" /\ pc[w] # "idle"
          /\ queue[w] \in Queues \cup {NoJob}
          /\ blocks[w] \subseteq {"revocation", "quarantine", "held"}
    /\ answered \subseteq LoggedDecisions
    /\ now \in Times
    /\ nextID \in Nat
    /\ issued \in 0 .. MaxCalls
    /\ faults \in 0 .. MaxFaults

Decided(w) == pc[w] \in {"total", "denied", "save"}

Allowed(w) == Decided(w) /\ job[w].outcome = "ALLOW"

(* evaluator.go "FAIL CLOSED": an evaluation ends in ALLOW only if both    *)
(* lookups came back, there was a moment since it began at which no        *)
(* revocation named its environment, and one, perhaps another, at which no *)
(* quarantine applied to it, neither on file nor in the hands of an        *)
(* Unquarantine of the same process.                                       *)
AllowIsTimely ==
    \A w \in Workers :
        Allowed(w) => /\ blocks[w] \cap {"revocation", "quarantine"} = {}
                      /\ job[w].revoked = "no" /\ job[w].quarantined = "no"

(* The same, whichever process the Unquarantine runs in: an artifact that  *)
(* was quarantined all the while, and is not released, gets no ALLOW.      *)
QuarantineIsSeen == \A w \in Workers : Allowed(w) => "held" \notin blocks[w]

(* A decision the server has answered with is on record, the only one of   *)
(* its id, exactly as it was answered.                                     *)
AnsweredIsOnRecord ==
    \A d \in answered :
        /\ \E i \in DOMAIN decisions : decisions[i] = d
        /\ \A i \in DOMAIN decisions : decisions[i].id = d.id => decisions[i] = d

(* /metrics never lags behind the answers: each decision the server has    *)
(* answered is counted, each that is not ALLOW also as denied, and no      *)
(* request is counted as denied before it is counted.                      *)
MetricsCoverAnswers ==
    /\ total >= Cardinality(answered)
    /\ denied >= Cardinality({d \in answered : d.outcome # "ALLOW"})
    /\ denied <= total

(* runEvaluate and runReassess print a decision whether or not it could be *)
(* saved, and a process may end before it saves: still every promotion     *)
(* rests on a decision on record, the first of its id, that supports it.   *)
PromotionsRestOnTheRecord ==
    \A p \in promotions :
        \E i \in DOMAIN decisions :
            /\ decisions[i].id = p.decision
            /\ Supports(decisions[i], p)
            /\ \A j \in 1 .. i - 1 : decisions[j].id # p.decision

(* PRODUCTION_READINESS "for the exact digest, environment, and policy":   *)
(* a promotion goes ahead only on a decision made under the policy that    *)
(* the server enforces.                                                    *)
PromotionsFollowThePolicy ==
    [][promote =>
          \A p \in promotions' \ promotions :
              \E i \in DOMAIN decisions :
                  decisions[i].id = p.decision /\ decisions[i].policy = policy]_vars
=============================================================================
