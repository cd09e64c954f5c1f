----------------------------- MODULE GateProofs -----------------------------
(***************************************************************************)
(* Theorems about Gate for any workers, policies, requests and callers and *)
(* any bounds.  Of Evaluate the last two use that its answer is an outcome *)
(* and what an ALLOW excludes (EvaluateProofs).                            *)
(***************************************************************************)
EXTENDS Gate, EvaluateProofs, FiniteSetTheorems, TLAPS

-----------------------------------------------------------------------------
(* The workers.                                                            *)

PerWorker(f) == f = [w \in Workers |-> f[w]]

IsJob(j) ==
    j = [policy |-> j.policy, request |-> j.request, at |-> j.at, id |-> j.id,
         revoked |-> j.revoked, quarantined |-> j.quarantined, outcome |-> j.outcome]

WorkersOK ==
    /\ PerWorker(pc) /\ PerWorker(job)
    /\ \A w \in Workers :
          /\ pc[w] \in Running => IsJob(job[w])
          /\ pc[w] \notin Running => job[w] = NoJob
          /\ pc[w] \in {"total", "denied"} => Role[w] = "serve"
          /\ pc[w] = "next" => Role[w] = "reassess"

(* Decision ids are drawn once: they are below nextID, and no two          *)
(* evaluations or decisions on record share one.                           *)
Numbered ==
    /\ nextID \in Nat
    /\ \E S : decisions \in Seq(S)
    /\ \A i \in DOMAIN decisions : decisions[i].id \in 0 .. nextID - 1
    /\ \A i, j \in DOMAIN decisions : decisions[i].id = decisions[j].id => i = j
    /\ \A w \in Workers :
          pc[w] \in Running =>
              /\ job[w].id \in 0 .. nextID - 1
              /\ \A i \in DOMAIN decisions : decisions[i].id # job[w].id
    /\ \A v, w \in Workers :
          pc[v] \in Running /\ pc[w] \in Running /\ v # w => job[v].id # job[w].id

(* What was answered or promoted is on record.                             *)
OnRecord ==
    /\ \A d \in answered : \E i \in DOMAIN decisions : decisions[i] = d
    /\ PromotionsRestOnTheRecord

IInv == WorkersOK /\ Numbered /\ OnRecord

LEMMA Init_IInv == Init => IInv
<1> SUFFICES ASSUME Init PROVE IInv
  OBVIOUS
<1>1. WorkersOK
  BY DEF Init, WorkersOK, PerWorker, Running
<1>2. Numbered /\ OnRecord
  <2>1. decisions = <<>> /\ decisions \in Seq({})
    BY DEF Init
  <2> QED
    BY <2>1 DEF Init, Numbered, OnRecord, Running, PromotionsRestOnTheRecord
<1> QED
  BY <1>1, <1>2 DEF IInv

-----------------------------------------------------------------------------
(* The kinds of step.                                                      *)

Worker(w) == Arrive(w) \/ Continue(w) \/ Interrupt(w)

Rewriting(h) ==
    Unquarantine(h) \/ RemoveQuarantines(h) \/ AppendRemaining(h) \/ CutShort(h)

(* A step on the store that is no worker's, or none.                       *)
Shared ==
    \/ Promote \/ Revoke \/ Quarantine \/ \E h \in Homes : Rewriting(h)
    \/ Tick \/ UNCHANGED vars

LEMMA Steps == [Next]_vars => (\E w \in Workers : Worker(w)) \/ Restart \/ Shared
<1>1. unquarantine => \E h \in Homes : Rewriting(h)
  BY GateAssumption DEF unquarantine, Rewriting
<1>2. ASSUME NEW h \in Homes,
             runUnquarantine(h) \/ RemoveQuarantines(h) \/ AppendRemaining(h) \/ CutShort(h)
      PROVE  Rewriting(h)
  BY <1>2 DEF runUnquarantine, Rewriting
<1>3. Next => \/ \E w \in Workers : Worker(w)
              \/ Restart \/ Promote \/ Revoke \/ Quarantine \/ unquarantine
              \/ \E h \in Homes : \/ runUnquarantine(h) \/ RemoveQuarantines(h)
                                 \/ AppendRemaining(h) \/ CutShort(h)
              \/ Tick \/ UNCHANGED vars
  BY DEF Next, Worker, promote, revoke, quarantine, runPromote, runRevoke, runQuarantine,
     Finished
<1> QED
  BY <1>1, <1>2, <1>3 DEF Shared

LEMMA SharedIsCalm ==
    Shared => UNCHANGED <<policy, production, authenticator, total, denied, pc, job, queue,
                          answered, nextID, decisions>>
  BY DEF Shared, Rewriting, Promote, Revoke, Quarantine, Unquarantine, RemoveQuarantines,
     AppendRemaining, CutShort, Idle, process, counters, Tick, vars, store

(* The other workers stay where they are.                                  *)
Alone(w) ==
    /\ PerWorker(pc)' /\ PerWorker(job)'
    /\ \A v \in Workers \ {w} : pc'[v] = pc[v] /\ job'[v] = job[v]

(* A step that is no worker's leaves the log alone.                        *)
LEMMA CalmKeeps ==
    ASSUME IInv, UNCHANGED <<pc, job, decisions, nextID>>, answered' \subseteq answered,
           PromotionsRestOnTheRecord'
    PROVE  IInv'
<1>1. WorkersOK'
  BY DEF IInv, WorkersOK, PerWorker
<1>2. Numbered'
  BY DEF IInv, Numbered
<1>3. OnRecord'
  BY DEF IInv, OnRecord
<1> QED
  BY <1>1, <1>2, <1>3 DEF IInv

(* The log and the promotions stay.                                        *)
LEMMA RecordStays ==
    ASSUME OnRecord, UNCHANGED <<decisions, promotions>>, answered' \subseteq answered
    PROVE  OnRecord'
  BY DEF OnRecord, PromotionsRestOnTheRecord

LEMMA BeginKeeps ==
    ASSUME IInv, NEW w \in Workers, NEW p, NEW r, Begin(w, p, r), pc[w] \notin Running,
           UNCHANGED <<decisions, promotions, answered>>
    PROVE  IInv'
<1> DEFINE j == [policy |-> p, request |-> r, at |-> now, id |-> nextID, revoked |-> "no",
                 quarantined |-> "no", outcome |-> "ALLOW"]
<1>1. /\ pc' = [pc EXCEPT ![w] = "revocation"]
      /\ job' = [job EXCEPT ![w] = j]
      /\ nextID' = nextID + 1
  BY DEF Begin, Goto
<1>2. /\ Alone(w) /\ pc'[w] = "revocation" /\ job'[w] = j
  BY <1>1 DEF IInv, WorkersOK, PerWorker, Alone
<1>3. IsJob(j) /\ j.id = nextID
  BY DEF IsJob
<1> HIDE DEF j
<1>4. WorkersOK'
  BY <1>2, <1>3 DEF IInv, WorkersOK, Alone, Running
<1>5. Numbered'
  <2>1. nextID \in Nat /\ nextID' \in Nat
    BY <1>1 DEF IInv, Numbered
  <2>2. \A i \in DOMAIN decisions : decisions[i].id \in 0 .. nextID - 1
    BY DEF IInv, Numbered
  <2>3. \A i \in DOMAIN decisions : decisions[i].id \in 0 .. nextID' - 1
    BY <1>1, <2>1, <2>2
  <2>4. ASSUME NEW v \in Workers, pc'[v] \in Running
        PROVE  /\ job'[v].id \in 0 .. nextID' - 1
               /\ \A i \in DOMAIN decisions : decisions[i].id # job'[v].id
    <3>1. CASE v = w
      BY <1>1, <1>2, <1>3, <2>1, <2>2, <3>1
    <3>2. CASE v # w
      BY <1>1, <1>2, <2>1, <2>4, <3>2 DEF IInv, Numbered, Alone
    <3> QED
      BY <3>1, <3>2
  <2>5. ASSUME NEW u \in Workers, NEW v \in Workers, pc'[u] \in Running,
               pc'[v] \in Running, u # v
        PROVE  job'[u].id # job'[v].id
    <3>1. \A x \in Workers \ {w} : pc'[x] \in Running => job'[x].id \in 0 .. nextID - 1
      BY <1>2 DEF IInv, Numbered, Alone
    <3>2. CASE u = w \/ v = w
      BY <1>2, <1>3, <2>1, <2>5, <3>1, <3>2
    <3>3. CASE u # w /\ v # w
      BY <1>2, <2>5, <3>3 DEF IInv, Numbered, Alone
    <3> QED
      BY <3>2, <3>3
  <2>6. \E S : decisions \in Seq(S)
    BY DEF IInv, Numbered
  <2> QED
    BY <2>1, <2>3, <2>4, <2>5, <2>6 DEF IInv, Numbered
<1> QED
  BY <1>4, <1>5, RecordStays DEF IInv

(* A step inside an evaluation keeps its id.                               *)
LEMMA InsideKeeps ==
    ASSUME IInv, NEW w \in Workers, Alone(w), pc[w] \in Running, pc'[w] \in Running,
           pc'[w] \in {"total", "denied"} => Role[w] = "serve",
           IsJob(job'[w]), job'[w].id = job[w].id,
           UNCHANGED <<decisions, promotions, answered, nextID>>
    PROVE  IInv'
<1>1. WorkersOK'
  BY DEF IInv, WorkersOK, Alone, Running
<1>2. \A v \in Workers :
          pc'[v] \in Running => pc[v] \in Running /\ job'[v].id = job[v].id
  BY DEF Alone
<1>3. Numbered'
  BY <1>2 DEF IInv, Numbered
<1> QED
  BY <1>1, <1>3, RecordStays DEF IInv

(* A worker that has no evaluation any more, which may be on record.       *)
LEMMA EndKeeps ==
    ASSUME IInv, NEW w \in Workers, Alone(w),
           pc'[w] \notin Running, job'[w] = NoJob,
           pc'[w] = "next" => Role[w] = "reassess",
           UNCHANGED <<decisions, promotions, nextID>>, answered' \subseteq answered
    PROVE  IInv'
<1>1. WorkersOK'
  BY DEF IInv, WorkersOK, Alone, Running
<1>2. \A v \in Workers :
          pc'[v] \in Running => v # w /\ pc[v] \in Running /\ job'[v] = job[v]
  BY DEF Alone
<1>3. Numbered'
  BY <1>2 DEF IInv, Numbered
<1> QED
  BY <1>1, <1>3, RecordStays DEF IInv

LEMMA DecisionHasItsId == ASSUME NEW w PROVE Decision(w).id = job[w].id
  BY DEF Decision

(* A worker that has no evaluation any more, and whose decision was saved. *)
LEMMA AppendKeeps ==
    ASSUME IInv, NEW w \in Workers, Alone(w), pc[w] \in Running,
           pc'[w] \notin Running, job'[w] = NoJob,
           pc'[w] = "next" => Role[w] = "reassess",
           decisions' = Append(decisions, Decision(w)),
           UNCHANGED <<promotions, nextID>>,
           answered' \subseteq answered \cup {Decision(w)}
    PROVE  IInv'
<1> DEFINE n == Len(decisions)
           d == Decision(w)
<1>1. PICK S : decisions \in Seq(S)
  BY DEF IInv, Numbered
<1>2. /\ n \in Nat /\ DOMAIN decisions = 1 .. n /\ DOMAIN decisions' = 1 .. n + 1
      /\ \A i \in 1 .. n : decisions'[i] = decisions[i]
      /\ decisions'[n + 1] = d
      /\ decisions' \in Seq(S \cup {d})
  <2>1. decisions \in Seq(S \cup {d})
    BY <1>1
  <2> HIDE DEF d
  <2> QED
    BY <2>1 DEF d
<1>3. d.id = job[w].id
  BY DecisionHasItsId
<1>4. /\ d.id \in 0 .. nextID - 1
      /\ \A i \in DOMAIN decisions : decisions[i].id # d.id
  BY <1>3 DEF IInv, Numbered
<1> HIDE DEF d, n
<1>5. \A v \in Workers :
          pc'[v] \in Running => v # w /\ pc[v] \in Running /\ job'[v] = job[v]
  BY DEF Alone
<1>6. WorkersOK'
  BY DEF IInv, WorkersOK, Alone, Running
<1>7. Numbered'
  <2>1. nextID' \in Nat /\ \E T : decisions' \in Seq(T)
    BY <1>2 DEF IInv, Numbered
  <2>2. \A i \in DOMAIN decisions' : decisions'[i].id \in 0 .. nextID' - 1
    BY <1>2, <1>4 DEF IInv, Numbered
  <2>3. \A i, j \in DOMAIN decisions' : decisions'[i].id = decisions'[j].id => i = j
    <3> SUFFICES ASSUME NEW i \in 1 .. n + 1, NEW j \in 1 .. n + 1,
                        decisions'[i].id = decisions'[j].id
                 PROVE  i = j
      BY <1>2
    <3>1. CASE i \in 1 .. n /\ j \in 1 .. n
      BY <1>2, <3>1 DEF IInv, Numbered
    <3>2. CASE i = n + 1 \/ j = n + 1
      BY <1>2, <1>4, <3>2
    <3> QED
      BY <1>2, <3>1, <3>2
  <2>4. ASSUME NEW v \in Workers, pc'[v] \in Running
        PROVE  /\ job'[v].id \in 0 .. nextID' - 1
               /\ \A i \in DOMAIN decisions' : decisions'[i].id # job'[v].id
    <3>1. /\ v # w /\ job'[v] = job[v] /\ job[v].id \in 0 .. nextID - 1
          /\ job[v].id # job[w].id
          /\ \A i \in DOMAIN decisions : decisions[i].id # job[v].id
      BY <1>5, <2>4 DEF IInv, Numbered
    <3>2. ASSUME NEW i \in 1 .. n + 1 PROVE decisions'[i].id # job'[v].id
      BY <1>2, <1>3, <3>1
    <3> QED
      BY <1>2, <3>1, <3>2
  <2>5. \A u, v \in Workers :
            pc'[u] \in Running /\ pc'[v] \in Running /\ u # v => job'[u].id # job'[v].id
    BY <1>5 DEF IInv, Numbered
  <2> QED
    BY <2>1, <2>2, <2>3, <2>4, <2>5 DEF Numbered
<1>8. \A e \in answered' : \E i \in DOMAIN decisions' : decisions'[i] = e
  <2> TAKE e \in answered'
  <2>1. CASE e = d
    BY <1>2, <2>1 DEF d
  <2>2. CASE e # d
    <3>1. PICK i \in DOMAIN decisions : decisions[i] = e
      BY <2>2 DEF IInv, OnRecord, d
    <3> QED
      BY <1>2, <3>1
  <2> QED
    BY <2>1, <2>2
<1>9. PromotionsRestOnTheRecord'
  <2> SUFFICES ASSUME NEW p \in promotions
               PROVE  \E i \in DOMAIN decisions' :
                         /\ decisions'[i].id = p.decision
                         /\ Supports(decisions'[i], p)
                         /\ \A j \in 1 .. i - 1 : decisions'[j].id # p.decision
    BY DEF PromotionsRestOnTheRecord
  <2>1. PICK i \in DOMAIN decisions :
           /\ decisions[i].id = p.decision
           /\ Supports(decisions[i], p)
           /\ \A j \in 1 .. i - 1 : decisions[j].id # p.decision
    BY DEF IInv, OnRecord, PromotionsRestOnTheRecord
  <2>2. i \in DOMAIN decisions' /\ \A j \in 1 .. i : decisions'[j] = decisions[j]
    BY <1>2
  <2>3. decisions'[i] = decisions[i] /\ \A j \in 1 .. i - 1 : decisions'[j] = decisions[j]
    BY <1>2, <2>2
  <2> QED
    BY <2>1, <2>2, <2>3
<1> QED
  BY <1>6, <1>7, <1>8, <1>9 DEF IInv, OnRecord

-----------------------------------------------------------------------------
(* One lemma per action.                                                   *)

LEMMA ArriveKeeps == ASSUME IInv, NEW w \in Workers, Arrive(w) PROVE IInv'
<1>1. CASE evaluate(w)
  <2>1. PICK r \in Inputs : Begin(w, policy, r)
    BY <1>1 DEF evaluate
  <2>2. pc[w] = "idle" /\ UNCHANGED <<decisions, promotions, answered>>
    BY <1>1 DEF evaluate, store
  <2> QED
    BY <2>1, <2>2, BeginKeeps DEF Running
<1>2. CASE runEvaluate(w)
  <2>1. PICK p \in PolicyFiles, r \in Inputs : Begin(w, p, r)
    BY <1>2 DEF runEvaluate
  <2>2. pc[w] = "idle" /\ UNCHANGED <<decisions, promotions, answered>>
    BY <1>2 DEF runEvaluate, store
  <2> QED
    BY <2>1, <2>2, BeginKeeps DEF Running
<1>3. CASE runReassess(w)
  <2>1. /\ pc[w] = "idle" /\ Role[w] = "reassess"
        /\ pc' = [pc EXCEPT ![w] = "next"]
        /\ UNCHANGED <<job, decisions, promotions, answered, nextID>>
    BY <1>3 DEF runReassess, Goto, store
  <2>2. Alone(w) /\ pc'[w] = "next" /\ job'[w] = NoJob
    BY <2>1 DEF IInv, WorkersOK, PerWorker, Alone, Running
  <2> QED
    BY <2>1, <2>2, EndKeeps DEF Running
<1> QED
  BY <1>1, <1>2, <1>3 DEF Arrive

LEMMA LookupKeeps ==
    ASSUME IInv, NEW w \in Workers, CheckRevoked(w) \/ CheckQuarantined(w)
    PROVE  IInv'
<1>1. CASE CheckRevoked(w)
  <2>1. PICK found : job' = [job EXCEPT ![w].revoked = found]
    BY <1>1 DEF CheckRevoked
  <2>2. /\ pc[w] = "revocation" /\ pc' = [pc EXCEPT ![w] = "quarantine"]
        /\ UNCHANGED <<decisions, promotions, answered, nextID>>
    BY <1>1 DEF CheckRevoked, Goto, store
  <2>3. Alone(w) /\ pc'[w] = "quarantine" /\ job'[w] = [job[w] EXCEPT !.revoked = found]
    BY <2>1, <2>2 DEF IInv, WorkersOK, PerWorker, Alone
  <2>4. IsJob(job[w])
    BY <2>2 DEF IInv, WorkersOK, Running
  <2>5. IsJob(job'[w]) /\ job'[w].id = job[w].id
    BY <2>3, <2>4 DEF IsJob
  <2> QED
    BY <2>2, <2>3, <2>5, InsideKeeps DEF Running
<1>2. CASE CheckQuarantined(w)
  <2>1. PICK found : Decide(w, found)
    BY <1>2 DEF CheckQuarantined
  <2>2. PICK o : job' = [job EXCEPT ![w].quarantined = found, ![w].outcome = o]
    BY <2>1 DEF Decide
  <2>3. /\ pc[w] = "quarantine"
        /\ pc' = [pc EXCEPT ![w] = IF Role[w] = "serve" THEN "total" ELSE "save"]
        /\ UNCHANGED <<decisions, promotions, answered, nextID>>
    BY <1>2 DEF CheckQuarantined, Goto, store
  <2>4. /\ Alone(w) /\ pc'[w] = IF Role[w] = "serve" THEN "total" ELSE "save"
        /\ job'[w] = [job[w] EXCEPT !.quarantined = found, !.outcome = o]
    BY <2>2, <2>3 DEF IInv, WorkersOK, PerWorker, Alone
  <2>5. IsJob(job[w])
    BY <2>3 DEF IInv, WorkersOK, Running
  <2>6. IsJob(job'[w]) /\ job'[w].id = job[w].id
    BY <2>4, <2>5 DEF IsJob
  <2>7. pc'[w] \in {"total", "denied"} => Role[w] = "serve"
    BY <2>4
  <2> QED
    BY <2>3, <2>4, <2>6, <2>7, InsideKeeps DEF Running
<1> QED
  BY <1>1, <1>2

LEMMA CountKeeps ==
    ASSUME IInv, NEW w \in Workers, CountTotal(w) \/ CountDenied(w)
    PROVE  IInv'
<1>1. /\ pc[w] \in {"total", "denied"}
      /\ pc' = [pc EXCEPT ![w] = "denied"] \/ pc' = [pc EXCEPT ![w] = "save"]
      /\ UNCHANGED <<job, decisions, promotions, answered, nextID>>
  BY DEF CountTotal, CountDenied, Goto, store
<1>2. /\ Alone(w) /\ pc'[w] \in {"denied", "save"} /\ job'[w] = job[w]
      /\ IsJob(job[w]) /\ Role[w] = "serve"
  BY <1>1 DEF IInv, WorkersOK, PerWorker, Alone, Running
<1> QED
  BY <1>1, <1>2, InsideKeeps DEF Running

LEMMA SaveKeeps ==
    ASSUME IInv, NEW w \in Workers, SaveDecision(w) \/ SaveDecisionFails(w)
    PROVE  IInv'
<1>1. /\ pc[w] = "save"
      /\ pc' = [pc EXCEPT ![w] = IF Role[w] = "reassess" THEN "next" ELSE "idle"]
      /\ job' = [job EXCEPT ![w] = NoJob]
      /\ UNCHANGED <<promotions, nextID>>
  BY DEF SaveDecision, SaveDecisionFails, Saved, Goto
<1>2. /\ Alone(w) /\ pc'[w] \notin Running /\ job'[w] = NoJob
      /\ pc'[w] = "next" => Role[w] = "reassess"
  BY <1>1 DEF IInv, WorkersOK, PerWorker, Alone, Running
<1>3. pc[w] \in Running
  BY <1>1 DEF Running
<1>4. \/ /\ decisions' = Append(decisions, Decision(w))
         /\ answered' \subseteq answered \cup {Decision(w)}
      \/ UNCHANGED <<decisions, answered>>
  BY DEF SaveDecision, SaveDecisionFails
<1> QED
  BY <1>1, <1>2, <1>3, <1>4, AppendKeeps, EndKeeps

LEMMA ReassessKeeps ==
    ASSUME IInv, NEW w \in Workers, NextReassessment(w) \/ EndReassess(w) \/ Interrupt(w)
    PROVE  IInv'
<1>1. CASE NextReassessment(w)
  <2>1. PICK p, r : Begin(w, p, r)
    BY <1>1 DEF NextReassessment
  <2>2. pc[w] = "next" /\ UNCHANGED <<decisions, promotions, answered>>
    BY <1>1 DEF NextReassessment, store
  <2> QED
    BY <2>1, <2>2, BeginKeeps DEF Running
<1>2. CASE EndReassess(w) \/ Interrupt(w)
  <2>1. /\ pc' = [pc EXCEPT ![w] = "idle"]
        /\ \/ job' = [job EXCEPT ![w] = NoJob]
           \/ pc[w] = "next" /\ UNCHANGED job
        /\ UNCHANGED <<decisions, promotions, answered, nextID>>
    BY <1>2 DEF EndReassess, Interrupt, Goto, store
  <2>2. Alone(w) /\ pc'[w] = "idle" /\ job'[w] = NoJob
    BY <2>1 DEF IInv, WorkersOK, PerWorker, Alone, Running
  <2> QED
    BY <2>1, <2>2, EndKeeps DEF Running
<1> QED
  BY <1>1, <1>2

LEMMA PromoteKeeps == ASSUME IInv, Promote PROVE IInv'
<1>1. PICK i \in DOMAIN decisions :
         LET d == decisions[i]
             p == [decision |-> d.id, digest |-> d.digest, env |-> d.env]
         IN  /\ \A j \in 1 .. i - 1 : decisions[j].id # d.id
             /\ Supports(d, p)
             /\ promotions' = promotions \cup {p}
  BY DEF Promote
<1>2. UNCHANGED <<pc, job, decisions, nextID, answered>>
  BY DEF Promote, Idle
<1>3. PromotionsRestOnTheRecord'
  BY <1>1, <1>2 DEF IInv, OnRecord, PromotionsRestOnTheRecord
<1> QED
  BY <1>2, <1>3, CalmKeeps

LEMMA SharedKeeps == ASSUME IInv, Shared PROVE IInv'
<1>1. UNCHANGED <<pc, job, decisions, nextID, answered>>
  BY SharedIsCalm
<1>2. CASE Promote
  BY <1>2, PromoteKeeps
<1>3. CASE ~Promote
  <2>1. UNCHANGED promotions
    BY <1>3 DEF Shared, Rewriting, Revoke, Quarantine, Unquarantine, RemoveQuarantines,
       AppendRemaining, CutShort, Tick, vars, store
  <2>2. PromotionsRestOnTheRecord'
    BY <1>1, <2>1 DEF IInv, OnRecord, PromotionsRestOnTheRecord
  <2> QED
    BY <1>1, <2>2, CalmKeeps
<1> QED
  BY <1>2, <1>3

LEMMA RestartKeeps == ASSUME IInv, Restart PROVE IInv'
<1>1. /\ pc' = [w \in Workers |-> IF Role[w] = "serve" THEN "idle" ELSE pc[w]]
      /\ job' = [w \in Workers |-> IF Role[w] = "serve" THEN NoJob ELSE job[w]]
      /\ answered' = {}
      /\ UNCHANGED <<decisions, promotions, nextID>>
  BY DEF Restart
<1>2. WorkersOK'
  BY <1>1 DEF IInv, WorkersOK, PerWorker, Running
<1>3. \A w \in Workers : pc'[w] \in Running => pc[w] \in Running /\ job'[w] = job[w]
  BY <1>1 DEF Running
<1>4. Numbered'
  BY <1>1, <1>3 DEF IInv, Numbered
<1> QED
  BY <1>1, <1>2, <1>4, RecordStays DEF IInv

LEMMA Next_IInv == IInv /\ [Next]_vars => IInv'
<1> SUFFICES ASSUME IInv, [Next]_vars PROVE IInv'
  OBVIOUS
<1>1. ASSUME NEW w \in Workers, Worker(w)
      PROVE  IInv'
  BY <1>1, ArriveKeeps, LookupKeeps, CountKeeps, SaveKeeps, ReassessKeeps
     DEF Worker, Continue
<1> QED
  BY <1>1, SharedKeeps, RestartKeeps, Steps

LEMMA Always == Spec => []IInv
<1> QED
  BY Init_IInv, Next_IInv, PTL DEF Spec

(* PostEvaluate: a decision the server has answered with is on record, the *)
(* only one of its id, whatever other workers save and whatever fails.     *)
THEOREM AnswerTheorem == Spec => []AnsweredIsOnRecord
<1>1. IInv => AnsweredIsOnRecord
  BY DEF IInv, Numbered, OnRecord, AnsweredIsOnRecord
<1> QED
  BY Always, <1>1, PTL

(* Promote: every promotion rests on the first decision of its id on       *)
(* record.                                                                 *)
THEOREM PromotionTheorem == Spec => []PromotionsRestOnTheRecord
<1>1. IInv => PromotionsRestOnTheRecord
  BY DEF IInv, OnRecord
<1> QED
  BY Always, <1>1, PTL

-----------------------------------------------------------------------------
(* The counters run ahead of the answers by the evaluations that are       *)
(* counted and not answered.                                               *)

Serving(S) == {w \in Workers : Role[w] = "serve" /\ pc[w] \in S}

Owing       == Serving({"denied", "save"})
Uncounted   == Serving({"denied"})
OwingDenied == {w \in Serving({"save"}) : job[w].outcome # "ALLOW"}
NotAllowed  == {d \in answered : d.outcome # "ALLOW"}

MetricsOK ==
    /\ total \in Nat /\ denied \in Nat /\ IsFiniteSet(answered)
    /\ total >= Cardinality(answered) + Cardinality(Owing)
    /\ denied >= Cardinality(NotAllowed) + Cardinality(OwingDenied)
    /\ total >= denied + Cardinality(Uncounted)

LEMMA Smaller ==
    ASSUME NEW S, IsFiniteSet(S), NEW T, T \subseteq S
    PROVE  /\ IsFiniteSet(T) /\ Cardinality(S) \in Nat /\ Cardinality(T) \in Nat
           /\ Cardinality(T) <= Cardinality(S)
<1>1. IsFiniteSet(T) /\ Cardinality(T) <= Cardinality(S)
  BY FS_Subset
<1> QED
  BY <1>1, FS_CardinalityType

LEMMA OneMore ==
    ASSUME NEW S, IsFiniteSet(S), NEW x, NEW T, T \subseteq S \cup {x}
    PROVE  /\ IsFiniteSet(T) /\ Cardinality(S) \in Nat /\ Cardinality(T) \in Nat
           /\ Cardinality(T) <= Cardinality(S) + 1
<1>1. /\ IsFiniteSet(S \cup {x})
      /\ Cardinality(S \cup {x}) = Cardinality(S)
         \/ Cardinality(S \cup {x}) = Cardinality(S) + 1
  BY FS_AddElement
<1>2. Cardinality(S) \in Nat
  BY FS_CardinalityType
<1> QED
  BY <1>1, <1>2, Smaller

LEMMA OneLess ==
    ASSUME NEW S, IsFiniteSet(S), NEW x \in S, NEW T, T \subseteq S \ {x}
    PROVE  /\ IsFiniteSet(T) /\ Cardinality(S) \in Nat /\ Cardinality(T) \in Nat
           /\ Cardinality(T) <= Cardinality(S) - 1
<1>1. IsFiniteSet(S \ {x}) /\ Cardinality(S \ {x}) = Cardinality(S) - 1
  BY FS_RemoveElement
<1>2. Cardinality(S) \in Nat
  BY FS_CardinalityType
<1> QED
  BY <1>1, <1>2, Smaller

LEMMA FiniteWorkers ==
    /\ IsFiniteSet(Owing) /\ IsFiniteSet(Uncounted) /\ IsFiniteSet(OwingDenied)
    /\ Cardinality(Owing) \in Nat /\ Cardinality(Uncounted) \in Nat
    /\ Cardinality(OwingDenied) \in Nat
  BY GateAssumption, Smaller DEF Owing, Uncounted, OwingDenied, Serving

LEMMA FiniteAnswers ==
    ASSUME MetricsOK
    PROVE  /\ IsFiniteSet(NotAllowed)
           /\ Cardinality(answered) \in Nat /\ Cardinality(NotAllowed) \in Nat
  BY Smaller DEF MetricsOK, NotAllowed

(* No evaluation becomes owing and nothing is counted or answered.         *)
LEMMA MetricsStay ==
    ASSUME MetricsOK, UNCHANGED <<total, denied, answered>>,
           Owing' \subseteq Owing, Uncounted' \subseteq Uncounted,
           OwingDenied' \subseteq OwingDenied
    PROVE  MetricsOK'
<1>1. /\ Cardinality(Owing') <= Cardinality(Owing)
      /\ Cardinality(Uncounted') <= Cardinality(Uncounted)
      /\ Cardinality(OwingDenied') <= Cardinality(OwingDenied)
      /\ Cardinality(Owing') \in Nat /\ Cardinality(Uncounted') \in Nat
      /\ Cardinality(OwingDenied') \in Nat
  BY FiniteWorkers, Smaller
<1>2. NotAllowed' = NotAllowed
  BY DEF NotAllowed
<1> QED
  BY <1>1, <1>2, FiniteWorkers, FiniteAnswers DEF MetricsOK

LEMMA CountTotalMeters ==
    ASSUME IInv, MetricsOK, NEW w \in Workers, CountTotal(w)
    PROVE  MetricsOK'
<1>1. /\ total' = total + 1 /\ UNCHANGED <<denied, answered, job>>
      /\ pc' = [pc EXCEPT ![w] = IF job[w].outcome # "ALLOW" THEN "denied" ELSE "save"]
  BY DEF CountTotal, Goto
<1>2. /\ \A v \in Workers \ {w} : pc'[v] = pc[v]
      /\ pc'[w] = IF job[w].outcome # "ALLOW" THEN "denied" ELSE "save"
  BY <1>1 DEF IInv, WorkersOK, PerWorker
<1>3. /\ Owing' \subseteq Owing \cup {w} /\ Uncounted' \subseteq Uncounted \cup {w}
      /\ OwingDenied' \subseteq OwingDenied
  BY <1>1, <1>2 DEF Owing, Uncounted, OwingDenied, Serving
<1>4. /\ Cardinality(Owing') <= Cardinality(Owing) + 1
      /\ Cardinality(Uncounted') <= Cardinality(Uncounted) + 1
      /\ Cardinality(OwingDenied') <= Cardinality(OwingDenied)
      /\ Cardinality(Owing') \in Nat /\ Cardinality(Uncounted') \in Nat
      /\ Cardinality(OwingDenied') \in Nat
  BY <1>3, FiniteWorkers, OneMore, Smaller
<1>5. NotAllowed' = NotAllowed
  BY <1>1 DEF NotAllowed
<1> QED
  BY <1>1, <1>4, <1>5, FiniteWorkers, FiniteAnswers DEF MetricsOK

LEMMA CountDeniedMeters ==
    ASSUME IInv, MetricsOK, NEW w \in Workers, CountDenied(w)
    PROVE  MetricsOK'
<1>1. /\ denied' = denied + 1 /\ UNCHANGED <<total, answered, job>>
      /\ pc[w] = "denied" /\ pc' = [pc EXCEPT ![w] = "save"]
  BY DEF CountDenied, Goto
<1>2. /\ \A v \in Workers \ {w} : pc'[v] = pc[v]
      /\ pc'[w] = "save" /\ w \in Uncounted
  BY <1>1 DEF IInv, WorkersOK, PerWorker, Uncounted, Serving
<1>3. /\ Owing' \subseteq Owing /\ Uncounted' \subseteq Uncounted \ {w}
      /\ OwingDenied' \subseteq OwingDenied \cup {w}
  BY <1>1, <1>2 DEF Owing, Uncounted, OwingDenied, Serving
<1>4. /\ Cardinality(Owing') <= Cardinality(Owing)
      /\ Cardinality(Uncounted') <= Cardinality(Uncounted) - 1
      /\ Cardinality(OwingDenied') <= Cardinality(OwingDenied) + 1
      /\ Cardinality(Owing') \in Nat /\ Cardinality(Uncounted') \in Nat
      /\ Cardinality(OwingDenied') \in Nat
  BY <1>2, <1>3, FiniteWorkers, OneMore, OneLess, Smaller
<1>5. NotAllowed' = NotAllowed
  BY <1>1 DEF NotAllowed
<1> QED
  BY <1>1, <1>4, <1>5, FiniteWorkers, FiniteAnswers DEF MetricsOK

(* A decision that is saved passes from what is owed to what is answered.  *)
LEMMA SaveMeters ==
    ASSUME IInv, MetricsOK, NEW w \in Workers, SaveDecision(w)
    PROVE  MetricsOK'
<1> DEFINE d == Decision(w)
<1>1. /\ pc[w] = "save" /\ UNCHANGED <<total, denied>>
      /\ pc' = [pc EXCEPT ![w] = IF Role[w] = "reassess" THEN "next" ELSE "idle"]
      /\ job' = [job EXCEPT ![w] = NoJob]
      /\ answered' = IF Role[w] = "serve" THEN answered \cup {d} ELSE answered
  BY DEF SaveDecision, Saved, Goto, counters
<1>2. /\ \A v \in Workers \ {w} : pc'[v] = pc[v] /\ job'[v] = job[v]
      /\ pc'[w] \in {"next", "idle"}
  BY <1>1 DEF IInv, WorkersOK, PerWorker
<1>3. /\ Owing' \subseteq Owing \ {w} /\ Uncounted' \subseteq Uncounted
      /\ OwingDenied' \subseteq OwingDenied \ {w}
  BY <1>2 DEF Owing, Uncounted, OwingDenied, Serving
<1>4. CASE Role[w] # "serve"
  BY <1>1, <1>3, <1>4, MetricsStay
<1>5. CASE Role[w] = "serve"
  <2>1. w \in Owing
    BY <1>1, <1>5 DEF Owing, Serving
  <2>2. /\ IsFiniteSet(answered') /\ Cardinality(answered') \in Nat
        /\ Cardinality(answered') <= Cardinality(answered) + 1
    BY <1>1, <1>5, OneMore DEF MetricsOK
  <2>3. /\ Cardinality(Owing') <= Cardinality(Owing) - 1
        /\ Cardinality(Uncounted') <= Cardinality(Uncounted)
        /\ Cardinality(Owing') \in Nat /\ Cardinality(Uncounted') \in Nat
        /\ Cardinality(OwingDenied') \in Nat
    BY <1>3, <2>1, FiniteWorkers, OneLess, Smaller
  <2>4. /\ Cardinality(NotAllowed') \in Nat
        /\ Cardinality(NotAllowed') + Cardinality(OwingDenied')
              <= Cardinality(NotAllowed) + Cardinality(OwingDenied)
    <3>1. d.outcome = job[w].outcome
      BY DEF Decision
    <3>2. CASE job[w].outcome = "ALLOW"
      <4>1. NotAllowed' \subseteq NotAllowed /\ OwingDenied' \subseteq OwingDenied
        BY <1>1, <1>3, <1>5, <3>1, <3>2 DEF NotAllowed
      <4> QED
        BY <4>1, FiniteWorkers, FiniteAnswers, Smaller
    <3>3. CASE job[w].outcome # "ALLOW"
      <4>1. w \in OwingDenied
        BY <1>1, <1>5, <3>3 DEF OwingDenied, Serving
      <4>2. NotAllowed' \subseteq NotAllowed \cup {d}
        BY <1>1, <1>5 DEF NotAllowed
      <4>3. /\ Cardinality(NotAllowed') \in Nat
            /\ Cardinality(NotAllowed') <= Cardinality(NotAllowed) + 1
        BY <4>2, FiniteAnswers, OneMore
      <4>4. Cardinality(OwingDenied') <= Cardinality(OwingDenied) - 1
        BY <1>3, <4>1, FiniteWorkers, OneLess
      <4> QED
        BY <2>3, <4>3, <4>4, FiniteWorkers, FiniteAnswers
    <3> QED
      BY <3>2, <3>3
  <2> QED
    BY <1>1, <2>2, <2>3, <2>4, FiniteWorkers, FiniteAnswers DEF MetricsOK
<1> QED
  BY <1>4, <1>5

(* A worker outside of the counted part owes nothing.                      *)
LEMMA OthersMeter ==
    ASSUME IInv, MetricsOK, NEW w \in Workers, NEW s, NEW j,
           pc' = [pc EXCEPT ![w] = s], s \notin {"denied", "save"} \/ Role[w] # "serve",
           job' = [job EXCEPT ![w] = j] \/ UNCHANGED job,
           UNCHANGED <<total, denied, answered>>
    PROVE  MetricsOK'
<1>1. /\ \A v \in Workers \ {w} : pc'[v] = pc[v] /\ job'[v] = job[v]
      /\ pc'[w] = s
  BY DEF IInv, WorkersOK, PerWorker
<1>2. /\ Owing' \subseteq Owing /\ Uncounted' \subseteq Uncounted
      /\ OwingDenied' \subseteq OwingDenied
  BY <1>1 DEF Owing, Uncounted, OwingDenied, Serving
<1> QED
  BY <1>2, MetricsStay

LEMMA Next_MetricsOK == IInv /\ MetricsOK /\ [Next]_vars => MetricsOK'
<1> SUFFICES ASSUME IInv, MetricsOK, [Next]_vars PROVE MetricsOK'
  OBVIOUS
<1>1. CASE Restart
  <2>1. /\ total' = 0 /\ denied' = 0 /\ answered' = {}
        /\ pc' = [w \in Workers |-> IF Role[w] = "serve" THEN "idle" ELSE pc[w]]
    BY <1>1 DEF Restart
  <2>2. Owing' = {} /\ Uncounted' = {} /\ OwingDenied' = {} /\ NotAllowed' = {}
    BY <2>1 DEF Owing, Uncounted, OwingDenied, NotAllowed, Serving
  <2> QED
    BY <2>1, <2>2, FS_EmptySet DEF MetricsOK
<1>2. CASE Shared
  <2>1. UNCHANGED <<pc, job, total, denied, answered>>
    BY <1>2, SharedIsCalm
  <2>2. Owing' = Owing /\ Uncounted' = Uncounted /\ OwingDenied' = OwingDenied
    BY <2>1 DEF Owing, Uncounted, OwingDenied, Serving
  <2> QED
    BY <2>1, <2>2, MetricsStay
<1>3. ASSUME NEW w \in Workers, Worker(w)
      PROVE  MetricsOK'
  <2>1. CASE evaluate(w) \/ runEvaluate(w) \/ NextReassessment(w)
    <3>1. PICK p, r : Begin(w, p, r)
      BY <2>1 DEF evaluate, runEvaluate, NextReassessment
    <3>2. UNCHANGED <<total, denied, answered>>
      BY <2>1 DEF evaluate, runEvaluate, NextReassessment, counters
    <3> QED
      BY <3>1, <3>2, OthersMeter DEF Begin, Goto
  <2>2. CASE runReassess(w) \/ EndReassess(w) \/ Interrupt(w)
    <3>1. PICK s \in {"next", "idle"} : pc' = [pc EXCEPT ![w] = s]
      BY <2>2 DEF runReassess, EndReassess, Interrupt, Goto
    <3>2. /\ job' = [job EXCEPT ![w] = NoJob] \/ UNCHANGED job
          /\ UNCHANGED <<total, denied, answered>>
      BY <2>2 DEF runReassess, EndReassess, Interrupt, counters
    <3> QED
      BY <3>1, <3>2, OthersMeter
  <2>3. CASE CheckRevoked(w)
    <3>1. PICK found : job' = [job EXCEPT ![w].revoked = found]
      BY <2>3 DEF CheckRevoked
    <3>2. PICK j : job' = [job EXCEPT ![w] = j]
      BY <3>1
    <3>3. /\ pc' = [pc EXCEPT ![w] = "quarantine"]
          /\ UNCHANGED <<total, denied, answered>>
      BY <2>3 DEF CheckRevoked, Goto, counters
    <3> QED
      BY <3>2, <3>3, OthersMeter
  <2>4. CASE CheckQuarantined(w)
    <3>1. PICK found, o : job' = [job EXCEPT ![w].quarantined = found, ![w].outcome = o]
      BY <2>4 DEF CheckQuarantined, Decide
    <3>2. PICK j : job' = [job EXCEPT ![w] = j]
      BY <3>1
    <3>3. /\ pc' = [pc EXCEPT ![w] = IF Role[w] = "serve" THEN "total" ELSE "save"]
          /\ UNCHANGED <<total, denied, answered>>
      BY <2>4 DEF CheckQuarantined, Goto, counters
    <3>4. PICK s : pc' = [pc EXCEPT ![w] = s] /\ (s = "total" \/ Role[w] # "serve")
      BY <3>3
    <3> QED
      BY <3>2, <3>3, <3>4, OthersMeter
  <2>5. CASE SaveDecisionFails(w)
    <3>1. PICK s \in {"next", "idle"} : pc' = [pc EXCEPT ![w] = s]
      BY <2>5 DEF SaveDecisionFails, Saved, Goto
    <3>2. /\ job' = [job EXCEPT ![w] = NoJob]
          /\ UNCHANGED <<total, denied, answered>>
      BY <2>5 DEF SaveDecisionFails, Saved, counters
    <3> QED
      BY <3>1, <3>2, OthersMeter
  <2> QED
    BY <1>3, <2>1, <2>2, <2>3, <2>4, <2>5, CountTotalMeters, CountDeniedMeters, SaveMeters
       DEF Worker, Arrive, Continue
<1> QED
  BY <1>1, <1>2, <1>3, Steps

(* GET /metrics: the counters cover every answer, however the handlers     *)
(* overtake each other between counting and saving.                        *)
THEOREM MetricsTheorem == Spec => []MetricsCoverAnswers
<1>1. Init => MetricsOK
  <2> SUFFICES ASSUME Init PROVE MetricsOK
    OBVIOUS
  <2>1. Owing = {} /\ Uncounted = {} /\ OwingDenied = {} /\ NotAllowed = {}
    BY DEF Init, Owing, Uncounted, OwingDenied, NotAllowed, Serving
  <2> QED
    BY <2>1, FS_EmptySet DEF Init, MetricsOK
<1>2. MetricsOK => MetricsCoverAnswers
  BY FiniteAnswers, FiniteWorkers DEF MetricsOK, MetricsCoverAnswers, NotAllowed
<1> QED
  BY Always, Next_MetricsOK, <1>1, <1>2, PTL DEF Spec

-----------------------------------------------------------------------------
(* Types.                                                                  *)

WorkerOK(w, s, j, q) ==
    /\ s \in Running \cup {"idle", "next"}
    /\ j \in Jobs \cup {NoJob}
    /\ j # NoJob <=> s \in Running
    /\ q \in Queues \cup {NoJob}
    /\ q # NoJob <=> Role[w] = "reassess" /\ s # "idle"
    /\ s \in {"total", "denied", "save"} /\ j.outcome = "ALLOW"
       => /\ j.request.digest \in Digests
          /\ j.revoked = "no" /\ j.quarantined = "no"

WorkersTyped ==
    /\ PerWorker(pc) /\ PerWorker(job) /\ PerWorker(queue)
    /\ \A w \in Workers : WorkerOK(w, pc[w], job[w], queue[w])

ServerTyped ==
    /\ policy \in PolicyFiles
    /\ production \in BOOLEAN
    /\ authenticator \in Authenticators
    /\ total \in Nat /\ denied \in Nat

(* What is no digest was never allowed, and so never promoted.             *)
StoreTyped ==
    /\ decisions \in Seq(LoggedDecisions)
    /\ \A i \in DOMAIN decisions :
          decisions[i].outcome = "ALLOW" => decisions[i].digest \in Digests
    /\ promotions \subseteq [decision : Nat, digest : Digests, env : Envs]
    /\ answered \subseteq LoggedDecisions

BlocksTyped ==
    /\ revocations \subseteq Revocations
    /\ quarantines \subseteq Quarantines
    /\ rewriting \in [Homes -> [step : {"idle", "remove", "append"},
                                left : SUBSET Quarantines]]
    /\ \A h \in Homes : rewriting[h].step = "idle" => rewriting[h].left = {}

NumbersTyped ==
    /\ now \in Times
    /\ nextID \in Nat
    /\ issued \in 0 .. MaxCalls
    /\ faults \in 0 .. MaxFaults

Typed == ServerTyped /\ StoreTyped /\ BlocksTyped /\ NumbersTyped /\ WorkersTyped

LEMMA NewIsAuthenticator ==
    ASSUME NEW d \in Deployments
    PROVE  /\ NewAuthenticator(d.token, NoSecret, NoName, NoName) \in Authenticators
           /\ d.production \in BOOLEAN
<1>1. d.token \in Tokens \cup {NoToken} /\ d.production \in BOOLEAN
  BY GateAssumption
<1>2. Nothing \in PartialFunctions(Tokens, Roles) /\ Nothing \in PartialFunctions(Kids, RSAKeys)
  <2>1. \A D, R : {} \in SUBSET D /\ Nothing \in [{} -> R]
    BY DEF Nothing
  <2> QED
    BY <2>1 DEF PartialFunctions
<1>3. d.token # NoToken => Entry(d.token, "admin") \in PartialFunctions(Tokens, Roles)
  <2> SUFFICES ASSUME d.token # NoToken
               PROVE  Entry(d.token, "admin") \in PartialFunctions(Tokens, Roles)
    OBVIOUS
  <2>1. "admin" \in Roles
    BY DEF Roles, KnownRoles
  <2>2. Entry(d.token, "admin") \in [{d.token} -> Roles]
    BY <2>1 DEF Entry
  <2>3. {d.token} \in SUBSET Tokens
    BY <1>1
  <2> QED
    BY <2>2, <2>3 DEF PartialFunctions
<1> QED
  BY <1>1, <1>2, <1>3 DEF NewAuthenticator, Authenticators

LEMMA Init_Typed == Init => Typed
<1> SUFFICES ASSUME Init PROVE Typed
  OBVIOUS
<1>1. ServerTyped
  BY NewIsAuthenticator DEF Init, ServerTyped
<1>2. StoreTyped /\ BlocksTyped
  <2>1. decisions = <<>>
    BY DEF Init
  <2> QED
    BY <2>1 DEF Init, StoreTyped, BlocksTyped
<1>3. NumbersTyped
  BY GateAssumption, RecordsAssumption DEF Init, NumbersTyped, Times
<1>4. WorkersTyped
  BY DEF Init, WorkersTyped, WorkerOK, PerWorker, Running
<1> QED
  BY <1>1, <1>2, <1>3, <1>4 DEF Typed

LEMMA ServerStaysTyped == Typed /\ [Next]_vars => ServerTyped'
<1> SUFFICES ASSUME Typed, [Next]_vars PROVE ServerTyped'
  OBVIOUS
<1>1. ServerTyped
  BY DEF Typed
<1>2. CASE Restart
  <2>1. PICK p \in PolicyFiles, d \in Deployments : Serve(p, d)
    BY <1>2 DEF Restart
  <2>2. total' = 0 /\ denied' = 0
    BY <1>2 DEF Restart
  <2> QED
    BY <2>1, <2>2, NewIsAuthenticator DEF Serve, ServerTyped
<1>3. CASE Shared
  BY <1>1, <1>3, SharedIsCalm DEF ServerTyped
<1>4. ASSUME NEW w \in Workers, Worker(w) PROVE ServerTyped'
  <2>1. UNCHANGED process
    BY <1>4 DEF Worker, Arrive, evaluate, runEvaluate, runReassess, Continue, CheckRevoked,
       CheckQuarantined, CountTotal, CountDenied, SaveDecision, SaveDecisionFails, Saved,
       NextReassessment, EndReassess, Interrupt
  <2>2. total' \in {total, total + 1} /\ denied' \in {denied, denied + 1}
    BY <1>4 DEF Worker, Arrive, evaluate, runEvaluate, runReassess, Continue, CheckRevoked,
       CheckQuarantined, CountTotal, CountDenied, SaveDecision, SaveDecisionFails, Saved,
       NextReassessment, EndReassess, Interrupt, counters
  <2> QED
    BY <1>1, <2>1, <2>2 DEF ServerTyped, process
<1> QED
  BY <1>2, <1>3, <1>4, Steps

LEMMA NumbersStayTyped == Typed /\ [Next]_vars => NumbersTyped'
<1> SUFFICES ASSUME Typed, [Next]_vars PROVE NumbersTyped'
  OBVIOUS
<1>1. NumbersTyped /\ MaxTime \in Nat /\ MaxCalls \in Nat /\ MaxFaults \in Nat
  BY GateAssumption, RecordsAssumption DEF Typed
<1>2. ASSUME NEW w \in Workers, Worker(w)
      PROVE  /\ now' = now
             /\ nextID' \in {nextID, nextID + 1}
             /\ issued' = issued \/ (issued < MaxCalls /\ issued' = issued + 1)
             /\ faults' = faults \/ (faults < MaxFaults /\ faults' = faults + 1)
  BY <1>2 DEF Worker, Arrive, evaluate, runEvaluate, runReassess, Continue, CheckRevoked,
     CheckQuarantined, CountTotal, CountDenied, SaveDecision, SaveDecisionFails, Saved,
     NextReassessment, EndReassess, Interrupt,
     Begin, bounds, Issue, Fault
<1>3. CASE Restart \/ Shared
  <2>1. /\ now' = now \/ (now < MaxTime /\ now' = now + 1)
        /\ nextID' = nextID
    BY <1>3 DEF Shared, Rewriting, Promote, Revoke, Quarantine, Unquarantine, RemoveQuarantines,
       AppendRemaining, CutShort, Restart, Idle, Tick, vars
  <2>2. issued' = issued \/ (issued < MaxCalls /\ issued' = issued + 1)
    BY <1>3 DEF Shared, Rewriting, Promote, Revoke, Quarantine, Unquarantine, RemoveQuarantines,
       AppendRemaining, CutShort, Restart, Tick, vars, bounds, Issue
  <2>3. faults' = faults \/ (faults < MaxFaults /\ faults' = faults + 1)
    BY <1>3 DEF Shared, Rewriting, Promote, Revoke, Quarantine, Unquarantine, RemoveQuarantines,
       AppendRemaining, CutShort, Restart, Tick, vars, bounds, Fault
  <2> QED
    BY <1>1, <2>1, <2>2, <2>3 DEF NumbersTyped, Times
<1> QED
  BY <1>1, <1>2, <1>3, Steps DEF NumbersTyped, Times

(* A worker's step.                                                        *)
LEMMA WorkerStays ==
    ASSUME WorkersTyped, NEW w \in Workers, NEW s, NEW j, NEW q,
           pc' = [pc EXCEPT ![w] = s],
           job' = [job EXCEPT ![w] = j],
           queue' = [queue EXCEPT ![w] = q],
           WorkerOK(w, s, j, q)
    PROVE  WorkersTyped'
<1>1. /\ pc'[w] = s /\ job'[w] = j /\ queue'[w] = q
      /\ \A v \in Workers \ {w} :
            pc'[v] = pc[v] /\ job'[v] = job[v] /\ queue'[v] = queue[v]
      /\ PerWorker(pc)' /\ PerWorker(job)' /\ PerWorker(queue)'
  BY DEF WorkersTyped, PerWorker
<1>2. ASSUME NEW v \in Workers PROVE WorkerOK(v, pc'[v], job'[v], queue'[v])
  <2>1. CASE v = w
    BY <1>1, <2>1
  <2>2. CASE v # w
    <3>1. WorkerOK(v, pc[v], job[v], queue[v])
      BY DEF WorkersTyped
    <3> QED
      BY <1>1, <2>2, <3>1
  <2> QED
    BY <2>1, <2>2
<1>3. \A v \in Workers : WorkerOK(v, pc[v], job[v], queue[v])'
  BY <1>2 DEF WorkerOK
<1> QED
  BY <1>1, <1>3 DEF WorkersTyped

(* What a step leaves as it is.                                            *)
LEMMA Same == ASSUME WorkersTyped, NEW w \in Workers
              PROVE  /\ UNCHANGED pc => pc' = [pc EXCEPT ![w] = pc[w]]
                     /\ UNCHANGED job => job' = [job EXCEPT ![w] = job[w]]
                     /\ UNCHANGED queue => queue' = [queue EXCEPT ![w] = queue[w]]
                     /\ WorkerOK(w, pc[w], job[w], queue[w])
  BY DEF WorkersTyped, PerWorker

LEMMA NoJobIsNone == NoJob \notin Jobs /\ NoJob \notin Queues
  BY NoJobAssumption

LEMMA BeginStays ==
    ASSUME Typed, NEW w \in Workers, NEW p \in Policies, NEW r \in Requests,
           Begin(w, p, r), NEW q \in Queues \cup {NoJob},
           queue' = [queue EXCEPT ![w] = q], q # NoJob <=> Role[w] = "reassess"
    PROVE  WorkersTyped'
<1> DEFINE j == [policy |-> p, request |-> r, at |-> now, id |-> nextID, revoked |-> "no",
                 quarantined |-> "no", outcome |-> "ALLOW"]
<1>1. j \in Jobs
  BY DEF Jobs, Typed, NumbersTyped, Outcomes
<1>2. pc' = [pc EXCEPT ![w] = "revocation"] /\ job' = [job EXCEPT ![w] = j]
  BY DEF Begin, Goto
<1> HIDE DEF j
<1>3. WorkerOK(w, "revocation", j, q)
  BY <1>1, NoJobIsNone DEF WorkerOK, Running
<1> QED
  BY <1>2, <1>3, WorkerStays DEF Typed

LEMMA ArriveStays == ASSUME Typed, NEW w \in Workers, Arrive(w) PROVE WorkersTyped'
<1>1. WorkerOK(w, pc[w], job[w], queue[w]) /\ WorkersTyped
  BY Same DEF Typed
<1>2. CASE evaluate(w)
  <2>1. PICK r \in Inputs : Begin(w, policy, r)
    BY <1>2 DEF evaluate
  <2>2. UNCHANGED queue /\ Role[w] = "serve" /\ r \in Requests /\ policy \in Policies
    BY <1>2, GateAssumption DEF evaluate, Typed, ServerTyped
  <2>3. queue[w] = NoJob /\ queue' = [queue EXCEPT ![w] = queue[w]]
    BY <1>1, <2>2, Same DEF WorkerOK
  <2> QED
    BY <2>1, <2>2, <2>3, BeginStays
<1>3. CASE runEvaluate(w)
  <2>1. PICK p \in PolicyFiles, r \in Inputs : Begin(w, p, r)
    BY <1>3 DEF runEvaluate
  <2>2. UNCHANGED queue /\ Role[w] = "evaluate" /\ r \in Requests /\ p \in Policies
    BY <1>3, GateAssumption DEF runEvaluate
  <2>3. queue[w] = NoJob /\ queue' = [queue EXCEPT ![w] = queue[w]]
    BY <1>1, <2>2, Same DEF WorkerOK
  <2> QED
    BY <2>1, <2>2, <2>3, BeginStays
<1>4. CASE runReassess(w)
  <2>1. PICK p \in PolicyFiles : queue' = [queue EXCEPT ![w] = [policy |-> p, old |-> decisions]]
    BY <1>4 DEF runReassess
  <2> DEFINE q == [policy |-> p, old |-> decisions]
  <2>2. /\ Role[w] = "reassess" /\ pc[w] = "idle" /\ UNCHANGED job
        /\ pc' = [pc EXCEPT ![w] = "next"]
    BY <1>4 DEF runReassess, Goto
  <2>3. q \in Queues
    BY GateAssumption DEF Typed, StoreTyped, Queues
  <2>4. job[w] = NoJob /\ job' = [job EXCEPT ![w] = NoJob]
    BY <1>1, <2>2, Same DEF WorkerOK, Running
  <2> HIDE DEF q
  <2>5. WorkerOK(w, "next", NoJob, q)
    BY <2>2, <2>3, NoJobIsNone DEF WorkerOK, Running
  <2>6. queue' = [queue EXCEPT ![w] = q]
    BY <2>1 DEF q
  <2> QED
    BY <1>1, <2>2, <2>4, <2>5, <2>6, WorkerStays
<1> QED
  BY <1>2, <1>3, <1>4 DEF Arrive

LEMMA LookupStays ==
    ASSUME Typed, NEW w \in Workers, CheckRevoked(w) \/ CheckQuarantined(w)
    PROVE  WorkersTyped'
<1>1. WorkerOK(w, pc[w], job[w], queue[w]) /\ WorkersTyped
  BY Same DEF Typed
<1>2. CASE CheckRevoked(w)
  <2>1. PICK found \in {"no", "yes", "error"} : job' = [job EXCEPT ![w].revoked = found]
    BY <1>2 DEF CheckRevoked
  <2>2. pc[w] = "revocation" /\ pc' = [pc EXCEPT ![w] = "quarantine"] /\ UNCHANGED queue
    BY <1>2 DEF CheckRevoked, Goto
  <2> DEFINE j == [job[w] EXCEPT !.revoked = found]
  <2>3. job' = [job EXCEPT ![w] = j]
    BY <1>1, <2>1 DEF WorkersTyped, PerWorker
  <2>4. job[w] \in Jobs
    BY <1>1, <2>2 DEF WorkerOK, Running
  <2>5. j \in Jobs
    BY <2>4 DEF Jobs
  <2> HIDE DEF j
  <2>6. WorkerOK(w, "quarantine", j, queue[w])
    BY <1>1, <2>2, <2>5, NoJobIsNone DEF WorkerOK, Running
  <2> QED
    BY <1>1, <2>2, <2>3, <2>6, Same, WorkerStays
<1>3. CASE CheckQuarantined(w)
  <2>1. PICK found \in {"no", "yes", "error"} : Decide(w, found)
    BY <1>3 DEF CheckQuarantined
  <2> DEFINE o == Evaluate(job[w].policy, job[w].request, NewTrustRoots, job[w].revoked,
                           found, job[w].at, now)
             j == [job[w] EXCEPT !.quarantined = found, !.outcome = o]
             s == IF Role[w] = "serve" THEN "total" ELSE "save"
  <2>2. pc[w] = "quarantine" /\ pc' = [pc EXCEPT ![w] = s] /\ UNCHANGED queue
    BY <1>3 DEF CheckQuarantined, Goto
  <2>3. job' = [job EXCEPT ![w] = j]
    <3>1. job' = [job EXCEPT ![w].quarantined = found, ![w].outcome = o]
      BY <2>1 DEF Decide
    <3> HIDE DEF o
    <3> QED
      BY <1>1, <3>1 DEF WorkersTyped, PerWorker
  <2>4. job[w] \in Jobs
    BY <1>1, <2>2 DEF WorkerOK, Running
  <2>5. job[w].request \in Requests /\ job[w].revoked \in {"no", "yes", "error"}
    BY <2>4 DEF Jobs
  <2>6. /\ job[w].request.capabilities \in Seq(Capabilities)
        /\ job[w].request.digest \in Digests \cup {BadDigest}
    BY <2>5 DEF Requests
  <2>7. o \in Outcomes
    BY <2>6, EvaluateHasOutcome
  <2>8. o = "ALLOW" => /\ job[w].request.digest # BadDigest
                       /\ job[w].revoked \notin {"yes", "error"}
                       /\ found \notin {"yes", "error"}
    BY <2>6, AllowedIsClear
  <2> HIDE DEF o
  <2>9. /\ j \in Jobs
        /\ j.outcome = o /\ j.quarantined = found
        /\ j.request = job[w].request /\ j.revoked = job[w].revoked
    BY <2>4, <2>7 DEF Jobs
  <2>10. s \in {"total", "save"}
    OBVIOUS
  <2> HIDE DEF j, s
  <2>11. WorkerOK(w, s, j, queue[w])
    BY <1>1, <2>2, <2>5, <2>6, <2>8, <2>9, <2>10, NoJobIsNone DEF WorkerOK, Running
  <2> QED
    BY <1>1, <2>2, <2>3, <2>11, Same, WorkerStays
<1> QED
  BY <1>2, <1>3

LEMMA CountStays ==
    ASSUME Typed, NEW w \in Workers, CountTotal(w) \/ CountDenied(w)
    PROVE  WorkersTyped'
<1>1. WorkerOK(w, pc[w], job[w], queue[w]) /\ WorkersTyped
  BY Same DEF Typed
<1>2. PICK s \in {"denied", "save"} :
         /\ pc' = [pc EXCEPT ![w] = s]
         /\ pc[w] \in {"total", "denied"} /\ UNCHANGED <<job, queue>>
  BY DEF CountTotal, CountDenied, Goto
<1>3. WorkerOK(w, s, job[w], queue[w])
  BY <1>1, <1>2 DEF WorkerOK, Running
<1> QED
  BY <1>1, <1>2, <1>3, Same, WorkerStays

LEMMA SaveStays ==
    ASSUME Typed, NEW w \in Workers, SaveDecision(w) \/ SaveDecisionFails(w)
    PROVE  WorkersTyped'
<1>1. WorkerOK(w, pc[w], job[w], queue[w]) /\ WorkersTyped
  BY Same DEF Typed
<1> DEFINE s == IF Role[w] = "reassess" THEN "next" ELSE "idle"
<1>2. /\ pc[w] = "save" /\ pc' = [pc EXCEPT ![w] = s]
      /\ job' = [job EXCEPT ![w] = NoJob] /\ UNCHANGED queue
  BY DEF SaveDecision, SaveDecisionFails, Saved, Goto
<1>3. WorkerOK(w, s, NoJob, queue[w])
  BY <1>1, <1>2 DEF WorkerOK, Running
<1> HIDE DEF s
<1> QED
  BY <1>1, <1>2, <1>3, Same, WorkerStays

LEMMA OldDecisions ==
    ASSUME Typed, NEW w \in Workers, queue[w] \in Queues, queue[w].old # <<>>
    PROVE  /\ Reassessment(queue[w].policy, Head(queue[w].old).digest,
                           Head(queue[w].old).env, now) \in Requests
           /\ queue[w].policy \in Policies
           /\ [queue[w] EXCEPT !.old = Tail(@)] \in Queues
<1>1. queue[w].policy \in Policies /\ queue[w].old \in Seq(LoggedDecisions)
  BY DEF Queues
<1>2. Head(queue[w].old) \in LoggedDecisions /\ Tail(queue[w].old) \in Seq(LoggedDecisions)
  BY <1>1
<1>3. PICK p \in Policies, d \in LoggedDecisions :
         p = queue[w].policy /\ d = Head(queue[w].old)
  BY <1>1, <1>2
<1>4. /\ d.digest \in Digests \cup {BadDigest} /\ d.env \in Envs
      /\ p.provider \in Providers /\ p.minimumVersion \in Versions
      /\ now \in Times
  BY DEF LoggedDecisions, Policies, Typed, NumbersTyped
<1>5. Reassessment(p, d.digest, d.env, now) \in Requests
  <2>1. "low" \in Risks /\ <<>> \in Seq(Capabilities)
    BY DEF Risks
  <2> QED
    BY <1>4, <2>1 DEF Reassessment, Requests
<1>6. [queue[w] EXCEPT !.old = Tail(@)] \in Queues
  BY <1>2 DEF Queues
<1> QED
  BY <1>3, <1>5, <1>6

LEMMA ReassessStays ==
    ASSUME Typed, IInv, NEW w \in Workers,
           NextReassessment(w) \/ EndReassess(w) \/ Interrupt(w)
    PROVE  WorkersTyped'
<1>1. WorkerOK(w, pc[w], job[w], queue[w]) /\ WorkersTyped
  BY Same DEF Typed
<1>2. CASE NextReassessment(w)
  <2> DEFINE q == [queue[w] EXCEPT !.old = Tail(@)]
             r == Reassessment(queue[w].policy, Head(queue[w].old).digest,
                               Head(queue[w].old).env, now)
  <2>1. /\ pc[w] = "next" /\ queue[w].old # <<>>
        /\ Begin(w, queue[w].policy, r)
        /\ queue' = [queue EXCEPT ![w].old = Tail(@)]
    BY <1>2 DEF NextReassessment
  <2>2. Role[w] = "reassess" /\ queue[w] \in Queues
    BY <1>1, <2>1 DEF IInv, WorkersOK, WorkerOK
  <2>3. r \in Requests /\ queue[w].policy \in Policies /\ q \in Queues
    BY <2>1, <2>2, OldDecisions
  <2>4. queue' = [queue EXCEPT ![w] = q]
    BY <1>1, <2>1 DEF WorkersTyped, PerWorker
  <2> HIDE DEF q, r
  <2> QED
    BY <2>1, <2>2, <2>3, <2>4, NoJobIsNone, BeginStays
<1>3. CASE EndReassess(w)
  <2>1. /\ pc[w] = "next" /\ UNCHANGED job
        /\ pc' = [pc EXCEPT ![w] = "idle"] /\ queue' = [queue EXCEPT ![w] = NoJob]
    BY <1>3 DEF EndReassess, Goto
  <2>2. WorkerOK(w, "idle", job[w], NoJob)
    BY <1>1, <2>1 DEF WorkerOK, Running
  <2> QED
    BY <1>1, <2>1, <2>2, Same, WorkerStays
<1>4. CASE Interrupt(w)
  <2>1. /\ pc' = [pc EXCEPT ![w] = "idle"] /\ queue' = [queue EXCEPT ![w] = NoJob]
        /\ job' = [job EXCEPT ![w] = NoJob]
    BY <1>4 DEF Interrupt, Goto
  <2>2. WorkerOK(w, "idle", NoJob, NoJob)
    BY DEF WorkerOK, Running
  <2> QED
    BY <1>1, <2>1, <2>2, WorkerStays
<1> QED
  BY <1>2, <1>3, <1>4

LEMMA OthersStay ==
    ASSUME Typed, UNCHANGED <<pc, job, queue>> \/ Restart
    PROVE  WorkersTyped'
<1>1. WorkersTyped
  BY DEF Typed
<1>2. CASE UNCHANGED <<pc, job, queue>>
  BY <1>1, <1>2 DEF WorkersTyped, PerWorker, WorkerOK
<1>3. CASE Restart
  <2>1. /\ pc' = [w \in Workers |-> IF Role[w] = "serve" THEN "idle" ELSE pc[w]]
        /\ job' = [w \in Workers |-> IF Role[w] = "serve" THEN NoJob ELSE job[w]]
        /\ UNCHANGED queue
    BY <1>3 DEF Restart
  <2>2. PerWorker(pc)' /\ PerWorker(job)' /\ PerWorker(queue)'
    BY <1>1, <2>1 DEF WorkersTyped, PerWorker
  <2>3. ASSUME NEW w \in Workers PROVE WorkerOK(w, pc[w], job[w], queue[w])'
    BY <1>1, <2>1 DEF WorkersTyped, WorkerOK, Running
  <2> QED
    BY <2>2, <2>3 DEF WorkersTyped
<1> QED
  BY <1>2, <1>3

LEMMA WorkersStayTyped == Typed /\ IInv /\ [Next]_vars => WorkersTyped'
<1> SUFFICES ASSUME Typed, IInv, [Next]_vars PROVE WorkersTyped'
  OBVIOUS
<1>1. ASSUME NEW w \in Workers, Worker(w)
      PROVE  WorkersTyped'
  BY <1>1, ArriveStays, LookupStays, CountStays, SaveStays, ReassessStays
     DEF Worker, Continue
<1> QED
  BY <1>1, OthersStay, SharedIsCalm, Steps

(* Only a decision about a digest supports a promotion.                    *)
LEMMA PromoteStays == ASSUME Typed, Promote PROVE StoreTyped'
<1>1. PICK i \in DOMAIN decisions :
         /\ Supports(decisions[i], [decision |-> decisions[i].id, digest |-> decisions[i].digest,
                                    env |-> decisions[i].env])
         /\ promotions' = promotions \cup
                             {[decision |-> decisions[i].id, digest |-> decisions[i].digest,
                               env |-> decisions[i].env]}
  BY DEF Promote
<1>2. UNCHANGED <<decisions, answered>>
  BY DEF Promote, Idle
<1>3. decisions[i] \in LoggedDecisions /\ decisions[i].outcome = "ALLOW"
  BY <1>1 DEF Typed, StoreTyped, Supports
<1>4. /\ decisions[i].id \in Nat /\ decisions[i].env \in Envs
      /\ decisions[i].digest \in Digests
  BY <1>3 DEF Typed, StoreTyped, LoggedDecisions
<1> QED
  BY <1>1, <1>2, <1>4 DEF Typed, StoreTyped

LEMMA SaveLogs ==
    ASSUME Typed, NEW w \in Workers, SaveDecision(w) \/ SaveDecisionFails(w)
    PROVE  StoreTyped'
<1>1. pc[w] = "save" /\ WorkerOK(w, pc[w], job[w], queue[w])
  BY Same DEF SaveDecision, SaveDecisionFails, Typed
<1>2. /\ job[w] \in Jobs
      /\ job[w].outcome = "ALLOW" => job[w].request.digest \in Digests
  BY <1>1 DEF WorkerOK, Running
<1>3. /\ Decision(w) \in LoggedDecisions
      /\ Decision(w).outcome = "ALLOW" => Decision(w).digest \in Digests
  <2>1. /\ job[w].id \in Nat /\ job[w].outcome \in Outcomes /\ job[w].at \in Nat
        /\ job[w].policy \in Policies /\ job[w].request \in Requests
    BY <1>2 DEF Jobs, Times
  <2>2. job[w].request.digest \in Digests \cup {BadDigest} /\ job[w].request.env \in Envs
    BY <2>1 DEF Requests
  <2>3. job[w].at + Lifetime \in Nat
    BY <2>1, AdmissionAssumption
  <2>4. Decision(w) \in LoggedDecisions
    BY <2>1, <2>2, <2>3 DEF Decision, LoggedDecisions
  <2>5. Decision(w).outcome = job[w].outcome /\ Decision(w).digest = job[w].request.digest
    BY DEF Decision
  <2> QED
    BY <1>2, <2>4, <2>5
<1> DEFINE d == Decision(w)
<1>4. /\ decisions' = decisions \/ decisions' = Append(decisions, d)
      /\ answered' \subseteq answered \cup {d}
      /\ UNCHANGED promotions
  BY DEF SaveDecision, SaveDecisionFails, Saved
<1> HIDE DEF d
<1>5. /\ decisions' \in Seq(LoggedDecisions)
      /\ \A i \in DOMAIN decisions' :
            decisions'[i].outcome = "ALLOW" => decisions'[i].digest \in Digests
  <2>1. CASE decisions' = decisions
    BY <2>1 DEF Typed, StoreTyped
  <2>2. CASE decisions' = Append(decisions, d)
    <3>1. decisions \in Seq(LoggedDecisions) /\ d \in LoggedDecisions
      BY <1>3 DEF Typed, StoreTyped, d
    <3>2. /\ decisions' \in Seq(LoggedDecisions)
          /\ \A i \in DOMAIN decisions' : \/ i \in DOMAIN decisions /\ decisions'[i] = decisions[i]
                                          \/ decisions'[i] = d
      BY <2>2, <3>1
    <3> QED
      BY <1>3, <3>2 DEF Typed, StoreTyped, d
  <2> QED
    BY <1>4, <2>1, <2>2
<1> QED
  BY <1>3, <1>4, <1>5 DEF Typed, StoreTyped, d

LEMMA RewriteStays ==
    ASSUME Typed, NEW h \in Homes, NEW s \in {"idle", "remove", "append"},
           NEW rest \in SUBSET Quarantines, s = "idle" => rest = {}, Rewrite(h, s, rest),
           revocations' \subseteq Revocations, quarantines' \subseteq Quarantines
    PROVE  BlocksTyped'
  BY DEF Typed, BlocksTyped, Rewrite

LEMMA SharedStays == ASSUME Typed, Shared PROVE BlocksTyped'
<1>1. /\ revocations \subseteq Revocations /\ quarantines \subseteq Quarantines
      /\ \A h \in Homes : rewriting[h].left \in SUBSET Quarantines
  BY DEF Typed, BlocksTyped
<1>2. CASE Promote \/ Revoke \/ Quarantine \/ Tick \/ UNCHANGED vars
  <2>1. /\ revocations' \subseteq Revocations /\ quarantines' \subseteq Quarantines
        /\ UNCHANGED rewriting
    BY <1>1, <1>2 DEF Promote, Revoke, Quarantine, Tick, vars, store
  <2> QED
    BY <2>1 DEF Typed, BlocksTyped
<1>3. ASSUME NEW h \in Homes, Rewriting(h) PROVE BlocksTyped'
  <2>1. CASE Unquarantine(h)
    <3>1. PICK key : Rewrite(h, "remove", {q \in quarantines : key \notin {q.id, q.digest}})
      BY <2>1 DEF Unquarantine
    <3>2. UNCHANGED <<revocations, quarantines>>
      BY <2>1 DEF Unquarantine
    <3> QED
      BY <1>1, <3>1, <3>2, RewriteStays
  <2>2. CASE RemoveQuarantines(h)
    <3>1. /\ Rewrite(h, IF rewriting[h].left = {} THEN "idle" ELSE "append",
                     rewriting[h].left)
          /\ revocations' = revocations /\ quarantines' \subseteq quarantines
      BY <2>2 DEF RemoveQuarantines
    <3> QED
      BY <1>1, <3>1, RewriteStays
  <2>3. CASE AppendRemaining(h)
    <3>1. PICK q \in rewriting[h].left :
             /\ quarantines' = quarantines \cup {q}
             /\ Rewrite(h, IF rewriting[h].left \ {q} = {} THEN "idle" ELSE "append",
                        rewriting[h].left \ {q})
      BY <2>3 DEF AppendRemaining
    <3>2. revocations' = revocations
      BY <2>3 DEF AppendRemaining
    <3> QED
      BY <1>1, <3>1, <3>2, RewriteStays
  <2>4. CASE CutShort(h)
    <3>1. Rewrite(h, "idle", {}) /\ UNCHANGED <<revocations, quarantines>>
      BY <2>4 DEF CutShort
    <3> QED
      BY <1>1, <3>1, RewriteStays
  <2> QED
    BY <1>3, <2>1, <2>2, <2>3, <2>4 DEF Rewriting
<1> QED
  BY <1>2, <1>3 DEF Shared

LEMMA StoreStaysTyped == Typed /\ [Next]_vars => StoreTyped' /\ BlocksTyped'
<1> SUFFICES ASSUME Typed, [Next]_vars PROVE StoreTyped' /\ BlocksTyped'
  OBVIOUS
<1>1. ASSUME NEW w \in Workers, SaveDecision(w) \/ SaveDecisionFails(w)
      PROVE  StoreTyped' /\ UNCHANGED <<revocations, quarantines, rewriting>>
  BY <1>1, SaveLogs DEF SaveDecision, SaveDecisionFails, Saved
<1>2. ASSUME NEW w \in Workers, \/ Arrive(w) \/ CheckRevoked(w) \/ CheckQuarantined(w)
                                \/ CountTotal(w) \/ CountDenied(w)
                                \/ NextReassessment(w) \/ EndReassess(w) \/ Interrupt(w)
      PROVE  UNCHANGED <<store, answered>>
  BY <1>2 DEF Arrive, evaluate, runEvaluate, runReassess, CheckRevoked, CheckQuarantined,
     CountTotal, CountDenied, NextReassessment, EndReassess, Interrupt
<1>3. ASSUME NEW w \in Workers, Worker(w)
      PROVE  StoreTyped' /\ UNCHANGED <<revocations, quarantines, rewriting>>
  BY <1>1, <1>2, <1>3 DEF Worker, Continue, Typed, StoreTyped, store
<1>4. CASE Restart
  <2>1. /\ UNCHANGED <<decisions, promotions, revocations, quarantines>>
        /\ answered' = {} /\ Rewrite(Server, "idle", {})
    BY <1>4 DEF Restart
  <2> QED
    BY <2>1, RewriteStays, GateAssumption DEF Typed, StoreTyped, BlocksTyped
<1>5. CASE Shared /\ ~Promote
  <2>1. UNCHANGED <<decisions, promotions, answered>>
    BY <1>5, SharedIsCalm
       DEF Shared, Rewriting, Promote, Revoke, Quarantine, Unquarantine, RemoveQuarantines,
       AppendRemaining, CutShort, Tick, vars, store
  <2>2. BlocksTyped'
    BY <1>5, SharedStays
  <2> QED
    BY <2>1, <2>2 DEF Typed, StoreTyped
<1>6. CASE Promote
  <2>1. StoreTyped' /\ UNCHANGED <<revocations, quarantines, rewriting>>
    BY <1>6, PromoteStays DEF Promote
  <2> QED
    BY <2>1 DEF Typed, BlocksTyped
<1> QED
  BY <1>3, <1>4, <1>5, <1>6, Steps DEF Typed, BlocksTyped

LEMMA Next_Typed == IInv /\ Typed /\ [Next]_vars => Typed'
  BY ServerStaysTyped, NumbersStayTyped, WorkersStayTyped, StoreStaysTyped DEF Typed

-----------------------------------------------------------------------------
(* What was in force since an evaluation began.                            *)

(* What has been in force ever since the evaluation of w began is in force *)
(* now, and the lookups it has made have seen it.                          *)
Watched(w) ==
    /\ blocks[w] \subseteq {"revocation", "quarantine", "held"}
    /\ pc[w] \in Running
       => blocks[w] \subseteq Blocks(w, revocations, quarantines, rewriting,
                                 job[w].request)
    /\ pc[w] \notin Running => blocks[w] = {}
    /\ pc[w] \in Running \ {"revocation"} /\ job[w].revoked = "no"
       => "revocation" \notin blocks[w]
    /\ Decided(w) /\ job[w].quarantined = "no" => "quarantine" \notin blocks[w]

AllWatched == PerWorker(blocks) /\ \A w \in Workers : Watched(w)

LEMMA Init_Watched == Init => AllWatched
  BY DEF Init, AllWatched, PerWorker, Watched, Decided, Running

(* The blocks of a worker that goes on stay what they were.                *)
LEMMA UnwatchedStay ==
    ASSUME AllWatched, WorkersTyped, NEW w \in Workers, NEW b,
           pc' = [pc EXCEPT ![w] = pc'[w]], job' = [job EXCEPT ![w] = job'[w]],
           blocks' = [blocks EXCEPT ![w] = b],
           UNCHANGED <<revocations, quarantines, rewriting>>,
           b \subseteq {"revocation", "quarantine", "held"},
           pc'[w] \in Running
              => b \subseteq Blocks(w, revocations, quarantines, rewriting, job'[w].request),
           pc'[w] \notin Running => b = {},
           pc'[w] \in Running \ {"revocation"} /\ job'[w].revoked = "no"
              => "revocation" \notin b,
           pc'[w] \in {"total", "denied", "save"} /\ job'[w].quarantined = "no"
              => "quarantine" \notin b
    PROVE  AllWatched'
<1>1. /\ blocks'[w] = b
      /\ \A v \in Workers \ {w} :
            pc'[v] = pc[v] /\ job'[v] = job[v] /\ blocks'[v] = blocks[v]
      /\ PerWorker(blocks)'
  BY DEF WorkersTyped, AllWatched, PerWorker
<1>2. Watched(w)'
  BY <1>1 DEF Watched, Decided
<1>3. ASSUME NEW v \in Workers \ {w} PROVE Watched(v)'
  <2>1. Watched(v)
    BY DEF AllWatched
  <2> QED
    BY <1>1, <2>1 DEF Watched, Decided
<1> QED
  BY <1>1, <1>2, <1>3 DEF AllWatched

LEMMA BeginWatches ==
    ASSUME AllWatched, Typed, NEW w \in Workers, NEW p, NEW r, Begin(w, p, r),
           UNCHANGED store
    PROVE  AllWatched'
<1> DEFINE j == [policy |-> p, request |-> r, at |-> now, id |-> nextID, revoked |-> "no",
                 quarantined |-> "no", outcome |-> "ALLOW"]
<1>1. /\ pc' = [pc EXCEPT ![w] = "revocation"] /\ job' = [job EXCEPT ![w] = j]
      /\ blocks' = [blocks EXCEPT ![w] = Blocks(w, revocations, quarantines, rewriting, r)]
  BY DEF Begin, Goto
<1>2. j.request = r
  OBVIOUS
<1> HIDE DEF j
<1>3. /\ pc'[w] = "revocation" /\ job'[w] = j
      /\ pc' = [pc EXCEPT ![w] = pc'[w]] /\ job' = [job EXCEPT ![w] = job'[w]]
  BY <1>1 DEF Typed, WorkersTyped, PerWorker
<1>4. Blocks(w, revocations, quarantines, rewriting, r)
         \subseteq {"revocation", "quarantine", "held"}
  BY DEF Blocks
<1>5. WorkersTyped /\ UNCHANGED <<revocations, quarantines, rewriting>>
  BY DEF Typed, store
<1> QED
  BY <1>1, <1>2, <1>3, <1>4, <1>5, UnwatchedStay DEF Running

(* While the mutex of the server is free, its Unquarantine keeps nothing.  *)
LEMMA NothingKept ==
    ASSUME Typed, NEW w \in Workers, ~Waits(w)
    PROVE  Kept(rewriting, Own(w)) = {}
<1>1. CASE Role[w] = "serve"
  BY <1>1, GateAssumption DEF Typed, BlocksTyped, Waits, Locked, Kept, Own
<1>2. CASE Role[w] # "serve"
  BY <1>2 DEF Kept, Own
<1> QED
  BY <1>1, <1>2

LEMMA CheckWatches ==
    ASSUME AllWatched, Typed, NEW w \in Workers, CheckRevoked(w) \/ CheckQuarantined(w)
    PROVE  AllWatched'
<1>1. /\ WorkersTyped /\ Watched(w) /\ WorkerOK(w, pc[w], job[w], queue[w])
      /\ blocks' = [blocks EXCEPT ![w] = blocks[w]]
      /\ UNCHANGED <<revocations, quarantines, rewriting>>
  BY Same DEF Typed, AllWatched, PerWorker, CheckRevoked, CheckQuarantined, store
<1>2. CASE CheckRevoked(w)
  <2>1. PICK found \in {"no", "yes", "error"} :
           /\ job' = [job EXCEPT ![w].revoked = found]
           /\ found = "no"
              => ~IsRevoked(revocations, job[w].request.digest, job[w].request.env)
    BY <1>2 DEF CheckRevoked
  <2>2. /\ pc[w] = "revocation" /\ pc' = [pc EXCEPT ![w] = "quarantine"]
    BY <1>2 DEF CheckRevoked, Goto
  <2>3. job[w] \in Jobs
    BY <1>1, <2>2 DEF WorkerOK, Running
  <2>4. job' = [job EXCEPT ![w] = [job[w] EXCEPT !.revoked = found]]
    BY <1>1, <2>1 DEF WorkersTyped, PerWorker
  <2>5. /\ pc'[w] = "quarantine" /\ pc' = [pc EXCEPT ![w] = pc'[w]]
        /\ job' = [job EXCEPT ![w] = job'[w]]
        /\ job'[w].request = job[w].request /\ job'[w].revoked = found
    BY <1>1, <2>2, <2>3, <2>4 DEF WorkersTyped, PerWorker, Jobs
  <2>6. found = "no" => "revocation"
                       \notin Blocks(w, revocations, quarantines, rewriting, job[w].request)
    BY <2>1 DEF IsRevoked, GetRevocations, AppliesTo, Blocks
  <2>7. /\ blocks[w] \subseteq {"revocation", "quarantine", "held"}
        /\ blocks[w] \subseteq Blocks(w, revocations, quarantines, rewriting, job[w].request)
    BY <1>1, <2>2 DEF Watched, Running
  <2> QED
    BY <1>1, <2>5, <2>6, <2>7, UnwatchedStay DEF Running
<1>3. CASE CheckQuarantined(w)
  <2>1. PICK found \in {"no", "yes", "error"} :
           /\ Decide(w, found)
           /\ found = "no"
              => ~IsQuarantined(quarantines, job[w].request.digest, job[w].request.env)
    BY <1>3 DEF CheckQuarantined
  <2>2. PICK o : job' = [job EXCEPT ![w].quarantined = found, ![w].outcome = o]
    BY <2>1 DEF Decide
  <2>3. PICK s \in {"total", "save"} : pc[w] = "quarantine" /\ pc' = [pc EXCEPT ![w] = s]
    BY <1>3 DEF CheckQuarantined, Goto
  <2>4. job[w] \in Jobs
    BY <1>1, <2>3 DEF WorkerOK, Running
  <2>5. job' = [job EXCEPT ![w] = [job[w] EXCEPT !.quarantined = found, !.outcome = o]]
    BY <1>1, <2>2 DEF WorkersTyped, PerWorker
  <2>6. /\ pc'[w] = s /\ pc' = [pc EXCEPT ![w] = pc'[w]]
        /\ job' = [job EXCEPT ![w] = job'[w]]
        /\ job'[w].request = job[w].request /\ job'[w].revoked = job[w].revoked
        /\ job'[w].quarantined = found
    BY <1>1, <2>3, <2>4, <2>5 DEF WorkersTyped, PerWorker, Jobs
  <2>7. found = "no" => "quarantine"
                       \notin Blocks(w, revocations, quarantines, rewriting, job[w].request)
    <3>1. Kept(rewriting, Own(w)) = {}
      BY <1>3, NothingKept DEF CheckQuarantined
    <3> QED
      BY <2>1, <3>1 DEF IsQuarantined, GetQuarantines, AppliesTo, Blocks
  <2>8. /\ blocks[w] \subseteq {"revocation", "quarantine", "held"}
        /\ blocks[w] \subseteq Blocks(w, revocations, quarantines, rewriting, job[w].request)
        /\ job[w].revoked = "no" => "revocation" \notin blocks[w]
    BY <1>1, <2>3 DEF Watched, Running
  <2> QED
    BY <1>1, <2>3, <2>6, <2>7, <2>8, UnwatchedStay DEF Running
<1> QED
  BY <1>2, <1>3

LEMMA CountWatches ==
    ASSUME AllWatched, Typed, NEW w \in Workers, CountTotal(w) \/ CountDenied(w)
    PROVE  AllWatched'
<1>1. /\ WorkersTyped /\ Watched(w)
      /\ blocks' = [blocks EXCEPT ![w] = blocks[w]]
      /\ UNCHANGED <<revocations, quarantines, rewriting>>
  BY DEF Typed, AllWatched, PerWorker, CountTotal, CountDenied, store
<1>2. PICK s \in {"denied", "save"} :
         /\ pc[w] \in {"total", "denied"} /\ pc' = [pc EXCEPT ![w] = s]
         /\ UNCHANGED job
  BY DEF CountTotal, CountDenied, Goto
<1>3. /\ pc'[w] = s /\ pc' = [pc EXCEPT ![w] = pc'[w]]
      /\ job' = [job EXCEPT ![w] = job'[w]] /\ job'[w] = job[w]
  BY <1>1, <1>2 DEF WorkersTyped, PerWorker
<1>4. /\ blocks[w] \subseteq {"revocation", "quarantine", "held"}
      /\ blocks[w] \subseteq Blocks(w, revocations, quarantines, rewriting, job[w].request)
      /\ job[w].revoked = "no" => "revocation" \notin blocks[w]
      /\ job[w].quarantined = "no" => "quarantine" \notin blocks[w]
  BY <1>1, <1>2 DEF Watched, Decided, Running
<1> QED
  BY <1>1, <1>2, <1>3, <1>4, UnwatchedStay DEF Running

(* A worker that has no evaluation any more, or never had one.             *)
LEMMA EndWatches ==
    ASSUME AllWatched, Typed, IInv, NEW w \in Workers,
           \/ runReassess(w) \/ EndReassess(w) \/ Interrupt(w)
           \/ SaveDecision(w) \/ SaveDecisionFails(w)
    PROVE  AllWatched'
<1>1. /\ WorkersTyped /\ Watched(w) /\ WorkerOK(w, pc[w], job[w], queue[w])
  BY Same DEF Typed, AllWatched
<1>2. UNCHANGED <<revocations, quarantines, rewriting>>
  BY DEF runReassess, EndReassess, Interrupt, SaveDecision, SaveDecisionFails, Saved, store
<1>3. PICK s \in {"idle", "next"} : pc' = [pc EXCEPT ![w] = s]
  BY DEF runReassess, EndReassess, Interrupt, SaveDecision, SaveDecisionFails, Saved, Goto
<1>4. /\ job' = [job EXCEPT ![w] = NoJob]
      /\ blocks' = [blocks EXCEPT ![w] = {}]
  <2>1. CASE runReassess(w) \/ EndReassess(w)
    <3>1. UNCHANGED <<job, blocks>> /\ pc[w] \in {"idle", "next"}
      BY <2>1 DEF runReassess, EndReassess
    <3>2. job[w] = NoJob /\ blocks[w] = {}
      BY <1>1, <3>1 DEF WorkerOK, Watched, Running
    <3> QED
      BY <3>1, <3>2 DEF Typed, WorkersTyped, AllWatched, PerWorker
  <2>2. CASE Interrupt(w) \/ SaveDecision(w) \/ SaveDecisionFails(w)
    BY <2>2 DEF Interrupt, SaveDecision, SaveDecisionFails, Saved
  <2> QED
    BY <2>1, <2>2
<1>5. /\ pc'[w] = s /\ pc' = [pc EXCEPT ![w] = pc'[w]]
      /\ job' = [job EXCEPT ![w] = job'[w]]
  BY <1>1, <1>3, <1>4 DEF WorkersTyped, PerWorker
<1> QED
  BY <1>1, <1>2, <1>4, <1>5, UnwatchedStay DEF Running

LEMMA WorkerWatches ==
    ASSUME AllWatched, Typed, IInv, NEW w \in Workers,
           Worker(w)
    PROVE  AllWatched'
<1>1. CASE evaluate(w) \/ runEvaluate(w) \/ NextReassessment(w)
  <2>1. PICK p, r : Begin(w, p, r)
    BY <1>1 DEF evaluate, runEvaluate, NextReassessment
  <2>2. UNCHANGED store
    BY <1>1 DEF evaluate, runEvaluate, NextReassessment
  <2> QED
    BY <2>1, <2>2, BeginWatches
<1>2. CASE CheckRevoked(w) \/ CheckQuarantined(w)
  BY <1>2, CheckWatches
<1>3. CASE CountTotal(w) \/ CountDenied(w)
  BY <1>3, CountWatches
<1>4. CASE \/ runReassess(w) \/ EndReassess(w) \/ Interrupt(w)
           \/ SaveDecision(w) \/ SaveDecisionFails(w)
  BY <1>4, EndWatches
<1> QED
  BY <1>1, <1>2, <1>3, <1>4 DEF Worker, Arrive, Continue

(* A change of the blocks.                                                 *)
LEMMA StillWatched ==
    ASSUME AllWatched, Typed, StillBlocked(revocations', quarantines', rewriting'),
           UNCHANGED <<pc, job>>
    PROVE  AllWatched'
<1>1. PerWorker(blocks)'
  BY DEF StillBlocked, PerWorker
<1>2. ASSUME NEW w \in Workers PROVE Watched(w)'
  <2>1. Watched(w) /\ WorkerOK(w, pc[w], job[w], queue[w])
    BY Same DEF AllWatched, Typed
  <2>2. blocks'[w] = IF job[w] = NoJob THEN {}
                     ELSE blocks[w] \cap Blocks(w, revocations', quarantines', rewriting',
                                                job[w].request)
    BY DEF StillBlocked
  <2>3. CASE pc[w] \in Running
    <3>1. job[w] # NoJob
      BY <2>1, <2>3 DEF WorkerOK
    <3> QED
      BY <2>1, <2>2, <2>3, <3>1 DEF Watched, Decided
  <2>4. CASE pc[w] \notin Running
    <3>1. blocks'[w] = {}
      BY <2>1, <2>2, <2>4 DEF Watched
    <3> QED
      BY <2>4, <3>1 DEF Watched, Decided
  <2> QED
    BY <2>3, <2>4
<1> QED
  BY <1>1, <1>2 DEF AllWatched

(* An Unquarantine that reads the file or appends to it loses nothing of   *)
(* what is on file or in hand.                                             *)
LEMMA KeptGrows ==
    ASSUME Typed, NEW h \in Homes, NEW s, NEW rest, Rewrite(h, s, rest),
           quarantines \subseteq quarantines', rewriting[h].left \subseteq quarantines' \cup rest,
           NEW H \in SUBSET Homes
    PROVE  quarantines \cup Kept(rewriting, H) \subseteq quarantines' \cup Kept(rewriting', H)
<1>1. /\ rewriting'[h].left = rest
      /\ \A g \in Homes \ {h} : rewriting'[g] = rewriting[g]
  BY DEF Typed, BlocksTyped, Rewrite
<1>2. ASSUME NEW g \in H, NEW q \in rewriting[g].left
      PROVE  q \in quarantines' \cup Kept(rewriting', H)
  <2>1. CASE g = h
    <3>1. q \in quarantines' \/ q \in rewriting'[g].left
      BY <1>1, <1>2, <2>1
    <3> QED
      BY <3>1 DEF Kept
  <2>2. CASE g # h
    <3>1. q \in rewriting'[g].left
      BY <1>1, <1>2, <2>2
    <3> QED
      BY <3>1 DEF Kept
  <2> QED
    BY <2>1, <2>2
<1> QED
  BY <1>2 DEF Kept

LEMMA GrownWatched ==
    ASSUME AllWatched, NEW h \in Homes, Typed, NEW s, NEW rest, Rewrite(h, s, rest),
           quarantines \subseteq quarantines', rewriting[h].left \subseteq quarantines' \cup rest,
           UNCHANGED <<pc, job, blocks, revocations>>
    PROVE  AllWatched'
<1>1. ASSUME NEW w \in Workers, NEW r
      PROVE  Blocks(w, revocations, quarantines, rewriting, r)
             \subseteq Blocks(w, revocations, quarantines', rewriting', r)
  <2>1. Own(w) \in SUBSET Homes
    BY GateAssumption DEF Own
  <2>2. /\ quarantines \cup Kept(rewriting, Own(w))
           \subseteq quarantines' \cup Kept(rewriting', Own(w))
        /\ quarantines \cup Kept(rewriting, Homes)
           \subseteq quarantines' \cup Kept(rewriting', Homes)
    BY <2>1, KeptGrows
  <2> QED
    BY <2>2 DEF Blocks
<1>2. ASSUME NEW w \in Workers PROVE Watched(w)'
  <2>1. Watched(w)
    BY DEF AllWatched
  <2>2. pc[w] \in Running
        => blocks[w] \subseteq Blocks(w, revocations, quarantines', rewriting', job[w].request)
    BY <1>1, <2>1 DEF Watched
  <2> QED
    BY <2>1, <2>2 DEF Watched, Decided
<1> QED
  BY <1>2 DEF AllWatched, PerWorker

LEMMA RewritingWatched ==
    ASSUME AllWatched, Typed, NEW h \in Homes, Rewriting(h)
    PROVE  AllWatched'
<1>1. CASE Unquarantine(h)
  <2>1. PICK key : Rewrite(h, "remove", {q \in quarantines : key \notin {q.id, q.digest}})
    BY <1>1 DEF Unquarantine
  <2>2. rewriting[h].left = {}
    BY <1>1 DEF Unquarantine, Typed, BlocksTyped
  <2>3. UNCHANGED <<pc, job, blocks, revocations, quarantines>>
    BY <1>1 DEF Unquarantine, Idle
  <2> QED
    BY <2>1, <2>2, <2>3, GrownWatched
<1>2. CASE AppendRemaining(h)
  <2>1. PICK q \in rewriting[h].left :
           /\ quarantines' = quarantines \cup {q}
           /\ Rewrite(h, IF rewriting[h].left \ {q} = {} THEN "idle" ELSE "append",
                      rewriting[h].left \ {q})
    BY <1>2 DEF AppendRemaining
  <2>2. UNCHANGED <<pc, job, blocks, revocations>>
    BY <1>2 DEF AppendRemaining, Idle
  <2>3. /\ quarantines \subseteq quarantines'
        /\ rewriting[h].left \subseteq quarantines' \cup (rewriting[h].left \ {q})
    BY <2>1
  <2> QED
    BY <2>1, <2>2, <2>3, GrownWatched
<1>3. CASE RemoveQuarantines(h) \/ CutShort(h)
  <2>1. /\ StillBlocked(revocations', quarantines', rewriting')
        /\ UNCHANGED <<pc, job>>
    BY <1>3 DEF RemoveQuarantines, CutShort, Idle, StillBlocked
  <2> QED
    BY <2>1, StillWatched
<1> QED
  BY <1>1, <1>2, <1>3 DEF Rewriting

(* A restart of the server is a restart of its Unquarantine; the commands  *)
(* go on.                                                                  *)
LEMMA RestartWatched == ASSUME AllWatched, Typed, Restart PROVE AllWatched'
<1>1. /\ pc' = [w \in Workers |-> IF Role[w] = "serve" THEN "idle" ELSE pc[w]]
      /\ job' = [w \in Workers |-> IF Role[w] = "serve" THEN NoJob ELSE job[w]]
      /\ blocks' = [w \in Workers |->
                       IF Role[w] = "serve" \/ job[w] = NoJob THEN {}
                       ELSE blocks[w] \cap Blocks(w, revocations, quarantines, rewriting',
                                                  job[w].request)]
      /\ UNCHANGED <<revocations, quarantines>>
  BY DEF Restart
<1>2. ASSUME NEW w \in Workers PROVE Watched(w)'
  <2>1. Watched(w) /\ WorkerOK(w, pc[w], job[w], queue[w])
    BY Same DEF AllWatched, Typed
  <2>2. CASE Role[w] = "serve"
    <3>1. pc'[w] = "idle" /\ blocks'[w] = {}
      BY <1>1, <2>2
    <3> QED
      BY <3>1 DEF Watched, Decided, Running
  <2>3. CASE Role[w] # "serve" /\ job[w] = NoJob
    <3>1. pc'[w] = pc[w] /\ blocks'[w] = {} /\ pc[w] \notin Running
      BY <1>1, <2>1, <2>3 DEF WorkerOK
    <3> QED
      BY <3>1 DEF Watched, Decided
  <2>4. CASE Role[w] # "serve" /\ job[w] # NoJob
    <3>1. /\ pc'[w] = pc[w] /\ job'[w] = job[w] /\ pc[w] \in Running
          /\ blocks'[w] = blocks[w] \cap Blocks(w, revocations, quarantines, rewriting',
                                               job[w].request)
      BY <1>1, <2>1, <2>4 DEF WorkerOK
    <3> QED
      BY <1>1, <2>1, <3>1 DEF Watched, Decided
  <2> QED
    BY <2>2, <2>3, <2>4
<1> QED
  BY <1>1, <1>2 DEF AllWatched, PerWorker

LEMMA Next_Watched == AllWatched /\ Typed /\ IInv /\ [Next]_vars => AllWatched'
<1> SUFFICES ASSUME AllWatched, Typed, IInv, [Next]_vars PROVE AllWatched'
  OBVIOUS
<1>1. CASE Revoke \/ Quarantine
  <2>1. StillBlocked(revocations', quarantines', rewriting') /\ UNCHANGED <<pc, job>>
    BY <1>1 DEF Revoke, Quarantine, Idle, StillBlocked
  <2> QED
    BY <2>1, StillWatched
<1>2. CASE Promote \/ Tick \/ UNCHANGED vars
  <2>1. UNCHANGED <<pc, job, blocks, revocations, quarantines, rewriting>>
    BY <1>2 DEF Promote, Idle, Tick, vars, store
  <2> QED
    BY <2>1 DEF AllWatched, PerWorker, Watched, Decided
<1>3. Shared => AllWatched'
  BY <1>1, <1>2, RewritingWatched DEF Shared
<1> QED
  BY <1>3, RestartWatched, WorkerWatches, Steps

LEMMA AlwaysTyped == Spec => [](Typed /\ AllWatched)
<1> QED
  BY Init_IInv, Next_IInv, Init_Typed, Next_Typed, Init_Watched, Next_Watched, PTL DEF Spec

(* Every variable of the server and its store has its type; what is        *)
(* promoted is a digest, though a request may name anything and its        *)
(* decision is logged all the same (server.go, PostEvaluate).              *)
THEOREM GateTypes == Spec => []TypeOK
<1>1. Typed /\ AllWatched => TypeOK
  <2> SUFFICES ASSUME Typed, AllWatched PROVE TypeOK
    OBVIOUS
  <2>1. pc \in [Workers -> Running \cup {"idle", "next"}]
    BY DEF Typed, WorkersTyped, WorkerOK, PerWorker
  <2>2. ASSUME NEW w \in Workers
        PROVE  /\ job[w] \in Jobs \cup {NoJob}
               /\ job[w] # NoJob <=> pc[w] \in Running
               /\ queue[w] # NoJob <=> Role[w] = "reassess" /\ pc[w] # "idle"
               /\ queue[w] \in Queues \cup {NoJob}
               /\ blocks[w] \subseteq {"revocation", "quarantine", "held"}
    BY DEF Typed, WorkersTyped, WorkerOK, AllWatched, Watched
  <2> QED
    BY <2>1, <2>2 DEF TypeOK, Typed, ServerTyped, StoreTyped, BlocksTyped, NumbersTyped
<1> QED
  BY AlwaysTyped, <1>1, PTL

(* evaluator.go "FAIL CLOSED": an evaluation that ends in ALLOW had an     *)
(* answer from both lookups, and from its beginning to its end there was a *)
(* moment at which no revocation named its environment, and one at which   *)
(* no quarantine applied to it, on file or in the hands of an Unquarantine *)
(* of its own process: whatever other workers, callers and processes did   *)
(* meanwhile.                                                              *)
THEOREM TimelyTheorem == Spec => []AllowIsTimely
<1>1. Typed /\ AllWatched => AllowIsTimely
  <2> SUFFICES ASSUME Typed, AllWatched, NEW w \in Workers, Allowed(w)
               PROVE  /\ blocks[w] \cap {"revocation", "quarantine"} = {}
                      /\ job[w].revoked = "no" /\ job[w].quarantined = "no"
    BY DEF AllowIsTimely
  <2>1. WorkerOK(w, pc[w], job[w], queue[w]) /\ Watched(w)
    BY Same DEF Typed, AllWatched
  <2>2. job[w].revoked = "no" /\ job[w].quarantined = "no"
    BY <2>1 DEF WorkerOK, Allowed, Decided
  <2>3. "revocation" \notin blocks[w] /\ "quarantine" \notin blocks[w]
    BY <2>1, <2>2 DEF Watched, Allowed, Decided, Running
  <2> QED
    BY <2>2, <2>3
<1> QED
  BY AlwaysTyped, <1>1, PTL
=============================================================================
