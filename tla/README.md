# A TLA+ model of skgate

skgate decides whether an agent skill may be installed, and keeps the record of
those decisions.  This directory holds TLA+ modules that model its own logic (the
Go code under `cmd/` and `internal/`), TLC configurations that check them on
small instances, and TLAPS proofs of the main results for every value of the
constants.  The skills, prompts and catalogues that make up the rest of the
repository are data that the program does not interpret.

## The system

| component | code | state | operations | modelled by |
|---|---|---|---|---|
| file store | `internal/store/file.go` | four NDJSON files, one `sync.RWMutex` per process | SaveDecision, Promote, Revoke, Quarantine, Unquarantine, Backup, Restore, IsRevoked, IsQuarantined, listings | `FileStore` |
| SQL store | `internal/store/postgres.go` | four tables | the same | `SQLStore` |
| migrations | `internal/store/migrations.go` | the schema and `schema_migrations` | Migrate, run by every process that opens the database | `Migrations`, as a part of `SQLStore` |
| admission evaluator | `internal/admission` | none | Evaluate | `Admission`, `AdmissionOrder` |
| policy, versions, digests | `internal/policy`, `semver`, `digest` | none | Validate, Compare, ValidateSHA256 | parts of `Admission` |
| attestation, trust roots | `internal/crypto/attestation`, `internal/trust` | certificate pools, filled once | VerifySigstore, VerifyDSSE, VerifyGitHubAttestation, LoadFromDir | `Attestation` |
| authentication | `internal/auth` | API tokens, an HMAC secret, RSA keys by kid; a JWKS key set | RegisterAPIToken, RegisterRSAPublicKey, WithJWKS, Authenticate, ParseJWT, HasPermission, ValidateReadiness; ParseJWKS, SetKey | `Auth`, `AuthServer` |
| HTTP server | `internal/api/server.go` | the policy, an authenticator, two atomic counters, a store | evaluate, promote, revoke, quarantine, unquarantine, listings, metrics, readyz | `Gate`; requireRole and readyz in `Auth` |
| command line | `cmd/skgate/main.go` | none of its own; a store, a backup file | the same, and reassess, backup, restore, serve | `Gate`; backup and restore in the stores |
| decision signing, storage selection | `internal/crypto/signing`, `internal/store/factory.go` | none | HMAC, a switch on a name | no |

The server holds one store and serves each request on a goroutine of its own.
Every command is a process of its own that opens the same data directory, so
the same files are written by several processes, each with a mutex the others
do not see.  An evaluation calls the store twice while it runs (revocations,
then quarantines) and once more to save its decision; a promotion is a single
call that reads three files and writes a fourth.  Nothing is called back and
no messages are exchanged: the components meet in the store.  Every handler
stands behind `requireRole`; the commands do what the handlers do and ask nobody.

What is hard here, and therefore what the properties are about:

* **Interleaving.**  A promotion's checks against a revocation, an evaluation's
  two lookups against everything else, two counters, several processes on one
  directory.
* **Crashes and failing calls.**  An operation is many system calls, and each can
  fail, be the last one before a kill, or be undone by a power failure.
  Unquarantine and Restore delete before they rewrite, and a file that is missing
  reads as one without records.
* **Fail closed.**  A file that no longer reads, a lookup that returns an error, a
  record longer than the reader's buffer: the answer must be the strict one.
* **Order of checks.**  The evaluator reaches its outcome by some fifteen
  adjustments in a fixed order.
* **Clocks and keys that change.**  The server's clock is not the token issuer's,
  keys are rotated while tokens are out, certificates run out while an
  evaluation is under way, a server is replaced by one with another policy or
  without a token.
* **Starting at the same time.**  Several processes migrate one database, each
  may be killed half way, and the next one has to make sense of what is there.

`PROJECT.json` lists each hazard at its line with the properties that would
catch it, or the reason none does yet.

## The modules

**`GovernanceRecords`** has the four kinds of record (`internal/store/models.go`,
`internal/audit/store.go`) reduced to the fields the code compares: ids, digest,
environment, outcome, expiry.  `AnyEnv` is the empty environment string.
`AppliesTo`, `Supports` and `Expired` are the three tests the stores share.

**`FileStore`** is `file.go`.  Its threads are the goroutines of a server or whole
command invocations; `Home` gives each its process, and threads with the same
home share a mutex.  An operation begins with an action of its own name that
takes the lock and reads the first file.  After that there is one action per
effect that another process could observe or a fault could separate:
`PromoteCheckRevocations` and `PromoteCheckQuarantines`, the four reads of
`Backup`, and for every updated record `OpenFile`, `WriteLine`, `Fsync` (or
`RemoveFile`), driven by the list `todo`.

* `files` is the page cache.  A line is a record or `Garbage`.  `unterminated` are
  the files whose last line has no newline, so that the next append runs into
  it; `synced` counts the lines a power failure leaves alone.
* A record in `Oversized` is written without complaint and makes its file
  unreadable, because `bufio.Scanner` refuses lines over 64 KiB
  (`file.go:360`).
* Faults: `IOError` (a system call fails without effect), `ShortWrite` (part of a
  line, or all of it but the newline), `RemoveFails` (the error that `file.go`
  discards), `Crash` (a process is killed), `PowerFail` (every file is cut
  anywhere after its last synced line).
* `runBackup` and `runRestore` of `main.go` are part of the calls Backup and Restore:
  the backup file is truncated and then written, and it is read before the
  store is opened.
* `owed` is a history variable: the records whose call was answered with success
  and that nobody has withdrawn since.

**`AtomicStore`** is what the Store interface promises: four lists, each
operation one step.  **`FileStoreRefinement`** maps a `FileStore` to it.  A call takes
its abstract effect when it enters the critical section, and the abstract
lists are the files with all updates under way applied to them.

**`Attestation`** is `internal/crypto/attestation` with the pools of `internal/trust`: the
three verifications as functions of the payload, the trust roots and the
clock, and `matchIdentity` with its patterns.  A payload says who signed it, over
what, and what its certificate holds; cryptography and encodings are left out.

**`Admission`** is `evaluator.go`: the reasons in the order of the code, the choice between
the payloads a request may bring, and `Evaluate` as a fold of deny, review and
reassess over the reasons.  **`AdmissionOrder`** makes a state machine of it: one
artifact whose evidence worsens, whose certificates expire, whose policy gets
stricter or whose trust roots are removed, and whose lookups start to say yes or
to fail.

**`Auth`** is `internal/auth` as operators: `Authenticate`, `ParseJWT`, `HasPermission`,
`ParseJWKS`, readiness, and `requireRole` of `server.go` on top.  A JWT names the key that
signed it.  Where Go iterates over a map of keys, the result is a set of
outcomes.  `Plus` is the int64 addition of a lifetime and the leeway.  **`AuthServer`**
is one server over time: requests come, keys and tokens are registered, a key
set is fetched and taken over, the server is started again with another
configuration, and its clock is off from the issuer's by up to `MaxSkew`.  `runServe`
calls `NewAuthenticator` only; the other operations are those the package offers
and its tests call.

**`Gate`** composes `Admission` and `Auth` with the file store: the handlers of `server.go` behind
`requireRole`, and the commands of `main.go` that change the store.  A handler and its
command share one definition (`promote` is `Promote` behind `Served`, `runPromote` is `Promote`
alone).  A worker passes through the two lookups, the two counters and the save, and
everything else can happen between any two of them.  The server may end at any time
and be started again with another policy and with or without a token.

* Of the calls of the store all but one are single steps, which may fail.  Within the
  server its mutex makes them so; a revocation or a quarantine of another process is
  one append.  What becomes of a promotion between the steps of another process is
  the subject of `FileStore` and the `replicas` run, and not of `Gate`.
* The exception is `Unquarantine`, which every process in `Homes` may run: it reads the
  file, `RemoveQuarantines` removes it, `AppendRemaining` writes one record back, and
  `CutShort` is a failing append or a kill.  `rewriting` holds, per process, the records
  it has yet to write.  While the server's own Unquarantine is under way the server's
  other calls wait (`Locked`); a command's holds up nobody.
* `IsRevoked` is the file store's.  `blocks` is a history variable: the kinds of block that
  have been in force ever since an evaluation began.  Revocations without an
  environment, which `IsRevoked` does not see and `Promote` does, are no such kind; they
  are what the `global_revocation` run is about.
* `Serve` passes the token and no secret, as `runServe` does, and leaves out the issuer and
  the audience, which are only compared for JWTs: without a key no JWT gets that far.

**`Migrations`** is `NewSQLStore` and `Migrate`, statement by statement: count, create,
record, commit, for processes that start at once.  A failed statement aborts its
transaction, as PostgreSQL does, and a `CREATE TABLE` waits for a transaction that
is creating the same table.

**`SQLStore`** is `postgres.go` at READ COMMITTED, PostgreSQL's default, on a database that
every client migrates as it opens it (it EXTENDS `Migrations`).  A statement is a
step and commits by itself; only Restore opens a transaction, whose deleted
rows are the set `gone` until it ends.  A DELETE chooses its rows and then waits
for those another transaction has deleted, an INSERT waits for a key another
transaction holds; a Restore that meets a taken key fails and rolls back.  A row is a
record with its primary key: callers of promote, revoke and quarantine may choose the
id (`server.go:153`, `postgres.go:114`), so a key may be taken in each of these tables; that
of a decision is drawn by `Evaluate`, and taken only if the package is called with one
twice or a backup brings it back.  The
INSERTs of one table are one step, since nobody sees them before the commit.
One client at most restores (`SQLStoreAssumption`, which also keeps the ids of revocations and
quarantines apart, as two tables do): with two, the database's deadlock
detector would have to be modelled.

The theorems are in **`FileStoreProofs`** (types), **`FileStoreSafety`** (what holds of any
number of processes and under faults), **`FileStoreAtomicity`** (one process without
faults, with the refinement), **`EvaluateProofs`** (the fold of `Evaluate`), **`AdmissionProofs`**,
**`GateProofs`**, **`SQLStoreProofs`** and **`AuthProofs`**.
**`MC*`** modules give the constants their values.

A definition whose comment begins with "Mutant" is a plausible defect of the
definition after it, kept so that each property can be shown to notice one.

### Abstractions worth knowing

* Reading one file is one step.  Readers of one process are excluded from
  writers by the mutex; between processes a reader might see half a line,
  which would fail its call as an unreadable file does.
* The directory entry of a file is durable when the file is synced; the code
  does not sync the directory.
* The cut of a power failure inside a line that an append glued to an earlier one
  leaves the same `Garbage` line.
* `GetDecisions`, `GetPromotions`, `Ping` and the listings read and change nothing.
  They are not actions; where another operation calls them they are part of it.
* Evaluation requests and promotions name an environment; revocations,
  quarantines and approvals may leave it empty.
* A request that `requireRole` refuses changes nothing; in `Gate` it is no step.
* The keys of a JWKS document that are not readable RSA keys are one thing,
  `readable = FALSE`.  A static token and a JWT never look alike.
* The Verifier that `admission.New` makes has empty pools and nothing fills them, so
  `Gate` evaluates with `NewTrustRoots`; `AdmissionOrder` gives it roots.
* The RuntimePolicy that comes with a decision is left out; nothing in the
  repository reads it back.
* Time is a small counter.  A decision's lifetime of 24 hours is `Lifetime`.

## The runs

| run | instance | what it shows |
|---|---|---|
| `core` | one process, three threads that contend for one mutex, four calls of every operation, no faults | The store is atomic (`ImplementsAtomicStore`): a query, a backup or a promotion never sees a file half rewritten.  `MutualExclusion`, `PromotionIsAdmissible`, `NothingOwedIsLost`, `NotQuarantinedIsSound`; a backup is closed under the decisions its promotions rest on; a restore reproduces it line by line; and every call returns (`CallsReturn`). |
| `faults` | a server with two threads and a command beside it, each process with a mutex of its own; four calls, two faults, a revocation too long to read back | Acknowledged decisions, promotions and revocations survive every fault, or their file is unreadable and every check that reads it fails; they also survive a second process without a common lock.  No promotion goes past an acknowledged revocation, and a "not revoked" is sound for the environment asked about.  The command saves, looks up, releases and backs up; it neither blocks nor promotes, since between processes a promotion can pass a revocation (the `replicas` run). |
| `admission_order` | two artifacts that start admitted and one that starts for review, with certificates of two authorities, three changes, four instants | The fold gives the decision the README's decision model names; no worsening (of evidence, attestations, policy, trust roots, store or age) makes a decision more favourable. |
| `auth` | the server as `serve` starts it, with and without a token, in production and not, and one with an HMAC secret; three changes, four instants, a clock off by one either way, a leeway of one | Whoever is served has a live credential whose role covers the endpoint.  Nobody is refused a credential that the issuer's clock says is alive and whose key is installed.  In production /readyz says ready exactly when there is somebody the server would not turn away.  A rotation leaves the tokens of the keys it does not republish as they were. |
| `sql` | two replicas and an operator that open and migrate a database with one of the two migrations done, or none; five calls, promotions and revocations with an id the caller chose, one failing statement or killed client | Who got a store finds all tables.  In each table a key occurs once.  Without any lock a promotion is still stopped by a revocation or quarantine that is in force throughout the call, and keeps its decision; a backup, though no snapshot, lacks no permanent record from before it; Restore is all or nothing. |
| `gate` | two handlers of a production server with or without a token, an evaluate and a reassess command, an Unquarantine in the server and in a command, two quarantines, three calls, one fault, two policies | An ALLOW is never based on a lookup that failed, nor on an artifact whose environment was named by a revocation, or which was quarantined, during the whole evaluation, where a quarantine that the same process is about to write back counts as in force; what was answered is on record, and the metrics cover it; every promotion rests on the first decision of its id. |

Six runs end in a violation.  Each states what a document of the repository says
and shows a behaviour of the code that differs:

| run | the document | the code |
|---|---|---|
| `global_revocation` | `README.md:30`, revocations are "fail-closed across environments" | `GetRevocations(env)` drops records with an empty environment before `IsRevoked` looks for them |
| `crash_unquarantine` | `README.md:28`, "fsync-backed NDJSON audit files" | `Unquarantine` deletes the file and writes the rest back record by record |
| `replicas` | `README.md:31`, "verified multi-replica consistency" | the check of a promotion and its write are under a lock only one process has |
| `gate_rewrite` | `PRODUCTION_READINESS.md:10`, "Fail-Closed Revocation & Quarantine", and `README.md:31`, "verified multi-replica consistency" | while a command's `Unquarantine` has removed the file and not yet written the rest back, a server's `IsQuarantined` finds no file and answers no (`file.go:254`, `file.go:351`); an artifact that was quarantined all along gets an ALLOW, without any fault |
| `gate_policy` | `PRODUCTION_READINESS.md:11`, a decision "for the exact digest, environment, and policy" | `Promote` does not look at the decision's policy |
| `empty_database` | `README.md:28`, "PostgreSQL database persistence with embedded SQL schema migrations" | the first query reads a table that does not exist, which aborts the transaction that would create it (`migrations.go:88`); each process that tries fails, and the next one finds the database as empty |

### Bounds

`MaxCalls`, `MaxFaults`, `MaxTime`, `MaxChanges`, `MaxSkew`, `MaxInt` and `MaxVersion` are the
only bounds; they stand in guards or in the sets the data is drawn from, and each is
a constant.

* **File store.**  The interesting cases need one record of each kind, a second
  quarantine (so that Unquarantine has something to write back) and at most three
  threads: a writer between the two halves of another call, and somebody who
  observes it.  Four calls hold a decision, a promotion, a backup and its restore;
  two quarantines, a release and a query; or a decision, a promotion, a revocation
  and one more (188,000 states).  Two faults are needed for the worst case of an
  append: a short write, then a power failure.  The clock has two values, before
  and after a decision expires.  `faults` has about 2.6 million states.
* **SQL store.**  Five calls let a quarantine, a backup, a release, a restore and a
  quarantine with a key of the backup meet, with the statements of three opening
  processes in between (1.9 million states).  The empty database is among the
  starting points so that a fault there is covered too; nobody gets past it.
* **Gate.**  Three calls are enough for an evaluation, a quarantine and its release
  in between, a quarantine and the release of another one while an evaluation asks,
  or an evaluation, a restart with another policy and a promotion (1.9 million
  states).  Two quarantines are what it takes for an Unquarantine to write one back.
* **Admission.**  Three changes cover every pair of findings and a third that comes
  between them; the versions 0.0.0 to 1.1.1 include pairs whose fields disagree
  (341,000 states).
* **Auth.**  Two keys, two kids, and three changes: install, rotate, install again.
  `MaxInt` is small enough that a token's lifetime is the largest int64, where adding
  the leeway wraps around (507,000 states).

All runs that pass check deadlock; `Finished` is the state in which the bound on
calls is used up and everybody is done.  Only the goroutines of the server are
interchangeable, and only in `Gate`, where no liveness is checked: `SYMMETRY` is used
there and nowhere else.

### Fairness

`CallsReturn` assumes strong fairness of taking the mutex, because a Go RWMutex does
not let a waiter starve (a blocked `Lock` keeps later readers out, and the readers
that were waiting go first when it unlocks), and weak fairness of every step
inside the critical section, because a runnable goroutine is scheduled and
system calls on files return.  No fairness is assumed of callers, of faults or
of the clock, and the run has no faults.

`StoreOpens` is asked under `OpeningSpec`: weak fairness of every process's opening.  It
grants the code more than it does by itself: whoever runs the process starts it again
each time it ended with an error.  From an empty database the property fails all the same
(`empty_database`).

## The proofs

Every theorem holds for arbitrary sets of threads, processes, clients, workers,
records, keys, policies and requests, and arbitrary bounds.  The constants are
assumed to have their types (`RecordsAssumption`, `FileStoreAssumption`,
`AttestationAssumption`, `AdmissionAssumption`, `AdmissionOrderAssumption`, `AuthAssumption`,
`AuthServerAssumption`, `MigrationsAssumption`, `SQLStoreAssumption`, `GateAssumption`), and markers for
"nothing" to be none of the things they stand in for (`AbsentAssumption`, `NoJobAssumption`,
`OtherRoleAssumption`; `RefinementAssumption`: `Garbage` is no set of records).  Three go beyond that:
the server's clock is off by at most the leeway (`AuthServerAssumption`), one client at most
restores (`SQLStoreAssumption`), and there are finitely many workers (`GateAssumption`).

Some theorems have hypotheses of their own, each an instance that a run checks:

* `SingleProcess`: all threads have one home, as in a deployment with one server and no
  commands beside it.  Without it a promotion passes a revocation (`replicas`).
* `NoRestore`: nobody restores a backup, which replaces records by intention.
* `NoFaults`: `MaxFaults = 0`.  With faults an Unquarantine loses records
  (`crash_unquarantine`), so the store is not atomic.
* `NoOversized`: no record is longer than the reader's buffer.  With one, a call that
  was acknowledged makes every later call fail, which `AtomicStore` does not describe.
* `AllCallers`: any request may arrive, and a JWT can name some key.  `ReadyIffServable` says that
  somebody could be served; it has to be possible for him to call.
* `Issued`: no certificate of the request one starts with is from the future.  Such a
  certificate becomes valid as time passes, and the decision better.

### File store

| theorem | statement | argument |
|---|---|---|
| `TypeCorrect` | `Spec => []TypeOK` | `TypeOK` is inductive.  Besides types it says that a thread has updates left exactly while it is in a step of an update, that it is in a step of its own operation only, and that no incomplete line counts as synced; without these the heads of `todo` and the cuts of a power failure would have no type. |
| `Exclusion` | `Spec => []MutualExclusion` | Inductive with `TypeOK`.  Every action is classified once by how it moves its thread: it stays outside, stays inside, leaves, or enters past the lock; the invariant is then preserved by the kind of move. |
| `PromotionsAreAdmissible` | `SingleProcess`: `Spec => []PromotionIsAdmissible` | The invariant `PromotionsChecked` says of each stage of a promotion what has been established so far (the decision, then the revocations, then the quarantines) and is kept because no other thread of the process can be writing. |
| `Durability` | `NoRestore`: `Spec => []AppendOnlyFilesKeepTheirRecords` | `Durable`: every owed record of an append-only file is among its synced lines, or the file holds, among the synced lines, one that makes it unreadable; and no thread intends to remove such a file.  A fault keeps a prefix that contains the synced lines, and an append changes only the last line, and that only when it is unterminated and so not counted as synced.  Any number of processes. |
| `NoPromotionGoesPastRevocation` | `SingleProcess`, `NoRestore`: `Spec => []NoPromotionPastRevocation` | From the two before it: an admitted promotion has read the whole file, so the file was readable and held every owed revocation, and nobody has written since. |
| `NegativeRevocationAnswersAreSound` | `NoRestore`: `Spec => NotRevokedIsSound` | Only `IsRevoked` answers "no", and only on a file that reads (`Unanswered`: a call under way has no answer yet); by `Durable` such a file holds every owed revocation.  Any number of processes, any faults. |
| `UpdatesAreAtomic` | `SingleProcess`, `NoFaults`: `Spec => []AtomicInv` | `AtomicInv` speaks of `Effective(k)`: file `k` with the updates under way applied to it.  A mutex leaves one thread with updates, whose list removes first and appends then (`Ordered`); so the effective records are those its `Planned` list leads to, and each step of the list moves a record from the plan to the file without changing the sum.  The record of an update is effective from its decision on, a restore's are those of its backup, and what a Backup has read so far is what the files hold. |
| `OwedRecordsStay` | same: `Spec => []NothingOwedIsLost` | A part of `AtomicInv`: an update keeps all effective records but those it withdraws. |
| `NegativeQuarantineAnswersAreSound` | same: `Spec => NotQuarantinedIsSound` | With the read lock held nobody has updates left, so the file is what is effective. |
| `Implementation` | and `NoOversized`: `Spec => ImplementsAtomicStore` | Each action is shown to be an action of `AtomicStore` or a stutter under the mapping of `FileStoreRefinement`: an operation takes effect where it decides, every later step of its list is a stutter by the argument above, and the answer is the abstract `Respond`. |
| `BackupsAreClosed` | same: `Spec => []BackupIsClosed` | Proved of `AtomicStore`, where a promotion is only added with its decision and a backup is one state, and carried over by `Implementation`.  Read off the four files directly it would not be inductive: a promotion under way is in no file yet. |
| `RestoresAreExact` | `SingleProcess`, `NoFaults`: `Spec => RestoreIsExact` | A position for every line of the backup in the list of updates: four removals, then kind after kind (`Lays`).  The invariant `Restored` says that after `n` steps a file that was removed holds exactly the lines whose position is at most `n`, in order (`PutBack`), and that the rest of the list is left to do.  The last step has position `Len(plan)`, so every file is complete.  With faults the discarded error of `os.Remove` makes it false. |

### Evaluator

| theorem | statement | argument |
|---|---|---|
| `EvaluateIsTheWorst` | `Evaluate` of any inputs is the worst its reasons call for | One more reason changes the worst decision as `deny`, `review` and `reassess` do.  Induction along the fold is done by a least counterexample: the first prefix on which fold and worst differ. |
| `EveryReasonHasItsCause` | a reason is given exactly if its cause is there | Reason by reason; each is stated once as a predicate of the inputs, so that what follows never looks at sequences again. |
| `TheWorstDecides` | `Spec => []OutcomeIsTheWorst` of `AdmissionOrder` | From the two above and the types of the inputs. |
| `DecisionsNeverLoosen` | `Issued` at the start: `Spec => NeverLoosens` | Every step is shown to keep every cause, or to bring one that calls for DENY (`Hardens`).  Where a worsening takes a reason away (an attestation that is missing no longer has a bad signature) it leaves one that calls for DENY.  Versions are compared field by field; their order is proved transitive. |

`StricterPolicy` starts to require signatures only where there is a trusted identity, as
`Policy.Validate` has it, and never removes the first identity, which is the key of DSSE
envelopes.

### Server, SQL store, authentication

| theorem | statement | argument |
|---|---|---|
| `GateTypes` | `Spec => []TypeOK` of `Gate` | `Typed` and `AllWatched`, inductive together with `IInv` below; that a decision is an outcome comes from `EvaluateIsTheWorst`. |
| `TimelyTheorem` | `Spec => []AllowIsTimely` | `AllWatched`: a block that has been in force since an evaluation began is in force now, and the lookups made so far have seen it.  A lookup of the server finds the mutex free, so that its own Unquarantine keeps nothing back (`NothingKept`) and "not on file" means "not in force"; reading the file and writing records back lose nothing of what is on file or in hand (`KeptGrows`).  By `EveryReasonHasItsCause` an ALLOW has no reason from a lookup.  For a quarantine in the hands of another process the statement is false (`gate_rewrite`). |
| `AnswerTheorem`, `PromotionTheorem` | `Spec => []AnsweredIsOnRecord`, `[]PromotionsRestOnTheRecord` | `Numbered`: an id is drawn once, so that no two workers hold the same and no record has the id of a worker that has yet to save; `OnRecord`: answers and promotions have the first decision of their id.  The lookups, and whatever is revoked meanwhile, do not matter. |
| `MetricsTheorem` | `Spec => []MetricsCoverAnswers` | The two counters are written in separate steps before the answer.  The invariant counts the workers in between: a counter is at least the answers plus the evaluations that are counted and not yet answered.  The cardinalities need the finite set of workers. |
| `TypeTheorem` | `Spec => []TypeOK` of `SQLStore` | `Tidy`: rows are marked deleted only while somebody restores, and what that client has inserted so far clashes in no key of any table with the rows it has not deleted, whatever others write meanwhile; so a key occurs once whichever way the transaction ends.  One restorer at most. |
| `OpenTheorem` | `Spec => []OpenIsMigrated` | `SchemaOK` is inductive on its own: the tables are those on record, a process that is at the second migration has the first behind it, one with a store has both, and nothing that is there goes away. |
| `TimelinessTheorem`, `DecisionTheorem`, `BackupTheorem` | `Spec => []PromotionIsTimely`, `[]PromotionHasItsDecision`, `[]BackupHoldsThePast` | One invariant: a promotion has its decision as long as nobody has restored; and for each client that promotes, deletes or backs up, what it has read so far against the rows that were there when it was called.  A step of another client only adds permanent rows (`Forward`), unless it commits a Restore. |
| `AtomicityTheorem` | `Spec => RestoreIsAtomic` | Action by action: rows leave by an Unquarantine that names them, or all at once when the one Restore commits. |
| `AuthTypes` | `Spec => []TypeOK` of `AuthServer` | `ParseJWKS` is a fold over a set of indices; that it keeps the last readable key of each kid is shown by a least counterexample, as for `Evaluate`. |
| `EntitlementTheorem` | `Spec => []OnlyTheEntitledAreServed` | The invariant says that the clocks are within the skew of each other, that the authenticator has its shape, and that the last answer is one `requireRole` can give to the last request.  The server allows a token the leeway and its clock may be off by the skew, whatever the int64 addition does at its upper end. |
| `NoFalseRefusalsTheorem` | `Spec => []NoFalseRefusals` | The same invariant; each of the checks of `ParseJWT` is taken in turn and shown to pass for a token that is alive, of the installed key, and whose lifetime leaves room for the leeway. |
| `ReadinessTheorem` | `AllCallers`: `Spec => []ReadyIffServable` | From a configuration that is ready a credential is built (a static token, or a JWT signed with the secret or a key) and shown to pass; from one that is not, every kind of credential fails. |
| `RotationTheorem` | `Spec => RotationStrandsNoToken` | Taking over a key set changes only the keys it publishes, so `ParseJWT` finds the same key for any other kid. |

Every invariant and action property that a passing run checks is stated by a
theorem.  Liveness is outside what the prover handles: `CallsReturn` is only model-checked,
and so are the counterexamples, that to `StoreOpens` among them.

## Not modelled

* The choice of the storage engine, a switch on its name.  The build links no SQL
  driver, so the file store is the one a deployment as checked out runs.
* Cryptography, the encodings of tokens, keys, envelopes and certificates; who signed
  what stands for them.  The signing of decisions, for which nothing configures a
  key, and the Rekor and public keys of the trust roots, which nothing consults.
* How long a key that a JWKS document no longer lists should keep working: the code
  never removes one, and no document says that it should.
* Parsing and formatting of policies, requests, tables and JSON, with the errors
  for what does not parse.
* The commands `affected`, `inventory`, `doctor`, `version`, `policy validate` and the listings, which only
  read or print.
* The directory entry of a new file (see above).
* The release scripts, which run at build time.

## What could follow

1. The theorems of one process without faults for several processes as far as they
   hold there, such as what a Restore leaves when another process appends meanwhile.
2. The refinement for a store with records too long to read back: it would need an
   abstract store whose lists can become unreadable.
3. More than one restoring client in `SQLStore`, with the deadlocks PostgreSQL would
   detect between them.
