# Reimbursement system: models, model checking and proofs

TLA+ specifications of the reimbursement system (Go backend, React frontend,
PostgreSQL, Redis, MinIO, asynq worker), the TLC runs that check them on small
instances, and theorems about them that TLAPS proves for every instance.

```
tlc -workers 2 -config claim_interleaved.cfg MCClaimWorkflow.tla   # a run (PROJECT.json lists them)
tlapm ClaimProofs.tla                                              # the proofs of a module
```

## 1. The system

| Component | State it keeps | Operations |
|---|---|---|
| claim workflow (`modules/reimbursements`) | rows of `reimbursements`, `approvals`, `audit_logs` in PostgreSQL | create, update, delete, submit, approve, reject, cancel, pay |
| submit policy and state machine (`statemachine.go`, `workflow.go`) | none: pure rules over rows | transition table, approval tiers, submitter exclusion, monthly limit, receipt rule, duplicate window |
| attachments (`attachments.go`) | rows of `attachments`, objects in MinIO | upload (check, object, row) |
| refresh sessions (`modules/auth`) | `refresh:jti:*` and `refresh:fam:*` in Redis, cookies | login, refresh with rotation, logout, family revocation |
| frontend session handling (`lib/api.ts`, `stores/auth.ts`) | `refreshPromise` per tab, cookies shared by the tabs | refresh on 401, replay, logout |
| report export (`modules/reports`) and worker (`cmd/worker`) | hash `exportjob:*` in Redis, asynq tasks, bucket of CSV files | queue, generate, poll |
| dashboard (`modules/dashboard`) | `dash:*` keys in Redis, 60 s each | summary, monthly trend, category breakdown |
| users, categories (`modules/users`, `modules/categories`) | tables `users`, `categories` | administration: create, patch, reset password, delete category |
| access tokens and role checks | none (a signed token in a cookie) | verify, require role |
| notifications | asynq tasks `email:send` | enqueue after a commit, send by SMTP |
| rate limiter (`middleware/ratelimit.go`) | a token bucket per address, in memory | take a token, evict the idle |
| CSRF protection (`middleware/csrf.go`) | none (a token in a cookie and in a header) | verify |
| pages, health, configuration, migrations, seeds | see `PROJECT.json` | |

How they interact. A handler of the API runs in a goroutine of its own; handlers
meet in PostgreSQL (row locks of `SELECT ... FOR UPDATE`, READ COMMITTED),
in Redis (one command, or one MULTI pipeline, at a time) and in MinIO. The role
a handler acts on comes from the access token, which may be 15 minutes older
than the row of `users`. A commit is followed by a best-effort enqueue to asynq;
the worker, a process of its own, takes tasks from asynq and writes Redis and
MinIO. The tabs of a browser share cookies and nothing else. The dashboard reads
the claims with plain statements and keeps what it read.

What is hard in it:

- checks made before a transaction and relied on inside it or after it (Update,
  Delete, Submit, AddAttachment, the PATCH handlers);
- two requests on one claim, or on two claims that one rule relates;
- roles that change while a claim is pending and tokens that outlive them;
- two commands of one Redis operation with another operation in between;
- two stores written one after the other, with a crash in between (MinIO and
  PostgreSQL; asynq and the job hash; the commit and its mail);
- tasks delivered more than once and retries that run out;
- calls of one tab that share a refresh, are replayed after it, and may be
  answered in any order or not at all;
- a map that forgets clients whose history it should remember;
- figures read by several statements and kept after they became untrue.

What makes each component correct:

- *claim workflow*: a claim's status, `current_step` and steps agree; steps are
  decided in order, once, by a holder of the role who is not the owner; a final
  claim stays as it is; the audit trail tells how the claim got where it is;
  seen from outside, the claim walks the status table of docs/02;
- *submit policy*: the rules of docs/02 hold of every live claim;
- *attachments*: no row without its object, none on a claim that is decided;
- *sessions*: a refresh token is exchanged once, a family has one way on, a
  revocation finds the live token, and ends the login unless a rotation overlaps
  it;
- *exports and mails*: "done" means stored, a poller learns how it ended, every
  task ends, a finished job stays finished, a mail is sent once per attempt;
- *reads and dashboard*: an employee sees own claims only, an answer put together
  from several statements hangs together, and what is kept becomes true again;
- *administration*: no claim without its category, what is deleted stays deleted,
  a new password is not undone, and access follows the account in the end;
- *client*: one refresh at a time, no change made twice, no call that hangs;
- *rate limiter*: no client gets more than its rate by being forgotten.

`PROJECT.json` lists the hazards at their lines with the properties that cover
them, or why none does.

## 2. The modules

| Module | What it is |
|---|---|
| `Decimals` | the exact arithmetic on amounts, on whole and cents |
| `SubmitPolicy` | the pure rules over it: `CanTransition`, `ApprovalChain`, `ExcludeSubmitter`, `NextPending`, `OverMonthlyLimit`, `ReceiptMissing`, `HasDuplicate` |
| `ClaimWorkflow` | the handlers over claims, steps, audit rows, receipts, mails, roles and tokens, interleaved on request slots |
| `ClaimProperties` | what the workflow promises, and the refinement mapping to `ClaimLifecycle` |
| `ClaimLifecycle` | the abstract specification: the life of a claim without requests, users, locks or tables |
| `MCClaimWorkflow` | instances for TLC |
| `RefreshSessions`, `MCRefreshSessions` | Redis sessions, handlers, tabs and the shared cookie |
| `Worker` | API, asynq, the worker's two handlers, job hash, bucket and SMTP server |
| `ClaimReads`, `MCClaimReads` | dashboard, list and detail, composed with `ClaimLifecycle` as the world that changes under them |
| `Administration`, `MCAdministration` | accounts and categories, with the tokens, sessions and claims that depend on them |
| `ApiClient`, `MCApiClient` | the interceptors of one tab, its cookies, CSRF, authentication and the refresh |
| `TokenBucket`, `RateLimiter` | what the rate limit promises, and the map that keeps it |
| `ClaimProofs` | proofs: the arithmetic, sums over finite sets, the policy's operators, the types and the invariant of the workflow, the refinement |
| `RulesProofs` | proofs: what the workflow leaves behind (receipts, mails, audit trail) and the rules of docs/02 |
| `SessionProofs`, `WorkerProofs`, `ReadsProofs`, `AdministrationProofs`, `ClientProofs`, `LimiterProofs` | the proofs of the other components |

**ClaimWorkflow.** A request occupies a slot of `Slots`; `req[p].phase` is the
point its handler has reached. A transaction that begins with `FOR UPDATE`, or
that consists of one statement, is one action, and so is a lone statement or
call to MinIO. `Submit` is four actions: `SubmitRead` (GetDetail and the path
computed from what it read), `SubmitPolicyCheck` (receipts, limit),
`SubmitDuplicateCheck` (duplicates, empty path) and `SubmitCommit` (the
transaction, which looks at the status again and at nothing else). `Update` and
`Delete` are a check and a write, `AddAttachment` a check, an upload and a row.
`Approve`, `Reject`, `Cancel` and `Pay` are one transaction each, followed by
`NotifyEmployee`. `Abort` ends a request between two of its steps: an error, a
closed connection or a dying process; one that ends between the commit and the
mail leaves a claim `Unmailed`, and `Losses` bounds how often a run lets that
happen to a claim. `ChangeRole`, `ExpireTokens` and
`SwitchCategory` are what administrators and time do meanwhile. Data is kept to
what the rules tell apart: an amount is a number of cents with the tiers and the
threshold as constants, compared and added by `Decimals` the way the code does
it; a date is a day number with `MonthOf`.

**RefreshSessions.** One action per Redis command or pipeline: `Consume` is
GETDEL, `Rotate` the pipeline that stores the successor, `ListMembers` and
`DeleteMembers` the two halves of `RevokeFamily`, `KeepSession` and
`DropSession` the cookies of the answer. A tab has at most one call in flight
(`refreshPromise`). With `Faults`, a command fails, a process dies or an answer
is lost at any point (`Fail`), and keys expire (`Expire`). Two history variables
tell which revocations met no rotation: `complete` holds those under way whose
SMEMBERS told all of a family nobody had revoked before, and of which no rotation
has ended since; `ended` the families such a revocation went through with no
rotation under way at its end.

**Worker.** The statements of `QueueExport`, `handleReport` and `handleEmail` in
order. asynq is external: a task is delivered at least once, a failed attempt or
a dead worker counts against `MaxRetry` (`Retry`, `Crash`), a worker that is shut
down gives its task back and that does not count (`Shutdown`), and a task that
ran out of retries is archived. Every write to the hash may be lost (`HSet`),
since no caller looks at its result; the history variable `mishap` marks the
jobs of which something was lost, a worker died, or which the API registered
late, and `PollersLearnTheOutcome` is about the others.

**ClaimReads.** `AskCached` is a hit, `AskLoad` a miss or a failing GET, `AskList`
and `AskDetail` the requests nothing is kept for; `Query` is the next statement
of the load, `Store` the SET and the answer, `ExpireEntry` the end of `cacheTTL`.
A figure is the set of claims it counts, a detail the status of the row and the
steps, read in this order.

**Administration.** A PATCH is `UpdateUserRead` (the row in memory, with the
fields the body names replaced) and `UpdateUserWrite` (role and `is_active` of
that row, never the password); the same for categories. `DeleteCategoryCount`
and `DeleteCategoryRow` are the two statements of the deletion, `ClaimCheck` and
`ClaimInsert` those of a new claim, with the foreign key of
`000004_reimbursements.up.sql` in between. `LoginRead` and `RefreshRead` read the
account, `SignToken` gives out what was read. `Admin` is `AuthN` and
`RequireRole`: they look at the token, never at the table.

**ApiClient.** One action for each thing that happens to a call: `Prepare` (the
request interceptor, which copies the CSRF token), `Transmit` (the browser, which
adds the cookies it has by then), the answer of the API (`Refused`, `Handle`,
`LoginOk`, `LoginWrong`, `Logout`), `Receive` (the response interceptor, which
starts a refresh or joins it) and `Lose`; `RefreshReceive` wakes everybody who
awaited the refresh. The commands of a handler are one step here, and what
overlapping commands may leave behind is an outcome of that step: a revocation
finds the family or misses it (`Revoked`), as when a rotation overlaps it or
SMEMBERS fails, and a refresh that gets no answer may have consumed its token
(`RefreshLose`). What a revocation is worth is therefore stated in
`RefreshSessions`, which has the commands, and not here. The three cookies are
always set and cleared together, so the jar holds the id of the answer that set
them.

**RateLimiter.** Time is in ticks. `Allow` and `TooManyRequests` are a request:
`Get` looks the address up after `Kept` has dropped the idle ones, `Credit` is
what `rate.Limiter` computes. `TokenBucket` has a bucket for each address that is
never forgotten; the refinement maps an address that is not in the map to a full
bucket.

**ClaimLifecycle.** Three functions: status, path (fixed by a submission) and
the positions approved. `ClaimProperties!Lifecycle` maps the tables to them: the
status column, the roles of the steps and the positions whose step is approved,
as they are while the status makes them mean something.

## 3. The runs

| Run | Instance | States | What it shows |
|---|---|---|---|
| `claim_interleaved` | 1 claim of the lower two tiers, 2 slots, 3 users, the owner may become manager, the category may be switched off, 2 submissions, 1 mail that is lost | 327,440 | under every interleaving: `StatusMatchesSteps`, `NoSelfApproval`, `AuditExplainsClaim`, `MailOnlyAfterCommit`, `FinalIsFinal`, `DecisionsStand`, and the refinement `ImplementsLifecycle` |
| `claim_serial` | 2 claims of the lowest and the highest tier, 1 slot, 4 users, one of each role, 2 submissions of each claim, days 1 and 8, amounts 1.01 and 1.99, limit 2.99, one receipt each, uploads that break off | 1,310,500 | with one request at a time the rules of docs/02 hold: tiers, limit, receipts, duplicates, edit window; no receipt row without its object |
| `sessions` | 2 tabs, 2 logins, 4 tokens, all faults | 504,706 | `OneWayOn`, `SingleUse`, `FamilyNamesItsToken`, `LogoutEndsTheLogin`; no deadlock |
| `administration` | the seeded administrator and one account, 1 category, 1 claim, 2 slots | 260,382 | `NoOrphans`, `DeletedStaysDeleted`, `ResetSticks`, and in the end tokens agree with the accounts (`AccessFollowsTheAccount`) |
| `worker` | 1 export, 1 mail, 3 retries, 1 shutdown each, lost writes | 338,682 | `DoneMeansStored`, `PollersLearnTheOutcome`, `MailsAreSentPerAttempt`, and every queued task ends |
| `reads` | 1 claim, 2 requests in flight, 2 roles of one user, summary, list and detail | 469,026 | `OwnClaimsOnly`, `DecidedOnce`, `DetailAgrees`, and old figures do not stay (`Converges`); no deadlock |
| `limiter` | 3 addresses, bursts of 2 every 2 ticks, 7 ticks, idle after 4, a map of 1 | 1,064,432 | `WithinRate`, `OnlyFreshBeyondLimit`, and the map implements `TokenBucket` |
| `client` | one write, login and logout of a tab, with or without a session | 1,355,190 | `SingleFlight`, `ChangesHappenOnce`, `OnlyEndedSessionsFail`, and every call ends |
| `edit_race` | 2 slots | violated | Update or Delete writes after a Submit it did not see |
| `limit_race` | 2 claims, 2 slots | violated | two submissions that overlap pass a limit their sum exceeds |
| `revoke_race` | 2 tabs | violated | a rotation between SMEMBERS and DEL survives the revocation |
| `export_race` | 1 job | violated | "done" overwritten by the "queued" the API writes after enqueueing |

The four violated runs state what docs, or a comment, say of the code; the
findings in `PROJECT.json` quote the line and name the statements involved. The
same property passes where the code does guarantee it: `EditWindow` and
`MonthlyLimitHolds` hold in `claim_serial`, and break only when requests overlap;
of a revocation, `LogoutEndsTheLogin` in `sessions` says what is left of it when
no rotation overlaps.

Every property of a passing run has a mutant: an operator beside the modelled
one that carries a plausible mistake (a check dropped, GET for GETDEL, a row
before its object, a key without the role, SET without a time to live, a carry
that is lost, a replay without its flag), which TLC tells from the code by that
property.

**Bounds.** Two slots are enough for every race of a check with a write, since a
handler relies on what it read itself, and one other request suffices to change
it; a third adds no new kind of pair. One claim is enough for what concerns a
claim and its steps, as no handler of one claim reads the steps of another; two
claims are there where a rule relates claims (limit, duplicates), on days 1 and
8, just inside the window of 7. `MaxSubmits` bounds the rounds:
two show that a round replaces the one before, in `claim_serial` also with a
claim that was edited from the lowest tier to the highest, or back, in between.
Its amounts are 1.01 and 1.99 with tiers that end at 1.01 and 1.98, so that one
amount is exactly on a boundary, and a comparison of the whole parts alone, or a
sum without its carry, is wrong; the tier between them is met in
`claim_interleaved`, and `MatrixRule` proves all three. `Losses` is 1 where a
lost mail matters to a property and 0 elsewhere. `Uploads` bounds receipts. Two logins and four
tokens give a family a rotation of a rotation and a second family beside it.
Three retries are the `asynq.MaxRetry` of the code; one shutdown
(`MaxReturns`) is one delivery that no retry counts. One claim suffices for what
is kept of the figures: those of an employee who does not own it must stay
empty, those of a manager must follow it. In `administration`, `Bodies` bounds
what a PATCH names and `MaxResets` the passwords; two slots are a change and
what it races with. In `limiter`, `MaxTime` lets a client empty its bucket, be
forgotten and come back; three addresses are one beyond `MaxVisitors` and the
newcomer. In `client` each call of `Calls` is made once (and replayed once): a
write and a login or logout that find the token expired together share a
refresh. The theorems of section 4 hold for every value of their bounds.

**Deadlock** is checked for `sessions` and `reads`. The others set
`CHECK_DEADLOCK FALSE` because the bounded system really stops: all claims are
final and submissions and uploads used up, all tasks and calls are finished, the
clock has reached its bound, or nobody is logged in.

**Symmetry**: slots, claims, tabs, families and tokens are symmetric sets in
runs whose properties are invariants and action properties; the runs with
liveness (`administration`, `worker`, `reads`, `client`) use none.

**Fairness.** `ClaimWorkflow`, `RefreshSessions` and `RateLimiter` assume none: a
client may stop at any point, and only safety is claimed. `Worker` assumes weak
fairness of delivery and of the handler it called, because a running asynq
server goes on taking tasks and the handler's calls return; nothing is assumed of
the API, and crashes and shutdowns are bounded by what they use up. `ClaimReads`
assumes weak fairness of a load in progress (the handler goes on, with an answer
or an error) and of the expiry of a key that has a time to live; nobody has to
ask, and no claim has to move. `Administration` assumes it of a running handler,
which ends or is given up, and of the end of an access token; nobody has to log
in. `ApiClient` assumes that something of what is under way goes on: requests
are answered or given up by the browser.

## 4. The proofs

All theorems hold for every value of the constants that meets the named
assumptions, which TLC evaluates in the runs of their modules: `TierAssumption`,
`WindowAssumption`, `UserAssumption`, `DetailsAssumption`, `SlotsAssumption` (a
process serves finitely many requests at a time), `LimitAssumption` (a limit is
an amount), `SessionAssumption`, `WorkerAssumption`, `ReadsAssumption`,
`AdministrationAssumption`, `ClientAssumption` and `LimiterAssumption`. A theorem
that needs more says so in its statement.

| Theorem | Says |
|---|---|
| `ClaimProofs!TypeCorrect` | `Spec => []TypeOK` |
| `ClaimProofs!WorkflowInvariant` | `WorkflowInv` is an invariant |
| `ClaimProofs!StatusAgreesWithSteps`, `OwnersNeverDecide` | status, `current_step` and steps agree; nobody decides on an own claim |
| `ClaimProofs!FinalClaimsStay`, `DecisionsAreFinal` | the action properties `FinalIsFinal` and `DecisionsStand` |
| `ClaimProofs!WorkflowImplementsLifecycle` | the workflow implements `ClaimLifecycle` |
| `RulesProofs!ReceiptRowsHaveObjects`, `MailsFollowCommits`, `AuditTrailExplains` | `ReceiptsAreStored`, `MailOnlyAfterCommit`, `AuditExplainsClaim`, under every interleaving |
| `RulesProofs!LimitRule`, `ReceiptRule`, `DuplicateRule` | rules 2, 3 and 4 of docs/02 (`MonthlyLimitHolds`, `LargeClaimsHaveReceipt`, `NoLiveDuplicates`) while no user has two requests under way; rule 2 also while no category with a limit is switched off |
| `RulesProofs!MatrixRule`, `MatrixOfOwnRole` | under the same condition, and with the tiers in order, the steps are those of the approval matrix for some role the owner may have; and for the owner's role (`ChainCoversAmount`) where roles do not change |
| `RulesProofs!EditsInTheirWindow` | rule 5, the part of `EditWindow` about the details of a claim and its deletion (`DetailsWindow`), while no user has two requests under way |
| `SessionProofs!SessionInvariant`, `OneTokenPerFamily`, `TokensAreSingleUse`, `RevocationFindsTheToken` | the session invariant and its parts, for any number of tabs, logins and tokens |
| `SessionProofs!LogoutEnds` | a login whose family is revoked for the first time, with no rotation overlapping and SMEMBERS answering, is over for good (`LogoutEndsTheLogin`) |
| `ClaimProofs!CompareOrders`, `AddIsSum`, `SubtractIsDifference`, `RemainingIsWhatIsLeft` | the arithmetic on whole and cents is that on amounts, for all amounts |
| `LimiterProofs!LimiterTypeCorrect`, `ClientsKeepTheRate`, `MapStaysSmall` | `WithinRate` and `OnlyFreshBeyondLimit` for every rate, burst and number of addresses |
| `LimiterProofs!LimiterImplementsBucket` | the map that forgets implements one bucket per address |
| `AdministrationProofs!AdministrationTypeCorrect`, `ClaimsKeepTheirCategory`, `DeletionsAreFinal`, `ResetsAreFinal` | the safety properties of `administration`, for any accounts, categories, claims and requests in flight |
| `ClientProofs!ClientTypes`, `OneRefresh`, `ChangesOnce`, `RefreshesFail` | the safety properties of `client`, for any number of calls of any kind and of logins |
| `ReadsProofs!ReadsTypes`, `ReadsInScope`, `RateIsShare`, `DetailsAgree` | the safety properties of `reads`, for any claims, users, roles, requests and paths |
| `WorkerProofs!WorkerInvariant`, `DoneExportsAreStored`, `OutcomesAreShown`, `MailsFollowAttempts` | the safety properties of `worker`, for any number of tasks, retries and shutdowns, with and without crashes |

*WorkflowInv* is `TypeOK`, `StatusMatchesSteps`, `NoSelfApproval`,
`OwnedClaims`, `ChainReady` and `ChainFromMatrix`. The properties are not
inductive alone. `StatusMatchesSteps` says that a submitted claim waits at a
step, so a `SubmitCommit` with an empty path would break it: `ChainReady` says
that a request that has reached its transaction carries a path with a role in
it. `NoSelfApproval` needs `OwnedClaims`, since a freshly made step has no
approver and `NoUser` must not be an owner. `ChainFromMatrix` says where the path
came from, which the refinement needs. The proof has one step per action. It first shows
that most actions touch one claim (`OneClaim`) or one request (`OneRequest`),
then for each operation that the story of that claim is kept (`ApproveKeeps`,
`RejectKeeps`, `SubmitKeeps`, `CancelKeeps`, `PayKeeps`, `CreateKeeps`).
The section on the operators of `SubmitPolicy` supplies what `NextPending`,
`ApprovalChain` and `ExcludeSubmitter` return.

*The refinement.* Initial states map to initial states (`LifecycleInit`), and
under `WorkflowInv` and its next-state version every step maps to a step of
`ClaimLifecycle` or to a stutter (`LifecycleNext`): `SubmitCommit` to `Submit`,
`Approve` to the approval of the position `NextPending` names (`ApprovedSoFar`
shows it is the first not approved), `Reject`, `Cancel`, `Pay` and `Create` to
moves, everything else to a stutter. Deleting a draft is a stutter: it hides
the row without changing its status.

*What the workflow leaves behind.* `ReceiptsAreStored` and `MailOnlyAfterCommit`
count requests in flight, so their proofs count slots (`FewerSlots`: a step that
takes one slot out of a set of them lowers its number by one). `AuditExplainsClaim`
is about the rounds of a log. `HistoryInv` adds `RequesterOwns` to it, since a
`SubmitCommit` writes its audit row in the name of whoever asked, and that has to
be the owner. `LastSubmissionAt` and `RoundIs` say what the log's last round is,
and there is one lemma for what may happen to a trail: `SubmitTrail` opens a
round, `DecisionTrail` adds the decision on the current step, `CancelTrail` and
`PayTrail` close it; `StatusMatchesSteps` says which step is the current one.

*The rules of docs/02* are checked before the transaction and are not checked
again in it. `ChecksHold` says what each phase relies on: a request with `update`
or `submit` before it finds the claim still editable, with the details it read,
its receipts, no live twin. It is an invariant of the runs in which no user has
two requests between check and write (`OneRequestPerUser`), however many users
are served at once, because only the owner's requests change a row that is not
live (`Undisturbed`), and only they make one of his claims live (`NewlyLive`).
Without it they fail: `limit_race` and `edit_race` are two requests of one user,
and nothing in the code keeps a user from making them. `claim_serial` satisfies
the condition, having one slot, so its run is an instance of the theorems.
`EditsInTheirWindow` reads the edit window off `ChecksHold`: the write of an
Update or a Delete finds the status its check found. It does not speak of
receipts, since an approver may decide between the check of an upload and its
row. Two further hypotheses are needed, and neither is
guaranteed by the code. The matrix needs T1 <= T2, which `config.go` does not
check (the defaults are 500000 and 5000000). The limit needs that no category
with a limit is switched off (`LimitsInForce`), since Submit finds no limit on an
inactive category.

*The monthly limit* is a statement about a sum, which the community module
defines by recursion over the subsets of a set. `ClaimProofs` derives what is
needed from that definition without induction: `SmallestSet` gives a smallest
counterexample among the subsets of a finite set, with it `SumsAgree` and
`SumsExist` show that the recursion has exactly one solution, and `SumTakes`,
`SumGrows`, `SumSame` and `SumNat` follow. `LimitInv` says that finitely many
claims are live, that what counts against a limit stays within it, and that a
request past `SubmitPolicyCheck` is within it together with its own claim. A
step either adds nothing to the month of an employee (`SpendsNoMore`), or is the
`SubmitCommit` whose claim was counted.

*SessionInv* is `OneWayOn`, `SingleUse`, `FamilyNamesItsToken`,
`LogoutEndsTheLogin`, `TokensAreIssued`, `RotatedTokenIsSpent` and
`ListsAreComplete`. `RotatedTokenIsSpent` says that a rotation in flight carries a
token that is consumed and has no successor yet, which is what keeps `Rotate`
from giving one token two successors; `TokensAreIssued` that every token a
request, a family or the cookie names has been issued, so that a new one is in
nobody's way. `LogoutEndsTheLogin` rests on `ListsAreComplete`: as long as no
rotation of a family ends, what its first revocation listed is all of it that is
live, since `FamilyNamesItsToken` held when SMEMBERS ran. Once nothing of a
family is live or on its way, nothing brings it back, as a rotation begins with a
live token (`EndedFrame`).

*The rate limiter.* `WithinRate` counts what a client got and is not inductive:
`Balance` adds what he may still ask for, the level of his bucket, to it. That an
eviction does not raise the level is where `Burst * Period <= Stale` is needed: a
bucket that was idle for `Stale` is full anyway, so forgetting it and starting
with a full one changes nothing. The same lemma carries the refinement to
`TokenBucket`.

*Decimals.* An amount is a whole part and cents in 0..99; `Value` is what it
stands for. Comparison, sum and difference are shown to be those of the values by
case analysis on the carry and the borrow.

*Administration.* `TypeOK` is inductive, since it says that a request that is to
write a row, or to sign a token, was made where the row has been. `CategorySteps`
and `ClaimSteps` say what any step does to the categories and to the claims;
`NoOrphans` follows from the two without what a handler remembers, so it is the
foreign key that keeps it, not the count and the check before it.

*WorkerInv* is `TypeOK`, and for each task `Active` (a handler runs only on an
active task), for each job `Stored` (what speaks of a file is written after the
file) and `Shown` (where nothing was lost, the hash is up with the handler), for
each mail `Counted` (an attempt that has not sent yet leaves room for one mail).
`OneTask` reduces a step to the task it is about.

*The client.* `Stages` tells for each phase of a call how often it was sent and
handled, and with which cookies it may be answered: `ChangesHappenOnce` is read
off it. `Flight` says that the refresh in flight is the one `refreshPromise`
names, and that its call waits for it. `OnlyEndedSessionsFail` is about the jar:
while nothing went wrong (`Calm`), what the jar, a refresh on its way, or a login
not yet received names is live (`CalmTokens`), and that needs `FreshTokens`, that
no call gives out an id somebody already carries.

*ReadsInv* is `LifeOK` (a decided claim has its approvals), `LoadOK` and
`CacheOK`. `LoadOK` knows which statements of a load have run, and that what
they returned is in the scope of whoever asked. The row of a detail is read
first; a status it shows that is a decision still stands when the steps are read,
as no step of `ClaimLifecycle` leaves it but the payment, so the steps are those
of that decision. Approved and rejected claims come from one statement
(`RateAtOnce`), so a claim is not counted in both.

The conjunctions the proofs carry (`WorkflowInv`, `SessionInv`, `WorkerInv`,
`ClientInv`, `ReadsInv`, the limiter's invariant) were model-checked while the
proofs were made; the runs check the properties they are there for.

**Only model-checked.** Every invariant the runs check is proved, and so is every
action property and refinement. What remains is liveness (`EveryTaskEnds`,
`Converges`, `AccessFollowsTheAccount`, `EveryCallSettles`): proofs of leads-to
properties under fairness, and anything with ENABLED, are outside what the prover
does. The refinements are proved for the next-state relations; none of the
abstract specifications claims liveness.

## 5. What the models leave out

- A transaction is one step: a failing statement inside it, `audit.Write`'s
  dropped error above all, aborts it as PostgreSQL does.
- Amounts are numbers of cents: the text they arrive as, and items that sum up to
  them, are not modelled. Limits of categories are constants.
- Times to live of job hashes and access-token lifetimes in minutes; a key or a
  token simply may expire.
- In `ClaimReads` all claims are of one month; sums, the series of months, the
  order of categories, filters, sorting, pages, items and receipts are left out.
- In `ApiClient` there is one tab, and the commands of a refresh or a logout are
  one step, with what overlapping commands leave behind among its outcomes: a
  rotation that a logout missed comes after it, and one whose handler died
  consumes the token alone. `RefreshSessions` has the commands and the tabs. Both leave out the MAC of the
  CSRF token and the signature of the access token: nobody forges one.
- In `RateLimiter` a request is one step; that `Stale` does not pass between the
  lookup and `Allow` is assumed.
- Presigned links, downloads, password hashing, headers, logs, configuration, migrations, seeds, health.
- The pages: a user of the models may send any request the API accepts at any
  time, so what a page hides or shows changes nothing that is claimed here.

Observations made while modelling that no run states:

- A manager's claim of at most T1 has the path [manager], which
  `ExcludeSubmitter` empties; `Submit` then answers "No eligible approver"
  (`workflow.go:140-143`), while docs/02:57 says that someone else handles it.
- Two tabs that refresh with one cookie: the slower one finds the token spent,
  takes it for a replay and revokes the family both were to go on with
  (`auth/service.go:71-76`). `refreshPromise` covers one tab only.
- An Update that commits between Submit's read and its transaction gives the claim
  the approval steps of its former amount: the path comes from `GetDetail`
  (`workflow.go:78, 140`) and the transaction re-checks the status only
  (`workflow.go:151`), while docs/02:39-45 say that the steps follow the amount.
- Two administrators who PATCH different fields of one user at once: `Update`
  reads the row and writes all three columns (`users/service.go:66-82`), so one
  of the changes is lost, though the comment at line 63 says that only provided
  fields change. Password resets are not affected: the hash is not written.
- `Submit` does not ask whether the category is active, and an inactive one has
  no limit (`repository.go:307-317`).
- A summary is read by three statements, so pending and total may count a claim
  under two statuses. Paid claims leave the approval rate, which counts the
  status APPROVED only (`dashboard/repository.go:60`). The breakdown is ordered
  by the text of the sums (`dashboard/repository.go:101`).
- Deleting a category counts its claims first (`categories/repository.go:76`); a
  claim made in between is caught by the foreign key, and the answer is then not
  the 409 of docs/04:69.
- A PATCH of a category writes the limit whether or not the body names it
  (`categories/service.go:72`), so renaming a category or switching it off erases
  its limit. A PATCH of a category that was deleted meanwhile is answered with OK.
- `GET /categories/:id` returns an inactive category to everyone, though
  `categories/handler.go:18` says that others than administrators see active ones.
- The receipts of a deleted claim can still be downloaded (`repository.go:283`),
  though the comment at `attachments.go:92` says that the scope mirrors the lists.
- A password reset ends no session, and the last administrator can be disabled.
- A logout during a refresh: the late answer puts back an access token that is
  good until it runs out, and a refresh token that is dead if the rotation ended
  before SMEMBERS. If the rotation overlapped the revocation, the token is live
  (`revoke_race`); and where the revocation deleted the family's set after the
  rotation had added the successor, it is not listed any more, so that a second
  logout, with it, does not end it either until it has been rotated once more.
- The monthly limit counts the claims that are SUBMITTED, APPROVED or PAID
  (`repository.go:326`). docs/02:52, and the comment at `repository.go:319`, say
  "non-rejected", which would count drafts and cancelled claims too;
  `MonthlyLimitHolds` is about the claims the code counts.
- `FindDuplicate` refuses a submission beside a draft too, as docs/02:54 says; but
  a second draft may be made after the submission, which nothing looks at, so
  `NoLiveDuplicates` is about claims that are live.
- The row of an attachment is inserted whatever became of the claim during the
  upload (`attachments.go:37-60`): a receipt may be added to a claim that was
  decided, paid or deleted meanwhile.
- A change whose CSRF header was read before a refresh was answered is refused
  with 403, and the interceptor replays 401 only (`api.ts:17, 34`). A failed login
  is a 401 too, and starts a refresh and a replay of itself. docs/05:86 says that
  a failed refresh logs out and redirects; the interceptor only rejects.
- docs/06:66 says that of concurrent refreshes one wins and the others replay
  their requests; the loser's family is revoked. docs/06:79 says that the cached
  figures are invalidated by mutations; only their time to live ends them.
  docs/06:80 says that logins are limited by a window in Redis; it is a bucket in
  memory, on all of `/auth` (`router.go:59`), and CSRF is checked before it.
- The comment of `QueueExport` (`reports/service.go:33`) says register, then
  enqueue; the code does the opposite, which is what `export_race` shows.
- A tab's query cache is not cleared on logout (`lib/claims.ts:98`), so the next
  user sees the answers of the one before until his own arrive.
- The detail page offers Submit for drafts only (`ClaimDetailPage.tsx:64`), so a
  rejected claim cannot be resubmitted from it, and Pay to administrators too
  (`:66`), whom the API refuses.
- `unwrapList` (`lib/admin.ts:21`) looks for the items one level too high in the
  answer's envelope.

## 6. Plan

Done: every component listed as modelled has a module, a run and proofs of its
safety properties; the workflow and the rate limiter have an abstract
specification and a proof that they implement it.

Next, in this order:

1. An abstract specification of an export (asked for, being made, made, failed) and
   of a refresh family (one token, good or not), and the proofs that `Worker` and
   `RefreshSessions` implement them.
2. `Paging`: the pages of a list as operators (`listq.go`), with the theorem that
   every row is on exactly one page.
3. The transactions of `workflow.go` statement by statement, with a failing
   statement and PostgreSQL's aborted state, shown to implement the atomic
   actions of `ClaimWorkflow`.
