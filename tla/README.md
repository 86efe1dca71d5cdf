# Gitflare: specifications, model checks and proofs

Gitflare is a code forge that runs on Cloudflare Workers.  Rows live in D1
(SQLite), git objects and refs live in Artifacts repositories that are reached
only through the git protocol, CI runs in a second Worker with sandboxes, a
Workflow and a log Durable Object, and webhooks go through a queue.  No lock
spans any two of these: a handler is a sequence of awaited calls, an isolate can
be evicted at any of them, and every other request runs in between.

## 1. Inventory

| Part | Source | State | Operations | What makes it correct | Hard because |
|---|---|---|---|---|---|
| Pull requests | `connect/services/pull.ts`, `git/receive-pack.ts`, `connect/services/issue.ts` | issue and pull rows, number counter; refs and commits of the remote | create, update, review, request reviewers, merge | a merge never loses or rewinds history, lands once, is what was reviewed, and the row tells the truth | check-then-act over two stores, eviction between push and batch, history walks that are cut off |
| Issues | `connect/services/issue.ts` | issues, comments, labels, milestones, counters | create, update, comment, delete | numbers unique, counters match, only triagers triage | several statements per handler, permission check after a write |
| CI run (direct) | `ci/pipeline.ts`, `ci/index.ts`, `ci/sandbox-runner.ts`, `packages/ci-config`, `connect/services/ci.ts` | `ci_runs`, `ci_steps`, the plan's waves | start, run a wave, record, finish, cancel, crash handler | waves respect dependencies, green means every step passed, a run ends | cancellation races with the end, a rejected wave leaves its siblings running |
| CI logs | `ci/log-sink.ts`, `src/server/ci/log-stream.ts`, `streamRunLogs` | sink buffer, timer, chain of writes; chunks of the Durable Object; a reader's cursor | append, flush, trim, finish, history, tail | order, no duplicates, no silent gap, the end is the end | batches in flight, failed RPCs, trimming under a reader |
| CI run (Workflow) | `ci/index.ts`, `ci/record.ts` | the same rows, written by replayed steps | record-run, declare, record step, finish | replays change nothing, one row per instance | replays and redelivered events |
| Webhooks | `events/emit.ts`, `events/webhooks.ts`, `server.ts` | hooks, deliveries, queue messages | emit, deliver, record, retry, give up | every event reaches every matching hook or is given up on after the last attempt | at-least-once queue, crash between send and record |
| Notifications | `events/notify.ts`, `connect/services/notification.ts` | notification rows | upsert per thread, mark | the actor is not told of their own action | upsert races with mark |
| Organisations, access | `connect/services/org.ts`, `auth/rbac.ts`, `db/repos.ts` | members, teams, grants | add, remove, grant | an organisation keeps an owner; teams are made of members | count-then-write |
| Repositories | `connect/services/repo.ts`, `artifacts/client.ts`, `repo-status.ts` | repo rows and Artifacts repositories | create, fork, import, rename, delete, reconcile | a row and its storage belong together | two stores without a transaction |
| Wiki | `connect/services/wiki.ts` | a second Artifacts repository per repo | write, delete a page | an edit never undoes another | lazy creation, lost updates |
| Releases | `connect/services/release.ts` | releases, assets, R2 objects | create, publish, upload, delete | an asset row has its object | two stores |
| Accounts | `auth/*.ts` | users, sessions, tokens, JWKS cache | sign in, first administrator | an identity has one account; the first account administers the site, and no later one; expired credentials refused | count-then-insert |
| Git over HTTP, SSH | `git/http.ts`, `ssh/` | none of its own; token, push record | advertise, fetch, push | permission at the time of the push | checks are older than the stream they allow |
| Algorithms | `diff/*.ts`, `git/objects.ts`, `git/pktline.ts`, `packages/ci-config` | none | diff, hunks, trees, packs, waves | agree with their definitions | edge cases |
| UI, generated code | `src/routes`, `src/components`, `src/gen` | - | - | - | not modelled: presentation and generated stubs |

Paths are relative to `src/` or `src/src/server/` of the repository.

How the parts meet: `pull.ts` reads rows, asks Artifacts for refs and history,
pushes through `receive-pack.ts` and writes rows; a push starts CI either by a
call of the CI Worker (direct path) or by an event that creates a Workflow
instance; both write `ci_runs` and `ci_steps`, which `connect/services/ci.ts`
reads and cancels; handlers call `emit`, which feeds the webhook queue, and
`notifyThread`, which writes notification rows.  `server.ts` consumes the queue.

## 2. Modules

| Module | Models | State and actions |
|---|---|---|
| `GitRemote` | the Artifacts repository as `receive-pack.ts` and `client.ts` use it | branch tips, commits with ancestry and content; `Accepts` is the compare-and-swap of a ref update, `Log` and `Mergeable` are the bounded history walk and the verdict of `resolveBranches`; people push, merge locally, force-push, delete |
| `PullRequests` (EXTENDS `GitRemote`) | `createPull`, `updatePull`, `mergePull`, `updateIssue` | one record per request: what it has read and which await is next; `ReadBase`/`ReadHead` are the two listings under `Promise.all`, `PushAccepted`/`PushRefused` the receive-pack, `RecordMerge` the batch, `ClaimNumber`/`InsertPull` the creation, `Crash` an eviction or a lost answer anywhere |
| `MergeLog` | the promise: commits are immutable, and a merge moves one branch from where it is to a descendant that brings something new, as far back as a walk of its history goes | `Push`, `Land`; `PullRequests!MergeLogSpec` is its refinement, by the identity on `refs`, `anc` and `landings`, with `ANCESTRY_LIMIT` as the length of the walk |
| `CiLogs` | `log-sink.ts` and the `CiLogStream` Durable Object | `SinkAppend`, `TimerFires`, `WriteChunk`, `WriteFails`; `Stored`, `Trimmed` and `History` are the object's methods, each of which runs to its end at once |
| `OutputLog` | the promise of a run's log: output is kept in the order it was printed, only the oldest goes, and a reader that is served has all that is kept | `Store`, `Read`; `CiPipeline!OutputLogSpec` is its refinement, with the output in the chunks for `kept` |
| `CiWaves` | what a wave is | a recursive function, the reference definition for `CiPlan` and the waves `CiPipeline` follows |
| `CiPipeline` (EXTENDS `CiLogs`, `CiWaves`) | the direct path: `runPipeline`, `runPlanInSandbox`, `cancelRun`, `streamRunLogs` | `pc` is the next await of `runPipeline`, `exit` how each step ended, `reader` where each stream stands |
| `Execution` | the promise of a run, on either path: a step starts behind what it needs, ends once, and success means all of them | `Announces`, `Moves`, `Concludes`; refined by `CiPipeline!ExecutionSpec`, which reads exits, and by `CiWorkflow!ExecutionSpec`, which reads runners and rows |
| `CiPlan` | `topoSort` and `planWaves` | the recursion of `visit` is an explicit stack, so that each call and each turn of a loop is a step and invariants hold half way; `Left` is what is still to do |
| `CiWorkflow` (EXTENDS `CiPlan`) | the Workflow path: `GitflareCI.pipeline`, `record.ts`, `cancelRun` | `attempt` is where each attempt at `startRun` stands, statement by statement; `pos` is the pipeline's place, `runner` each step's, `rows` and `run` the rows |
| `Webhooks` | `emit.ts`, `webhooks.ts`, the queue handler, the hook services | `messages` is the queue with where each message stands in its batch; `Delivers`, `Records`, `Resends` are the awaits of `deliver`, `Settles` the end of a batch |
| `Rbac` | `auth/rbac.ts` and what `requireRepo` answers | pure: ranks, `Highest` of the grants that apply, `Gather`, `Answer` |
| `Orgs` (EXTENDS `Rbac`) | `services/org.ts` and the resolution of a viewer's permission in `db/repos.ts` | members, a team and its grants; one record per call with what it counted or read; `Visits`/`VisitReads` are the queries of `resolveAccess`, side by side, while grants change |
| `Issues` (EXTENDS `Rbac`) | one thread: `services/issue.ts`, the reviews of `services/pull.ts`, `events/notify.ts`, marking and watching | the rows of the issue, labels, comments, reviews and inboxes; a call finds its row, checks, writes statement by statement, answers, and leaves a task (`Collects`, `Notifies`) |
| `Feed` | lists read page by page while they change: `listActivity`, `listIssues`, `listComments`; the copy of visibility in an activity row | ids made before their rows are inserted (`MakesId`, `Records`), a reader who follows cursors (`FetchesPage`) |
| `Repos` | `services/repo.ts`, `repo-status.ts`, a push through `handler.ts` | rows in D1, storages in Artifacts, and the number that tells storages of one name apart; creation, import, fork, renaming, deletion, reconciliation, stars |
| `Wiki` | `writeWikiTree` of `services/wiki.ts` | the lazily made storage, its commits, and edits between the read of the head and the push |
| `PageStore` | the promise of the wiki: an edit takes effect at one instant, on the latest version, or not at all | `Ask`, `Save`, `Refuse`; `Wiki!EditsAreAtomic` is its refinement, with the commits of the branch for `versions` |
| `Releases` | `services/release.ts` | release and asset rows; handlers that write back the row they read, and announce |
| `Accounts` | `upsertAccessUser` and the login form | identities that find, claim or make an account; the first administrator |
| `Diff` | `diff/myers.ts`, `diff/hunks.ts` | `Trims`, then one step per edit distance (`Searches`) and per edit walked back (`Backtracks`), then `Groups`; script and hunks against their definitions |
| `MCForge` | the instance of the eight modules above that share D1 but no protocol | a behaviour is one of one part; the others stay in their initial state |
| `MCPullRequests`, `MCCiPipeline`, `MCCiWorkflow` | instances for TLC | symmetry sets and plans |
| `MCPullsContent` (EXTENDS `MCPullRequests`) | the same, with a history of when each merge was asked for | `shown`, which no action reads: how many commits there were when the page named its head |
| `PullRequestsProofs`, `CiPipelineProofs`, `CiWorkflowProofs` (plans and runs), `WebhooksProofs`, `IssuesProofs` (threads and lists), `RepositoryProofs` (repositories, wiki, releases), `AccessProofs` (organisations, accounts), `DiffProofs` | theorems | |

A handler is cut at every await that touches shared state, and only there: what
it computes between two awaits belongs to the step before.  Requests that fail
their first check answer an error and change nothing, so they are started only
where the check reads something that another call may change.  Definitions called
`Mutant...` are plausible mistakes (a dropped guard, an off-by-one) that the
properties were tried against; no behaviour uses them.

## 3. Model checks

| Run | Question | Bounds |
|---|---|---|
| `pulls_safety` | Do racing creations, merges, edits, pushes and crashes keep history, land a head once, back each merged row, land what was reviewed, keep numbers fresh, also where walks are cut off? | two branches, three requests, two pulls, one edit, five commits, three of them people's, walks of two commits, no rewrites |
| `pulls_live` | Does the service implement `MergeLog` when people also force-push and delete branches, is every request answered, and every landing recorded unless it is cut off? | two branches, two requests, five commits, two of them people's, walks of two commits, two edits |
| `pulls_closed` (violation) | Is a merged pull closed, as `pull.ts:82` says? | three requests |
| `pulls_content` (violation) | Does a merge keep what was pushed to base after its page was shown, as `receive-pack.ts:62` says? | two requests, five commits |
| `ci_log` | Do sink, chain of writes, chunks and cursors implement `OutputLog`, and does a reader miss nothing that is still kept, under failing writes, trimming and reconnects? | two steps, four pieces of output, two kept chunks, one reader who may reconnect |
| `ci_run` | Does the direct path implement `Execution`, is green green throughout, is a failure told of only on record, does a run settle and its readers leave, is output stored? | four steps in three waves: a chain of three and one that always runs |
| `ci_closed` (violation) | Is a stream that closes on a finished run complete, as `ci.ts:128` says? | one wave, one reader |
| `ci_workflow` | Are plans sorted, refused and cut into waves as they should be, does planning end, is one run recorded once, does it implement `Execution`, and does it settle? | five plans of up to three steps, two racing attempts, one replay, one run of another commit, CI turned off, a cancellation |
| `webhooks` | Is no job lost nor let go before its delivery is on record, is nothing repeated without a cause, does the queue drain? | two hooks, one event, two attempts, one queue retry, one batch of two at a time, two troubles |
| `forge` | Eight questions, one per part: permissions, the thread, pages, storages, edits of a wiki, announcements, accounts, diffs (below) | two users, two calls at once, two names or things |
| `org_owner` (violation) | Does an organisation keep an owner, as `org.ts:219` asks? | two members |
| `feed_private` (violation) | Does a repository that goes private stop appearing, as `notification.ts:151` says? | one reader |

What `forge` asks of each part:

- `Orgs`: `PermissionIsTheHighestGrant`: a resolution made of several queries answers nothing
  above what some state since its start gave, and nothing below what all of them gave.
  `RemovalsKeepAnOwner`: a removal takes the last owner only when the owners changed after it
  counted them.
- `Issues`: `ThreadHolds` (comments are counted, up to deletions that met; the thread is in an
  inbox only on another's account; authors do not review themselves) and `TriageIsPrivileged`,
  although `updateIssue` writes before it asks for the permission to triage.
- `Feed`: `EachEntryOnce`: whoever follows the cursors sees what was there all along, once.
- `Repos`: `ReposHold`: a row has the storage made for it unless another's deletion took it, a
  push reaches the storage of the row it was authorised on, stars are counted.
- `Wiki`: `EditsAreAtomic`: edits that race, create the storage or fail implement `PageStore`.
- `Releases`: `PublishedIsAnnounced`: although handlers write back whole rows, a public release has
  a date and its event, and a draft has no date.  It does not ask that a publication is never
  overwritten (below).
- `Accounts`: `AccountsHold`: one identity, one account; a site with accounts has an administrator;
  and only a sign-in that began before there was any account makes one.  So there are two
  administrators only where first sign-ins raced (below).
- `Diff`: `DiffIsRight`: every diff of two files of up to four lines is an edit script that keeps
  as many lines as any common subsequence has, which makes it one of the least length; its hunks
  are changes with their context, apart from one another, in order and at the line numbers that the
  unified format gives them.  Which of several shortest scripts is found is not part of it.

`CHECK_DEADLOCK FALSE` stands in every configuration because all these systems
end: requests are answered, runs are over, the queue is empty, and what the bounds
allow is used up.

### Why the bounds are enough

- Each of the hazards needs two actors and one interruption, and each run has at least
  that.  Every action of every module fires in some passing run.
- Pull requests: the shortest way to a double landing, a rewind or a content loss
  needs two merges and one push in between; four commits hold the root, one commit
  on each branch and a merge.  A walk sees two commits (500 in the code), so that walks are
  cut off, verdicts are wrong and a fifth commit lands what was there; with walks that see
  everything nothing is excepted.
- Logs: output is numbered, so order, loss and repetition can be told apart with
  four pieces; two kept chunks make trimming happen under a reader.  `ci_run` has one
  piece of output, as order is the subject of `ci_log`.
- Workflow: other instances share nothing with a run but the counter of numbers, so
  they appear as the numbers they take.  `success` stands for `cached` as well; the
  two differ only in what the page shows.
- Webhooks: `MAX_ATTEMPTS` and `max_retries` are 5 in the code; with 2 and 1 there is a
  next attempt, a last one, a retry and a message given up.  A message belongs to
  one batch at a time, and batches share only rows and the queue, whose operations
  are atomic; one batch with two messages already lets these interleave.  Troubles
  (failing calls, lost isolates, edits, redeliveries) share one bound so that any
  mix of two is tried.
- `forge`: the parts write different tables, so a behaviour is of one part and the states
  are the sum of theirs.  Two calls that race, each a read and a write, are what lost updates,
  stale checks and double inserts need; `Repos`, `Releases` and `Accounts` may start four calls, so
  that two follow two (a name deleted twice and made again in between).  An organisation
  has two team ranks below administrator, and a page one row, so that each read of
  three rows turns a page.  Three identities share two emails and one login name.  Two
  letters and four lines give every overlap and gap that a context of one or two lines
  can tell apart.

### Fairness

- `PullRequests`: weak fairness of each handler's steps.  The runtime resumes a
  handler whose call was answered; a call that is not answered is a `Crash`, which
  nothing forces.  No push, request or crash has to happen.
- `CiPipeline`: weak fairness of the pipeline, of the log's chain of writes and of
  each reader's loop.  Every command has a timeout (`sandbox-runner.ts`), timers fire, and
  the stream polls.  Printing and people are not fair.
- `CiWorkflow`: weak fairness of the engine's steps.  The Workflow engine drives its
  instance until it ends, through evictions, which are `AttemptLost` and replays here.
- `Webhooks`: weak fairness of the consumer.  The queue delivers what is in it, and a
  request ends after `TIMEOUT_MS`.
- The modules of `forge` state none.  Their handlers end with an answer or an error, nothing
  retries them, and what they leave to `waitUntil` may be dropped by design.

### Where the code and what is said of it differ

The five violation runs each refute one sentence of a comment; the
lines are in `PROJECT.json` under `findings`.  In the model of the code as it is:

1. an update that read a pull before its merge reopens it afterwards (`pulls_closed`);
2. a push to base that comes after the page named its head, and before `mergePull` lists the
   branches, passes the compare-and-swap, and as the merge commit has head's tree its changes are
   gone from the tip, although they stay in its history (`pulls_content`).  That what base had gained
   earlier goes the same way is said at `pull.ts:629`, and not held against the code;
3. a stream opened between the status write and the last flush closes early (`ci_closed`);
4. an owner who is demoted through `addOrgMember` leaves no other, and so do two removals at
   once (`org_owner`);
5. what was recorded while a repository was public stays in the feed of outsiders
   after it goes private (`feed_private`).

Behaviours met on the way that no sentence of the repository contradicts plainly
enough, or that need no run to be seen:

- CI: `cancelRun` writes over a run that finished after it looked (`ci.ts:205`, while the test
  `ci-service.test.ts:125` expects a finished run to be refused), and `finishRun` writes `success` over
  a cancellation; on the Workflow path no row is ever `running`, so a step that ran is shown as
  cancelled (`record.ts:158`), and `always` has no effect; `sink.finish` with an empty buffer marks
  the end before writes in flight are done (`log-sink.ts:52`); an attempt that finds CI turned off
  after an earlier one inserted the row leaves the run on `running` (`record.ts:34`); `rerun` posts
  to a path the CI Worker answers with 404.
- Pull requests: a history longer than `ANCESTRY_LIMIT` can make a head that base already has
  look diverged; a review is recorded against the head at its submission, not the one seen
  (`pull.ts:421`); a review and a request for reviewers that race leave a satisfied request open.
- Webhooks: a dispatch that fails loses the event for every hook (`emit.ts:64`); a stored body cut at
  8 KiB is redelivered as `{}`.
- Issues and lists: an author without the permission to triage may set a milestone (`issue.ts:235`);
  archived repositories accept issues and comments; `listRepos` and `listNotifications` order by
  `updated_at` with a cursor of ids; two deletions of one comment are counted twice.
- Organisations: `removeOrgMember` leaves rows of `team_members`; `updateTeam` writes a whole row it
  read earlier; a repository may be created between the count and the deletion of `deleteOrg`.
- Repositories, wiki, releases: a failed insertion leaves a storage whose name cannot be
  used; two deletions and a creation of one name lose the new storage; the wiki's storage is
  neither renamed nor deleted with its repository; `getWikiPage` answers an ETag as the commit that
  `saveWikiPage` later compares with the head (`wiki.ts:95`, `229`); an upload that meets its name answers
  with an id no row has (`release.ts:200`); an update of a release that read it as a draft takes one
  that was published meanwhile back to a draft, or publishes and announces it a second time
  (`release.ts:142`).
- Accounts: two first sign-ins that race both count no user and both become administrators
  (`context.ts:137`, `dev-login.ts:136`), although `context.ts:135` and `dev-login.ts:114` speak of the
  first account; `OnlyTheFirst` excepts sign-ins that began before there was any account, and no others.

## 4. Proofs

`tlapm` checks these for every value of the constants that satisfies the
assumptions named in the modules.

| Theorem | Says |
|---|---|
| `TypeCorrect` | `PullRequests!TypeOK` always holds |
| `LandingsAddWork` | a merge never rewinds a branch, and lands what is there only where it lies beyond the walk of its history |
| `ShortHistoriesGrow` | a branch of at most `AncestryLimit` commits gains by every merge |
| `ServiceImplementsMergeLog` | `PullRequests` refines `MergeLog` |
| `MergesNeverRewind` | what a merge moves a tip to has the old tip and the pull's head in its history, even where the walk is cut off |
| `MergedHasLanded` | a merged row names a commit that became a tip |
| `HeadsLandOnce` | without rewrites a head lands once on a branch, unless it lay beyond the walk by then |
| `FreshNumbers` | creations that race or fail never share a number |
| `ReviewedContentLands` | a merge sent the reviewed head lands that head |
| `SortIsSoundAndComplete` | `topoSort` keeps needs first, refuses only cycles, and otherwise returns each step once |
| `WavesRespectNeeds`, `WavesAreAsNeeded` | a step's needs are in earlier waves; its wave is the one of the recursive definition, by the longest chain of needs |
| `PlannersEnd` | planning ends for every plan, cyclic or not: each of its steps leaves less to do, in an order without endless descent |
| `RunsFollowThePlan` | a behaviour of the Workflow path is one of the planner, so that what holds of plans holds in it |
| `WorkflowIsTyped`, `InstancesHaveOneRun` | one row per instance, under a number of its own, however attempts race |
| `WorkflowsKeepThePromise`, `PipelinesKeepThePromise` | both paths refine `Execution` |
| `StepsWaitForNeeds`, `GreenRunsAreComplete` | on the Workflow path a step starts on green needs, and green is complete |
| `StepsRespectNeeds` | on the direct path no step starts before its needs ended, or after one failed unless it always runs |
| `GreenMeansAllPassed` | a run that says success has only steps that passed, ever after |
| `FailuresAreOnRecord` | a failure is told of only once it is on record |
| `TypesAreKept`, `StoredInOrder` | the log object keeps what a step printed in order, each piece once, whatever writes fail |
| `RunsKeepTheLog` | the sink, its writes and the log object refine `OutputLog` |
| `ReadersMissNothing` | a reader is sent nothing twice or out of order, and everything up to its cursor that is still kept |
| `WebhooksAreTyped`, `JobsAreNotLost` | a job in the queue is carried until it is settled, and let go only with its delivery on record |
| `RepeatsAreCaused` | nothing is sent or delivered twice without a fault, a redelivery or a retry |
| `OrgsAreTyped`, `PermissionsWereHeld`, `RemovalsLeaveAnOwner` | permissions that are resolved were held; a removal leaves an owner unless owners changed under it |
| `IssuesAreTyped`, `TheThreadHolds`, `TriageWasPermitted` | comments, inboxes and reviews; labels, assignees and locks change only under triage |
| `FeedIsTyped`, `CursorsMissNothing` | whoever follows the cursors sees what was there all along, and nothing twice |
| `ReposAreTyped`, `StorageAndStarsHold` | rows have their storage, pushes reach it, stars are counted |
| `WikiIsTyped`, `WikiKeepsItsPromise` | edits are atomic: the wiki over git refines `PageStore` |
| `ReleasesAreTyped`, `PublishingIsTold` | a public release has its date and its event, unless the call was lost |
| `AccountsAreTyped`, `IdentitiesAndAdmin` | an identity with an email of its own has one account; accounts have an administrator, and nobody who came after them becomes one |
| `DiffsAreTyped`, `SearchConverges` | no value of the search is read where there is none; the error behind its loop is never thrown |
| `DiffsAreRight` | the diff of any two files is a shortest edit script, and its hunks are the changes with their context, in order and at their line numbers |

No theorem has a hypothesis beyond the assumptions of the modules: sets which are counted are finite,
bounds are numbers, names of steps are unique (which `PlanBuilder.add` enforces) and, in `CiPipeline`,
the waves it is given are in order: `WavesAssumption`, which `WavesRespectNeeds` proves of what
`planWaves` makes.

**Pull requests.**  `TypeOK` is not inductive: a handler writes to the row and pushes to
the branch of a pull it read long ago.  `WellFormed` adds that ancestry is reflexive,
transitive and older (`GitInv`), that rows name branches (`RowInv`) and what a handler holds at each
await (`ReqInv`).  `LandingsAddWork` needs one more link in time: `PushInv` says that
between resolution and push, head is not in what a walk sees of base's history.  Commits never change,
so this survives every step of others, and the compare-and-swap makes the base that was
read the base that is moved.  A
verdict of "behind" or "already contained" is what a walk has found; a verdict that allows the merge
either rests on an ancestor that was seen, which makes the base older than the head, or on not having
found head in base's log.  So `LandingsAddWork`, `HeadsLandOnce` and the refinement of `MergeLog`
except heads beyond the walk and nothing else, and hold for histories of any length;
`ShortHistoriesGrow` draws the consequence for those a walk sees whole.  Beyond 500 commits the
service may merge what a branch already has, but it takes no commit out of a branch's history, by
`MergesNeverRewind` (what a merge commit does to the files is finding 2).
`HeadsLandOnce` adds `KeptInv`, that without rewrites a branch keeps each head that landed,
`MergedHasLanded` adds `RecordInv`, that a handler about to record has landed, `FreshNumbers` adds
`FreshInv`, that a number between its claim and its insertion is nobody else's, and
`ReviewedContentLands` adds `ReviewInv`, that what is pushed is what was compared.

**Plans and the Workflow path.**  The invariant relates the marks of the depth-first search to its
stack and its result (`MarkInv`), the frames to one another (`TrailInv`), each frame to the needs it
has passed (`FrameInv`) and the outer loop to the plan (`RootInv`).  From it a step met while
`visiting` closes a cycle that can be pointed at on the stack, and a returned step has all
it needs before it.  `LevelInv` carries that into `planWaves`; `TightInv`
adds that a step above the first wave is just above one of its needs, and a function that is
both is the recursive definition, by induction on the depth.  That planning ends is a measure
of four numbers, compared as in a dictionary: the loops ahead, the steps never visited, the calls to
return from, and what the innermost loop has ahead.  They are numbers because no loop runs past its
end (`PaceInv`) and the declared steps can be counted; a visit that enters a step lowers the second,
one that finds it done the fourth, and one that finds a cycle the first.  With the fairness of the run that is the part of `RunsSettle` that is
about the planner.  A step of the run is one of
the planner's or leaves its variables alone, which is `RunsFollowThePlan`.  The run adds
`NumberInv`, that attempts insert under the number they claimed, and `StepInv`, that a step which
is past its check has needs that are recorded green, which no replay takes back.  That makes the run an
`Execution`: a step is shown as waiting until its runner starts, and from then on its row or its
runner says how it is; a replayed record writes what the row says already.

**Direct path.**  `WaveInv` says that earlier waves have ended, later ones have not begun, and that
`failed` is exactly what did not pass among them; `PathInv` says what the place of the pipeline implies
of its exits, an abandoned wave included; `RecordInv` orders the writes before the notification.
The refinement of `Execution` follows step by step: a wave starts and skips many steps at once, each on
what `failed` says of those before it, and the outcome that is called a success is written where `PathInv`
has every exit at `pass`.  `StepsRespectNeeds` and `GreenMeansAllPassed` state two of its consequences by
themselves.

**Logs.**  A piece of output is in a chunk, in the chain of writes, in the buffer or gone, and what a
place holds was printed before what the next one holds (`ChunkInv`, `QueueInv`), so that a failed
write is a loss and never a repetition.  `History` flattens chunks, and its order is an induction
over them.  A reader has what is kept up to its cursor, and what is kept behind the cursor
was printed after all it has (`ReaderInv`).  The refinement of `OutputLog` follows: a batch that is stored is
newer than every chunk and everything a reader has, also when the write fails after it took effect; and
one call of `History` brings a reader up to date, for rows it passes over by its cursor it has.
`StoredInOrder` is a consequence that no run states by itself.

**Webhooks.**  A job is safe because the message that carries it is dealt with only in
one step with its settlement or with the next attempt.  `PendingInv` says so for
messages that are not yet acknowledged, and `RecordedInv` that the row is there before the
next attempt is sent.  That nothing is repeated without a cause is an invariant of the
whole queue: at rest each message is its own (`RestInv`), one in a batch knows how often it was given
(`MsgInv`), and an attempt has one message (`OnceInv`).  New messages take the least identity that is
free; that there is one is the pigeonhole.

**Rows that are written back.**  The invariants of `Orgs` (`CallInv`, `VisitInv`), `Releases` (`RowInv`,
`CallInv`), `Wiki` (`EditInv`), `Accounts` (`IdInv`, `AdminInv`, `FirstInv`, `SubjectInv`, `ClaimInv`, `AnsweredInv`),
`Issues` (`IssueInv`, `InboxInv`, `CallsInv`, `ApartInv`) and `Repos` (`StoreInv`, `CallsInv`, `ApartInv`)
have one form: what a call holds may be stale, but not in the respect that matters at its
next statement.  In `Issues` that is that whoever is to be told hears of somebody who spoke, which
stays true; in `Repos`, that a storage whose row is still to be inserted has a number no row and no
other call knows, and that whoever deletes a storage has no row any more.  Each call makes at most
one storage, so those made are counted by the calls that have begun, which bounds their numbers
(`ReposAreTyped`).  In `Wiki` it is that an edit holds the tree of a commit that is still there, so
that when the compare-and-swap finds this commit at the head, what is pushed is one change of the
latest version.  That instant is the `Save` of `PageStore`; every other end of a call is a `Refuse`.

**Lists.**  Ids are not inserted in the order they are made, so a row may appear where the reader has
been.  `FollowInv` speaks only of what is there all along: it was seen, or it is ahead
of the cursor and still there; and what was seen is not ahead of it.

**Diffs.**  The search keeps on each diagonal the furthest place that so many edits reach.
`Furthest` says that no common subsequence gets beyond it, by a least counterexample.  The search does
run past the edges of the files, as the code does; but what is past one has not overtaken a neighbour
(`PastEdges`), so that where it stops is the corner, with the fewest edits.
`BackInv` then walks the trace one edit a turn, in the same number of edits, and the ends trimmed at
the start cost a common subsequence nothing.  Ranges and line numbers of hunks are inductions
along the script.

Inductions over data are arguments by a least counterexample, from the well-foundedness of
the natural numbers: the library's induction theorems take an operator and cannot be used here.  What
is recursive in the modules of a proof is a recursive function.

**Only model-checked.**  Liveness, which rests on fairness and `ENABLED`: `LandedIsRecorded`,
`RequestsEnd`, `RunSettles`, `StreamCloses`, `OutputIsStored`, `RunsSettle` and `QueueDrains`.
`ForgeTypeOK` joins the types of the eight parts for TLC, and each of them is a theorem of its
own.

## 5. Not modelled

- Pull requests: diff pages, heads in forks, the events a handler emits.
- CI: what a container does beyond an outcome and output, secrets, snapshots, the
  printing and parsing of a plan, `rerun`, the step filter and the unused `subscribe` of the log.
- Webhooks: payloads, signatures, who may edit a hook, the dead-letter queue, which has
  no consumer.
- Issues: titles, bodies, colours, numbers.  Repositories: descriptions and the switches that one
  statement writes.  Organisations: texts, slugs and listings, and logins of organisations beside
  those of accounts.
- Accounts: sessions, tokens and keys, which are rows made and looked up whole; signatures and hashes.
- Git over HTTP and SSH: packet lines, packs and the bytes that are passed on.
- Search (FTS tables kept by triggers) and reading git have no protocol of their own.
- The user interface and the generated stubs: presentation, and about 6000 lines of interface
  definitions in `src/gen`, a quarter of the implementation.  They hold no state that a model could
  follow, nor do the listings and conversions to messages that make up much of the services;
  what the map covers is the rest.

## 6. Plan

Done, the most consequential first: `GitRemote`, `PullRequests`, `MergeLog`; `CiLogs`, `OutputLog`, `CiWaves`,
`CiPipeline`; `CiPlan`, `CiWorkflow`, `Execution`; `Webhooks`; `Rbac`, `Orgs`; `Issues`, `Feed`; `Repos`,
`Wiki`, `PageStore`, `Releases`; `Accounts`; `Diff`; and proofs about all of them: every invariant,
action property and refinement of the passing runs is a theorem, `ForgeTypeOK` part by part.

Worth doing when the code changes: heads in forks, once merges read the other storage; the emission
of events by handlers, once it is more than one call.  A run for a settled finding can give its place to a
new question, and a finding that is fixed turns its violation run into a property of a passing one.
