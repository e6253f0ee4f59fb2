# A TLA+ verification project for IOP

IOP (Infrastructure Operations Platform) is an IPAM with nightly inventory synchronisation, a credential vault, file
sharing with share links, user administration and an AI assistant. A FastAPI application (one asyncio process over
MongoDB, through Motor) serves a React front end; cron runs Python programs that write the same collections. This
directory holds the TLA+ models of its core, the TLC configurations that check them, and the theorems TLAPS proves about
them.

## 1. The system and its hard parts

### How the parts run

* **One API process.** Every handler is a coroutine. Each `await` on MongoDB is a point where any other handler may run.
  An operation on one document is atomic; there are **no transactions**, and only some writes are conditional
  (`BaseRepository.update_with_filter`, `ShareLinkRepository.try_consume_view`); the rest are blind `$set`s by id.
* **Background tasks** (scan-and-encrypt after an upload, delete after a download) run in the same process after the
  response; they are lost when the process stops.
* **Streams**: a check is a generator that reads its record, probes four outside systems and only then writes.
* **Nightly jobs** are processes of their own (`scripts/*_sync.py`, `file_cleanup.py`, ...), started by cron under a
  lock file, writing the collections the API writes.

So the models all have the same shape: the collections are the shared state, a program that reads and then writes is two
or more actions, and whatever happens in between is left to the other actors.

### Components

| Component | State it keeps | Operations | What is hard | What makes it correct |
|---|---|---|---|---|
| IP records | `ip_records` | create, CSV import, edit, delete, reserve, release, bulk, checks, four nightly jobs | writes decided on a snapshot read before slow probes; jobs overlapping each other and the API; uniqueness checked apart from the insert | one record per (VRF, address); a reservation survives checks and jobs that read it; findings never free; a batch accounts for every id |
| Subnets, ranges, aggregates, VRFs | `subnets` (a tree by prefix), `ip_ranges`, ... | create with automatic parent and re-parenting, update, guarded delete, tree | parent search, insert and re-parenting are separate; delete checks children and records and then deletes | nesting follows containment; no record or child outlives its subnet |
| File sharing | `shared_files`, staging files and encrypted blobs on disk | upload, background scan, download, delete, nightly clean-up | two stores without a transaction; crash between steps; infected or unscanned content | only scanned content leaves; a clean record has its blob; nothing is left behind |
| Share links | `share_links` | create, peek, password, consume, revoke, upload through a link | uses counted under concurrency; expiry and revocation between check and use; a use spent on a failure | no more uses than granted; none after revocation |
| Users and sessions | `users`, `token_blocklist` | login with lock-out, refresh rotation, logout, register, approve, reject, (de)activate, delete | read-modify-write of the failure counter; one-time refresh tokens; last-administrator guard checked apart from the write | one token pair per refresh token; an administrator remains; a decision on a registration is final |
| Vault | `cabinets`, `folders`, `passwords` | cabinets and members, folders (tree), entries, reveal, move | cascading deletes without a transaction | entries stay within a cabinet and folder that exist; members only |
| Job wrappers | lock files | `run_*_sync.sh` | test and create are separate; stale time-out; unconditional removal on exit | one run at a time |
| PaloAlto, Device42, Zabbix, vSphere services | none of their own | look-ups, log jobs, discovery imports | outside systems | reported errors, no partial state |
| AI assistant | `assistant_messages`, `assistant_sessions` (which conversation is current), embeddings | ask, history, new, switch, delete; retrieval | an answer takes minutes, while the user goes on; a conversation exists by its messages alone | the page shows the conversation questions go to; what was deleted stays deleted; every question ends |
| Audit log, statistics, RIRs, assets | append-only or plain CRUD | | little | |
| Sessions in the browser | access token and pending refresh per tab, a cookie all tabs share | mount, interceptor, login, logout | concurrent 401s, one-time tokens, lost answers | one refresh for all who wait; nobody waits for ever; who is out is out |
| Front end | the `useState` cells of each page, its requests in flight, streams and timers | a handler per button, an effect per dependency | answers that arrive late or in another order; closures over old filters; aborted streams; dialogs closed under way | what is shown is what the server holds; no dead spinner; nothing sent twice; only what the role allows |

The hazards of each, with the line where they bite, are listed in `PROJECT.json`.

## 2. The models

Conventions. An action is what one actor does between two awaits (for a shell script, one command). What the code reads
in one step and uses in a later one is kept in the actor's record (`snap`, `known`, `seen`, `doc`, `todo`): staleness is
therefore in the models, not beside them. Bounds are CONSTANTS and are marked `bound` where they are declared. Variables
marked `history` have no counterpart in the code and no guard of an action reads them. Definitions headed `Broken
variant` are the way a plausible bug would look; no specification uses them, and each is there to show that a
property notices it.

**Requests that overlap.** In `UserAccounts`, `Vault` and `SubnetTree` many promises of the code are kept by a check in
one operation and a write in a later one. They hold for any *sequence* of requests and cannot hold for overlapping ones.
The history variable `calm` says that so far no two requests were under way at the same time (in `Vault` and `SubnetTree`
also that none stopped half-way): a property of the form `calm => ...` states the sequential promise, and the same run
goes on checking the other properties when requests do overlap. What goes wrong in the overlaps is listed in section 7.

### IPRecords (`routers/ip_records.py`, `services/ip_record_service.py`, the four `*_sync.py`)

State: `recs` (status, holder, key of each document), `chk` (the availability checks under way), `jobs` (the nightly
jobs, any number of nights), and the history `racers` (which workers had read a record before it was last reserved).
Actions: one per handler (`Create`, `ImportRow`, `Update`, `Delete`, `Reserve`, `Release`, `BulkUpdateStatus`;
`/bulk/update` sets descriptive fields only and has no action); a check is `StartCheck`/`StartBulk` (the read),
`NextOfBulk` (the next read of a batch), `ApplyFinding`/`ApplyPing`/`ApplyError` (the write, on the snapshot) and
`FinishCheck` or `Disconnect`; a job is `StartJob`, `SyncRead`, `SyncUpdate`/`SyncInsert`/`SyncInsertFails`, `EndJob`.
The answers of the outside systems are nondeterministic. `Reserve` is one action because the code uses a conditional
update; everything else that decides on a status does so on a snapshot.

### FileStore (`services/file_service.py`, `routers/files.py`, `core/clamav.py`, `scripts/file_cleanup.py`)

State: the documents (`recs`), the staging directory (`staging`), the encrypted files (`blob`), what the scanner would
recognise (`malware`), the position of each upload with its background task (`task`), of each request (`req`) and of the
clean-up (`job`). An upload is `Stage`, then `CreateRecord` or `TooLarge`; the background task is `Scan`, then
`Encrypted` and `FileRecord`, or `Flag`. A download is granted (`StartDownload`), opens its file when the first chunk is
asked for (`OpenBlob`), streams, and after a user's download `After` looks whether the file destroys itself. Deletion is
read, record, file; the clean-up is list, and for each document file, record. `TaskFails`, `RequestFails`,
`CleanupFails` and `Crash` stop an actor where it stands. The history `blind` holds the files that somebody deleted
who had read the document before it had a path.

### UseBudget, ShareLinks (`services/share_service.py`, `repositories/share_link_repository.py`)

`UseBudget` is what a link promises, without requests or documents: opened once, used while open and within its limit,
closed for good. `ShareLinks` is the code: `Peek` (find, check, passphrase), `TryConsumeView` (the conditional update,
whose answer may be lost) or `ConsumeFails`, then `Serve` or `AcceptUpload` and `Attach`, with revocation, expiry, purge
and changes of the target in between. `KeepsPromise` is `UseBudget`'s specification under the refinement mapping
`Promise`, in which the uses of a link are the *requests* that took one, not the counter in the document. Its
specification is `LinksSpec`, and that of `Vault` is `VaultSpec`: the proofs about files, links and the vault, three
independent systems, are the three parts of one module, `Sharing_proofs`.

### UserAccounts (`services/user_service.py`, `services/auth_service.py` login, `main.py` seed)

State: `docs` (accounts), `work` (the requests under way), the history `guesses`. A handler is a read (`StartAdd`,
`StartDecide`, `StartDelete`, `StartDeactivate`, `StartActivate`, `StartLogin`), where there is one a count
(`CountAdmins`), and a write (`Insert`, `Approve`, `Reject`, `Delete`, ...). An LDAP user's first sign-in inserts the
account and goes on to `SignIn`. `Restart` is the start of the process: it drops the requests and creates the seed
account if its name is free. Who may call is part of every guard (`Callers`, from `require_role`).

### Vault (`services/cabinet_service.py`, `folder_service.py`, `password_service.py`)

State: `cabinets`, `folders`, `entries`, `work`. `DropEntries` and `DropCabinet` are the two halves of the deletion of a
cabinet; a folder is created by `StartFolder`, `FindParent`, `FindName`, `InsertFolder`; its deletion is `Collect` and
one `DropFolder` per folder collected. `Fail` stops a request between two operations.

### SubnetTree (`services/subnet_service.py`, `vrf_service.py`, the importers)

State: `docs` (subnets with `parent`), `used` (subnets with IP records), `vrfs`, `work`. Creation is `StartCreate`,
`FindParent`, `InsertSubnet`, `FindSiblings`, `Reparent`; `StartCreateUnder` names the parent; `StartImport` and
`ImportSubnet` insert without either search; `MoveVrf` is the blind update of the scope; deletion is `StartDelete`,
`CountRecords`, `Delete`. Networks are sets of addresses (`Cover`) with a prefix length (`Len`), constrained by the
assumption that prefixes nest or are disjoint. `Tree` is `build_tree`.

### JobLock (`scripts/run_*.sh`)

State: the lock file with its age, and each run's place in the script. `Start` is the test for the file, `Stat` its age,
`Remove`, `Touch`, `End` (the EXIT trap) and `Kill`. Time is `Tick`; ages beyond the limit are one age.

### Sessions (`AuthContext.tsx`, `api/client.ts`, `LoginPage.tsx`, `auth_service.py` login, refresh, logout)

State: per tab the cells of `AuthContext` and of the module `client.ts` (`tab`), the `cookie` all tabs share, the
requests in flight (`calls`), and at the server which pair of tokens was issued for which (`from`), the block list and the
access tokens that are no longer good (`dead`). A pair is a number. A refresh is two steps at the server, as the code is:
`refresh_checks` and `refresh_rotates`, whose insert the unique index may refuse. In the tab, `intercept` is the response
interceptor up to its await, `silent` the end of the shared refresh with all who wait for it, `mounted` and `me` the
effect of `AuthProvider`. `expire`, `deactivate` and `lose` are the world around.

### Assistant (`AssistantPage.tsx`, `routers/assistant.py`, `conversation_repository.py`)

State: the two collections (`messages`, `pointer`), the cells of the page, and the requests with the place of their
handler (`calls`). Each handler of the server is cut at its awaits (`find_session`, `start_new_session`, `ask` which saves
both sides only when the answer is there, `session_belongs_to_user`, `switch_session`, `is_current_session`,
`delete_session`); each handler of the page is what it sends (`send`, `startNewConversation`, `switchToSession`,
`deleteConversation`) and what it does with the answer (`takeAnswer`, ...).

### Browser, the modules of the pages, and App (`frontend/src`)

`Browser` is the kernel: a page is a record of cells (`ui`), a set of requests in flight (`calls`) and what answer each
list shows (`shown`). A handler that awaits a request is one action with disjuncts: one sends (`Act`, which the user
does; `Fire`, which a timer does; `Abort`, which also cancels), others take the answer (`Show`, `Done`, `Fails`). A
request carries what its closure captured. The server is abstract: it carries a request out or refuses it (`Serve`,
`Refuse`), and of every answer the model keeps which requests of the page have changed what it shows since it was computed
(`since`). The module of a page says what its requests change, all of it, whether the page loads it again or not
(`...Touches`), and what a check has changed although it reports no update (`...Maybe`, from `_apply_combined_check`).

The modules that EXTEND it have the names of the code's pages and handlers: `UsersPages` (users, pending approvals,
audit log, registration), `RecordDialogs` (the three dialogs that check availability, used by several pages),
`IPRecordsPage`, `UnusedIPsPage`, `SubnetsPage`, `NetworkScanPage`, `PaloAltoPage`, `DashboardPage`, `IntegrationsPage`,
`VaultPage` and `FilesPages` (files, and the two pages behind a link). Each says what the properties need to know of it:
what role the server asks for (`...Required`), which requests a spinner stands for (`...Spinners`) and which answers the
present state of the page calls for (`...Wanted`). `App` EXTENDS them all and is one of them in a tab, with the
properties of all; where two pages of the code use one name, the module's has the page in it (`handleDeleteSubnet`; the
map gives the name in the code). Cells are set with `f ++ g`, which is the record `f` with the fields of `g` that it
lacks. What is left out of a page is what has no part in this: layout, texts, icons, formatting, validation of the
fields of a form.

## 3. Runs

| Run | Question | Bounds | Result |
|---|---|---|---|
| `ip` | API handlers, one check (single or batch) and the nightly jobs | 2 documents, 1 address, 1 user, Device42 and one upgrading job on any number of nights, a batch of up to 2 ids (also the same id twice) | holds |
| `ip_jobs_reserved` | README: no job touches a Reserved record | 2 documents, no checks | **violated** |
| `files` | one file's whole life, every kind of request | 1 file, 2 requests, 1 fault | holds |
| `files_shared_once` | a file that destroys itself, through a share link | 1 file, 1 request, no fault | **violated** |
| `links` | a link under concurrent requests | 1 link, 4 requests, limits none, 1, 2 | holds |
| `subnets` | the tree under creation, import, moves and deletion | 3 documents, 2 workers, failures; three plans: 4 networks on 3 levels; 3 in a row, with IP records; 3 networks and 1 VRF beside the global scope, with importers and moves | holds |
| `accounts` | accounts with two requests at a time and restarts | 2 documents, 2 names, a lock after 2 wrong passwords | holds |
| `vault` | every request of the vault | 2 cabinets, 1 entry, 2 names, 2 workers, failures; two plans: all requests with 2 folders, those of folders with 3 | holds |
| `lock` | the lock file | 4 runs, 3 kills, limit of 6 ticks | holds |
| `sessions` | tokens and tabs | 2 tabs, 3 pairs of tokens, 2 requests in flight per tab | holds |
| `assistant` | conversations under overlapping requests | 3 conversations, 2 questions, 2 requests in flight | holds |
| `pages` | every page of the front end | 2 rows, 4 roles, 2 requests at which the user pauses | holds |

Why these bounds are enough to be interesting. *One address* suffices for `IPRecords`: the relations between records are
about one key, and two documents that may share it exhibit them. *One user* does, because no guard of the code asks who
holds a reservation. A *plan* (`subnets`, `vault`) is chosen in the initial state and says which kinds of requests a
behaviour may have; each plan is as large as its part of the state space allows. *One file* suffices for `FileStore`,
whose actors share nothing across files but the clean-up's list; two requests are the smallest number that can delete
under each other, and one fault may strike any actor at any step. *Four requests on one link* are two more than the
highest limit. *Three subnets* are a parent, a child and what comes between them; *three folders* a chain, the shortest
in which collecting children is not enough. *Four runs and three kills* leave one run to do the work. In `accounts`, two
documents suffice for a second Administrator and for a name that is used again; a third does not fit in the time a run
may take, which the proofs make up for. In `vault` the one user is a SuperAdmin, who passes every role check and is a
member of what he creates, so that no behaviour of the three collections is cut off; who may do what is not what this
run asks. *Three pairs of tokens* are the one of the cookie, the one that two refreshes both want, and one to go on with
(four were tried as well and hold, in more time than a run should take). *Three conversations* are one that is current,
one to switch to, and one that a deletion creates. In `pages` a handler or a timer may send when two requests are in
flight, so there are more than two; two rows are the one a dialog is open for and another; a page's rarely combined
dialogs (`Tools` in the modules) are one per session. Symmetry is used only in runs without liveness.

What the passing runs show, by hazard:

* *Stale snapshots*: a check or a job ends a reservation only if the reservation was made after its read
  (`ReservedLostOnlyToRacer`).
* *Uniqueness*: although the query and the insert are apart and jobs move records between scopes, the index keeps keys
  unique (proved as `KeysStayUnique`).
* *Batches*: every id is scanned or reported once and the stream ends (`BatchAccounted`, `CheckEnds`).
* *Two stores, no transaction*: a clean, unexpired document has its complete file (`CleanHasBlob`); plaintext on disk is
  always explained (`PlaintextAccounted`); a file without document comes only from the race named in
  `OrphansOnlyFromRaces` or from a fault; a granted download breaks only on a deleted or expired file
  (`BrokenOnlyIfGone`); nothing infected is served (`NoMalwareServed`); scans, expiry and self-destruction end
  (`ScanEnds`, `ExpiredFilesGo`, `OwnerDownloadDestroys`).
* *Check, then use of a link*: `UsesCounted`, `RevokedStaysUnused`, `OneFilePerUploadLink`, `KeepsPromise`.
* *Accounts*: `UndecidedStaysOut` under every interleaving; `DecidedOnce`, `AdministratorRemains`, `LockedInTime`
  sequentially.
* *Trees*: `TreesApart`, `ParentsContain` and `Acyclic` under every interleaving and failure; `NoLooseFolder`,
  `EntriesHaveCabinet`, `Nested`, `AllVisible` sequentially. `Acyclic` is checked with networks that have one
  spelling in one scope: section 7 says what happens otherwise.
* *Lock*: `OneAtATime` for runs that start apart and end before the lock is stale; `RunsAgain` after any kill.
* *Tokens*: a refresh token is exchanged once (`ExchangedOnce`), and nobody waits for ever for a refresh (`WaitEnds`),
  whatever tabs, losses and expiries do; with one tab and no loss the page never loses its token (`KeepsToken`: the
  reason for the shared refresh) and a logout is final (`OutIsOut`: no cookie until the next login, although a 401 may
  have renewed it under way).
* *Conversations*: for a user who waits for answers the page shows what the next question goes to (`ShowsCurrent`) and
  what was deleted stays so (`DeletedForGood`); every question ends its wait, whatever the user does (`AskEnds`).
* *Pages*: `UpToDate` for a user who waits for one answer before the next click, with all that effects, timers, aborts and
  reloads do by themselves in between: every list is the answer to the query that is chosen, and older than none of the
  page's writes but those that the code does not load it for again. These the property names, list by list
  (`LeftBehind` in `App`, section 7); `NoDeadSpinner`, `SentOnce` and `AllowedByServer` whatever the user does and the
  server refuses.

`CHECK_DEADLOCK FALSE` is in every configuration because every model may really stop: documents are bounded, and the
requests of some models have one life each.

## 4. Fairness

* `IPRecords` `FairSpec`: weak fairness of each check's `CheckStep`. The event loop resumes every coroutine whose await
  has completed, and every probe has a timeout (an expired one is an error event, `ApplyError`). Nothing obliges a
  client to send a request or to stay connected.
* `FileStore` `FairSpec`: weak fairness of background tasks, uploads, running requests and the clean-up, which cron
  starts every night; faults are never fair and there are at most `MaxFaults`. Nothing obliges a date to arrive.
* `JobLock` `FairLockSpec`: time passes, cron starts some run again and again, and a script goes on. No particular run is
  obliged to start, and none is obliged to be killed.
* `Sessions` `Spec`: weak fairness of the answers to the requests of each tab, of the server and of the tab: every request
  ends, with an answer or by the timeout of axios (`client.ts:15`), which is `lose`. The user is obliged to nothing.
* `Assistant` `Spec`: weak fairness of questions only; the call to the model has a timeout on both sides
  (`api/assistant.ts:49`, `ai_service.py`).
* The pages are checked for safety only: their requests may stay in flight for ever.

## 5. Theorems

Checked by TLAPS for every value of the constants, from the assumption named in each module (`IPRecordsAssumption`, ...:
the placeholders `NoId`, `NoFile`, ... are not elements, sets that are counted are finite).

* **IPRecords_proofs.** `TypeCorrect`; `KeysStayUnique` (`UniqueKey`): inductive with the typing once one knows that
  every write keeps the key or passes `KeyFree`. `StaleAlwaysRacing` (`StaleOnlyIfRacing`): a worker holding a Reserved
  record it did not see Reserved is in `racers`; this is the strengthening that makes `ReservationsOutliveReaders`
  (`ReservedLostOnlyToRacer`) provable: each apply writes a non-Reserved status only if its snapshot was not Reserved
  (or the ping was answered), so by the invariant the worker was a racer. `BatchesAccounted` (`BatchAccounted`) is
  inductive with the typing, for batches of any length.
* **Sharing_proofs**, of `FileStore`: `CleanDocumentHasBlob`, `BreaksOnlyIfGone`, `PlaintextIsAccounted`,
  `OrphansComeFromRaces`, `MalwareStays`. None is inductive. `TaskOrder` ties the place of a background task to document
  and blob ("encrypting" means the blob is partial, "clean" that the task is done and the file is no malware),
  `RequestOrder` says what a request knows ("known" only after the task is done; "unlink" only after the record was
  deleted), `JobOrder` that the clean-up holds expired documents only. There is one lemma per action.
* **Sharing_proofs**, of `ShareLinks`: `UsesExactlyCounted` and, from it, `LimitHolds` and `OneFileLands`;
  `RevocationHolds`; and `RequestsKeepPromise`, the refinement: initial states map to initial states, and each step is
  `Use`, `Open` or `Close` of `UseBudget` or a stutter. `UsesCounted` is what makes the guard of the conditional update,
  which is about the counter, the guard of `Use`, which is about requests.
* **Requests that come one at a time.** The theorems about properties of the form `calm => ...` (the last three of
  `UserAccounts_proofs`, two of `Vault`, two of `SubnetTree_proofs`) share an argument: while the behaviour is
  calm at most one request is under way (`OneBusy`), so that a request that goes on is alone (`Alone`), and the invariant
  may say what its earlier reads still mean (`Knows`, `Mine`) because nobody wrote in between. That sets of requests are
  finite is used to count them. In `Sessions` and `Assistant`, where `calm` allows some requests together, the invariant
  says which (`Apart`) and what each of them means to the page (below).
* **UserAccounts_proofs.** `NamesAreUnique` and `UndecidedNeverSignsIn`. The second needs `Held`: what a login that has
  accepted an account still knows when it writes is that the account is decided or gone (`Settled`), since no write
  makes an account pending and ids are not used twice. While requests come one at a time: `RegistrationsDecidedOnce`
  (`DecidedOnce`), `AnAdministratorRemains` (`AdministratorRemains`: the request that writes read the account it writes
  to and counted the others), and `AccountsLockInTime` (`LockedInTime`: the count in the document is the number of wrong
  passwords in `guesses`, or the account is locked).
* **Sharing_proofs**, of `Vault`: `VaultTreesApart` (`TreesApart`) under every interleaving and failure: a folder and
  its request name the cabinet the parent was found in, and a folder never changes its cabinet. While requests come one
  at a time `VaultEntriesHaveCabinet` and `VaultNoLooseFolder`: the folders a deletion has still to remove are what it
  collected, and what is below them is among them.
* **SubnetTree_proofs.** `SubnetParentsContain` (`ParentsContain`: unless users name parents) under every interleaving,
  import, move and failure: a parent that was found, or a child about to be re-parented, keeps its network whatever else
  changes. The other three theorems have the hypothesis that each network is written one way (`OneSpelling`; two
  spellings are the exception of section 7). `SubnetsNested` (`Nested`) for requests that come one at a time. Its
  invariant (`NestInv`, `Nesting`): networks are unique, parents exist, the parent a request found is the smallest
  around its network, and the children it has still to re-parent are exactly the subnets inside the new one whose parent
  is around it. `SubnetsAllVisible` (`AllVisible`) follows from the same invariant at every state: if some subnets are
  hidden, take one with the shortest prefix (`SomeIsLeast`); its parent exists and is shorter, so it is shown, and so is
  the subnet. `SubnetsAcyclic` (`Acyclic`) holds for every interleaving, parents named by users, importers, deletions
  and failures, as long as no subnet moves to another VRF. Parents are not ordered by their prefixes here, since users
  name them, nor by their age, since re-parenting points an older subnet at a newer one. So the invariant (`DescentInv`)
  says that two functions exist which the code does not keep: `U[i]`, the line of ancestors that `i` was inserted under,
  and `O[i]`, what had been inserted before. However `i` is re-parented, it stays below `U[i]`, and what has come
  between is of a wider network, or an older document of the same one (`Under`, `Around`). Going from a subnet to its
  parent one gets ever `Farther` in the sense of these two; that is a strict order (`FartherIsOrder`), so a finite set
  that is closed under parents would have no last element (`DescentHasNoCycle`).
* **Sessions_proofs.** `TokensExchangedOnce` (`ExchangedOnce`). The invariant adds that every token that was exchanged
  is on the block list (`ExchangedAreBlocked`): the check of `refresh_checks` is then not needed for it, only the index.
  `SessionsTyped` gives the types. `NobodyLosesTheToken` (`KeepsToken`) and `LogoutIsFinal` (`OutIsOut`), for any number
  of requests that meet an expired token at once, are two conjuncts (`Kept`) of one invariant, `calm => Good`: one tab
  is open; one refresh is under way, and who logs in or out does nothing else but wait for it (`Apart`); the cookie is
  not on the block list unless the answer with its successor is on its way (`CookieGood`), a refresh carries that cookie
  and fails only if there is none (`Refreshed`); what an answer brings is good (`Answered`), and the page is where the
  request left it (`Placed`).
* **Assistant_proofs.** `PageShowsCurrent` (`ShowsCurrent`) and `DeletedStaysEmpty` (`DeletedForGood`), for any number
  of conversations and questions. The invariant, `calm => Good`, says of each place of a handler what it has found
  (`Works`: it is at the conversation the pointer is at, or at one that has messages and hence was not deleted), which
  requests mean that the page is about to change (`Behind`), and, if there is none, that the page's id is the pointer
  and the screen shows its messages, with the question that is awaited and less the answer (`Asking`).
* **JobLock**, in the last section of `IPRecords_proofs`: `AloneAtWork` (`OneAtATime`) and `OwnLock` under `Prompt` (runs
  start apart, and none takes longer than the limit). The invariant: the lock of a working run is there and as old as the
  run, so `Stat` finds it young; a run past the test is alone (`NobodyWorks`, `AloneAtLock`).
* **App_proofs.** `NoDeadSpinners` (`NoDeadSpinner`), `CommandsSentOnce` (`SentOnce`) and `RolesObserved`
  (`AllowedByServer`) for all pages and dialogs, from one invariant, `AppSound`. Nothing the three say depends on what a
  request asks, so that the proof follows two sets instead of `calls`: the handlers with a request in flight (`sent`)
  and those that may have two (`twice`). The forms of action of `Browser` are reduced to what they do to these once
  (`Acts`, `Drops`, `Takes`, `Answers`); a handler is then one of these forms with the cells it sets. The invariant of a
  page is a handful of clauses: a spinner that is on has one of its requests under way (`Turns`); a spinner that
  disables its button is on exactly while one of its commands is under way, and that one alone (`Guards`); what only
  some roles may send is not under way for others (`OnlyFor`). `Guards` is why `SentOnce` is not inductive as it stands:
  a command is not sent twice because its spinner was off, and the spinner was off because no command was under way.
  That a command is not sent by someone who may not send it needs to know which dialogs that role may have open. Only
  handlers of the open tool are under way (`Within`), which is what tells apart requests of one name in two dialogs. The
  invariant of a page is that of its frame and of the tool that is open, over separate cells, and `Beside` says that a
  step of one leaves the other as it is.
* **Screens_proofs.** `ScreensUpToDate` (`UpToDate`), for all pages, from the invariant `AppFresh`. Here it matters what
  requests ask and what was written since they were answered, which `AppSound` does not follow. A list is described by the
  cell of `shown` it fills, the requests that read it, the commands after whose answer it is loaded again, whether these
  take the query or the subject they load from what they were called with or from what is chosen when they are answered,
  the requests that may report no update, and the writes after which nobody loads it again (`left`, which `LeftBehind`
  contains). Each page has a lemma that whatever its requests touch is either loaded again or left. `Fresh` says of a
  list, while the behaviour is calm: a command that writes is alone in flight, so that no answer under way was computed
  before a write (`Steady`); each read under way carries the query that is chosen now, and so do the commands that load
  the list by the query they were called with (`InOrder`); and what is shown is good, that is, the answer to this query
  and older than nothing but writes of `left`, or a request that will make it so is under way (`Due`). `UpToDate`
  is `Due` with nothing under way. `InOrder` is what makes it inductive: that nothing is in flight says
  nothing of which answer was taken last. A query changes by a click, which finds nothing in flight; by a timer,
  whose query is what anything in flight already asks for; or by an effect, which sends the request for the new query in
  the same step. One
  lemma for each form of action of `Browser` says what it does to a list; a page has a lemma that it starts fresh, one for
  each handler, and one that its lists are all that `Wanted` names. Pages add what they need: the list of unused
  addresses is due for the query of the timer while there is one (`UnusedTarget`); a scan that starts with a dialog of the
  dashboard finds no other request (`Lone`). The proof asks two things of the model, both plain: a query of
  the unused addresses is not null (`UnusedIPsAssumption`), and a cabinet that is selected is one of the list.

Every invariant and every action property that a passing run checks is a theorem. Only model-checked is liveness
(`CheckEnds`, `ScanEnds`, `ExpiredFilesGo`, `OwnerDownloadDestroys`, `RunsAgain`, `WaitEnds`, `AskEnds`), which is out of
the prover's reach.

## 6. Findings

* `ip_jobs_reserved`: `README.md:159` says that no nightly job touches a `Reserved` record. A job reads the record,
  decides on the status it read and writes without a condition (`scripts/zabbix_sync.py:218`): a reservation made in
  between is overwritten, and `reserved_by` still names its holder.
* `files_shared_once`: a file with `delete_after_first_download` stays after a download through a share link: only the
  user's route schedules the deletion (`routers/files.py:127`).

## 7. Known exceptions that no run shows

Met while modelling, or seen as counterexamples of stronger properties before these were weakened to what holds.

* **Device42 and an upgrading job overlap**: `Free` may be written over `In Use` (`README.md:1014`,
  `scripts/device42_sync.py:316`).
* **Clean-up order**: `README.md:226` speaks of the record first; `file_service.py:310` removes the file first.
  **Orphans**: a deleter that read the document before it had a path leaves the file behind (`FILE_SHARING_PLAN.md:182`,
  `file_service.py:296`).
* **Purge of links**: the index removes a link 90 days after its creation (`init.js:196`), links may be valid for a
  year (`schemas/share_link.py:9`).
* **Subnets.** Imported ones are not nested (`README.md:101`, `device42_sync.py:188`). Overlapping creations leave a
  subnet between another and its parent (`subnet_service.py:121`). A parent that a request names is not looked up
  (`:119`). Two spellings of one network pass the unique index (`:111`), and each may become the other's parent
  (`:177`). A subnet that moves to another VRF leaves its children behind (`:347`). Children, records and the subnets of
  a VRF are counted before the deletion (`:384`, `vrf_service.py:151`).
* **Accounts.** Two requests may remove the last two Administrators (`user_service.py:192`); of an approval and a
  rejection at the same time the later wins (`:289`); failures counted at the same time count once
  (`auth_service.py:193`).
* **Vault.** An entry inserted while its cabinet is deleted outlives it (`cabinet_service.py:171`), and so do the folders
  always; entries of a deleted folder keep its id (`README.md:272`, `folder_service.py:93`), and the folder that a request
  names for an entry is looked up nowhere (`password_service.py:127`, `:182`); two folders of one name
  may be created at once (`folder_service.py:56`); a SuperAdmin who is no member reads nothing (`README.md:221`,
  `password_service.py:63`).
* **Sessions.** Two tabs that refresh at once, or a refresh whose answer is lost: the second is refused and its tab has no
  access token, while `isAuthenticated` stays true (`client.ts:57`): the page stays, every request of it fails, and
  `ProtectedRoute` redirects only after a reload. A logout does not block the refresh token (`auth_service.py:273`): a tab
  that refreshes at the same time stays signed in. Somebody who has a cookie and mistypes a password renews the cookie.
* **Assistant.** An answer that is awaited when its conversation is deleted brings it back, although "this permanently
  deletes it" (`AssistantPage.tsx:325`, `routers/assistant.py:1083`). After "New Conversation" `currentSessionId` is
  null, so that deleting the current conversation does not read the new one (`:210`): the deleted messages stay on the
  screen. A first visit may create two conversations (`conversation_repository.py:40`). History that is read again while
  a question is awaited takes the question off the screen (`:138` guards the first load only).
* **Pages.** Lists have no cancellation: when the user changes a filter twice, the older answer may stay
  (`IPRecordsPage.tsx:175`, and most others). On page 2 of a cabinet, choosing a folder asks for both pages
  (`PasswordTable.tsx:84`). Some lists stay as they are after a request of their page has changed them (`LeftBehind`):
  the table, or the statistics, behind a scan of duplicates, which loads the duplicates alone
  (`DuplicatesModal.tsx:204`); the table after a check that reports no update and has yet written a description, a power
  state or a host name (`ip_records.py:1059`, `CheckAvailabilityModal.tsx:164`); the recent checks of PaloAlto, until
  their button is pressed; a revoked link, taken off the screen, is back with the next load, since the server lists it;
  a file that destroys itself after its download, and one whose scan has ended until the next poll. A discovery or
  import that ends after its drawer closed moves the closed drawer on (`VSphereImportDrawer.tsx:56`). On the dashboard,
  loading the statistics unmounts its open dialogs (`DashboardPage.tsx:218`). Enter on the page of a link sends the
  passphrase again while the first is under way, and each counts as a view (`SharePage.tsx:163`). Two reveals in flight
  leave two intervals (`useReveal.ts:74`). Some commands are offered to everybody and refused by the server
  (`OfferedToAll` in `App`).
* **Lock.** A run that takes longer than the limit loses its lock to the next, and its trap removes the next one's
  (`run_device42_sync.sh:17`).

## 8. Not modelled

* **Of the server**: descriptive fields, formatting, audit entries (their failures are swallowed), rate limits,
  cryptography, the probes of outside systems (their answers are inputs), retrieval and generation of the assistant,
  reports, a file that `os.remove` fails to remove where the code does not mind (`_cleanup_quiet`, `file_service.py:85`:
  the file stays; the models have it removed or the actor stopped), aggregates, RIRs, assets and IP ranges (single
  documents behind a check), changing one's own password, `zabbix_reconcile.py` (run by hand), deployment.
* **Of the front end**: `HomePage`, `PasswordGeneratorPage`, `HelpDrawer` and the like (static text, or no request at
  all), layouts and headers but for the logout, the pages for VRFs, aggregates and assets (their routes are disabled in
  `App.tsx:172`), and what is display alone.
* **Compositions left out**: two runs of one job on the same records (`JobLock` with `IPRecords`), a link to a file that
  is scanned or destroyed meanwhile (`FileStore` with `ShareLinks`; each has the other as a nondeterministic step), and
  the pages with the server's models (each page has an abstract server, which any of these models refines in what the
  pages can tell). They multiply state spaces that fill the time of a run by themselves.

`PROJECT.json` gives the reason for each component.

## 9. Plan

What would come next, in this order: a safety property that relates `AssistantPage` to a second tab; `IPRanges` with its
overlap check; `JobLock` composed with the jobs of `IPRecords`.
