# A verification of RyanSend

RyanSend (`src/`) is a small Rust server that hands out signed, expiring links
to files, directories and "tunnels": files that stay on a laptop behind a NAT
and are streamed through the server when somebody downloads them. This
directory holds TLA+ models of the parts of it that keep state or race with
something that does, the TLC runs that check them on small instances, and TLAPS
proofs of what matters most for every instance.

    tlc -workers 2 -config MCTunnelSafety.cfg MCTunnel      # one of the runs
    tlapm TunnelProofs.tla                                  # one of the proofs

`PROJECT.json` lists the runs, the theorems, the lines of the source every
definition stands for, the hazards the properties are aimed at and, for every
property, a mutation of the model that TLC must see break it. A definition
marked `Mutant` is such a mutation and not part of the model.

## 1. The system

| Component | State | Operations | Modules |
|---|---|---|---|
| Tunnel manager and handlers (`tunnel.rs` 1-183, `server.rs` 97-320, 500-576) | per incarnation: `connections` (file id, announced length, a `Notify`), `upload_senders` (file id to the sending half of a bounded channel) | announce, poll (30 s), upload, download | `Tunnel`, `FileTransfer`, `TunnelProofs`, `TunnelRefinement` |
| Tunnel client (`tunnel.rs` 186-450) | the connection it keeps, where it is in its one loop, its back-off, the file it sends | announce, poll, upload, announce again | `Tunnel` |
| Tokens and use counting (`auth.rs`, `server.rs` 450-500) | per incarnation: the `download_tracker`, a map whose entries expire | issue, verify, count | `DownloadTracker`, `UseCounter`, `DownloadTrackerProofs` |
| Plain-file response (`server.rs` 40-100, 577-730) | two file handles, the size read from the first, positions in `u64` | parse a range, open, read the size, open again, seek, stream | `FileResponse`, `FileResponseProofs` |
| Directory as ZIP (`server.rs` 322-448) | the collected entries, the archive task, a bounded pipe | walk, write entries, read the pipe | `ZipStream`, `ZipStreamProofs` |
| Restart loop (`main.rs` 140-215, `server.rs` 730-850) | the broadcast channel, the challenge store, the configuration loaded | load, serve, reload, back off, exit | `ServerLifecycle`, `ServerLifecycleProofs` |
| `config.yaml` (`config.rs`) and its writers (`admin.rs`, `tls.rs`, `set-password`) | one file, truncated and rewritten by every save; forms that show an earlier content | load, edit a copy, save, fill in and submit the setup form | `ServerLifecycle` |
| ACME (`tls.rs`) | a renewal task per incarnation with its own copy of the configuration | check, order, save | `ServerLifecycle` |
| Admin login and session (`admin.rs`, `auth.rs`) | a cookie in the browser; nothing on the server | log in, log out, ask for a protected page or a reload | `AdminLogin`, `AdminLoginProofs` |
| Login rate limiter (`rate_limit.rs`) | per incarnation: one bucket for all clients | admit, refuse | `AdminLogin`, `TokenBucket`, `AdminLoginProofs` |
| File browser and search (`admin.rs`) | none of its own; it reads a tree its owner works in | list, search, make a link | `FileBrowser`, `FileBrowserProofs` |
| TLS certificate loading, error pages, request logging, command line, scripts | none that an operation changes | | not modelled |

How they interact. A download request carries a token. `download_handler`
verifies it, takes a use from the tracker if the token is limited, and then
serves a tunnel, a directory or a file by what the token names. A tunnelled
download stores the sender of a fresh channel under the file's id and notifies
the poll that waits; the client answers by uploading the file, and the upload
handler pipes the request's body into whichever sender it finds. The admin
panel, behind the login, lists what can be shared, makes the tokens and edits
the configuration. Everything but `config.yaml`, the key that signs, and the
cookies lives in an *incarnation*: the panel's reload and every restart call
`run_server` again, which makes a new tunnel manager, a new tracker, a new
limiter and a new renewal task, while handlers in flight, and the renewal tasks
of earlier incarnations, go on with the old ones.

What is hard about it, and what each component has to get right:

* **Tunnel.** Four parties (client, poll, upload, download) meet through two
  maps, a `Notify` without permits and a channel, with no identifier that ties
  an upload to the download that asked for it. Right means that each body is a
  prefix of the file, that nobody's bytes are taken away by somebody else's
  request, that an upload answered 200 was delivered, that the client always
  comes back to its poll, and that a restarted server learns of the file again.
  The file itself may have another length by the time it is asked for.
* **Tracker.** Uses must be counted for as long as a token can be used,
  although the entry expires on a clock of its own, and requests race for the
  last use.
* **File response.** Range arithmetic in `u64`, and a file that may be another
  one between two of the handler's system calls. A download resumed as often
  as it takes must add up to the file.
* **ZIP.** Errors in the archive task end the body without an error, and the
  task must not outlive its reader.
* **Lifecycle.** Read, edit and write of one file by handlers, tasks and other
  processes without a lock; a form filled in from what may be out of date; a
  reload signal that may fall between two incarnations or be seen by the
  servers before the loop; tasks that outlive their incarnation.
* **Login.** Five at once and one a minute are two numbers, and the promise is
  about any minute, with several clients, pauses and refusals; connections
  reach limiters of several incarnations, and nobody from outside may bring
  about a new one.
* **File browser.** A walk that reads one directory after the other, while
  entries come, go and turn into links; a limit taken before the results are
  looked at.

The complete list, at the lines where each bites, is under `hazards`.

## 2. The modules

### Tunnel

State as the code has it: `connections` and `upload_senders` of every manager,
per download the state of its handler (`dstate`), the buffered chunks of its
channel (`chan`) and what its body received (`got`), per upload its handler's
state (`ustate`), the sender it cloned (`target`) and how far its body is
(`next`), and the client (`cpc`, `cmgr`, `task`). One file and one client are
enough, because the server's maps are indexed by file id and nothing crosses
ids. A chunk is one read of the client's file; a download provokes at most one
upload, so uploads bear the names of downloads. The length announced is
`FileLen`; `size` is the length the file has now.

| Code | Action |
|---|---|
| `announce_and_serve` | `Announce`, `AnnounceFails` |
| `poll_and_serve`'s loop | `PollLookup`, `PollWait`, `PollTimeout`, `PollUpload`, `PollRefused`, `StreamUpload*`, `Reannounce`, `WakeUp` |
| tunnel branch of `download_handler`, `request_file_stream` | `DownloadLookup`, `InsertSender`, `NotifyUploadRequested` |
| the response's body | `Receive`, `ChannelCloses`, `DownloadAborts` |
| `tunnel_upload_handler` | `GetUploadSender`, `Forward`, `DropSender`, `BodyError`, `FinishUpload`; `HandlerDropped` is hyper dropping the handler of a closed connection |
| graceful shutdown and `run_server` | `Reload`, `RunServer`, `Crash` |
| lost requests and answers, the client's end, the file's owner | `LosePoll`, `LoseReannounce`, `LoseUpload`, `ClientDies`, `ResizeFile` |

The steps lie where the code releases a lock or awaits: the poll's lookup and
its `notified()` are two steps, storing the sender and notifying are two steps.
Dropping a `Sender` is not a step; `HasSender` says whether any is left.
`Https` chooses between a plain connection, which a reload closes after the
request in flight, and a kept HTTPS one, which nothing closes.

`FileTransfer` is what the downloaders are promised, without any of this: each
body grows along the file, and is cut short before its first chunk or never.
The mapping (`Phase`, `Transfer`) forgets managers, polls, uploads and
channels. `ImplementsFileTransfer` says that whole behaviours are behaviours of
it. `TransferUntilHarmed` says the same of every single step, in a server and
network that may fail, up to the moment an upload is broken off or the file
becomes shorter than announced (`Unharmed`): from then on finding 2 of section 6
and the short file mentioned there are possible.

### DownloadTracker

`VerifyToken`, then `TakeUse` or `RefuseUse` (the section under the tracker's
lock). Time passes between the two, by at most `MaxDelay`; the entry is kept
`Grace` (a minute) past the expiry, cut to whole seconds (`Duration`). `Crash`
loses the handlers and the tracker, `RunServer` (a reload) lets handlers finish
with the old tracker.

`UseCounter` is what a limited link promises: on each server a number of uses
left that only goes down, and requests that are served while it is not zero and
refused when it is. It has no clock and no entries. `Left` maps to it what was
granted (a history), so `ImplementsUseCounter` says that what the handler reads
from the map whose entries expire is the truth whenever it acts on it.

### FileResponse

`parse_range_header` and the positions are operators (`Parses`, `Start`, `End`,
`Length`) in arithmetic modulo `W`; the handler is `PathExists`, `OpenFile`,
`ReadSize`, `Reopen`, one for each place where it may find another file, and
the response `Send`, `EndOfFile`, `Complete`. `checks` chooses a build with or
without overflow checks. The environment replaces, resizes and removes the
file between any two steps, loses the connection, and resumes.

### ZipStream

The walk (`WalkEntry`, `WalkFails`), the archive task with a step for every
await, and the pipe. Of the archive only its units are kept: heads, reads,
closes and the central directory.

### ServerLifecycle

The restart loop (`LoadConfig`, `LoadFails`, `ReloadReceived`, `ServerReturns`,
`ServerFails`, `BackoffOver`), `save_config` as the truncation and the write it
is (`Truncate`, `Write`, `WriteFails`), and certificates (`RenewalNeeded`,
`AcmeSucceeds` and on).

What the administrator does is an *edit*. The tunnel-secret handler and
`set-password` load, change and save (`BeginEdit`); the restart handler only
signals (`BeginRestart`). The setup form is two steps apart: `OpenPage` shows
the configuration the server was *started* with, or the answer to an earlier
submission, and `SubmitForm` loads the file and sets every field the form
shows, with or without a certificate request after the save.

Of a configuration the model keeps which edits it contains, which certificate,
and whether Let's Encrypt is used. A form's edits (`FormEdits`) are told apart
from secrets and passwords, which the form leaves as they were loaded. Two
histories say what was promised: `saved`, the edits whose save succeeded, and
`risked`, those another writer could not have seen when it took its copy.

### AdminLogin

`tat` is the bucket of each incarnation's limiter, kept as the governor library
keeps it: the time at which it will be full again (`Full`, `Refilled`).
`Admit` and `Refuse` are the middleware before `POST /admin/login`, `Succeed`
and `Fail` the handler, `Logout` the other one, and `MayEnter` what the
middleware of the protected routes asks of the cookie. Which password is right
is a choice. `AskReload` is any of the protected routes whose handlers send the
reload signal (restart, tunnel secret, certificate): the signal is `pending`
until `Reload` handles it, alone or together with others. `Reload` leaves
handlers and, with `Kept`, connections to the old incarnations behind
(`Reached`); `Crash` leaves neither, but cookies outlive
both, since the key that signs them is on disk.

`TokenBucket` is the limiter as its two numbers are meant: a bucket of `Burst`
attempts that is filled up a share at a time. `Credit` reads the bucket's
content off `tat`, and `ImplementsTokenBucket` says that every admission and
every refusal of every incarnation is one of that bucket.

### FileBrowser

`disk` says what is at every place: nothing, a file, a directory, or a link to
another place. A page is `Browse`, then for a search the walk (`ReadDir`,
`SkipDir`, one directory at a time, `EndWalk`), the look at every result
(`Examine`, `EndSearch`) and the listing (`ListDirectory`, `ListFails`).
A link to something is `Share`, `CheckShareable`, `GenerateToken`, each of which
looks at the tree again; a request the handlers refuse is `Refuse`. `Change` is
the owner, between any two of these. Requests share nothing, so there is one
browser. `Upward` is what lies above a place, as the least set that contains
the place and, with any place, its parent; `TreeAssumption` says that no place
lies above its parent, which makes every `Parent` a tree.

## 3. The runs

| Run | Instance | What it shows |
|---|---|---|
| `tunnel_safety` | 3 downloads, announced 2 chunks, 1 to 3 after a change, channel of 1, a restart, a fault, HTTPS | `Inductive`, with the types in it; bodies intact, acknowledgements honest, no partial body; steps of `FileTransfer` until harm is done |
| `tunnel_live` | 2 downloads, 3 chunks, channel of 2, a restart, plain | types; only an unclaimed sender hangs, and what a poll heard is served; the client polls again; re-announcement; implements `FileTransfer` |
| `tracker` | 1 token, 3 requests, a restart, 2 ticks a second | no use too many, no refusal too early, `Inductive`; implements `UseCounter` |
| `lifecycle` | 2 edits that may overlap, forms, renewals to 2 certificates, a failure | what is saved stays unless another writer could not have seen it, what was signalled is served, a restart asked for takes place |
| `file_response` | files to 3 reads, 2 versions, 3 requests, `W` = 8 | ranges, exact bodies, resuming, panics, termination |
| `zip_stream` | 2 entries, files to 3 reads, pipe of 2 | the body begins one archive of all entries; the task ends |
| `admin_login` | 2 browsers, burst 2, period 2, a day of 3, clock to 4, a restart, HTTPS | no server has a window with an attempt too many, nor has the process before anybody has logged in; the advice to wait is true; each limiter implements `TokenBucket` |
| `file_browser` | every tree of 6 places, depth 2, limit 2, a change | a search finds what stays, what it offers can be shared |
| `tunnel_hang`, `tunnel_corruption`, `lifecycle_lost`, `lifecycle_form` | the smallest that shows it | violations, section 6 |

Why the bounds are enough. *Tunnel*: a race over the one stored sender takes
two downloads, the third lets a cleanup hit a bystander; a channel smaller than
the file makes the upload block; with one restart a handler can hold the old
manager while the client is on the new one, and a second would add only
managers nobody reaches; a file may become shorter or longer than announced, at
any moment of an upload. The safety properties are proved without these bounds.
*Tracker*: three requests leave one to be refused and one to race; two ticks a
second make the truncation to whole seconds bite; the clock runs past the
expiry of an entry. Tokens do not influence each other. *Files*: with `W` = 8
and files to 3 every subtraction can wrap; two versions are the most two
handles can see; three requests resume a resumed download. Proper parts of
files, single positions, positions beyond the file and wrapped positions are
all among `Numbers`. *ZIP*: an entry before and one after the one that fails,
an archive larger than the pipe. *Lifecycle*: an edit in each of two
processes, or a form opened before the other's save and submitted after it, and
an earlier incarnation's renewal task beside the current one. *Login*: a burst
that is used up and earned back, by one browser or two, a session that expires,
a reload that somebody asks for, an old and a new limiter both reached. *Browser*: the sharing root, a directory
in it with two places below and one place outside, so that results lie at every
depth up to the one that is no longer descended into, links lead inside and
outside, and more can match than the limit allows.

`CHECK_DEADLOCK FALSE`: the environment need not start anything, so all of
these systems may come to rest; what must not stop is stated as liveness.

## 4. Fairness

* Tunnel: the client's loop, each handler and each download's body go on
  whenever they can (tokio schedules every ready task, and the timers of the
  poll and the back-off fire); a download with bytes waiting receives them or
  is broken off, which is what TCP does; `RunServer` follows a `Reload`,
  because the restart loop does nothing else. Nobody is assumed to start a
  download, to restart the server or to fail, and an upload whose client is
  gone is not assumed to be noticed.
* File and ZIP: the handler and the archive task are scheduled, and the
  response is read or its connection breaks. The owner may change the file for
  ever.
* Lifecycle: the loop and every edit, save or order that has begun go on. What
  the administrator does, whether a form is ever submitted, and when
  certificates expire, is not assumed.

All of it is weak fairness; in particular nothing is assumed about which of
two ready branches a `select!` takes. `DownloadTracker`, `AdminLogin` and
`FileBrowser` state safety only, and no fairness.

## 5. The proofs

The assumptions are the named `ASSUME`s of the modules, nothing else: sets of
downloads, tokens, requests, clients of any kind and finite sets of edits, any
length, capacity, width, burst or period from one, any number of restarts and
faults.

**Tunnel** (`TunnelProofs`). `TypeCorrect` is inductive by itself. The other
safety properties are not: that a body is a prefix of the file rests on no two
uploads ever feeding one channel, which the code nowhere checks. `Inductive`
says why it is so nevertheless:

1. `Structure`: a stored or cloned sender belongs to a download of that
   manager; an upload exists only for a download that has notified.
2. `OneUpload`: as long as no upload has lost its client, an active upload is
   the one the client is busy with. The client's loop does one thing at a time,
   and that, not the server, is the lock.
3. `OneFeeder`: hence a sender once cloned is removed from its map before the
   next upload looks, and no two uploads have the same target.
4. `Progress`: the position of an upload's body is what its channel and the
   download's body hold together; a channel without a feeder is untouched.
5. `Consecutive`: body and channel count up from one.

2 to 5 are claimed while `orphaned = {}`: after an upload has broken off
half way they fail, which is finding `tunnel_corruption`. From `Inductive`
follow `DeliveredIntact`, for every length the file comes to have, and
`AcksAreHonest` and `CutShortOnlyEmpty` while it is not shorter than announced.

`TunnelRefinement` maps the handler's states to the phases of `FileTransfer`
and shows that each step that begins `Unharmed` is a step of it or a stutter
(`TunnelTransfersUntilHarmed`), from `Inductive` and for any number of faults.
So a behaviour that is never harmed is a behaviour of `FileTransfer`
(`UnharmedTunnelImplementsFileTransfer`): lost polls and announcements, a
client that dies between uploads and a file that grows are all allowed. That
nothing is harmed when `MaxFaults = 0` is a corollary
(`TunnelImplementsFileTransfer`), and the form `tunnel_live` checks.

**Tracker** (`DownloadTrackerProofs`). That uses never exceed the limit needs
the age of handlers (`TimelyHandlers`: one that will count verified a live
token at most `MaxDelay` ago) and the life of entries (`CountsKept`: an entry
outlives its token by more than `MaxDelay`). The lemma about time is
`EntryOutlivesHandlers`; it uses `MaxDelay + Sec <= Grace`: a handler that
takes less than 59 seconds from verification to count. Nothing between the two
awaits anything but the lock.

`TrackerImplementsUseCounter` rests on one fact from the same invariant: when
the handler looks, an entry that is there or not gives `CurrentUses` the number
of grants. Hence "used up" to the handler is nothing left to the counter. A
reload changes which tracker new requests meet and nothing the counter sees; a
crash loses the requests that were verified (`Reset`).

**Login** (`AdminLoginProofs`). The limiter keeps one number, `LoginWindow`
speaks of a list of attempts. `Ahead` ties the two: `tat` is ahead of every
attempt by a period for it and one for each attempt since. An attempt is
admitted only while `tat` is at most `Burst - 1` periods ahead of the clock, so
`Burst` attempts ago lies a period back, one more ago two, and so on
(`AdmitSpaced`). `NeverFarAhead` and `ToldInv` say the opposite, that a bucket
is never emptier than empty, which is why a refusal's minute suffices. `OutsidersLimited` counts the attempts of a whole process:
`OutsideInv` says that before the first login no reload is asked for, so the
process has one server, and `PeriodLimited` that of its attempts, numbered in
order, those of a period lie within `Burst` of the first.
`LimiterImplementsTokenBucket` needs the same bounds: `Full`, a comparison of
times, is the bucket holding less than one attempt because `tat` is never more
than `Burst` periods ahead, and `Refilled` takes from the brim or from what is
left according to whether `tat` lies in the past.

**File response** (`FileResponseProofs`). First lemmas on the arithmetic modulo
`W`: where the wrap-around can and cannot happen, for every width the file fits
in. `IInv` then says that the body never exceeds what its headers announce
(`BodyFits`), that a resumed request asks for what is missing
(`AsksForTheRest`), that only overflows panic (`Panicked`), and that, while
nobody has touched the file, what was sent and saved are its parts (`Steady`,
`SavedSteady`).

**ZIP** (`ZipStreamProofs`). The downloader's body alone is not inductive: what
is in the pipe must continue it (`PipeContinues`), and the unit the task wrote
last must be one its next may follow (`TaskInStep`).

**Lifecycle** (`ServerLifecycleProofs`). Even the types need an argument, since
incarnations are numbered: `CountInv` charges each to an edit that is done, to
a failure or to the first start. `NothingLost` needs that the copy of an edit
being saved has all that is certain to stay (`CopyInv`), that two edits being
saved at once are both at risk (`OverlapInv`), and that signals follow saves
(`SavedInv`); with it and the loop's signal `AnsweredEditsServed` is inductive.
The proof is of the loop with overlapping edits; nothing in it assumes an
administrator who waits.

`SecretsStay` is refuted by `lifecycle_lost`, and `SecretsStayWithoutRenewal`
says what is needed to refute it. For an administrator who makes one edit at a
time, and while no certificate comes near its expiry, it is a theorem: then no
renewal and no other edit is under way (`AloneInv`), all an edit finds in any
configuration has begun (`KnownInv`), and so only what the setup form shows can
ever be at risk (`RiskInv`). The stale form puts settings back, not secrets.
(With `Expiring = FALSE` in `MCLifecycleLost.cfg` TLC finds no violation either.)

**File browser** (`FileBrowserProofs`). `FindsWhatStays` speaks of the end of a
search and says nothing of its walk. The invariant (`WalkInv`) says what a
match that has not been found waits for: a directory above it is on the walk's
list (`Awaited`), with enough of the depth left to reach the match. When that
directory is read, the match is found or the next directory on the way takes
its place. `ExamineInv` and `ListInv` carry it over the look at the results,
which loses only what the limit cut off (`full`). `OfferInv` says that what a
page offers is canonical, in the root and there until somebody touches it, so
that none of the looks taken later refuses it. Both are about trees of any
shape: the lemmas on `Upward` say what a walk from parent to child needs, from
its being the least closed set, without an induction over the tree.

**Only model-checked**: the liveness properties (out of the prover's reach,
fairness and `ENABLED`): `OnlyUnclaimedHang`, `HeardIsServed`,
`ClientKeepsPolling`, `ReannouncedAfterRestart`, `SignalledEditsServed`,
`RestartTakesPlace`, `EveryResponseEnds`, `TaskEnds`. Every invariant, action
property and refinement a passing run checks is also a theorem,
`ImplementsFileTransfer` under the hypotheses named above. The violations of
section 6 are counterexamples and need no proof.

## 6. Where the code and its documentation disagree

Each of these is a run that ends in a counterexample.

1. *A download may hang* (`tunnel_hang`). `notify_waiters` (`tunnel.rs:44`)
   reaches only a poll that waits at that moment. A download that arrives
   between two polls, or while an upload runs, is never announced to the
   client. `OnlyUnclaimedHang` shows that nothing else hangs, and
   `HeardIsServed` that a download whose notification was heard does not,
   unless something else fails or, on a plain connection, a restart comes
   between the poll's answer and the upload, which then reaches a server that
   knows nothing of it. (It holds with one fault, too, and over HTTPS.)
2. *A body may mix two uploads* (`tunnel_corruption`). After an upload breaks
   off, the next one clones the same sender while the first handler still
   forwards what it has received.
3. *A renewal undoes edits* (`lifecycle_lost`). The renewal task saves the
   configuration its incarnation was started with, over a tunnel secret or
   password set since. `SecretsStayWithoutRenewal` shows that nothing else does,
   for an administrator who makes one edit at a time.
4. *The setup page undoes what it saved* (`lifecycle_form`). Opened again after
   a save and before the restart the page asks for, it shows the settings the
   server was started with; submitted for something else, it puts them back.

Met while modelling, and part of the model, without a run:

* A second download of the same file replaces the sender of the first, which
  then ends empty, short of its Content-Length (`FileTransfer!CutShort`).
* A tunnelled file that has become shorter than announced ends its downloads
  short of their Content-Length, and its uploads are answered 200.
* Over a kept HTTPS connection the client goes on polling the previous
  incarnation and never re-announces: with `Https = TRUE`,
  `ReannouncedAfterRestart` fails.
* The counts of a single-use link are in memory and new with every
  `run_server`: after a restart, or a reload from the panel, it works once
  more. `MaxUsesRespected` holds of each incarnation.
* The login limiter is new with every `run_admin_server`, too. "Allow only 5
  login attempts per minute" (`rate_limit.rs:45`) is true of each incarnation
  (`LoginWindow`), and of a process until somebody has logged in
  (`OutsidersLimited`). A reload that somebody who is logged in asks for, or a
  restart of the process, brings a full bucket: ten attempts can then fall in
  one minute, and over kept HTTPS connections the old bucket goes on being
  refilled beside the new one.
* A refused browser that comes back after the minute it is told may be refused
  again, if another was admitted meanwhile.
* A reload or a submitted form that meets the file truncated fails; for a
  reload that is the end of the process (`LoadFails`). `RestartTakesPlace`
  excepts it: nothing in the code keeps a save out of a reload's way.
* Of two overlapping edits of `config.yaml` one may be lost: each saves all of
  what it loaded (`risked`).
* `ServerReturns`: a reload within 30 seconds of the start can be taken for a
  crash and keep the server down until they are over, although "Intentional
  restart, no backoff needed" (`main.rs:199`). `RestartTakesPlace` shows that
  nothing worse comes of it.
* A renewed certificate is not served before somebody restarts the server
  (the TODO at `tls.rs:461`).
* An order that outlives its incarnation waits on a challenge in a store that
  is no longer served (`ChallengeServed`).
* Any save writes the whole configuration it loaded, overrides from `RYANSEND_`
  environment variables included (`config.rs:140`).
* A file replaced between two requests of a resuming downloader leaves it with
  a mixture: there is no ETag, no Last-Modified and no If-Range.
* A file replaced between the two handles of a ranged request (`Reopen`) gives
  a part of the new file, at positions computed from the old one's size;
  `CompleteIsExact` is about files nobody touches meanwhile.
* For `bytes=b-a` with `a < b` the length wraps around and the file is sent
  from `b` to its end (`Length`), or the handler panics in a build with checks.
* A search that reaches its limit may show fewer results than the limit, or
  none, although more would match: what it drops afterwards, such as links out
  of the root, has taken the places.
* A listing shows links that lead outside the root; following one is answered
  403.

## 7. Abstractions and assumptions

* One clock for token expiry and tracker entries, and one for the limiter and
  the sessions.
* A signal is sent half a second after the save it follows, so loading the
  file and subscribing to the signal are one step of the loop. A signal that is
  sent between two incarnations is lost in the model as in the code; one sent
  in the moment between `main.rs:158` and 165, for a save made half a second
  before that moment at least, follows what has been loaded.
* The tunnelled file changes its length at most once; it is read as the
  upload's body is taken (the body is chunked, without a length of its own), and
  a body that has ended is not looked at again.
* axum and hyper, not under `src/`: a handler is dropped when its connection
  closes while it waits; over HTTP/1 a body is cut at its Content-Length; a
  graceful shutdown finishes requests in flight and closes idle connections.
* governor, not under `src/`: the generic cell rate algorithm, one cell per
  request, as `create_rate_limiter` configures it.
* The archive writer's own buffers are left out: a unit enters the pipe when it
  is written, and in the order it is written.
* In the browser the sharing root stays where it is, links do not lead to
  links, and a path through a link is taken as the one it leads to. Patterns,
  sizes, order and the shortened path of the page are left out (the cut after
  97 bytes at `admin.rs:434` may lie inside a character).
* Content of files is a version and a position, of configurations the set of
  edits; compression, TLS, HTML and logging are left out.
* `WriteFails` leaves the file as the truncation made it. `Crash` is the death
  of the process at any step; a supervisor starts it again.

Not modelled: loading and conversion of certificates (`tls.rs`; a failure is
`ServerFails`), error pages and templates (`error.rs`), request logging,
`remove_tunnel` and `list_connections` (no caller), the arguments and output of
the command line, the desktop scripts: parsing, formatting and I/O without a
state to check. Environment overrides are left out of the configuration, and so
is the failure of `create_dir_all` in the renewal task, after which it goes on
without waiting (`tls.rs:434`).

## 8. Plan

The order is that of importance. Done: the tunnel, the tracker and the login,
each with what it refines, the lifecycle with its forms, files, ZIP and the
file browser, checked and proved. What would come next:

1. Tracker and file response composed: a single-use link whose download breaks
   off has used its use and cannot be resumed.
2. Environment overrides in `ServerLifecycle`: what a save makes permanent.
3. A renewed certificate that nobody serves, as a property of the renewal task
   and the restart loop together.
