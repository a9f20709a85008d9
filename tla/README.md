# Verification of Claude Code Router

TLA+ models of Claude Code Router (`src/`, Go), checked with TLC and, where it
says so, proved with TLAPS.  The router is a proxy: clients speak Anthropic's
Messages API or OpenAI's Chat Completions to it, it picks an upstream provider
and one of its API keys, falls back to other keys, providers and models when
one fails, and writes down what was used.  A dashboard edits its configuration
while it runs.

## 1. Inventory

| Component | Source | State | Operations | Modelled in |
|---|---|---|---|---|
| routing core | `router/router.go` | per request: place in the recursion, place in the key loop, bytes written, counters | `HandleMessages`, `HandleChatCompletions`, `proxy`, `fallbackChain`, `tryProvider`, `lazyStreamWriter` | `Router`, `RouterProperties`, `OneAnswer` |
| key cooldowns, round robin | `router/fallback.go` | last 429 and its length per key value; cursor per provider; one mutex | `isRateLimited`, `markRateLimited`, `startIdx`, `advanceIdx` | `KeyState` |
| OpenAI-style provider | `providers/openai.go`, `base.go` | per answer: block indexes, tool slots, think filter, ending flags | `StreamWithResponseHeaderTimeout`, `stream`, `thinkFilter.process`, `convertToOpenAI` | `Router` (its errors), `OpenAIStream`, `ThinkFilter`, `AnthropicStream`, `RequestConversion` |
| Anthropic-style provider | `providers/anthropic.go` | per answer: the lines of one event | `Stream` copies the body line by line; `patchAnthropicBody` | `Router` (its errors), `AnthropicServed`, `RequestConversion` |
| configuration | `config/config.go`, `config/write.go` | `Manager.current` under an RWMutex; the file; an inotify watch | `Load`, `Watch`, `reload`, `Get`, `GenerateIfMissing`, four mutations | `ConfigManager`, `ConfigStore` |
| admin server | `admin/api.go`, `admin/server.go` | config subscribers; otherwise none of its own | configuration, keys, usage, live pages, test, restart, update | parts of `ConfigManager`, `Router`, `LiveFeed`, `ClientKeys`, `SelfUpdate` |
| live log, reload events | `middleware/logger.go`, `admin/server.go` | a map of channels under a mutex | `Subscribe`, `Unsubscribe`, `Publish`; `NotifyConfigReload` and its twins | `LiveFeed` |
| client keys | `middleware/auth.go`, `db/usage.go` | `client_keys` | `Auth`, mint, revoke, `UpdateLastUsed` | `ClientKeys`, `ClientRequest` |
| database | `db/usage.go`, `db/db.go` | `usage`, `client_keys`, `provider_keys` | inserts, ordered reads, deletes | `Router` (provider keys, usage rows), `ClientKeys` |
| format conversion | `router/convert.go`, `router/sse.go` | converter: partial line, current event, tool indexes | `openAIStreamConverter.Write`, `sseBytesToMessage`, `synthesizeContextExceeded*` | `StreamConverter`, `BufferedMessage`, `OpenAIServed`, `AnthropicServed` |
| request conversion | `router/convert.go`, `providers/openai.go`, `base.go` | none | `OpenAIToAnthropic`, `AnthropicBodyToRequest`, `convertToOpenAI`, `sanitizeParameterSchema` | `RequestConversion`, `ClientRequest` |
| self-update | `admin/api.go:484-706`, `cmd/ccr/main.go:29-41` | files beside the binary | `handleUpdate`, `extractBinary`, `cleanupOldBinary` | `SelfUpdate` |
| process | `cmd/ccr/main.go` | none | start, signal, exit | `Restart`, `Crash`, `Load`, `Start` |
| page, installers | `admin/static`, scripts | | | only that a page reconnects and fetches on a signal (`LiveFeed`), and which service restarts the program after which exits (`SelfUpdate`) |

How they interact.  Every client request is a goroutine that takes one snapshot
of the configuration (`cfg.Get()`), one snapshot of the keys per provider it
tries, and shares with all others the key state and the database.  A provider
writes Anthropic events to a writer the router gave it: the client's
connection, a buffer, or a converter.  Dashboard handlers save the
configuration through the manager's lock and publish it in memory; the raw
editor writes the file and leaves the rest to the watcher's goroutine; a
successful reload calls back into the admin server, which signals its pages.
At the end of a request the router writes a usage row and publishes an event.

What is hard.  Check-then-act on a key's cooldown; one time budget over several
keys; errors after bytes were written; a recursion that adds up counters and may
run in a cycle; requests cut off by a restart; a file with two kinds of writers,
one of which takes no lock; a watch on an inode that a rename replaces;
parse-then-lock; channels that are closed while others send; upstreams that end
their streams in every way, in the middle of a line too, or stall in the body of
an error; a key that is revoked while a goroutine is about to write its row; a
binary that replaces itself, in two renames and from several pages at once; two
request formats with different rules of where the results of tool calls must be.
`PROJECT.json` lists these hazards at the lines where they bite, with the
properties that cover them.

What makes each component correct: an answer comes from one upstream, ends the
way the client's state allows, and is booked to the upstream that gave it
(routing core); a cooling key is left alone but for requests already past the
check, no key is left out (key state); a client can follow the stream that is
written (providers); no edit is lost, what is saved becomes live, what is live
is never replaced by something older (configuration); publishing neither blocks
nor panics, and a page comes to show the last configuration (live pages); a
revoked key stays out and an issued one works (client keys); what a client said
reaches whatever provider is tried (requests); a complete binary is always at
hand, and the new one comes to run where the service restarts the program
(self-update).

## 2. Modules

Each module's comment says which code it is about; `map` in `PROJECT.json` ties
definitions to lines.

* **`KeyState`** - `keyState`.  Wall-clock instants are turned into time left,
  which `Tick` counts down; each operation is one step, as each holds the mutex.
* **`Router`** - extends `KeyState`.  `pc[r]` is where request `r` stands;
  `job[r]` has `fallbackChain`'s variables, `att[r]` `tryProvider`'s, `out[r]`
  what was written, `books[r]` the usage rows and events.  A step ends where
  another goroutine, the network, the clock or an administrator can act: the
  check of a cooldown and the request are two steps, the read of the cursor and
  the loop are two, the answer, the usage row and the event are three.  What an
  upstream does is a free choice of the outcomes the two providers tell apart.
  Time is counted in units: `budget` is what is left of `attemptDeadline`,
  `wait` what is left of the transport's `ResponseHeaderTimeout`, which starts
  when the request was sent, so that connecting (`dial`) costs budget only.  It is
  over with the headers: the body of an error is read in a stage of its own
  (`body`), which no time-out ends.  A translator that panics
  (`StreamPanics`) ends the request through main's `Recoverer`, unbilled.
* **`RouterProperties`** - its properties, and the refinement mapping to
* **`OneAnswer`** - the promise: what the outside may see of a request.
* **`RouterProofs`** - theorems about `Router` (section 5).
* **`ConfigManager`** - the manager, the raw editor, editors outside, inotify
  and crashes.  A file is an inode with a content; a rename puts another inode
  at the path and takes the watch away with the old one, as Linux's inotify and
  fsnotify v1.10.1 do.  A content carries ghosts: whether it is whole, who wrote
  it, whether inotify told of it, and its number in the order of all contents.
* **`ConfigStore`** - the promise on disk: one value, edited an entry at a time.
  **`ConfigProofs`** has the theorems about both.
* **`OpenAIStream`** - one turn of `stream`'s scanner loop is one action: a
  composition of operators, one for each piece of the loop's body, each writing
  its events to the client.  It extends **`ThinkFilter`**, the filter for think
  tags over texts as sequences of letters, and **`AnthropicStream`**, which is a
  client following the events: where the message stands, which blocks are open.
  The index of a tool call is any number that the chunk has: what comes before
  a negative one in its chunk is still written, then the turn panics.
* **`StreamConverter`** - `convertEvent`, from one event to the chunks it makes,
  taken at once by a client of OpenAI's API, which is what it has put together.
  **`BufferedMessage`** - `sseBytesToMessage`, as a fold over the events.
  **`OpenAIServed`** composes them: each turn of `OpenAIStream` leaves what it
  wrote in `st.wrote`, and both take it in the same step.
* **`AnthropicServed`** - `AnthropicProvider.Stream`, one action per line it
  reads, with the three kinds of client behind it; all of them keep lines until
  an empty one ends the event, so one pair of operators (`Keep`, `Ends`) is the
  rule for all.  The upstream is any that sends the events of one legal message:
  blocks of text, thinking, tool calls, and of types that the router does not know
  (redacted thinking, a server's tools), with deltas of the types it knows and of
  others (signatures, citations).  `CopyWhole` says of each kind of client what of
  that it has: one that is streamed to has all; one that gets a buffered
  message has the blocks of the three known types with their known deltas; one
  behind the converter has the text, the calls, and that there was thinking (the
  words of it are not compared).
  **`ProviderStreams`** is `newProvider`'s choice between the two.
  **`StreamProofs`** has theorems about `OpenAIStream` and `AnthropicServed`,
  **`ServedProofs`** about `OpenAIServed`.
* **`FoldTheorems`** - loops and recursive functions, for the proofs.
* **`ClientKeys`** - `Auth`, the statements on `client_keys`, each a step that
  may fail, the goroutine that dates a key, the two handlers of the dashboard.
  Ghosts say which keys' minting and revocation were answered with success, and
  what of that a request could know when it came.
* **`RequestConversion`** - the conversions of a request, as operators over
  documents: a text is a sequence of words (`Words`), what is copied a member of
  `Atoms`.  A schema has a function from `Properties` to schemas, with `Absent`
  for a property it has not, and may be `MaxDepth` deep; `Schemas` is the set of
  them, so that `Sanitize` can be a recursive function.  An OpenAI message's
  content is a text, absent, or one of `Arrays`, lists of parts, which no
  conversion reads; what a client says in them is `TextIn`.  `EncodedBody` is the
  body that is marshalled anew, when there is no raw one to patch.
  **`ClientRequest`** puts `ClientKeys` before the two handlers and these
  conversions behind them: each request that was let in brings a document, and is
  turned into the bodies that either kind of provider would be sent.
  `OpenAIBodies` and `AnthropicBodies` are the forms of what clients send.
  **`RequestProofs`** has the theorems about `ClientKeys` and `ClientRequest`.
* **`SelfUpdate`** - `handleUpdate` from the staging file to the exit, on the
  files in the binary's directory, any number of times at once; the rule that
  Windows renames but never removes a file that runs; other processes that run
  the same file; and what runs the program, if anything does, one of `Services`:
  NSSM, at its default of restarting after every exit (setup.ps1), launchd with
  KeepAlive, systemd with Restart=on-failure (install.sh).  That somebody stops the
  service on purpose is left out.
  **`SelfUpdateProofs`** has its theorems.
* **`LiveFeed`** - the two fan-outs, which are the same code twice, with pages
  that connect, read, leave and come back; **`LiveFeedProofs`** has its theorems.
* **`MCRouter`**, **`MCConfig`**, **`MCStreams`**, **`MCLiveFeed`**,
  **`MCRequest`**, **`MCSelfUpdate`** - instances.

Composition: `Router` has `KeyState`'s variables as its own, and refines
`OneAnswer`; `ConfigManager` refines `ConfigStore`; `OpenAIStream` composes the
translator with the filter and with its client, `OpenAIServed` with the two
translations that follow.  `Router` and `ConfigManager`
meet in one value only, the configuration a request takes (`Configs`), so
`Router` takes any of a set for each request instead of running the manager.

Definitions that begin with a comment "Mutant of ..." are not part of the
system.  They are what a plausible bug would make of a definition; put in its
place they violate the property `PROJECT.json` names with them, which shows
that the property speaks about that code.

## 3. Runs

| Run | Shows | Instance |
|---|---|---|
| `failover` | type; one source; endings fit the output; books fit the answer; fallbacks cover retries; header wait within budget; `OneAnswer` is implemented; every request ends, or one upstream keeps it waiting for ever | one request in every mode; three configurations: two conventions, an unusable provider, a fallback model, an unknown alias, a cycle of fallbacks (`MaxDepth = 2`); two keys, one of them shared by two providers; a restart |
| `contention` | a cooling key leaks at most once per other request; every key is considered | two requests (symmetric), one provider, three keys at most, an edit of the key table |
| `config` | `ConfigStore` is implemented; a dashboard edit is live when it returns; the last save in place that inotify told of goes live | every writer, overlapping; one edit of each kind, two hand-written files (one unreadable), four contents, a crash |
| `provider_streams` | OpenAI-style: the output can be followed, ends once, agrees with what `Stream` returns, and carries the text; so do its conversion and the buffered message, with every tool call's own arguments. Anthropic-style: each client has of whole events what its format has a place for, is told of a failure, sees no ending that was not sent | sixteen kinds of chunks, any five of them, then any ending; every legal stream of at most eight events and two blocks, cut after any line |
| `client_request` | a revoked key stays out; nothing said is lost but what is in arrays and in the system's earlier messages, and no more for it; calls are answered where each format wants it, schemas are clean and otherwise whole, an Anthropic body passes through | one key, a request that is routed and one that lists models, a page, a restart; about 220 documents of both formats: all pairs of twelve and of five turns, eleven sets of tools, and choices |
| `self_update` | a complete binary is at hand; `execPath` is empty only midway; no two updates between the renames on Windows; no litter; under NSSM and launchd an update takes hold | three updates at once, Windows or not, each service or none, another process, crashes, every failure |
| `live_feed` | no send on a closed channel; no reload missed; publishing ends | two pages, channels of two, four reloads, two connections each |

Five runs end in a violation, of a property that restates a comment or the
README, see section 6: `budget_slow_dial`, `config_lost_watch`,
`config_torn_edit`, `live_reconnect`, `service_restart`.

Why the bounds are enough.  *Router*: requests meet only in the key state and
the key table, so two show every race of two, and `LeakBounded` is stated in
their number; two keys and two providers per model give every branch of both
loops (first, last, none left, skipped, wrapped around); `failover` lowers the
code's depth limit of 10 to 2, which a cycle of two models reaches, and any
chain without a cycle here is shorter.  Time-outs of 1 and 2 units and
Retry-After of 0 and 1 make each of them run out before, with and after another.
*ConfigManager*: a race needs one content before, one during and one after,
hence four contents, five in `config_lost_watch` (an in-place save makes two).
*OpenAIStream*: block states are opened, open and closed, so a chunk that opens,
one that goes on, a finish and a late one are four; the tags have three and four
letters, and are cut everywhere by the pieces in `MCChunks`; only `<` of a tag
may begin one, as in `<think>`. The indexes of tool calls are small, as only
their order and their sign matter. *AnthropicServed*: an event is three lines,
two blocks are open at once or one after the other, and eight events are a whole
message of two blocks.  *ClientKeys*: a revocation, a late write and a later
request need one key and two requests.  *RequestConversion*: messages touch only
through the one before (results are gathered until another comes), so all pairs
of turns show each boundary; the schemas have each place a schema may be nested
in, two deep, and `MaxDepth = 5` holds them all.  *SelfUpdate*: of three updates
one may be between the renames, one before and one after.  *LiveFeed*: the
capacity (64 and 4 in the code) matters only as reached or not. Systems stop
when their bounds are used up, and a proxy may be idle for ever, so deadlock is
not checked.

## 4. Fairness

* `failover`: weak fairness of each request's own steps (the Go scheduler), of
  `TransportStep` (net/http returns when a context is done or its header
  time-out has run out) and of the clock.  Nothing is assumed of upstreams,
  connections, clients or administrators: the property names the four places
  in which one upstream may keep a request for ever: before the connection is
  made, before the headers of a provider without a header time-out, in the body of
  an error, in an open stream.
* `config`, `config_lost_watch`: weak fairness of a handler once it began
  and of the watcher's goroutine, strong fairness of `Swap` (a waiting writer
  of a `sync.RWMutex` gets it after those before it).  Nobody has to edit.
* `self_update`, `service_restart`: weak fairness of the exit (a timer), and of the
  start by a service that restarts after the exit that was: NSSM and launchd after
  any, systemd after a failure only, as setup.ps1 and install.sh register them.
  Nobody has to ask for an update, or to start the program by hand.
* `live_feed`: weak fairness of `Publish` only; a page may stop reading.

## 5. Proofs

For every value of the constants, under the assumptions the modules name
(`CooldownAssumption`, `RouterAssumption`, `FeedAssumption`, `ChunkAssumption`,
`UpstreamAssumption`: types of the parameters; `TagAssumption`: the tags are
words of one letter at least; `ConversionAssumption` and `RequestAssumption`:
what clients send has one of the forms of its format, and what stands for a
value that is absent, or for a body that could not be made, is no such value):

* `RouterProofs`: `TypeCorrect`, then `SingleSourceHolds` and
  `EndingFitsOutputHolds`.  Single source is not inductive by itself: that a
  new HTTP request can be sent only while nothing has been written needs to be
  known at each place of the loops.  The strengthening says, for each place,
  what has been written: nothing before a 200 arrives and nothing when an error
  is one that is retried; after a body began to be copied, only output of this
  attempt; and once nothing more can be sent, what the route still is.
  `BooksFitAnswerHolds` (the stage of a request determines how many rows and
  events there are, and for whom), and `RouterKeepsPromise`: every step of
  `Router` is a step of `OneAnswer` or changes nothing that is seen.  There is
  one lemma for each kind of visible step, and one that lists the actions that
  are not visible.
  `FallbacksCoverRetriesHolds`: the strengthening keeps, at each place, how far
  the count may be behind the requests and hops so far: by what `att[r].fails`
  has while an attempt runs, by one more while a request is under way, and by
  one, the request that was answered, at the end.
  `EveryKeyConsideredHolds`, from the invariant that the loop has come by the
  first `i` places from its start, and the arithmetic that `L` places in a row,
  modulo `L`, are all of them.  `PreStreamWithinBudgetHolds`, under
  `~SlowDial`, from the invariant that a timed request's wait and budget run out
  together.  `LeakBoundedHolds`, for any finite, non-empty set of requests, from
  the invariant that, while a key cools, the requests that went out with it and
  those that may still go out are together fewer than all: the one whose answer
  made it cool is in neither, and nobody passes the check any more, so that each
  request sent is one fewer to be sent.
* `FoldTheorems`: what the other proofs need of loops and recursion.  The
  provers cannot instantiate an induction theorem with an operator, but a module
  can be instantiated: `Step` and `Good` are CONSTANT operators of this one, and
  the induction is over a set of numbers.  `LoopInvariant`: what holds at first
  and is kept by each turn holds after a loop over a sequence (`FoldLeft`).
  `Recursion`: a function on texts that is defined by its values on shorter ones
  exists, and has its definition for an equation; `RecursiveExists`: so does one
  on any set whose members have a depth, defined by its values on the less deep.
* `StreamProofs`, of OpenAI-style upstreams: `StreamInvariant`, from which
  follow `StreamTypeCorrect`, `StreamWellFormed`, `StreamOneEnding`,
  `StreamResultFits`, `StreamTextIntact`: for any alphabet, any two tags, any
  chunks and any number of them.  The invariant has four parts.  `TypeOK`.
  `EndInv`: `ended` says whether the client saw an end, and success means that
  it did, or saw nothing.  `FormInv`: the blocks that `stream` takes to be open
  are those that the client has open, under numbers that differ and were given
  out in order; `WellFormed` says nothing of `stream`'s own numbers and flags,
  so it could not be kept without. `TextInv`: all of the text that came was
  told, or is in the filter, as the text up to here means it *whatever may still
  come*; without the last words a tag that is cut between two chunks would
  refute it.  Under it lies `ProcessIsFaithful`: one call of
  `thinkFilter.process` tells a text as `Meaning` has it and keeps the beginning
  of a tag at most, by induction over the length of the text.  `Process` and
  `Meaning` take their arguments one after the other as the provers have no
  functions of two.

  Of Anthropic-style upstreams: `CopyInvariant`, and from it
  `CopyIsWhole`, `LossIsAlwaysTold`, `EarlyEndAlwaysShows`, for any words and
  any number of blocks and events (`MaxBlocks`, `MaxEvents`), of any of the
  types above.  What a reader of all events has is compared with what each
  client has: all of it; the blocks of known types, in order, with their own
  pieces; the text, the calls and that there was thinking.  The invariant says
  that what the upstream has sent is the beginning of a message, its blocks
  numbered as they came; that `eventType` and `dataLines` are the lines that
  came of the event on its way, and no client has any of them; and where each
  client stands.  The converter needs more than the property says: `toolIdx` is
  defined for the tool blocks exactly, with numbers below the count of calls, or
  a piece of arguments would come without a call; the role chunk was written if
  and only if the message began, or text would come before it.  The buffered
  message needs that `blockOrder` is ascending, so that sorting it changes
  nothing.
* `ServedProofs`: `ServedInvariant`, and from it `ToolCallsAlwaysIntact`,
  `ConvertedAlwaysWhole`, `MessageAlwaysWhole`, for any letters, any chunks and
  any number of tool calls whose pieces come in any order.  What the properties
  compare is put together by `SelectSeq` and `FlattenSeq`, of whole histories.
  The invariant, `ServedInv`, says what each of the three has *of each block*
  instead.  `Mirrors`: the blocks that `stream` began are numbered from 0 in the
  message; the text block has what was told; a slot that was begun has a tool
  block of its own and a call of the client's, both with the pieces of arguments
  that came for that slot.  `At`: whether both are before, in or after the
  message goes with `stream`'s flags.  A turn of `stream` writes several events,
  of which the invariant holds only after the last; so it is shown of each
  operator of the turn that it takes `Mirrors` from the state it starts in to the
  state it leaves (`Serves`, `Keeps`, `Gets`).  An upstream that goes on after
  its finish (`rude`) is excepted, as in the properties.
* `LiveFeedProofs`: `TypeCorrect`, `NeverSendsOnClosedHolds`,
  `NoReloadMissedHolds`, from the invariant that the map and the handlers agree.
* `ConfigProofs`: for any documents and any number of edits, writers, events and
  crashes, `TypeCorrect`; `ConfigImplementsStore`: what is at the path is one
  value, that each step leaves alone, edits by one entry or replaces, the
  turns of `deleteModel`'s loop over the models taken together by induction;
  and `DashboardEditIsLiveHolds`.  That property says nothing of the time
  between a handler's rename and its assignment to `m.current`; the
  strengthening does: what the dashboard put at the path is then what this
  handler holds and will publish.
* `SelfUpdateProofs`: `TypeCorrect`, `BinaryAtHandHolds`,
  `MissingOnlyMidwayHolds`, `OneMoverHolds`, `NoLitterHolds`, for any number of
  updates.  That no two updates of one process are between their renames has no
  lock to rest on: on Windows the first one moved the running file aside, so
  that nobody else finds the backup removable.
* `RequestProofs`, of `ClientKeys`: `TypeCorrect`, `RevokedStaysOutHolds`,
  `IssuedKeyWorksHolds` (which no run checks), for any number of keys, requests
  and pages.  The strengthening: a key whose revocation was answered has a row
  that is revoked, and no statement takes that back; a row is there for every
  key handed out.
  Of `ClientRequest`: `RequestsKeepToKeys`, that it implements `ClientKeys`, so
  that the keys' guarantees hold of it too (`KeysHoldForRequests`); and
  `CarriesWhatWasSent`, that what a request carries is the conversion of a body
  of a client's, so that what remains is about the conversions:
  - `AlwaysPassedThrough`.
  - `SchemasAlwaysClean`, for schemas of any depth: by induction on the depth,
    from `RecursiveExists` for `Sanitize` and for `Paths`.
  - `NothingIsEverLost`, for conversations of any length: all of an Anthropic
    client's; of an OpenAI client's those whose contents are strings and whose
    system prompt is one message.  `OnlyUnreadIsEverLost` is of all others.
    What a client says is told by the document alone, arrays and every prompt
    included (`OpenAISays`, `Prompt`).  `Read` is a document without what
    `OpenAIToAnthropic` has no place for, and both theorems follow from
    `SaidForAnthropic` and `SaidForOpenAI`, by which what arrives is what `Read`
    of the document says: of a document that is `Plain` that is everything.
    What a conversation says is a total over its messages, and a message's over
    its blocks; totals of sequences that are joined are joined (`TotalConcat`,
    `TotalOfTotal`).  The loop of `OpenAIToAnthropic` keeps the invariant
    `Tells`: the messages made so far *and the results that are still pending*
    say what was read so far. `TripMessage`: a message that is encoded and
    decoded again says the same. `BrokenIsSaid`: where marshalling fails, a call
    had arguments that are no JSON.
  - `CallsAlwaysAnswered`, the same for the places of results.  Neither rule
    holds halfway through a conversation, as calls may still be open.  Towards
    OpenAI: `Open`, Anthropic's rule but for the last message's calls, and
    `Matches`, by which the messages made so far have all their results, or all
    but those for the calls of the last one that was read.  Towards
    Anthropic: `Settled`, or `Awaits` for one message: its calls are the last
    message's that was made, the results that came since are pending in the
    order they came, and everything before it is settled.

Only model-checked:

* liveness (`ServedOrKept`, `NoticedSaveGoesLive`, `PublishingEnds`,
  `UpdateTakesHold`), which is beyond the prover.  Every safety property of a
  passing run is proved.

## 6. Where code and words disagree

* README.md:137-139 calls the response-header time-out "the total pre-stream
  budget for one provider attempt".  It holds if connecting takes no time
  (`failover`, `SlowDial = FALSE`), and not otherwise (`budget_slow_dial`).
* api.go:738 and README.md:38: a raw save, or an edit by hand, is picked up.
  Not after the first dashboard edit, whose rename took the watch away
  (`config_lost_watch`).  What does hold is `NoticedSaveGoesLive`.
* write.go:102-104, "the latest complete on-disk config": not during a raw save
  (`config_torn_edit`).  For the same reason, against write.go:126-127, the
  watcher can parse an empty file; it reads again for the event of the write.
* index.html:1466, "nothing extra needed" after a reconnection: a reload in
  between is not shown (`live_reconnect`).
* api.go:436-438: "so NSSM (or any other service wrapper) automatically restarts
  the process, picking up a freshly-deployed binary".  The unit that install.sh
  writes does not: it has `Restart=on-failure` (install.sh:163), and update and
  restart both end in `os.Exit(0)`, so that the program stays down
  (`service_restart`).  What does hold is `UpdateTakesHold`, of the other two.
* No run is spent on these.  config.go:47, "the most recently loaded Config": a
  reload that parsed before a dashboard edit replaces it afterwards
  (config.go:103-113; `Swap` may do it, and `DashboardEditIsLive` allows it).
  openai.go:122-126, "at every nesting level": not under `anyOf` and the like,
  nor in `$defs`.  For OpenAI clients, `stream: false` is answered with a
  stream all the same, content that is an array of parts is not read, of several
  system messages the last one counts (`OnlyUnreadIsLost` says that nothing else
  goes with them), and `tool_choice: "none"` becomes auto
  (convert.go:83-109, 176-181).  base.go:124: an empty text block is sent on
  without its `text`.  router.go:396-397: a key is also counted when the
  budget was spent and no request was made (462-467).  config.go:84-85: the
  re-add after a rename is tried once, and its error dropped, so a file that
  comes back a moment later is not watched.  openai.go:728: blocks are closed
  thinking, tools, text, whatever their indexes are.
* No words of the repository are against these, but a reader should know them.
  The body of an error is outside the header time-out too (openai.go:499-508,
  anthropic.go:112).  A negative index of a tool call panics in the middle of an
  answer (openai.go:681).  A buffered answer has no signatures, citations and
  redacted or server blocks (sse.go:106-113, 164-185), and neither has an answer
  in OpenAI's format (convert.go:475-575).

## 7. What is left out, and the plan

Left out for good: JSON and SQL as text; names, ids and sampling parameters,
which are copied; token counts; the dashboard's rendering; what the installers do beyond registering a service;
logging.
`GET` handlers change nothing.  `AnthropicToOpenAI` and `anthropicSSEToOpenAI`
(convert.go:235-339) are called by tests only.  `handleTest` calls a provider
and keeps nothing.

Simplifications, all named in the modules: statuses stand for their class; the
duration of each 429's cooldown is in units of `Tick`; a document is its models
and its providers, each with one value for all its fields; two raw saves do not
overlap each other; an editor that writes in place does what the raw editor
does; lines that are no chunk, and chunks without choices, are no steps; no line
comes to the converter cut over two `Write`s, as neither provider writes so; an
event's data are one line; the removal of a staging file does not fail
(api.go:610); a tool call's index is not so large that the slots up to it
exhaust the memory; the arguments of a tool call are JSON when they are
complete.

Plan, most important first:

1. *done* - `Router` with `KeyState`, `OneAnswer`, and proofs of safety and of
   the refinement; `ConfigManager` with `ConfigStore`; `OpenAIStream` with
   `ThinkFilter`, `StreamConverter` and `BufferedMessage`; `AnthropicServed`;
   `LiveFeed`, `ClientKeys` and `SelfUpdate`; `RequestConversion` with
   `ClientRequest`; proofs of the safety of all of them, of both refinements, and
   that `ClientRequest` implements `ClientKeys` (section 5).
2. A long Retry-After (base.go:103) in 64-bit arithmetic, and the limits of the
   two scanners as bounds on lines, if either ever gets a promise to check.
