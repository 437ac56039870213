# A TLA+ development of kirocli-go

kirocli-go is a proxy: it takes OpenAI and Anthropic style chat requests, leases
an upstream account from a pool, sends the request with that account's token in
the style of a command line client, and translates the answer's event stream
back. This directory holds TLA+ models of the parts of it that keep state or run
concurrently, the TLC configurations that check them on small instances, and
proofs of their main properties that TLAPS checks for every value of the
constants.

All paths below are under `src/`; "provider.go" is
`src/internal/adapters/token/provider/provider.go`.

## 1. The system

| component | state it keeps | operations | interacts with |
| --- | --- | --- | --- |
| account pool (`adapters/token/provider`) | accounts with enabled flag, status, cooldown deadline, token, pool flag; one mutex; the state file; the CSV file | Acquire, ReportSuccess, ReportFailure, WarmPool, RefreshPool, PoolSnapshot, Disable/Enable/Delete/Refresh/Import/UpdateWeight; load and save | OIDC endpoint and account API over HTTP while it holds its mutex; JSON and CSV files; goroutines of its own for CSV edits, bans and refills |
| runtime model catalog (`adapters/catalog/runtime`) | model list and set, last error; one RWMutex | Resolve, List, Refresh, Snapshot, ApplySnapshot | leases from the pool; called by every request, the admin handler, the refresh runner and the persister |
| chat service (`application/chat/service.go`) | nothing between requests | Handle | catalog, sessions, pool, upstream, formatter, statistics, request log |
| session manager (`application/session`) | bindings of session keys to conversation and account; one mutex | Get, Ensure, Rotate, Update, expiry, eviction | called by the chat service, swept by a ticker |
| statistics and request log (`application/stats`) | atomic counters; a ring of entries | RecordX, Snapshot, ApplySnapshot; Add, Query | chat service; persister; admin handler |
| fake prompt cache (`application/chat/cache.go`) | time of last use by key | Lookup, cleanup | chat service |
| observed stream, truncation cache | open tool calls, usage and conversation of one answer; a process-wide cache | Next; Save | chat service, formatters |
| response formatters (`adapters/formatter`) | the open content block, the tool blocks, held back text | FormatStream, FormatJSON | stream events in, client events out |
| upstream transport (`adapters/upstream/clihttp`) | the payload being built, the frame reader of one answer | buildPayload, Send, Next, classifyHTTPError | HTTP |
| HTTP handlers (`adapters/http`) | nothing | decoding, parsing into unified messages, writeError | chat service, web search client |
| web search client (`adapters/mcp/websearch`) | nothing | HandleAnthropic | pool, HTTP |
| background runners (`background`) | timers | periodic warm, model refresh, persistence | pool, catalog, statistics |
| bootstrap (`bootstrap/app.go`) | the wiring | New, Run | all |
| static catalog, API keys, config, device identity, tokenizer, administration page | immutable or none | pure lookups, encoding | - |

What is hard about it, and what makes each part correct:

* **Account pool.** Every public method is a critical section, but the reports
  for a lease arrive in any order with administration, restarts and
  maintenance; two loops call the OIDC endpoint once per account, and deadlines
  pass and the process may die between two calls; the pool size is checked in
  five places. Correct: a blocked account is never handed out, not even after a
  restart; status and flag agree; the pool neither overflows nor starves; the
  mutex is released.
* **Catalog.** A read lock is nested in a read lock, and writers may come in
  between. Correct: each list answers from one refresh; nobody waits for ever.
* **Chat service and sessions.** Requests of one session run concurrently; what
  a request read of its session is used after the account was acquired, which
  may take long; there are ten ways out of an attempt. Correct: each lease is
  reported once, each attempt logged once, each request counted once;
  conversations are private to a session; a rotation is not undone.
* **Statistics and request log.** The counters are read one by one while they
  move, the file they are saved in is truncated before it is written, and the
  process may end before, during or after the last save. Correct: nothing is
  counted twice, an orderly end keeps what it can, a snapshot is wrong by no
  more than what ran meanwhile, the ring is the last entries in order.
* **Requests on their way up.** Client histories of any shape become a strictly
  alternating history; the payload depends on what an earlier attempt did to the
  conversation. Correct: nothing the client said is lost or doubled, an account
  is not blamed for the client, the client not for an account.
* **Answers on their way down.** Tags are cut anywhere, tool calls interleave,
  the connection ends anywhere, the client goes away at any write. Correct: how
  the text is cut does not matter, blocks nest, a whole answer can be told from
  a broken one, the lease is reported once.

`PROJECT.json` lists the hazards line by line, with the properties that cover
them.

## 2. Modules

| module | models | kind |
| --- | --- | --- |
| `AccountPool` | `provider.Provider`, its state file, its account source | component |
| `RuntimeCatalog` | `runtimecatalog.Catalog` and its RWMutex | component |
| `SessionManager` | `session.Manager`: one action per method | component |
| `ChatService` | `Service.Handle`; extends `SessionManager`, one step per call into a component with a lock of its own | composition |
| `RequestLogRing` | `stats.RequestLogRing` | component |
| `Selection` | subsequences by a set of wanted elements, for `RequestLogRing` and `RequestPath` | operator |
| `BoundedLog` | what the request log promises: the last `Size` entries | abstract specification |
| `Statistics` | `stats.Collector`, the persistence runner, the saved file, the end and the start of the process; extends `RequestLogRing` | composition |
| `UpstreamErrors` | classification of refusals, retries, status codes | operators |
| `RequestPath` | from the client's messages to the payload of each attempt; extends `UpstreamErrors` | composition |
| `EventStream` | the frame reader, the events it makes, `observedStream` | operators |
| `ThinkingSplitter` | the splitter both formatters use: its own variables, one action per loop step | component |
| `AnthropicFormatter`, `OpenAIFormatter` | what each event adds to the answer, streaming and not | operators |
| `WebSearch` | the ways a call of the MCP endpoint ends, the answer written from it | operators |
| `ResponsePath` | from the accepted request to the last write and the report; extends `ThinkingSplitter`, instantiates the four above | composition |
| `MC...` | constants for TLC | instances |
| `SequenceLemmas` | induction up to a bound, what a recursive function, `Selected`, `FlattenSeq` and slices of sequences return | lemmas |
| `...Proofs` | theorems and proofs | proofs |

`RequestLogRing` implements `BoundedLog`, by `INSTANCE BoundedLog WITH log <- Kept`;
so does the ring inside `Statistics`, which many requests fill and restarts
empty.

### AccountPool

| TLA+ | code |
| --- | --- |
| `present`, `acct` | `p.accounts` and the fields of `tokenAccount` that decide who is handed out |
| `acct[a].cool` | `CooldownUntil > now`; `CooldownElapses` lets the deadline pass |
| `acct[a].token` | no bearer, valid, within 300 s of its expiry (`"stale"`), or without an expiry (`"static"`) |
| `mu`, `caller`, `preferred`, `candidates`, `attempts`, `todo`, `need`, `force` | who holds `p.mu`, and the locals of the two loops |
| `lease` | leases callers have not reported yet |
| `warmPending` | a `triggerImmediatePoolWarm` goroutine that waits for the mutex |
| `recorded`, `disk` | `accounts_state.json` |
| `csvRow` | the enabled column: on, off, or maybe (the goroutine that edits the file may not have run, or may have failed) |
| `blocked` | history: disabled or banned, and not taken back by an administrator |

A method without a loop is one action, taken when the mutex is free. `Acquire`
is `AcquireBegin` and then `AcquireGrant` or `AcquireFails` per iteration;
`maintainPoolLocked` is `MaintainBegin`, `RenewMember` per member, `Refill`,
`FillMember` per candidate, `MaintainEnd`. `availableCandidatesLocked` is not a
read: it changes status and pool flags, so `Scan` is part of every action that
calls it, `PoolSnapshot` included. `Save` is part of every action whose code
saves, and may fail, silently as in the code, if `SavesMayFail`. `Crash` loses
all but the files; with `TornWrites` it may leave an empty state file, which
`jsonfile.Load` takes for none. What a 200 answer of
OIDC holds is stored as it comes (`Renewed`), one of the tokens in `Issued`: the
`accessToken` may be empty and `expiresIn` below 300 s, and the code looks at
neither (provider.go:890-907). `Acquire` hands out what it has just stored, and
`LeaseOnlyUsable` says so. Weights become an arbitrary choice among the
candidates; counters, messages and the `auto` source (which becomes one of the
others at load time) are left out. Imported accounts are
taken to have IDs of their own, not those of a source (`csv-1`, `env-0`).

### RuntimeCatalog

Go's RWMutex: `Announce` is the first half of `Lock`, after which no `RLock`
succeeds; `RefreshStore` needs all readers gone. A `List` takes the lock
(`ListLock`), then one nested lock per name (`ListResolve`, `ListResolved`) and
leaves (`ListEnd`). The store and `setLastError` are the same step with a
different outcome; a Refresh without a lease stores nothing (`RefreshRefused`).

A name is looked up under its internal name (`InternalName`, which is
`ModelResolver.Resolve` of the static catalog): lower case and without the thinking suffix,
then through the aliases or else put in normal form, then through the hidden
models. A list merges upstream's IDs with the built-in names (`Merged`,
`BuiltIn`) and leaves some out (`HiddenFromList`). The tables and the two
spellings are constants, so the theorems hold of any; the run has a name of each
kind. The thinking variant of a name is looked up as the name itself and is left out.

### SessionManager and ChatService

Bindings are a function on the keys in the map. `LastSeenAt` is an age, the
order of ages is what eviction looks at and `age > TTL` is expiry; sessions seen
at the same time may be evicted in any order, as the sort allows. Message and
token counts are one bit, long or short, and a short request after a long one is
what `shouldRotateForClientCompact` detects. Conversation IDs are numbered as
they are drawn. Each request is a process: `pc` says before which call it is,
`conv` and `bound` are `req.Metadata.ConversationID` and `binding.AccountID`. The
reports, log entries and counters at the end of an attempt touch components no
other step of the model reads, so they are one step with the transition they
belong to - except after a success, where the code updates the session between
the report and the log entry. The account pool appears as its interface: any
account, or an error. A disabled session manager (every method returns the zero
binding) is not modelled. A request always finds its formatter: `bootstrap` sets
both, so the return at service.go:116, which counts nothing, is not reached.

### RequestLogRing

`entries`, `head`, `count` as in the code; `Query` is the fold of one loop turn
over the slots from the newest back. The eleven filter fields work alike, and
one stands for them. The ring has no run of its own: `Statistics` fills it.

### Statistics

| TLA+ | code |
| --- | --- |
| `counters` | the atomic fields of `stats.Collector`; success stands for the tokens and credits added with it |
| `pc`, `attempt`, `todo`, `outcome` | a request inside `Handle`, and the atomic additions that its `RecordSuccess` or `RecordFailure` has still to make |
| `runner`, `final`, `read`, `snapshot` | `StatePersistRunner`: where `Run` is, whether this save is the one after `ctx.Done`, how far `Snapshot` has loaded |
| `file` | the statistics file: missing, cut, or a snapshot |
| `phase`, `starts` | `App.Run`: serving, signalled, down |
| `carried`, `unended`, `quiet` | history variables, read by properties only |

Each atomic operation is an action: `Begin`, `Record`, `Save` (which loads the
first counter), `Read`, and each system call on the file: `Truncate` and `Write`
are the two halves of `os.WriteFile`, which may fail in either (`SaveFails`,
`Write(FALSE)`). `Exit` waits for the handlers, as `server.Shutdown` does, and
not for the runner, as `App.Run` does; a process that is killed is a `Crash`.
Whether the model catalog is written too makes no difference to this file, so it
is left out.

### RequestPath and UpstreamErrors

`Decode`, `Parse` (once per message) and `Parsed` are `ServeHTTP` and
`toUnifiedRequest` of the two chat handlers; `Prepare` is `prepareSessionBinding`
with `determinePayloadStrategy`; `Acquire` is the head of the attempt loop, where
another account rotates the conversation; `Convert` and `Repair` are the loops of
`buildPayload` and `ensureAlternating`; `Send` puts the payload together;
`Refused`, `NoAnswer` and `Accepted` are its outcome. A text is one value, an
item's text the sequence of those that are joined. A block that is no text, call
or result is an image, one that is badly encoded, one without inline data, or of
a type the handler does not know, in a message or in a tool result: the first is
kept in messages, the second refused there (`Unsupported`), and the parsers drop
the rest without a word (`Images`, `ToolResultTexts`). Content that is neither a
string nor a list (`"odd"`) is refused, and so is a request without a model
(`Unnamed`). Of the body of a refusal only
the signals matter that the classification looks for. Tool specifications, the
tool documentation put around the current text, the thinking mode and the
shortening of tool names do not change which messages are sent, and are left
out. The session of a sticky request is arbitrary: it may have an account, or
none, and may be gone when the account is bound.

### ResponsePath and what it is made of

`ReadFrame` is one turn of the formatter's loop: `eventStream.Next` makes an event
of a frame (`Decode`), `observedStream` takes note of it (`Observe`), and
`Handle` does what the formatter does with it. Text goes through the splitter one
loop step at a time (`SplitAtTag`, `SplitRest`). `EndOfStream` gives
`readEventMessage` a connection that ends with some bytes left, or a wrong
length. A formatter's operator says what has been written after an event;
`Writes` puts that out, or stops at any write in between, and then the client is
gone. The first write of a stream is different: OpenAI's formatter gives up if it
fails, and the request ends there; Anthropic's does not look (`Begin`). `Succeed`,
`CloseFails` and `Fail` are the rest of `Handle` and of the HTTP handler. `Search...` are the steps of `HandleAnthropic`; `leased` says whether the
request has a lease, which a search gets in `SearchAcquires` and may not get at
all. A frame of an unknown type is an error if it has a reason or a message,
without a signal in it too. Characters are
strings of length one; tags have two and three of them, and share their first, which is what
makes a tag that is cut ambiguous. Frames that carry nothing of interest, IDs,
times and estimated token counts are left out.

The formatter closes the tool blocks that are still open in the order of a Go
map, so `Ends` is a set of outcomes, one for each order.

## 3. Runs

| run | question | instance |
| --- | --- | --- |
| `pool_refill` | Does the pool keep its target, and do the loops count right? | 3 API accounts, target 2, failing refreshes, answers of OIDC with a lasting, a short-lived or no token |
| `pool_restart` | Does a block outlive restarts, and does a lease respect it? | a CSV account and a managed one, 2 requests, every save succeeds, the same three answers |
| `pool_live` | Is the mutex released, does the refill run, and what survives failing saves and torn files? | 2 API accounts, one of them without credentials, saves that fail, files torn by a crash, OIDC answers with or without a token, fair |
| `catalog` | Does a list answer from one refresh, and what can hold up a refresh? | 3 callers, 7 names: built in, alias, hidden model, hidden from lists, upper case, not in normal form; 3 answers, fair |
| `stats` | Do the numbers add up, while they are read, saved, cut off and loaded? Is the ring a bounded log, are pages right? | 2 requests of up to 2 attempts, 2 entries, 2 starts, 1 tick and the last save; signal or crash anywhere; offsets and limits of -1, 1 and 2 |
| `chat_sessions` | Do sessions stay bounded and apart, is each request counted once? | 2 keys, room for 1, sessions that expire under a running request, 2 concurrent requests, 3 in all |
| `chat` | Is everything reported and logged once, do rotations hold, does every request end? | 3 requests one after the other, 2 attempts each, 2 accounts, 1 key, room for 1, an upstream that may rename conversations, fair |
| `request` | Does every history reach the upstream whole and in turns, and who is blamed for a failure? | every sequence of up to 3 messages of 5 kinds (Anthropic) and 6 kinds (OpenAI), the rarer kinds after a plain message, with and without a system prompt; blocks of every kind in messages and in results; requests that are not understood; longer ones with a session; 3 attempts, 6 refusals, 2 accounts |
| `response` | Is an answer well formed, complete and told from a broken one? | four scripts of up to 4, 5, 4 and 2 frames: text cut in all ways, two interleaved tool calls (nameless later events, events after a stop), reasoning, usage and errors, frames that lack something; both protocols, streaming and not; a client that is gone at any write |

Two accounts are the least that make a difference between the account that fails
and the one that is left, three the least for a member, a candidate and one
without credentials; a target of one or two is reached, exceeded and missed. Two
callers suffice for the nested lock, a third waits behind. `MaxRequests` bounds
how many requests arrive in a run of `ChatService`; two are enough for each of
its interleavings, the third meets what the first two left. In `stats` two
requests of two attempts fill a ring of two more than once around, `MaxTicks`
and `MaxStarts` give a save that a second process finds, and a last save after
one that the ticker made. Three messages have every pair of neighbours and every
neighbour of a pair; the third attempt of `request` comes after an account that
changed and one that changed back, and 3 is the number in the code. In
`response`, four chunks of up to four characters cut each tag at each place, put
a false start before it, and put a tag behind a tag; `Hold` is one less than the
longer tag's length, the least with which the splitter works (it is 15 in the
code, with tags of 10 and 11 characters).

`CHECK_DEADLOCK FALSE` stands in `pool_restart` (all accounts of a CSV source may
be off, and then the process does not start any more), in `stats` (a process that
is down stays down once `MaxStarts` is reached), in the catalog runs (whose
deadlock is the subject of `catalog_list_deadlock`), and in `acquire_gives_up`.
Elsewhere TLC checks for deadlock. A `ChatService` run
never stops although requests are bounded: its sweeper always may run.

### What the code does not do

These runs state something a document, a message or a test says, and TLC shows
how the code departs from it. The quotes are in `PROJECT.json`.

* `acquire_gives_up`: the bound of Acquire's loop shrinks with the set it goes
  through. With two pool members, the first of which fails, the second is not
  tried, and the caller reads "no active account available".
* `catalog_list_deadlock`: a List and a Refresh deadlock.
* `content_rejected`: `RawContent` and `RawSystem` are defined from
  `json.RawMessage` without its methods, so that the decoder takes base64 for
  them, while the parsers behind expect JSON. A request as the tests write it is
  answered 400. `RequestPath` models both spellings; what `request` shows of
  histories it shows of requests that are spelled in base64.

Others were met while the models were written and have no run:

* With the API source, a refill or a restart enables a disabled account again:
  overrides are kept and applied for loaded accounts only. `BlocksSurvive` has
  the assumption that excludes it.
* An older request may write the conversation back that a compaction replaced,
  and two concurrent first requests of a session send one conversation with two
  accounts. `AccountChangeRotates` and `CompactionRotates` hold for one request
  after the other only, and that is what `chat` checks.
* A connection that is cut right after a prelude looks like an end, since
  `io.ReadFull` answers EOF when it reads nothing: `EndingsAreTold` makes that
  one exception.
* A client that goes away, and a formatter that fails, are reported against the
  account like a failure of the upstream. A web search reports success before it
  writes its answer, and blames nobody for a client that is gone by then.
* A 200 answer of OIDC is stored unchecked: a lease may go out without a bearer,
  or with one that expires at once. `LeaseOnlyUsable` has the exception.
* A model that upstream lists under a name that is an alias, or not in normal
  form, is looked up under another name and is not marked as upstream's; the
  alias of an upstream model is. `ListIsSnapshot` is about internal names.
* The chat handlers drop what they do not understand and answer as if it had not
  been said: images without inline data, images in tool results, blocks of
  unknown types, images of an assistant. `NothingLost` is about the rest.
* A tool call that goes on after its stop event is one call in three forms of an
  answer and two `tool_use` blocks for a streaming Anthropic client. A name that
  only the first event has is lost in an Anthropic message, which takes the name
  of the last. `ToolCallsAgree` says exactly when the forms differ.
* What ran during the last snapshot, or ended after it, is missing from the
  saved counters, and a request that was running when they were read never ends
  in them: after a restart total stays ahead of success and failed by that much
  (`SnapshotAddsUp`, `carried`).
* A rotation because the context was high or the answer truncated does not cut
  the next request's history, only one that the client or an account change
  causes does. `sticky_compact` also drops a summary that the client has put in
  its history.
* Two consecutive `tool` messages of OpenAI get an assistant's "-" between them.
  The `is_error` of a tool result is never parsed.
* `truncation.GlobalCache` is written, and read by tests only.
* Long tool names are cut (transport.go:617), names that agree that far become
  one, and the answer's names are not turned back.
* `Accept-Encoding: gzip` is set by hand, so that the HTTP client does not
  decompress what it asked for.

## 4. Fairness

`AccountPool`: one weak fairness condition for the steps of the loop that holds
the mutex (its HTTP calls end because the client has a timeout), and strong
fairness for the waiting refill goroutine, since `sync.Mutex` hands over to a
waiter that starves. Nothing is assumed of callers, administrators or time.
`RuntimeCatalog`: weak fairness for steps that do not wait, strong fairness for
steps that lock, since `sync.RWMutex` lets waiting readers in after a writer and
keeps new readers out before one. `ChatService`: weak fairness for the steps of
each request; its calls return for the same reasons. `RequestPath`,
`ResponsePath` and `Statistics` have safety properties only and state none.

## 5. Proofs

tlapm checks every step; the constants have no values, only the assumptions
named in the modules (`PoolSizeAssumption`, `FlagAssumption`, ...). Where a
theorem needs more, its hypothesis is a definition of its own, named below, and
the reason is that the property fails without it. Every invariant of the passing
runs is a theorem.

The prover has no induction over an operator. `SequenceLemmas` states it of sets
instead: a set of numbers that has 0 and with each number the next is all of them
(`SetInduction`, `UpTo`), from the fact that strict inclusion of finite sets is
well founded; and a function that a recursion describes exists
(`RecursionExists`). From these two follow the facts about `Selected` and
`FlattenSeq`, which is why the model uses them, the invariant of the loop of
`Query`, and that the pass `Scan` over a text takes the steps it is defined by.

### AccountPoolProofs

For any accounts, sources and pool size.

| theorem | states | inductive invariant |
| --- | --- | --- |
| `TypeCorrect` | `[]TypeOK` | adds `LoopsEmpty`: outside the loops their locals are empty, without which `candidates \subseteq present` does not survive a deletion |
| `AcquireTriesUsable` | `[]AcquireNeverRetriesFailed` | `AcquireInv`: after a fallback the candidates contain accounts that have failed, but `attempts < Cardinality(preferred)` at the head of every iteration forces the fallback to be the last thing the loop does with more than one account tried |
| `BlocksSurvive`, under `Durable` | `[]BlockedIsDisabled` | `BlockInv`: every blocked account that could be loaded again has a record in which it is disabled, or its CSV row is off |
| `LeasesUsable`, under `Durable` | `LeaseOnlyUsable`, whatever OIDC issues | the two before, and the token at the grant: unless `Acquire` has just called OIDC it is the one the account had (`GrantHasToken`) |
| `StatusesAgree` | `[]EnabledIsSchedulable` | `ScheduleInv`: it holds of the records on disk, which the next start loads, and of accounts not in memory |
| `DiskAgrees`, under `Saving` | `[]DiskKnowsDisabled` | itself, with `TypeInv` |
| `PoolIsFilled` | `[]MaintainFillsPool` | `FillInv`: accounts outside are as their source loads them, and what the second loop has still to try can be warmed |
| `PoolGrowthBounded` | `PoolGrowth` | `FillInv`, and `Unpooled`: no record on disk is in the pool |

`Saving` is a state file (`Persistent`) and no write that fails; a write may be
torn, since the process ends with it and the next one reads what is left. `Durable` excludes torn writes and the API source as well: a crash
while the state file is written enables every disabled account, since
`jsonfile.Save` truncates in place and `jsonfile.Load` takes an empty file for no
state; a refill from the API does the same to the accounts it reads.

### RuntimeCatalogProofs

`ListsAreSnapshots`: each List marks exactly the merged names whose internal name
is among the models it merged, whatever the tables of names. The invariant counts
locks by place and says that a List in progress sees `models` unchanged
(`ListInv`). `CatalogTypeCorrect` has the types from the same: what a List has
found so far is typed only because the list it goes through does not change.

### ChatServiceProofs

For any finite set of requests, any keys, accounts and limits.

* `AttemptsAlwaysSettled` (what is owed is a function of the place) and
  `RequestsAlwaysAccounted` (each step keeps the sum; the number of requests
  inside is a cardinality).
* `ChatTypeCorrect`: `TypeInv` says that every conversation in the map, and every
  one a request holds, has been drawn (`SessionInv`, `LocalInv`), and what a
  request knows at which place (`Stage`).
* `SessionsAlwaysBounded`: each method of the manager either takes nothing in or
  evicts afterwards (`ManagerBounds`).
* `ConversationsStayPrivate`: a session claims a conversation if it has it, if a
  request of it holds it, or if it has sent it. `PrivateInv` says that no two
  sessions claim the same, and `ClaimStep` that a step lets one session claim one
  conversation, drawn now or its own before. It holds with overlapping requests
  that write old bindings back.
* `CompactionsRotate`, under `Sequential` (one request at a time): no request that
  may still send holds a retired conversation (`RotateInv`). Sessions may expire
  and be evicted meanwhile.
* `AccountChangesRotate`, under `Sequential`, `Roomy` (`MaxEntries` is room for
  every key) and `~SlowRequests` (sessions do not expire under a running
  request): the session of a request is where the request left it
  (`OneAccountInv`), and its account is the one that its conversation was sent
  with (`SessionsKnow`). Where sessions overlap, expire or are evicted, a
  conversation does go out with two accounts.

### RequestLogRingProofs and StatisticsProofs

* `RingTypeCorrect` and `RingKeepsTheLatest`, the refinement of `BoundedLog`. The
  invariant adds that a ring that is not full starts at slot 0; the remainder is
  eliminated by the lemmas `Wrap` and `NextSlot`.
* `RingQueriesAnswerPages`: for a ring of any size and content, any filter, offset
  and limit. The invariant of the loop is that after i turns the result is the
  page of the last i entries that match, as far as the limit allows, and
  `skipped` counts those passed over. It is an induction over the turns, by
  `UpTo`.
* `StatsTypeCorrect` (`TodoInv` says what may be left to add at each place),
  `StatsKeepTheLatest` and `StatsAnswerPages`, from the lemmas of the ring: each
  step of the composition is one of the ring's, a restart, or none.
* `SnapshotsAddUp`. The invariant is an account, `AccountInv`: total minus success
  minus failed is what the process started with and the number of requests that
  have begun and not yet been counted, a cardinality. `SnapInv` carries it
  through the four loads: the successes and failures that have been read are at
  most those of now, and with those of now in place of the ones not read yet the
  bound holds already. It rests on the order of the loads, total first.
* `EndsKeepCounts`. `QuietInv`: as long as no request has run, what has been read
  is what is.
* `CountsAreExact`: `[]NothingCountedTwice`. What has happened is a set, and
  `Settled(k)` the part of it that has been added already, which `OweInv` reads
  off the list of what is left to add. No counter, no snapshot and no file is
  ahead of `Settled`, and in the first process the counters are equal to it
  (`CountInv`).

### RequestPathProofs

For any requests, texts, refusals, accounts and number of attempts.

* `TypeCorrect`: `TypeOK` is inductive; its lemmas say what the conversions return.
* `AlternationCorrect`. `RepairInv`: what has been repaired so far alternates, and
  with a system prompt starts with the user; `Separator` keeps that, and
  `PayloadAlternates` says that every payload cut out of it alternates too.
* `CompactionCorrect`. `RotateInv` says of the strategy what `CompactedIffRotated`
  says of a payload.
* `BlameCorrect`. `Understanding` says that nothing is sent of what is not
  understood, `Attempts` relates payloads and refusals to the number of the
  attempt and each category to its status and words.
* `NothingIsLost`: `[]NothingLost`, for messages with blocks of every kind: what the
  handlers understand of them, and nothing else, is in every payload. `HeardInv`: what has been parsed is the plain
  messages so far, unified one by one, and the words of the system messages so
  far. `ConvertInv`: the items carry the system prompt and the messages so far,
  in texts, images, calls and results, each in order; `AlternateInv`: what is
  repaired and what waits carry all of it between them, and with a system prompt
  its two items come first. `Repaired` says nothing that was not said (its "-" and
  its blanks are not words), and `PayloadSays` takes the payload apart again:
  history, current message and, where the history was compacted, what stays.

### ResponsePathProofs

For any tags, any hold that is long enough for them (`TagAssumption`), and any
frames and searches.

* `PathInv` is five parts: the places of the two routes (`Routed`), when the pool
  has been told what (`Told`), nothing is wrong before a request has failed
  (`Blamed`), what has been written at which place under which status
  (`Written`), and what has been read (`Heard`). `LeasesAreReportedOnce` (for chats
  and web searches, and for a client that is gone before the first byte),
  `EndingsAreAlwaysTold` and `ObserverAndFormatterAgree` follow from it.
* `BlocksAreWellFormed`: the formatters' local variables say what is open. `Core`
  relates the events sent to the last index and the set of open blocks; each
  operator of a formatter takes it to the next, whatever event comes, and closes
  the tool blocks in any order. `Sound` is what is left of it at a write in
  between, where the client may go.
* `ResponsesTypeCorrect`.
* `ChunksNeverMatter` and `TextNeverLags`, and the inputs of
  `ToolCallsAlwaysAgree`, follow from a second inductive invariant, `AnswerInv`, which holds given `PathInv`. The properties
  compare all that has been written with all that has been read, so the invariant
  has to say what the part in between, the splitter's buffer, stands for.
  * `Splits`: the buffer is the end of the text that has come, and `Scan`, the pass
    over the whole text, stands before it outside any tag, in the state of the
    splitter. `CutEffect` and `SegmentEffect` carry that over the two kinds of
    loop step.
  * `Passed`: every tag that was looked for so far had room in the text that has
    come, so `Scan` of a longer text is the same up to there (`PassedStays`). This is
    where `Hold` comes in: the splitter keeps what may be the start of a tag. At the
    end of the stream the rest of the buffer is passed although it has no such
    room, which is right because no text follows.
  * `Tells`, `Chunks` and `Message` say what a formatter has told the client of text,
    thinking and calls, for each form of answer (`Composes`; once it is whole,
    `Delivers`). Each operator of a formatter adds the data of its event and
    nothing else. For content blocks that needs the invariant of the protocol,
    `Core`, and `Hosts`, which relates the tool blocks sent to the map of calls:
    an index that is not used again keeps the input of two calls apart.
  * `Conveys`: what has been told is the text up to the buffer (`Upto`), and all
    calls with their input (`CallsIn`). With reasoning frames the thinking is more
    than that of the text, and nothing is said of it, as in the properties.
* The rest of `ToolCallsAlwaysAgree`, how calls are told apart and under which
  name, follows from a third, `TaleInv`, which holds given the other two.
  * `History` is what the frames say of calls: the names each was given, which
    have ended, which went on after that, and which the first and the last event
    name. It is a record of sets that each frame extends.
  * `Tale` relates what a form of answer has told to that history. `Hands`, `Counts`
    and `Orders` read the calls that were told, and what the formatter keeps of
    them, off the variables of the three ways to tell calls; `BlockTale`, `ChunkTale`
    and `MessageTale` say how they fit the history, and a tool event keeps that.
  * `Reads` is what all three come to (`BlocksTell`, `ChunksTell`, `MessageTells`),
    and `TaleMeans` reads the property off it.

### Only model-checked

* Liveness, which is out of the prover's reach with fairness: `MutexReleased`,
  `RefillRuns`, `WriterProgress`, `RequestsEnd`.
* What the runs of section 3 show to be violated.

## 6. Plan

1. A composition of `ChatService` and `AccountPool`, with an abstract pool that
   promises what `ChatService` assumes.
2. The concurrent rewrites of the CSV file, with its columns.
3. The fake cache; the compaction counters of the statistics.

The configurations are kept few; where a departure from the documents is
described above without a run, a property of a passing run says what does hold.

## 7. Not modelled

* The fake prompt cache changes reported numbers only.
* The rewriting of the CSV file: `AccountPool` takes its outcome as arbitrary.
* The admin, models and statistics handlers pass calls and answers on. Their
  calls are actions of the pool, the catalog and the statistics.
* Configuration, API keys, device identity, tokenizer and the administration page
  are pure functions or immutable after start. So is the static catalog, of which
  `RuntimeCatalog` models the names.
* Values of tokens and lengths of cooldowns: which token is valid and whether a
  cooldown runs is modelled. Hazards that turn on more have no property; neither
  have those that the code does run into, where a theorem's hypothesis or a
  property's premise excludes them: overlapping requests of a session, torn state
  files and refills from the API.
