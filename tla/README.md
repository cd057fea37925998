# RoundTable in TLA+

A verification development for RoundTable: a browser library, a bootstrap server and a Solana
program that together give a small peer-to-peer network with chat, presence and matching of
players into pairs. Paths below are those of the checkout, `src/src/Matcher.ts` being the matcher of the
TypeScript library and `src/contract/src/` the Rust program.

## The system

| Component | State | Operations | Talks to |
|---|---|---|---|
| Matching: `Matcher.ts` (`MatchStateManager`, `MatchAgent`, `MatchManager`) | per client: the map of games heard of (last seen, claims, acks), the agent's state, match id, target, callback, start of the last action | `findMatch`, `stopMatch`, four message handlers, `poll` every 100 ms, `checkTimeouts` every 2 s | the other clients over four pubsub topics; the user's callback; listeners |
| Facade: `RoundTable.ts` | the managers | `findMatch`, `stopMatch`, `sendChatMessage`, `sub`, `pub`, `initRoundTable` | all client parts, libp2p |
| Chat: `Chat.ts` | log of the last 20 messages, listeners | send, receive | one topic |
| Presence: `Presence.ts` | map of peers and when each was seen | announce every 10 s, receive | one topic |
| P2P node: `p2p.js`, `Util.ts` | a singleton node | `getP2PNode`, `setupRoundTable` | libp2p |
| Server: `server/` | a node, its subscriptions | `init` | the table account, libp2p |
| Table program: `contract/src/` | per owner a table account (two 512-byte lists, a closed flag), per table and user a seat account (a channel key) | eight instructions | the Solana runtime |
| Contract client: `Contract.ts`, `util/contract_api.ts` | none | builders of the instructions, readers of the accounts | the ledger |

What is hard here:

- **Concurrency without a coordinator.** Adverts, claims and acks of many clients cross on four topics that
  keep no order. Every client decides alone.
- **Re-entrancy.** Every `send*Message` also calls the local handler, which raises an update event, which calls the agent
  that is in the middle of sending; callbacks and listeners of the user run in there and may call back in. A chat listener may
  send while it is being called.
- **Awaits.** Bringing up a node takes four of them, over a singleton and a table that others change in between.
- **Stale data.** A match id names an advertiser and a game, not a search; maps outlive searches; entries and claims
  expire by clocks of the client that holds them.
- **Failure.** Messages get lost, pages are reloaded with nothing stored, callbacks throw.
- **Bytes.** Lists on the chain are `;`-separated text in a fixed array, edited with substring operations.
- **Transactions.** An account that was emptied keeps its data until the transaction ends.

What makes each part correct, in a line: *matching*, a host accepts only a client that claimed the game, a
client starts only when it was accepted, a search ends in at most one match, nobody hangs; *lists*, what was added
is read back and a removal touches nothing else; *tables*, nothing changes without the signatures the code asks for;
*chat*, every listener hears every message, in an order it can make
sense of; *presence*, clients of the same table come to list each other; *P2P node*, it is shared and has started; *server*, it serves
the channels of the table it read.

## Modules

| Module | What it is |
|---|---|
| `Matcher` | the matching protocol: clients, network, loss, reload, time; its properties and inductive invariant |
| `Pairing` | what the protocol promises its users, without messages or maps; `Matcher` implements it |
| `MatcherPrompt` | `Matcher` on a network that is fast compared with the timeouts, and the properties of that regime |
| `MatcherProofs` | the safety of `Matcher`, and that it implements `Pairing`, proved |
| `PromptProofs` | the properties of `MatcherPrompt`, proved |
| `MatchCalls` | one client of `Matcher`, call by call, with the user's code in the middle; folds to `Matcher` |
| `MatchCallsProofs` | how searches end when callbacks and listeners call back in as often as they like, and that events without such calls fold to `Matcher`, proved |
| `MCMatcher`, `MCMatchCalls` | instances of these for TLC |
| `FieldBytes` | one list field as bytes: `str_buf_add`, `str_buf_rm`, `getTableData`; which names keep apart in it |
| `NameList` | the list of names that owner and readers have in mind |
| `TableField` | a field under adds and removes; implements `NameList` under conditions |
| `FieldLemmas` | what the loops of `FieldBytes` compute, proved for all bytes |
| `FieldProofs` | `TableField` implements `NameList`, proved |
| `Table` | the program's instructions in transactions, over `FieldBytes` |
| `Commands` | the command line tool and the instruction builders, over `Table` |
| `TableProofs` | who has to sign for what, what the accounts hold, and that the commands do what is typed, proved |
| `MCTableField`, `MCTable` | instances for TLC |
| `Chat` | the chat of one client: log, listeners, replies from within listeners |
| `ChatProofs` | its properties, proved |
| `Startup` | calls of `initRoundTable` and `setupRoundTable`, the singleton node, servers, the table they read |
| `StartupProofs` | the safety of `Startup`, proved |
| `Presence` | the presence protocol between the clients that `Startup` brings up; extends it |
| `MCPresence` | an instance for TLC |

### Matcher and the code

One action is one event of the JavaScript loop, from the outermost handler to its last nested call: the code never
awaits in between. So `ReceiveClaim` contains the recording of the claim, the update event, both publications of the ack,
the removal of the game, the callback and `clearState`.

| Code | TLA+ |
|---|---|
| `matchMap`, `lastSeen`, `claimsSeen`, `acksSeen` | `matchMap[n][id]`: `seenAge`, `claimsSeen`, `acksSeen`, or `None` |
| `state`, `matchId`, `targetMatch`, `lastActionStart` | `state[n]`, `matchId[n]`, `targetMatch[n]`, `actionAge[n]` |
| pubsub | `net[n][m]`, copies of message `m` on the way to `n`; the sender gets none, because libp2p does not echo |
| `findMatch`, `stopMatch` | `FindMatch`, `StopMatch` |
| `startMatch`, `restartMatch` | `StartMatch`, with `JoinGame`, `ServeGame` and, for a game that already has a claim in the map, `AcceptClaim` |
| `handleMatchStateUpdate` | `AcceptClaim`, `Won`, `Lost` inside the receive actions |
| the four handlers | `ReceiveAdvertise`, `ReceiveUnadvertise`, `ReceiveClaim`, `ReceiveAck` |
| `poll`, `checkTimeouts` | `Poll` (only when it does something: `Overdue`), `CheckTimeouts` |
| matches told to users, calls of `findMatch` that began a search | histories `filled` (to a host), `joined` (to a joiner), `claimed`; `searches` |

Abstractions. A match id is the pair of advertiser and name. The code concatenates the two; keys are all of about the same length in
base 58 and no name begins with key characters that shift the border, so the pair loses nothing that the
properties see. Times are ages in whole units, capped one above the timeout they are compared with
(`>` is strict in the code, hence the cap). Counters are carried by the messages but decide nothing and are left out. The random order in
which `startMatch` looks at games is a choice among all that qualify. Acceptance publishes its ack twice: that is what the
code does, because handling its own ack raises an update event while the agent still serves.
`MaxCopies` bounds the copies of one message under way to one client; further copies are lost.

Definitions marked `(slip: ...)` are no part of the model. Each is a definition with a plausible mistake, and some
run notices when it takes the place of the right one.

### MatchCalls and the code

`Matcher` folds an event and all the calls it makes into one action, which leaves no room for the user's code to run in the
middle. `MatchCalls` has one client with its `stack` of calls; a step is a piece of code between two calls. `OnAdvertise`,
`Unadvertise`, `OnClaim` and `OnAck` are the local handlers, `Raise` is `raiseUpdateEvent`, which calls the agent and then the user's
listeners, `Agent` is `handleMatchStateUpdate` up to its first call, and `Accepted`, `Remove`, `ClaimSent` are what comes after a call returned.
`Tell` is `_matchCallback`: it puts a `called` frame on the stack, under which the callback runs. `Returns` ends it and clears the
state, as all three callers do, also when the callback throws where that is caught; `Throws` is the exception that
leaves `stopMatch`, which does not catch it, before the state is cleared.

User code may call `findMatch` and `stopMatch` any number of times before it returns: `CallbackCalls` and `Listener`
leave its frame on the stack. All listeners of the user together are one frame. Nothing of the matcher runs between them and what one of them
throws is caught, so that they do together what one listener with all their calls does.

The rest of the world may deliver any message at any time, also under this client's own key (a second page with
the same wallet). `before` remembers the client as it was when the event began. `Matcher` is instantiated with that state, so
`FoldsToMatcher` says: when the last call of an event has returned, what has happened is a step of this client in
`Matcher`. Two kinds of events are exempt, and `Matcher` has neither: those in which user code itself made a call, and those
that find the agent `astray`. An agent goes astray when user code stops it and searches anew while an earlier claim or acceptance of its own
is still being sent: the code that resumes then binds the new search to the old game (348), or tells it the old game's match (405). It stays
so until it is cleared or begins anew. What holds of the exempt events too is said by the other four properties.

What user code can bring about by calling back in:

- A listener that calls `stopMatch` while a claim is being sent leaves an idle agent with a `matchId` (348).
- If it, or another listener, also calls `findMatch`, the new search goes on with the old game's id: it may then accept a claim on a game that
  is not its own, or even ack itself when that game is advertised again, and its callback hears of a match that it never asked for. The
  same happens to a search begun in a listener while a claim is being accepted (405). `ToldOfOwnMatch` says that this is the only way.
- A match callback that calls `findMatch` is refused, as the agent is cleared only after it returns (405 and 410, 417 and 422).
- A callback that calls `stopMatch` is called again before the state is cleared; so is one that threw out of `stopMatch`, at the next one.
  `ToldTwiceOnlyByCallback` says that no other is.
- A callback that calls `stopMatch` and then `findMatch` has its new search accepted (322), and dropped when it returns (410, 422, 381, 384);
  the new search's callback is not called. `EverySearchIsTold` says that only such a search ends untold, and `CallbacksSearchInVain`
  that no such search goes on after the event, the one exception being that of a callback that then throws out of `stopMatch`.

### Table and the code

Addresses are derived, so `table[o]` and `seat[o][u]` are indexed by what they are derived from and
`check_table_account` and `check_seat_account` only add ways to fail. `Begin`, `Commit` and `RollBack` are the
runtime's (external): an instruction that errors or panics ends the transaction and undoes it. `DeleteTable` and `RemoveSeat`
put an account into `drained`; its data stays until `Commit`, so later instructions of the same transaction still find
it, as in the code, which asks for data and not for lamports. `AddSeat` overwrites, because the result of making the account is
ignored. Payment and refund of rent are not modelled.

A field is the sequence of bytes before its zero padding. Bytes are letters, the separator, and the two halves of a two-byte
character, which is what it takes to see a cut inside a character. `Mentions` is `contains`; `Dropped` is `replace` with
an empty string; `Entries` is the split of `getTableData`, which drops the piece before the first separator.

### Commands and the code

`Send` is `run` of `contract_api.ts` up to the transaction, `Execute` its one instruction, `Confirm` its confirmation; `Builds` is
what the builders of `Contract.ts` refuse (a name of more than 128 bytes does not fit the argument buffer) and `Carry` which
instruction they make. Between commands anybody may send any transaction (`Other`). Three things a reader may not
expect, all part of `CommandsDoAsTold`: the flag of `createTable` is read with `new Boolean(word)` (59), so that the word
`false` closes the table; an add that does not fit the 512 bytes is confirmed, and its name is cut (`processor.rs:58`);
the tool signs with one key, so it cannot seat anybody but the owner at a closed table. The examples of `src/README.md` for
`deleteBootstrap` (134) and `deleteChannel` (140) have an argument too many, which is taken for the name, and the one for `addSeat` (143)
names the owner as the user but signs with `user1.json`: none of these commands does what its heading says.

### Chat and the code

`HandleMessage` is `handleMessage` up to its loop; `CallNext`, `Return`, `Throw` and `LoopEnds` are its loop, a step per
call. A listener that calls `sendChatMessage` is `Reply`: its message is handled at once, inside the other. `for (var m in listeners)` visits
the listeners there were when it began, so one added meanwhile hears the next message first. Publishing is not modelled, as
it does not come back; what other clients send is `ReceiveOrSend`.

### Startup, Presence and the code

A call moves from one `await` to the next: `fetch` (`getTableData`), `key` (`createFromPrivKey`), `create`
(`Libp2p.create`), `start` (`libp2p.start`), `up`. `setupRoundTable` begins at `key` with the default configuration, a server never looks for a
singleton. `KeyMade` tests `node_instance`, `Started` sets it. Any promise may be rejected. The owner may edit the table at any
time, a page may be reloaded and a server restarted. A node is named after the call that made it, and its configuration is that
call's, whatever later callers pass (`Util.ts:9` says that the instance key is derived from what the
caller provides; a later caller of `setupRoundTable` gets the key of the first).

`Presence` adds `peerMap` and one action: an announcement of `c` that `d` handles. `Linked` is external, what libp2p makes of
the configurations: clients do not listen, so two of them meet when a server of both configurations is up and subscribed
to the channel of presence in the table it read at its start. `lastSeen` is left out: nothing in the repository reads it.

## Runs

All bounds are in the `.cfg` files and in the MC modules. `Budget` in `MCMatcher` limits how often a kind of
step is taken in a behaviour; a kind it does not name is unlimited.

| Run | Question | Instance | Result |
|---|---|---|---|
| `lossy` | Do agents and maps stay consistent, and is `Pairing` implemented, when everything fails? | 2 clients, 1 game, 3 searches, a stop, a reload, a loss, throwing callbacks, timeouts of 0, 2 copies | holds, 572 000 states |
| `crowd` | Who is matched when several want the same game? | 3 clients, 1 game, 3 searches | holds, 224 000 states |
| `eternal` | Do abandoned games drain and does nobody hang? | 2 clients, 2 searches, a stop, a reload, any loss, fair | holds, 84 000 states |
| `prompt` | Can a serving host always hear its claims, and does a claim that comes in time lead to a match on both sides? | 2 clients, 2 games, timeouts 3, 2, 1, 4 searches, a stop, 2 copies | holds, 106 000 states |
| `field` | Is a list field a list? | 5 names none inside another, room for all exactly | holds, 326 states |
| `table` | Does anything change without the signatures it needs, is everyone at a closed table admitted, and does a confirmed command do what was typed? | an owner and a user, transactions of up to 3 instructions, names that overflow | holds, 483 000 states |
| `calls` | May an event be taken for one step, and what if the user's code calls back in? | 1 client, 1 peer, 2 games, 3 searches; 3 events from outside, of which at most 2 calls, 2 messages, a poll and a tick; 2 calls of user code within an event | holds, 293 000 states |
| `chat` | What do listeners hear when they reply, throw and are added meanwhile? | 4 messages, 3 listeners, a log of 2 | holds, 165 000 states |
| `session` | Are nodes shared and started, and do clients of the same table meet? | 2 pages, 3 calls, a server, 2 edits, reloads or restarts, fair | holds, 80 000 states |
| `one_sided` | Do host and joiner agree once all is quiet, nothing lost? | 2 clients, 4 searches | **no** |
| `double_ack` | Does one ack start one game? | 2 clients, 2 copies | **no** |
| `crossing` | Do two who look for the same game meet? | 2 clients, fair | **no** |

`lossy` and `crowd` have timeouts of 0: an age is then 0 or above the limit, so that every message may arrive before or
after every timeout with few states. Interleavings that need a certain ratio of the timeouts are the business of the prompt
runs, where they are 3, 2 and 1, in the order of the code's 15, 10 and 5 seconds. Three clients are what
it takes for two joiners to compete for one host; two games are what it takes for a wish to be a list whose
first entry is not the one joined. A table with two users shows every combination of signatures; more tables add nothing, as
no instruction reads two. Three instructions are what it takes to make a table, sit down and delete it in one
transaction. In `calls`, two messages are a claim and its ack, and two nested calls are a `stopMatch` with the `findMatch` that
follows it. In `chat`, four messages nest deeper than the log is long, and of three listeners the one in the middle has one before and
one after it. In `session`, three calls are two on one page, of which one can come late, and one elsewhere; two upsets are an edit
between the start of a server and that of a client, and a restart. Deadlock is not checked where budgets run out (`lossy`, `crowd`, `calls`,
`chat`) nor in `session`, where everything may be up and have nothing left to do.
Symmetry (of clients, and of games in `calls`) is used only where no liveness is checked.

### Fairness

`Fairness` in `Matcher`: the two `setInterval`s of `MatchManager` keep firing, so `Poll` and `CheckTimeouts` are
weakly fair per client; a copy under way arrives or is lost; time passes. Nothing is assumed of users, and
with loss never of a message that it arrives. `PromptFairness` adds that nothing is lost and that time passes only while nothing is
under way and no interval has work to do: network and intervals (a tenth of a second, two seconds) are fast
compared with the timeouts. `Fairness` in `Presence`: the announcement of one client to another that is possible again and again
happens at some time (strong fairness, as links may come and go). The interval of `RoundTable.ts:68` never stops, and a
pubsub that lost every one of the announcements would not be one. No call, edit or restart is assumed to happen.

### What the violated properties show

- `PairsAgree`: a host may fill its game with a client that no longer waits. A claim stays in the host's map until the entry goes, and is
  accepted at once when the host serves the game again; the claimant may have given up in between.
- `StartsFilledGame`: the ack is published twice, and the second copy can start the next game of the same id.
- `SearchersMeet`: two clients can leave their own games for each other's in step, forever. In practice random
  delays end this; nothing in the protocol does for certain.

Also worth knowing, though no run is spent on it: the header of `Matcher.ts` (16) says that the unadvertise message is sent
when a game is filled, but only `stopMatch` sends it; a filled game is cleared by its ack. A name that does not fit a field is cut and its
instruction succeeds. A name that occurs in another is refused, or removed from within it: removing `a` from a
field that holds only `ab` leaves `b`. The README of the repository says that the program validates nothing; the condition under which the
lists do work is `KeptApart`. Seats survive their table, so a table can be made anew as closed around occupants its owner never
signed for one by one; the owner's signature on the new table is what `ClosedTablesAdmit` takes for it.

## Proofs

Every property of a passing run is proved but three, the liveness properties.
The proofs are for all values of the constants that satisfy the named assumption of the module; where a theorem needs
more, it says so in its `ASSUME`, and the sections below say why the code meets it or who has to.

### Matcher

`MatcherProofs`, for every set of clients, games and wishes, every value of the three timeouts, every
bound on copies and every behaviour of the callback (`MatcherAssumption`):

| Theorem | Statement |
|---|---|
| `Invariance` | `Spec => []IInv` |
| `TypeCorrect` | `Spec => []TypeOK` |
| `AgentsConsistent` | `Spec => []AgentConsistent` |
| `AckedGamesForgotten` | `Spec => []NoAckedGame` |
| `ClaimsAnswered` | `Spec => []HostAnswersClaims` |
| `HostsAcceptClaimants` | `Spec => []AcceptsOnlyClaimants` |
| `JoinersWereAccepted` | `Spec => []JoinedOnlyIfAccepted` |
| `PairingImplemented` | `Spec => ImplementsPairing` |
| `SearchesMatchOnce` | `Spec => []OneMatchPerSearch`, for finitely many clients and games |

`JoinedOnlyIfAccepted` is not inductive: a joiner starts because of an ack, so acks in flight must come from
hosts that reported the match (`MessagesAreReal`); a host reports a match because of a claim in its map, so claims in maps and in
flight must have been published. A joiner looks at the first ack in its entry, and that is the one that just arrived only
because no entry ever keeps an ack (`NoAckedGame`); restarts look at the head of the target, which is there because a busy
agent has one (`AgentConsistent`). `IInv` is the conjunction; its parts other than `MessagesAreReal`, which is there for the proof, are invariants of
`lossy` and `crowd`.

The proof goes client by client. `LocalInv` splits `IInv` into what concerns one map, one agent, the network and the
histories (`SameInvariant` shows that this is the same formula). A step changes one client, and the others'
parts stay true because `claimed` and `filled` only grow (`OneClientStep`). `AcceptStep` and `StartStep` do the
shared pieces once; then there is one lemma per action, and `StepInv` puts them together.

`PairingImplemented` needs `LocalInv` on both sides of a step: a host fills a game with a client whose claim is in its map, which
was therefore made; a joiner's ack in flight means that the host was told. Each action maps to one step of `Pairing` or to
a stutter (`StepRefines`); what a search does in its first step, claiming or even filling, is one step there too.

`SearchesMatchOnce` is proved of `Pairing` and carried over: a client's matches as host, its matches as joiner and the
search under way are together at most the searches its user began (`Answered`), and each of the five steps of `Pairing` keeps that
(`AnsweredStep`). The counts are sums over all pairings, so the step needs that one more match of one pairing makes the sum one
more and leaves the sums of other clients alone (`SumMore`, `Adds`). A sum over a finite set is a fold; `SumsExist` finds a
function on its subsets with the equations of a sum, by induction over their size, and `TotalIsSum` says that the fold is it.
That is why clients and games must be finite, which TLC evaluates of the instances (`FiniteInstance`).

### MatcherPrompt

`PromptProofs` adds the regime in which the network and the intervals are fast:

| Theorem | Hypotheses | Statement |
|---|---|---|
| `PromptInvariance` | `Renews` | `PromptSpec => []PromptInv` |
| `HostsKeepTheirGames` | `Renews` | `PromptSpec => []HostKeepsItsGame` |
| `PunctualClaimsMatch` | `Renews`, `Outlasts` | `PromptSpec => PunctualClaimMatches` |

The hypotheses are what the properties owe to the numbers in the code. `Renews`: an advert is renewed before it expires,
10 s against 15 s, and callbacks do not throw (one that throws out of `stopMatch` leaves an agent that serves without a game
in its map). `Outlasts`: an advert expires no later than a renewal and a wait for an answer after it was made, 15 s against 10 s + 5 s:
met with nothing to spare. The timeouts of the run, 3, 2 and 1, meet both in the same way. The second one is needed because a host
may leave a game without withdrawing it (to join another, when it is time to renew the advert) and serve it again later: it then accepts a claim
that it kept on record, and `Outlasts` makes that claim young enough for its claimant to be waiting still.

`PromptInv` says how old things are: the host's own entry is as old as its last action (`HostLists`), a game it left is
older than any wait for an answer to a claim on it (`LeftGames`), and what is under way to a client was sent within the current unit of time, so that it is
still of use (`Traffic`).

### MatchCalls

`MatchCallsProofs`, for any number of searches and any nesting of calls (`CallsAssumption`, `FoldsAssumption`). The second
ties the constants that `Matcher` and `MatchCalls` share: null is no message and no entry of the map, a message is
published at least once, and a callback may return in `Matcher`, and may throw there if it may here. What `Matcher` allows a callback must
cover what `MatchCalls` lets it do, or there would be no step to fold to.

| Theorem | Statement |
|---|---|
| `CallsInvariance` | `Spec => []CallsInv` |
| `SearchesAreTold` | `Spec => []EverySearchIsTold` |
| `SearchesAreToldOnce` | `Spec => []ToldTwiceOnlyByCallback` |
| `CallbackSearchesEnd` | `Spec => []CallbacksSearchInVain` |
| `CallbacksHearTheirOwn` | `Spec => []ToldOfOwnMatch` |
| `EventsFold` | `Spec => FoldsToMatcher` |

The invariant relates the stack to the search under way. `AgentOK`: an agent knows only of a game that its search claimed or advertised,
unless it is astray. `Recalls`: a call that will bind or tell the search it was made for finds that search under way, unless there is none or the
agent is astray. `Endings`: a search that is not under way is settled, which is to say told or begun inside a callback's call, and while callbacks are in
progress so is the one that is, because it will be cleared. A search that goes on although it was told has its callback running, or one that
left a `stopMatch` half done; one that goes on although it began inside a callback has that callback still on the stack, or
thrown out of `stopMatch`. When all calls have returned no callback is on the stack, and what is left of `Endings` is the three
properties about searches.

`EventsFold` follows every event through all its calls. Two more invariants carry it, proved together with the first
(`FoldInvariance`).

*`MapInv`* says what the calls in progress still owe the map. A game that was acked is in it only while some call waits to
remove it; a claim on the game a host serves is unanswered only while the agent is about to see it or to clear; a host serves a
game of its own and a joiner waits for another's (`Tidy`). Of an agent that is astray only the first is true. At rest nothing is owed, and this is what `Matcher`, whose steps end at rest,
takes for granted.

*`FoldInv`* says, in the middle of an event that found the agent on its course and in which user code made no calls, what the event *will have come to*. `Done(before, ...)` is the
list of outcomes of an event: the map, the agent, the messages out and what callbacks hear, given the state
before it. The event is in one of nine phases (`Phase`), and each says that `Done` holds, not of the state as it is, but of what
will be left once the calls on the stack have finished:

| Phase | The innermost call | What remains |
|---|---|---|
| `Looking` | the agent, asked about an update that is not its business | nothing but removals |
| `Accepting` | the agent of a host, at an unanswered claim | one ack or two, the callback, clearing, removal |
| `AckSent` | the host after its ack was handled | the callback, clearing, removal |
| `Winning`, `Losing` | the agent of a joiner, at an ack for it, or for another | the callback and clearing; or a search anew |
| `CallingBack`, `Halting` | the callback, of a match, or of `stopMatch` | clearing; after a throw `stopMatch` does not clear |
| `Announcing` | a joiner's claim, being handled locally | setting `matchId` |
| `Calm` | listeners and removals; or any, once the agent is clear | removals; the outer of two acceptances finds nothing left to do |

The double ack of `AcceptClaim` is `Accepting` passed twice: the host's own ack raises an update, which finds the claim still
unanswered and the host still serving. `Losing` cannot name an outcome, as the search that follows has several; it says that whatever such a search begins with is one (`Leads`).
An event starts in a phase (`EventPhase`), a step leads from phase to phase (`PhaseStep`), an empty stack fits
only `Calm` (`OnlyCalm`), where nothing remains and `Done` holds of the state itself, and each outcome in `Done` is
a step of `Matcher` (`DoneSeen`).

### Startup

`StartupProofs`, for any number of pages, calls, servers and upsets, and any contents of the table
(`StartupAssumption`):

| Theorem | Statement |
|---|---|
| `StartupInvariance` | `Spec => []StartupInv` |
| `NodesStartFirst` | `Spec => []BoundToStarted` |
| `LateCallersReuse` | `Spec => []LateCallersShare` |

Neither property is inductive. A reload takes nodes away, and whoever holds one must go with it: nodes are those of
the holder's own page (`NodesAreLocal`). A late call must find the singleton set whenever it gets to look, although other calls
of its page overlap, fail and store theirs: a page that has or had a RoundTable since its reload has a singleton (`SingletonIsSet`), and that is a
started node of a call that is up (`SingletonIsUp`), hence not of the late call itself.

### Chat

`ChatProofs`, for any number of messages and listeners and any length of the log (`ChatAssumption`):

| Theorem | Statement |
|---|---|
| `MissedOnlyByThrowProved` | `Spec => []MissedOnlyByThrow` |
| `HeardIsLoggedProved` | `Spec => []HeardIsLogged` |
| `OutOfOrderOnlyByReplyProved` | `Spec => []OutOfOrderOnlyByReply` |

Calls in progress are nested, inner ones of later messages (`Nesting`), and a message in progress was heard by
exactly the listeners up to where its call is (`Hearing`). For the order, `Descent`: whatever was handled since a call began
answers its message, through other answers perhaps. That is a statement about chains of `parent`, which is where the proofs need induction.

### Lists and tables

`FieldLemmas` says what `str_buf_add`, `str_buf_rm` and `getTableData` compute, for all fields and names. The one
hypothesis is `KeptApart(Names)`: a name has a byte, no separator, and is not part of another name. Nothing in the repository checks this; for
names of which it does not hold, the lists do not work (see above). The instances of `field` and `table` satisfy it, and TLC evaluates that.
`Reads(d, l, at)` ties bytes to entries: entry `k` of `l` starts at `at[k]`, with its separator. Replacing a name with its separator takes away exactly one
entry (`RemovedReads`), because the bytes occur once, where the entry starts (`FoundOnce`); an added name is one more entry (`AddedReads`); and
the split returns the entries (`EntriesRead`).

| Theorem | Module | Statement; the last three for names that keep apart |
|---|---|---|
| `TableInvariance` | `TableProofs` | `Spec => []TableInv` |
| `ChangesSigned` | `TableProofs` | `Spec => ChangesAreSigned` |
| `GateHolds` | `TableProofs` | `Spec => GateKept` |
| `ClosedTablesAreGuarded` | `TableProofs` | `Spec => []ClosedTablesAdmit` |
| `TypeCorrect` | `TableProofs` | `Spec => []TypeOK` |
| `CommandsAreTransactions` | `TableProofs` | `CommandsSpec => Spec` |
| `ListingImplemented` | `FieldProofs` | `Spec /\ AlwaysRoom => ImplementsNameList` |
| `ListsKept` | `TableProofs` | `Spec => []ListsInv` |
| `CommandsObeyed` | `TableProofs` | `CommandsSpec => CommandsDoAsTold` |

All sets of owners, users, names and keys, every field size and transactions of any length (`TableAssumption`; the tool
also needs that no owner is the value for "nobody", `CommandsAssumption`).

*Signatures.* The properties speak of where a transaction ends, the invariant of its middle: whatever differs from `saved`, or is drained, is
covered by the signatures of the open transaction (`Covered`). The step that needs thought is a seat at a table that was closed, or missing,
before the transaction and is open now (`SeatCovered`): then the table itself differs from `saved`, so its owner has signed. What the bytes of a field are
plays no part.

*Lists.* A field that is a list of names stays one as long as every name fits: `AlwaysRoom` is a property of the behaviour, since nothing in the program
refuses a name for its length. Without it a list may also hold what is left of names that were cut off. A piece of a name contains no
name, so removals still hit the right place: `Lists` allows for pieces, `ListsInv` says that every field
of every table, also of the tables a failed transaction returns to, is such a list, and it needs no room.

*Commands.* `SentInv` follows the command: not carried out, the accounts are as the transaction found them; carried out, they are as `Done` says. Then
`Commit` gives `CommandsDoAsTold` by reading both lists back (`AddRead`, `RemoveRead`), with the part about adds without room as it stands
in the property.

### What stays with TLC

- Liveness: `NeverHangs`, `AbandonedGamesDrain`, `ClientsOfATableMeet`. Fairness and ENABLED are out of the prover's reach.

The installed provers cannot instantiate the induction theorems of the library, which take an operator. Induction over numbers is available with a
*set* in the place of the predicate (`SetInduction`, from well-foundedness of `<`), and that is how the recursive functions of
`FieldBytes` and the chains of `Chat` are reasoned about: their recursion is over places in a sequence. Induction over a data type remains out of reach; nothing here needs it.

## Not modelled

The counters of the matcher, which decide nothing; lamports and rent; `lastSeen` of presence; malformed messages, which every handler
of the matcher drops (those of chat and presence let the exception out to libp2p); encoding, the cut of a chat message to 160
characters; key files and the RPC connection of the tool; the ways libp2p finds between servers; configuration of libp2p, deployment scripts
and manual tests. All clients of `Matcher`, and all that `Presence` brings up, share one `netName`; topics of another carry no message here.

## Plan

1. Matching: `Matcher`, `Pairing`, `MatcherPrompt`, runs and safety proofs. *Done.*
2. Lists and tables: `FieldBytes`, `NameList`, `TableField`, `Table`, `Commands`, runs, signature proofs. *Done.*
3. The call stack of one client: `MatchCalls`, shown to fold to `Matcher`. *Done.*
4. Bring-up and presence: `Startup`, `Presence`, safety proofs of `Startup`. *Done.*
5. Chat: `Chat`. *Done.*
6. Proofs: `Matcher` implements `Pairing`, the prompt regime, searches call by call, chat, the lists byte by byte, the commands. *Done.*
7. Searches counted per client, and a search matches once, proved. *Done.*
8. Every event of one client folds to a step of `Matcher`, proved. *Done.*
