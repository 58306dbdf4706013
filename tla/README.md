# Kampi: a TLA+ model of matches, money and rooms

Kampi lets two players stake chips on a short game (Rock Paper Scissors or Penalty
Duel) and pays the winner. What has to be right is the money: whoever is charged must
be charged once, a match must be settled one way and once, and it must be settled
although players drop, timers fire late, database calls fail and the process dies.
This directory models that core in TLA+, checks it with TLC on small instances, and
proves with TLAPS, for all instances, what the wallet tables, the transactions on them,
both rooms, the recording of outcomes, the lobby, the administrator's page and the clients
in the browser promise.

File names below are relative to the repository.

## 1. Inventory

| Component | State | Operations | Hard behaviour | What makes it correct |
|---|---|---|---|---|
| **Wallet, ledger, settlement** `packages/domain/src/wallet.ts`, `players.ts`; `apps/realtime/src/games/match-factory.ts` | tables Wallet, WalletLedgerEntry, Match, MatchPlayer, Purchase | provisionPlayer, createMatchRecord, deductEntryFees, finalizeMatchPayout, refundAbortedMatch, purchase provider, mutateWallet | retries and replays, two settlements racing, one of two debits failing | ledger explains balance; a key moves chips once; all stake or none; a prize or refunds, never both, for good |
| **Penalty Duel room** `apps/realtime/src/rooms/penalty-room.ts` | phase, turn, locks, score, timers, connections, settlement progress | onJoin, onLeave (grace, forfeit), submit_action, request_snapshot, turn/bot/reveal/connect/retry timers, startMatch, finish, abort, shutdown | every database call is an await during which the other handlers run; calls fail; the process dies | plays the game's rules; charges before play; pays its verdict; publishes only what is settled; never hangs |
| **Penalty rules** `packages/game-penalty/src/index.ts` | none (pure) | rolesForSequence, resolvePenaltyTurn, applyTurnScore, decideMatchProgress | sudden death, whoever kicked first | a winner leads after equal kicks |
| **RPS room** `apps/realtime/src/rooms/rps-room.ts` | status, round, choices, score, timers | activateMatch, onJoin, onLeave, choice, round/start/bot timers, finishMatch, abortMatch | timers that nothing cancels, settlement that nothing retries | as for the Penalty room |
| **RPS rules** `packages/contracts/src/rps.ts`, `packages/game-rps-core` | none (pure) | resolveRpsRound, isMatchComplete | – | – |
| **Game SDK, server** `packages/game-sdk/src/server/index.ts` | deadlines, settlement flag, command ids | DeadlineScheduler, SettlementCoordinator, CommandGuard | callbacks of an earlier turn; command ids forgotten at 1024 | a deadline belongs to a turn; a command acts once |
| **Outcome recording** `packages/domain/src/progression.ts`, `apps/realtime/src/games/recover-outcomes.ts`, `persist-outcome.ts` | match results, XP, levels, leaderboards | recordMatchOutcome, recoverPenaltyOutcomes | a crash between payout and statistics; rooms and recovery at once, on the same rows; matches whose event cannot be read | recorded, once, in the end, for the player who was paid and in the week of the match |
| **Lobby** `apps/realtime/src/rooms/lobby-room.ts`, `sessions/private-invite.ts` | queues, tickets, bot timers, pairing set, invites | onJoin, leave, create_private, join_private, bot fill, match creation | queue entries used across awaits, leaves during them, invite races | a queue entry or invite makes one match; nobody waits for ever |
| **Game SDK, client** `packages/game-sdk/src/client/index.ts`, and the **game pages** that use it, `apps/game-penalty/src/scenes/GameScene.ts` | session objects, their rooms and reconnection token; the page's search, snapshot and stored token | search, cancel, join, reconnect, restore, destroy | calls in flight when their session is destroyed; tokens that change with every reconnection; reloads | no connection outlives its session; the stored token opens the seat; the page never gets stuck |
| **Web shell, accounts and sessions** `apps/web/src/app/page.tsx`, `apps/api/src/auth` | users, sessions; the page's token, player and operation counter | bootstrap, guest, register, login, claim, logout, refresh | answers for an earlier operation, lost answers, revoked sessions | the page acts for the player it shows, and the latest operation wins |
| **Administrative API** `apps/api/src/admin` | users, game status, audit log | suspend, pause, adjust chips | a request the proxy gave up goes on and is sent again | adjustments are idempotent, never overdraw, and are audited once |
| **Administrator's page** `apps/admin/src/components/AdminDashboard.tsx` and its proxy | list, query, load counter, dialog, session cookie | load, search, page, adjust, change status, sign in and out | overlapping loads, lost answers, confirming again | a dialog moves chips once; the list shown is the current one |
| **Read-only API, lobby page, tooling** | – | queries, rendering, scripts | – | – |

### How they interact

    client --join--> Lobby --createMatchRecord--> tables <--mutateWallet-- API (admin, purchases)
                       |                            ^
                       `--createRoom--> Room --deduct/finalize/refund/record--'
                                          ^
                              client: intents, drops, reconnections

A room is created by the lobby with the terms of the match; from then on the room and
the tables talk only through the transactions of the wallet module. Recovery reads the
same tables on a timer, in the same process. A room, like the lobby, is single-threaded:
what runs between two `await`s is atomic, and what is interleaved is everything else.

The hazards this suggests, each at its line, are under `hazards` in `PROJECT.json`,
with the properties that would catch them going wrong.

## 2. Modules

| Module | Models | Role |
|---|---|---|
| `Escrow` | – | abstract: a match is an escrow account, staked together, closed once |
| `Wallet` | wallet.ts, players.ts, match-factory.ts, the adjustment endpoint | one action per committed transaction |
| `MCWallet` | – | instances of Wallet |
| `WalletProofs` | – | the proofs about Wallet: its invariants, and that it implements Escrow |
| `WalletTx`, `MCWalletTx` | wallet.ts, PostgreSQL's row locks | the same transactions statement by statement; its properties, inductive invariant and instance |
| `WalletTxProofs` | – | the proofs about WalletTx |
| `Shootout` | – | abstract: two sides kick in turn until one leads after equal kicks |
| `PenaltyRules` | game-penalty | the pure rules, as operators |
| `PenaltyRoom` | penalty-room.ts, DeadlineScheduler, SettlementCoordinator | the room over the tables of `Wallet` |
| `PenaltyRoomProperties`, `MCPenaltyRoom` | – | its properties, inductive invariant and instances |
| `PenaltyRoomProofs` | – | the proofs about PenaltyRoom |
| `RpsRules`, `RpsRoom` | rps.ts, rps-room.ts | the other room over the tables of `Wallet` |
| `RpsRoomProperties`, `MCRpsRoom` | – | its properties, inductive invariant and instances |
| `RpsRoomProofs` | – | the proofs about RpsRoom |
| `Lobby` | lobby-room.ts, private-invite.ts, match-factory.ts | queues, tickets, bot timers, invites, reservations, match creation |
| `LobbyProperties`, `MCLobby` | – | its properties, inductive invariants and instances |
| `LobbyProofs` | – | the proofs about Lobby |
| `DuelClient`, `MCDuelClient` | client/index.ts, GameScene.ts of the Penalty page | the sessions of the page, their connections, the stored token; its properties, inductive invariants and instances |
| `Outcomes`, `MCOutcomes` | progression.ts, recover-outcomes.ts, persist-outcome.ts | recordMatchOutcome statement by statement, its callers, the recovery batch; its properties, inductive invariant and instance |
| `OutcomesProofs` | – | the proofs about Outcomes |
| `AdminConsole`, `MCAdminConsole` | AdminDashboard.tsx, its proxy and session route, admin.controller.ts | one administrator's page and the API behind it; its properties, inductive invariant and instance |
| `AdminConsoleProofs` | – | the proofs about AdminConsole |
| `WebSession`, `MCWebSession` | page.tsx, auth.controller.ts, auth.guard.ts, players.ts | who is playing; its properties, inductive invariant and instances |
| `ClientProofs` | – | the proofs about DuelClient and WebSession |

Composition: the rooms hold the tables among their variables and use
`DB == INSTANCE Wallet`, so a room's calls are the very transactions `Wallet` defines,
and `ImplementsWallet` checks that the room's own unguarded updates
(`match.update({status: 'ACTIVE'})` and the bot-win update) are steps `Wallet` allows too.
For both rooms this is proved (`WalletStepsTheorem`, `RpsWalletStepsTheorem`), so what
`WalletProofs` says of the tables holds of the tables of a room.
Two refinements tie the code to what it is for: the tables implement `Escrow`, and the
Penalty room implements `Shootout`. A third goes the other way down: every commit of
`WalletTx` is a step of `Wallet` (`CommitsAreAtomic`), so what is proved of `Wallet` holds
of tables that are written statement by statement.

Definitions named *Seeded bug* are mutated forms of the definition below them. No
specification uses them; each shows that a property can tell the code from a plausible
mistake in it (`mutants` in `PROJECT.json`).

### Wallet and its correspondence to the code

`balance`, `ledger`, `status`, `terms`, `seats`, `refunded`, `winner`, `purchase` are the
columns their comments name. A transaction that throws is the action being disabled:
Prisma rolls it back. The row locks the code takes (`SELECT ... FOR UPDATE` on the match,
then on the wallets in sorted order) are what makes a transaction one action; that
they suffice for that, and cannot deadlock, is what `WalletTx` checks. Idempotency keys
are records whose `kind` stands for the prefix of the string. A key determines type, match and purchase of its entry, so the comparison of
`mutateWallet` reduces to wallet and amount.
`completePurchase` is the one function that reads outside its transaction; its check and
its commit are two actions, with `completing` counting the calls in between.

`Wallet` is more general than the program: every transaction may be called at any time,
again, and in any order, and what holds of it therefore needs no good behaviour of the
rooms. Two actions are restricted to what the rooms do: `ActivateMatch` needs `WAITING`
and the stakes, `FinishBotWin` an unsettled match. The updates in the code have no guard;
that the rooms obey these is checked by `ImplementsWallet`.

### WalletTx

Extends `Wallet`: its variables are the committed tables. Each worker runs one transaction,
and an action is one statement: lock the match and read it (`Open`), then for each player
in the order of user ids lock the wallet, read it, look the key up and insert the entry;
`Commit` makes everything visible. `held` are the rows a worker has locked; a statement
that needs a row of another worker, or inserts a key another has inserted, is disabled
until that transaction ends. A transaction may roll back at any point. What PostgreSQL
does is modelled from how the code uses it (READ COMMITTED, row locks, unique keys); its
foreign-key locks are not in the model. `UpdateMatch` is the rooms' own update of a match
row, which takes the lock of the row like the others.

### Outcomes

The statements of `recordMatchOutcome` for the room of each match and for the recovery
loop, with the row locks on the match and its users. Rows that the code reads and writes
back are read in `ApplyPlayer`, kept in `call`, and written by `Commit`; without the locks
two commits would overwrite each other. `room` follows a room from the settlement to its
end: a Penalty room tries again two seconds after a failure, an RPS room closes.
`finalizedAt` is a week, since all that matters of the date is the weekly board. `Legacy`
are matches finished earlier whose event does not parse, which stay among the oldest for
ever. `batch` is what is left of the matches the recovery has read; it goes through them
from the oldest to the newest (`IsNext`). A crash takes the rooms, the transactions under
way and the batch; the tables stay.

### AdminConsole

`loads` are the list requests under way, each with the number `loadVersion` had and the
query of the moment; only an answer to the newest is displayed. A confirmation (`confirm`)
and its request at the API (`requests`) are separate, so that the page may give up while
the API goes on. The command id belongs to the dialog, not to the confirmation, and that
is what `DialogAdjustsOnce` depends on. `audit` doubles as the history of the
player: a list remembers how much of it was there when it was read (`seen`), which is what
`ListIsCurrent` compares with the changes reported as saved. With `Inert` the page behind
an open dialog cannot be used, as its backdrop intends. One player and one game status
stand for all; two kinds of status dialog behave alike.

### PenaltyRoom

An action is what one callback does up to its next `await`. Sequences of awaits are
program counters: `start` for `startMatch`, `settle` for `complete()` inside `finish` and
`abort`. Each `...Reply` action is the call taking effect *and* the continuation that runs
on its answer; a failing call (`Fault`, at most `MaxFaults`) fails before or after it
committed. Where the room looks at its phase only after an answer (line 203 and after),
the answer and the continuation are two actions, so that a leave can come in between.
`timers` is the set of live deadlines, each with the turn it was set in; `expired` says
that `activeDeadlineAt` has passed although the timer has not run yet, which is when a
late command must be refused. `conn` follows a seat from `away` through `online`,
`grace` (allowReconnection is pending) to `gone`. Directions are two values; the bot's
choice is arbitrary, so its random generator is not modelled. `Crash` ends the process;
what survives is the tables, and `RecoverOutcome` works on them. Recording is one
transaction here; its statements and the recovery batch are in `Outcomes`.

### RpsRoom

Built the same way. `starts` and `bots` count `setTimeout` callbacks that the code never
cancels. `Fault` of the settlement ends in `settle = "failed"`: nothing tries again.
The timing assumption is that of the constants in the code: a round's deadline (15 s)
comes after the bot's move (at most 2 s) and after the next `startRound` (1.5 s) due then.

### Lobby

Again an action per callback. A socket joins once and queues at most once, so it also
names its queue entry, its ticket and its bot timer. `stage` is how far `onJoin` is,
`request` how far a private request, and each element of `matches` a call of
`createAndNotifyMatch` with its progress. `clients` keeps the order of `this.clients`,
because the creator of an invite is looked up as the *first* client of that user.
`Leave` may happen during any await, that of the authentication included; the framework
then runs `onLeave` before `clientMeta` is set, and the client is queued although it is
gone. The model has that behaviour; the properties say what holds in spite of it. A paused
game or a suspended player, which `doCreateAndNotifyMatch` looks for once more, counts as
a failing call.

`Lobby` and `Wallet` meet in the match row: what `Wallet` assumes of a row (two seats,
never the same user twice, `Lineups`) is what `QueuedOnce` and the check for the creator of
an invite give. A room starts where `Lobby` ends: row `WAITING`, room created, nobody in
it.

### DuelClient

The other end of the rooms. The page makes a `GameSessionClient` per search, so `client` is
a sequence, the destroyed ones included: a destroyed session may still have a call in
flight, which is where the code has to be careful. `conns` are the connections and
`duels` the player's seat in each match, as `onLeave` of `penalty-room.ts` keeps it: held
by a connection, in `grace` after a drop, or gone. A call takes effect when it is answered,
or its answer is lost. A reconnection token is the number of the connection that got it;
it opens the seat only while that connection was the last to hold it. `session`, `busy`,
`finished`, `shown` and `saved` are the fields of the page and its entry in
`sessionStorage`; `restoring` counts `restoreMatch` calls between their two looks at
`session`. Two simplifications: the storage key counts as known from the first session
message on, because a digest is quicker than a search; and the account of the page does
not change while it is open. The room may end a duel at any time.

### WebSession

`op`, `boot` and `refreshes` are the continuations of `HomePage` that wait for an answer,
each with the `sessionEpoch` it captured. A request takes effect when it is answered, or
its answer is lost with or without the effect. A token is the number of its `Session` row;
a row also remembers, for `LatestOperationWins`, during which operation it was asked for.
A user and its session are created together here: a user who was left without one is in
the position of a user whose answer was lost.

## 3. Runs

| Run | Instance | What it shows |
|---|---|---|
| `wallet` | 2 users, 2 matches, 1 admin command, 1 purchase with 2 completions in flight | type invariant, ledger and settlement invariants, purchases credited once, finality, and the refinement of `Escrow` |
| `wallet_tx` | 2 transactions at once over 2 users, 2 matches, 1 command, 1 purchase | commits are steps of `Wallet`, and no circle of waiting transactions |
| `penalty_room` | 1 regulation kick each, 4 turns, 1 fault, balances 1 or 2 | the safety properties of the Penalty room, its refinements, and that it moves on and settles its verdicts |
| `rps_room` | best of 3, 3 rounds, 1 fault | the safety properties of the RPS room; rounds end, and verdicts settle unless a call failed |
| `lobby_safety` | three scenarios (below), 1 fault | a queue entry or an invite makes one match, users queue once, leavers are out, tickets are right |
| `lobby_live` | two scenarios (below), 1 fault | nobody stays queued for ever unless a call failed; a guest and a creator get their match or may ask again, unless the deletion of the invite failed |
| `duel_client` | 3 sessions, 5 connections, 2 duels | no connection outlives its session, the stored token restores the duel, the page never gets stuck |
| `web_session` | 2 operations, 2 runs of bootstrap, 1 refresh | the page acts for the player it shows, the latest operation wins, the page does not stay busy |
| `outcomes` | 2 matches of 2 users and an unreadable one, batches of 2, 2 weeks, 2 faults | statistics and boards are those of the recorded results; every readable duel is recorded in the end |
| `admin_console` | 2 lists, 4 loads, 2 dialogs, 2 confirmations, 2 sessions, 1 fault | a dialog moves chips once, and the list shown is current |
| `penalty_forfeit`, `rps_best_of` | as small as the scenario allows | a statement of the documentation that the code does not meet (section 6) |

**Bounds and why they are enough.** Two users and two matches are the smallest instance
in which a key can collide across users or matches and in which matches compete for one
balance; `StartingChips` covers one entry fee but not two. Users and matches are
interchangeable in `wallet`, which has safety properties only, so it uses symmetry. Its fee
and payout are one pair; a fee of zero is covered by the proofs, which hold for any terms.
In `wallet_tx` two transactions are enough for an inversion and for two writers of one
wallet; the users meet in two matches in opposite seats, so that an order by seat would
deadlock. One
regulation kick per player and four turns reach regulation, a tie, and a sudden-death pair
decided either way; the rules depend on the number of regulation kicks only by
comparison. One fault, in any call, before or after it committed, followed by arbitrarily
many good answers, exercises each retry path. A balance of 1 cannot pay the fee of 2, so
the refused deduction happens. In the RPS room three rounds suffice for every score of a
best of three, and for a late timer to meet a later round. In the lobby three sockets are two
that are paired and one that comes between or stays behind; two of them with one user is
what a second tab is. `Lobby` chooses at its start who is there and what they ask for
(`Clienteles`), so that one run covers several small scenarios instead of their product.
`lobby_safety` has three sockets of two users in the queues of two games; three users with
two requests each racing for two invites; and a queued player who hosts an invite.
`lobby_live` has two players in one queue, and three users with two requests each and an
invite. `QueueMoves` excuses behaviours with a failed call: what a failure strands is not
retried by the code. `MayAskAgain` is checked with a failing call anywhere in a private
request: `privateRequest` turns a player away while `request` or `pairing` says so
(`TurnedAway`), and that ends with a match or with the catch block of
`createAndNotifyMatch`. Only `Stranded` players are excepted, those of an invite whose
deletion failed: they are reserved, and no match was ever begun with them. Section 6 says
what the code does to them. With one fault that exception fits nobody else; after two a
player could be stranded who has an older failed match, which `Stranded` does not cover.

In `outcomes` two matches of the same users, in opposite seats and in the same or different
games, compete for the rows of both users; a batch of two has room for the unreadable match
and one other, as a batch of a hundred has while fewer than a hundred are unreadable; two
weeks tell the week of the match from the week of its recording; two faults are a failure
and a crash, or one failure after the other. In `admin_console` two lists and four loads are enough for an answer to a
query that was left, for the load of a saved change and one after it; two confirmations
are a repetition after a lost answer, two dialogs tell a repetition from a new change.

In `duel_client` three sessions are one that was destroyed with a call in flight, the one that
replaced it, and a restoration after a reload; five connections are two lobbies and a
match that is joined and rejoined twice. In `web_session` the two operations are an earlier and a later one; the
second run of bootstrap is the one the page starts when the connection comes back.

`MaxTurns` and `MaxRounds` only stop the model from starting another turn or round; the liveness properties are stated so
that a run that stops there does not count. In the same way `MaxOps` and `MaxBoots` stop the
player from pressing more buttons, `MaxSessions`, `MaxConns` and `MaxDuels` the page and
the network from opening more.

`CHECK_DEADLOCK FALSE` is given where a settled and closed room really stops.

**Fairness.** `FairSpec` assumes only what the process does: the database answers
(`WF` of the `...Reply` actions), the event loop runs due timers, and the recovery loop of
`apps/realtime/src/index.ts` runs every 15 seconds. In `WebSession` it assumes that every
request ends. The timeout of 8 seconds in `request` sees to that up to the headers of the
answer, when it is cleared; that the body follows its headers is taken for granted, so
`BusyEnds` says nothing of an answer that stalls in between. In `Outcomes` the
statements of a call get on (the database answers), a failed settlement is run again by its
timer, and the recovery loop by its interval; nothing makes a fault or a crash happen. Nothing is assumed of players: they may
never join, never act and never come back. Faults are bounded, so fairness means that a
call that keeps being retried eventually succeeds.

## 4. Proofs

Each theorem holds for every value of the constants that satisfies the assumption of the
module. The inductive invariants were checked by TLC on the instances of section 3 before
they were proved.

| Module | Theorem | Statement |
|---|---|---|
| `WalletProofs` | `Invariance` | `Spec => []IInv` |
| | `TypeCorrectness` | `Spec => []TypeOK`; in particular no balance is negative |
| | `LedgerTheorem` | the ledger explains the balances, and keys are unique |
| | `SettlementTheorem` | all stake or none; a match is settled one way |
| | `RefundTheorem` | a refund undoes a debit, and every debit of an aborted match |
| | `PurchaseTheorem` | a completed purchase has one credit, of its chips to its buyer; others have none |
| | `FinalityTheorem` | `SettlementIsFinal`: no step after a settlement moves a chip in the name of the match |
| | `RefinementTheorem` | `Spec => ImplementsEscrow` |
| `WalletTxProofs` | `TxInvariance` | `TxSpec => []TxInv` |
| | `AtomicityTheorem` | `CommitsAreAtomic`: a commit is one step of `Wallet` |
| | `StatementsKeepTables` | the invariants of `Wallet` hold of tables written statement by statement |
| | `DeadlockFreedom` | `NoLockInversion`: among any transactions one waits for none of the others |
| `PenaltyRoomProofs` | `RoomInvariance` | `Spec => []RoomInv` |
| | `RoomTypes` | `Spec => []TypeOK` |
| | `IsolationTheorem` | `TurnsAreIsolated`: no late callback or command acts on a turn that is over |
| | `PaidPlayTheorem` | `PlayIsPaidFor` |
| | `SettlementTheorem` | `SettlementFollowsVerdict`: row, prize and statistics agree with the verdict |
| | `PublicationTheorem` | `PublishedMeansSettled` |
| | `ForfeitTheorem` | `ForfeitToConnected` |
| | `WalletStepsTheorem` | `Spec => ImplementsWallet` |
| | `ShootoutTheorem` | `Spec => ImplementsShootout` |
| `RpsRoomProofs` | `RpsInvariance` | `Spec => []RpsInv` |
| | `RpsTypes` | `Spec => []TypeOK` |
| | `RpsSettlementTheorem` | `SettlementFollowsVerdict`: the declared winner, and nobody else, gets the prize |
| | `RpsWalletStepsTheorem` | `Spec => ImplementsWallet` |
| `OutcomesProofs` | `OutcomesInvariance` | `Spec => []OutcomesInv` |
| | `StatsTheorem` | `StatsMatchResults`: counters, XP and levels count each recorded result once |
| | `BoardsTheorem` | `BoardsMatchResults`: wins count in the week of their match |
| `LobbyProofs` | `LobbyInvariance` | `Spec => []LobbyInv` |
| | `QueueTheorem` | `QueuedOnce`: a user waits in one place |
| | `EntryTheorem` | `OneMatchPerEntry` |
| | `LeaversTheorem` | `LeaversAreOut` |
| | `TicketTheorem` | `TicketsTellTheTruth` |
| | `InvitesTheorem` | `InvitesPairOnce`, if `SingleHosts` |
| `AdminConsoleProofs` | `AdminInvariance` | `Spec => []AdminInv` |
| | `DialogTheorem` | `DialogAdjustsOnce` |
| | `ListTheorem` | `ListIsCurrent`, if `Inert` |
| `ClientProofs` | `WebInvariance` | `WebSpec => []WebInv` of `WebSession` |
| | `ShownPlayerTheorem` | `ShownPlayerHoldsToken`: the page acts for the player it shows |
| | `LatestOperationTheorem` | `LatestOperationWins`: a session is applied only for the latest operation |
| | `ConnsInvariance` | `Spec => []ConnsInv` of `DuelClient`, whatever fails late |
| | `DestroyedTheorem` | `DestroyedHoldNothing` |
| | `ClientInvariance` | `Spec => []ClientInv`, unless `LateFailures` |
| | `SavedTokenTheorem` | `SavedTokenRestores`, unless `LateFailures` |
| | `NoDeadEndTheorem` | `NoDeadEnd`, unless `LateFailures` |

### Wallet

Assumed (`WalletAssumption`): bots are not users; fees, payouts, packs and starting chips
are natural numbers. None of the safety invariants is inductive alone. That a refund finds no
prize, for instance, needs that a prize implies `FINISHED`; that a prize implies stakes
needs that `ACTIVE` does; that a refund equals the debit needs that a debit equals the
fee. `IInv` collects what the row of a match says of its ledger entries (`MatchInv`: by
status, which keys can be there and with which amounts) and the row of a purchase of its
credit (`PurchaseInv`), with types, unique keys and the chain of balances. The proof goes
by transaction. Almost all of them go through one lemma about `MutateWallets`: if the
mutations have distinct keys, afterwards exactly the old keys and the fresh ones are
recorded, old entries keep their amounts, and the chain of balances is extended. Each
transaction then only has to show which keys of which match it can record.
`FinalityTheorem` needs in addition that a transaction of one match records no key of
another, which is where key kinds are told apart.

`RefinementTheorem` uses the same invariant. The account of a match is a function of its
row and of the ledger entries of its seats, so for each transaction there are two things
to show: what it does to its own match is the escrow step of that name or nothing (a
replay), and the accounts of all other matches stay, because their keys do.

### WalletTx

Assumed (`WalletTxAssumption`): the order of user ids is one (`Rank` is injective), calls
name existing rows, and an id names one row (ids are generated UUIDs). The invariant says
three things of a transaction under way. *Locks*: what it has visited it holds, and no
row is held twice. *Reads*: a row read under a lock is what the tables say, since whoever
would change it must hold it; so the player whose turn it is is debited from the balance
there is. *Writes*: the entries inserted so far are those its mutations ask for, for the
players visited so far, and no other transaction has inserted the same key. At `Commit`
every player is visited, so the tables change as by one `MutateWallets`, which is a step of
`Wallet`; `StatementsKeepTables` then applies the lemmas of `WalletProofs` to it.

`DeadlockFreedom` is an argument about a maximum. A transaction that waits, waits for one that
is working on the wallets: whoever holds a row or has inserted a key is past its first
lock, and next needs the wallet of some player. If it waits itself at a wallet, the one it
waits for is at a wallet of higher rank, as it locks in that order. Among transactions that
all wait for each other the one at the wallet of the highest rank has nobody to wait for.
The set of workers is finite, as the maximum needs.

### PenaltyRoom

Assumed (`RoomAssumption`, `RegulationAssumption`): the two users differ and neither is the
bot; fee, payout, balances and the bounds are natural numbers; a regulation has at least
one kick. `Regulation`, `MaxTurns` and `MaxFaults` are arbitrary, so the theorems are about duels of
any length with any number of failing calls.

No property is inductive, because each is about one part of the room and the steps that
could break it are taken by another that has waited for the database. `RoomInv` says what
the parts know of each other. *Start* (`StartInv`): how far `startMatch` has come gives the status
of the row, unless the duel ended meanwhile. *Verdict* (`VerdictInv`): there is a settlement
exactly when there is a verdict, of its kind. *Settlement* (`SettledInv`): each step of
`complete()` implies what those before it did to the tables; this is also why a
repetition after a failure repeats nothing, and why a late continuation of `startMatch`
cannot activate a row that is settled. *Timers and intents* (`TimerInv`, `PendingInv`): everything that
waits belongs to the present turn. *Kicks* (`KickInv`): goals and misses of a side count
its turns, the side whose turn it is follows the parity of the turn and who kicked first,
and neither side has won before the turn in progress.

The room has some thirty steps. Each is first reduced to its effect on one part: it ends the duel,
locks or resolves or begins a turn, moves the settlement or the start on, or writes to the
tables; the conjuncts of `RoomInv` are then proved from those effects. What a step does to
the tables is a transaction of `Wallet`, so the lemmas of `WalletProofs` are used with the
tables of the room in place of the wallet's. `ShootoutTheorem` maps the resolution of a turn to a
kick of the abstract game and every other step to none; the difficult part is that
`decideMatchProgress`, which compares turns in regulation and pairs of turns in sudden
death, stops exactly when one side leads after equal kicks.

### RpsRoom

Assumed (`RpsAssumption`, `BestOfAssumption`): as for the Penalty room, and a match is the
best of at least one round. The match may be of any length, and `EnvPayout` need not be
`Payout`: where it is not, the theorems say that no winner is paid rather than a wrong one.
The invariant is smaller than that of the Penalty room, because far more
may happen here: old timers, repeated rounds and late choices are never cancelled, so
nothing is said of them. What is said is what they cannot touch. *Activation*
(`ActivationInv`): the row waits as long as `activateMatch` runs, so a match that was called off
or is over is not activated afterwards. *Verdict* (`VerdictInv`): whichever round gives
somebody the required wins ends the match and begins its settlement, so that a timer
that runs later finds the match over. *Settlement* (`SettledInv`): the row is as the
step of the settlement requires, and only the declared winner is written into it. Of the
steps, most leave all of this alone and are covered by one lemma; the others resolve
a round, abort, activate, or move the settlement on.

### Outcomes

Assumed (`OutcomesAssumption`): matches have two distinct players, of whom the first is a
user; ids and creation times order users and matches. There may be any number of users,
faults and weeks, and even infinitely many matches; what has been recorded so far is finite
(`FiniteInv`), which is what lets it be counted.

`StatsMatchResults` says what is in the tables after a commit; but what a commit writes was
computed before it, from rows read then. So the invariant follows a call (`CallInv`): its match
is not recorded, it has locked the match and the users it has passed, and, once all are
locked, what it has computed is one result more than the rows say *now*. That
remains so because a commit of another call would write only rows it has locked itself,
and no row has two holders (`LockInv`). A commit then adds its match to the set of
recorded ones, in which it was not, and one to the counters of its players. A result is
recorded whole and is that of the winner (`ResultInv`), so the results of a recorded match
never change. The remaining case is a win of the bot that is settled again and gets a new date
(`Retry`): `DatesStay` says that such a date counts for nobody, since only users
have boards.

### Lobby

Assumed (`LobbyAssumption`): the marks that stand for "no user", "no code" and "queue" are
not sockets, codes or keys. A queue entry has a life: fresh (its `onJoin` authenticates),
queued, and then taken by a public match or cancelled. `LifeInv` says that it is in one
state at a time, `QueueInv` that a user has one queued entry, in the queue asked for, and
that only a queued socket has a timer, `MatchInv` that no two public matches take one
entry and that tickets follow the row. The steps that could break it are those that go on
after an await: each action is reduced by a lemma to what it does to the queues, the matches
and the tickets (`Removes`, `Grows`, `GoesOn`, ...), and the invariant is proved from
those. `TryMatch`, which pairs players in the middle of another handler, appears in one
lemma: it takes the first two of a queue out and nobody else.

`InvitesTheorem` needs more (`PrivateInv`): an invite that is being deleted has one guest
and one creator, both reserved, and turns into one match; and a connected socket is
reserved for one thing at a time. The hypothesis `SingleHosts` is about who comes: those
who create or accept invites have one socket and do not wait in the public queue as well.
It is not an artefact of the proof: without the first half two tabs of a creator make two
matches (`MCLobbyRace.cfg`), and an attempt to do without the second half led to a
reservation lifted by a match of the public queue (`MCLobbyLifted.cfg`); both are
in section 6.

### AdminConsole

Assumed (`AdminAssumption`): amounts are integers, bounds natural numbers, and there is a
query to begin with. For `DialogAdjustsOnce` the invariant ties the ledger to the dialogs:
every entry has a command that belongs to one dialog, a dialog is of one kind and has one
audit entry per ledger entry, and a request answered with success has been done. For
`ListIsCurrent` it follows the newest load: it is under way, or it failed and the error
is shown, or it was displayed, and a displayed list has seen the audit as far as every
change reported as saved, because the load after a save is a newer one. That the
query on the screen is that of the newest load needs `Inert`.

### WebSession

Assumed (`SessionAssumption`): members and guests are different users, an earlier visit left
at most one session, and the bounds are natural numbers. `ShownPlayerHoldsToken` is nearly inductive: whatever answer comes, the page
changes its player and its token together, or only if the token is still the one the
request was sent with. It needs to know that the storage and the page agree from the first
bootstrap on (`StoredInv`), since a bootstrap starts from the storage.
`LatestOperationWins` is a matter of one step and of the types: a session is applied when
the counter has not moved since its operation began, and its row remembers the operation.

### DuelClient

Nothing is assumed of the page; only the bounds are numbers. There are two invariants.
`ConnsInv` says who knows what: a session that lives has at most one lobby and one match and
they are its own, one that is destroyed has none (`SessionInv`); an open connection is known
to a session that lives, and that of a duel holds the seat (`ConnInv`); and a seat is held
by an open connection to its duel (`SeatInv`). It holds with any number of calls that
come late or fail late, and `DestroyedTheorem` follows. Each action is reduced
by lemmas to its effect on the connections and seats (`RoomsFollow`) and to what it does to
the one session it is about; `Alone`, `Destroys` and `NoSession` conclude from there.

`PageInv` says that the page knows the session that lives, that what it shows is of that
session or over (`HeldInv`), and that the token of a seat in a duel being played is
in the storage (`TokenSaved`). It needs `~LateFailures`, which leaves out one behaviour of the code:
the join of a cancelled search that fails after the next search has begun. That is not an
artefact of the proof: the handler then takes the next search away (`MCDuelLate.cfg`,
section 6). `NoDeadEnd` is the part of `HeldInv` that says what the session of the page
has to wait for.

### What stays with TLC

Liveness, and anything with fairness or ENABLED, is outside the prover: that rounds end,
verdicts settle, queues move, outcomes are recorded in the end and the page does not stay
busy.

## 5. Plan

Order of work, most important first; what is done is marked.

1. (done) `Escrow`, `Wallet`: the tables; refinement; proof of the invariants.
2. (done) `PenaltyRules`, `Shootout`, `PenaltyRoom`: the room over the tables.
3. (done) `RpsRules`, `RpsRoom`: the second room over the tables.
4. (done) `Lobby`: queues, tickets, bot timers, invites, reservations.
5. (done) `DuelClient`, `WebSession`: the clients, with their calls in flight.
6. (done) `WalletTx`: the transactions statement by statement with row locks; commits are
   steps of `Wallet`, and sorted lock order gives freedom from deadlock.
7. (done) `Outcomes`: recordMatchOutcome with its locks, and the batch of the recovery;
   `AdminConsole`: the administrator's page and the endpoints that change state.
8. `CommandGuard`; the Rock Paper Scissors page; match timelines of the administrator.
9. (done) Proofs of `WalletTx`, of the refinement of `Escrow`, of `Lobby`, of
   `AdminConsole`, of `PenaltyRoom` with its two refinements, of `RpsRoom` and of `Outcomes`.
10. (done) Proofs of the clients: the connections and tokens of `DuelClient`, and the
   player and operations of `WebSession`.

## 6. Where the code and its documentation disagree

TLC finds each statement violated, by a behaviour of the code. The first two are runs
and findings of `PROJECT.json`; the others are configurations kept beside them, each
checked by hand with `tlc -config <name>.cfg <module>.tla`.

- **A forfeit during the start is never paid** (`penalty_forfeit`). A player leaves while
  `startMatch` awaits the entry fees. The room is finished by forfeit, `startMatch` returns
  before it activates the match, and `finalizeMatchPayout` refuses a `WAITING` match at
  every retry. Both fees stay charged and the room never closes.
- **A best of three can be won with one round** (`rps_best_of`). After a timeout the choices
  stay open for 1.5 s; a late choice resolves the same round again.
- **An unwritten RECONNECT event aborts the match** of a player who is back
  (`MCRpsReconnect.cfg`).
- **One failing call leaves an RPS verdict unsettled** (`MCRpsPayout.cfg`).
- **A snapshot names the winner of an unpaid duel** (`MCPenaltySnapshot.cfg`). The phase is
  masked until the result is published, `winnerSeat` and `finishReason` are not.
- **The RPS prize is the environment's, not the match's** (`MCRpsTerms.cfg`): where they
  differ no winner can be paid.
- **One invite can make two matches** (`MCLobbyRace.cfg`). Sockets are reserved, but the creator is looked
  up by user: a second tab of the creator is free for a second guest. With one tab per
  user it makes one (`InvitesPairOnce` in `lobby_safety`).
- **A failing bot match frees a player who is reserved for another**
  (`MCLobbyLifted.cfg`). `pairing` is one set for public and private matches. The host of an
  invite waits in the public queue, too; their bot match is being created when a guest
  accepts, which reserves both; the creation fails, its handler lifts the reservation of
  the host, and a second guest gets a second match. The comment at line 304 of
  `lobby-room.ts` says "Reserve both sockets synchronously ... so invite races cannot create
  two matches".
- **A failed deletion of an invite reserves both players for good** (`MCLobbyReserved.cfg`): what
  the message advises, waiting and retrying, never helps: `privateRequest` returns without
  an answer (line 93) until the player reconnects. `MayAskAgain` excepts these two players.
- **A login can be dropped by the bootstrap beside it** (`MCWebRecover.cfg`).
  `docs/lobby-redesign-2026-09-10.md` says that only explicit rejection invalidates a saved
  session during bootstrap. A bootstrap that starts while a login is in flight captures the
  epoch of that login; when its refresh is answered for the old token it finds the epoch
  unchanged and clears the token the login has just stored, which the API accepts.
- **The failed join of a cancelled search takes the next search away** (`MCDuelLate.cfg`). The
  handler of `start` clears `this.session` without looking whose it is. The next duel is
  then played by a session the page does not know: its token is not stored, and its
  buttons do nothing. `duel_client` leaves this failure out (`LateFailures`).
- **A full batch of unreadable matches stops the repair** (`MCOutcomesStarved.cfg`).
  `docs/demo-readiness-2026-09-09.md` says that a background job repairs missing statistics;
  matches whose event cannot be read are skipped but stay among the oldest hundred, and with
  a hundred of them no newer match is ever looked at. `outcomes` has fewer than the batch holds.
- **After a change is saved the list can be that of another search** (`MCAdminKeyboard.cfg`). The page
  behind a dialog can be reached by keyboard. `submitAction` loads with the query there was
  when the change was confirmed, and as its load is the newest its answer stays, below
  the new search or page number.

Three smaller things the models contain without a property about them: an RPS outcome that
could not be recorded is not recovered, since recovery looks at Penalty duels only
(`Missing` in `Outcomes`); a win of the bot that is settled again gets a new `finalizedAt`,
without effect on any board (`Retry`); and the failure or refusal of an older load of the
administrator's list is taken note of although a newer load succeeded (`LoadFails`).

## 7. Not modelled

- The remaining components of the plan, above.
- Hard crashes of a room in play: the documentation says such duels are lost, and nothing
  in the repository repairs them. `Crash` is in the models; the properties allow for it.
- The Rock Paper Scissors page, the game frame of the web shell, and a change of account
  while a game is open.
- Rate limits and command ids of the rooms, with the `CommandGuard` that forgets the oldest
  of 1024 ids (a refused command changes nothing, and a repeated one meets the lock of its role).
- The locks PostgreSQL takes for foreign keys.
- Three details that change nothing here: the `settling` flag of the settlement coordinator
  (a room has one settlement under way at a time), the `onLeave` that follows
  `ALREADY_QUEUED` (it finds no queue entry of its socket), and an error message of a
  match room after its duel is over.
- Rendering, wording, logging, transport, build and deployment.
