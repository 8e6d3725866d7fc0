# Winthistle in TLA+

Winthistle opens a batch of Lightning channels with one transaction that a
wallet it does not control builds and signs. Its promise (I-1) is that the
transaction cannot reach the network before every channel it funds is
recoverable by force-close, and that LND, the journal and the network agree on
which transaction that is (I-3). Most of the code is about the order in which
things are written down and asked for, about taking a batch apart when
something stopped in between, and about checking data that other programs
produced. That is what these modules model.

## The system and its parts

| Part | State it keeps | Operations | Interacts with |
|---|---|---|---|
| Batch file, policies (`internal/config`, `internal/policy`) | none; a file becomes channels with policies | `LoadBatch`, `Validate`, `request` | the operator; LND's policy call |
| Peer checks and probe (`internal/peers`, `run.prepare`) | per probe, until when its peer still holds a slot | `Check`, `Do`, `DoAll`, `ReadyToArm`, `waitForPeers` | LND and peers, before the window |
| Anchor reserve (`internal/reserve`) | one finding, taken in four reads | `Check`, `Need`, `ReserveTopUp`, `StillApplies` | LND's wallet balance; the plan |
| Armed window (`internal/arm`, `internal/run`) | the streams in memory, the unsigned transaction, the file that came back | `Open`, `Verify`, `Receipts`, `Publish` under `run.Do` and `armWindow` | LND (calls), peers (through LND), the journal (writes), the signing wallet (a file) |
| Plan and verifier (`internal/plan`) | the plan of the batch | `Verify` and what it decides over outputs, inputs, change and fee | the unsigned transaction |
| File wallet (`internal/run/wallet.go`) | files another program writes | `Built`, `Signed`, `readWhole` | the wallet, through a directory |
| Combine (`internal/combine`) | a packet being merged | `Accept`, `Complete`, `Merge`, `Finalize`, `Extract` | the signed file; the verifier |
| Run journal (`internal/journal`) | SQLite rows: the run's state, pinned txid and bytes; per channel a state and an outpoint; per signer a state | `Begin`, the `Record...` and `Mark...` writes, `Load`, `AbortTarget`, `Recover`, `recordAbort` | written by the window, read and written by recovery, possibly from two processes on one file |
| Abort (`internal/abort`) | the target and the report of one abort | `AbandonPending`, `CancelShim`, `Run` | LND (calls), the operator (a question per channel) |
| Recover command (`internal/run/recover.go`, `cmd`) | none of its own | `RecoverOne`, the list at startup | journal and abort, in a process of its own |
| Screens (`internal/prose`) | none | `Recovery`, `RecoveryList`, `RecoveryOutcome` | what the operator believes |
| Settlement (`internal/settle`) | per channel: open, depth, policy outcome, retry window | `Settle`, `Tick`, `ApplyPolicy` | LND (polling), after the publish |
| LND, peers, chain | funding intents in memory, channels in a database, update streams, mempool and blocks | external | answers calls late, or not at all |
| Doctor, LND client helpers, test harness | none that changes | reading, dialling, parsing | |

What is hard in it: a crash, a Ctrl-C, a lost call or a broken stream between
any two steps of the window; a call that was given up on and carried out all
the same; an absent shim, which means "nothing happened" for one channel and "it
has become a channel" for another; an operator who thinks for an hour between a
check and the call it guards; two processes on one journal; a figure read from a
node that goes on living; a file that is still being written; a policy call that
succeeds with a failure inside; and data from a wallet or a device that may be
anything. `PROJECT.json` lists each hazard at the line where it bites.

What makes each part correct:

- batch file: LND is sent what the file says, and no key of it is idle;
- probe and reserve: a stale answer never lets a batch arm, and the node can
  pay for what it is about to open;
- the window: published means pinned, journalled and recoverable; nothing is
  signed early; nothing that LND holds is left without a name;
- plan and combine: the transaction pays what it should and nothing else, and
  only valid signatures are added to it;
- file wallet: no left-over and no half of a file is an answer;
- the journal: no pin, bytes or outpoint is rewritten;
- abort and recovery: never undo what may be public, never call done what is
  not, and get done in the end;
- screens: what they say of LND, the wallet and the network is so when it is
  printed;
- settlement: every channel ends policied or given up, and not before.

## The modules

The window and recovery:

- `Batch` names the channels and the txids everything else talks about.
- `Journal` is the journal by itself: one action per database transaction, an
  operation that is refused is an action that is not enabled. `JNext` lets any
  caller call anything at any time, with one thing asked of it: the bytes it
  records hash to the txid it names, which `arm.Publish` checks.
- `Lnd` is external: what LND, the peers and the chain do to a funding intent
  (`shim`), a channel (`chan`), a stream and a transaction. An intent lives in
  memory and a channel in a database, so a restart loses the one and keeps the
  other. Calls are messages (`asked`, `wire`): LND acts on them later, or never,
  whatever the caller has done meanwhile.
- `Recovery` is `Journal.Recover` over `abort.Run`, one step per query, write
  and call, for a set of processes. `step[p]` is where process `p` is, `seen[p]`
  the run state it loaded, `target[p]` and `report[p]` the abort's own records.
- `ArmedWindow` composes them with the run: `pc` goes from the first stream to
  the answer of the publish call, `todo` is what the current loop has left,
  `built` the unsigned transaction and `file` what the wallet returned. `told`
  collects the ids that an error message names, the only other place they
  survive in. One process, `Runner`, runs the batch and tears it down; the others
  run `winthistle recover`. `Overlap` says whether they may do so while the run
  is alive.
- `Screens` adds what the recovery screens claim, as a set of claims per screen:
  the paragraph for the run's state, the plan, the signer's row and the outcome.
  `True` says of each claim what it takes for it to be so. `shown` is the rows a
  process printed last, since the screen and the abort load the run separately.
- `BatchGate` is the abstract specification: channels become recoverable one by
  one, then either the transaction becomes public or channels are undone.

After the publish:

- `Settle` is `Settle`, `Tick` and `ApplyPolicy` one call at a time, against a
  node in which channels open, close and get their edge between any two of them.
  `cur` is the state being assembled, `last` that of the last whole pass: a pass
  that fails half-way is thrown away with what it found. LND's answer to a policy
  call is a list of failures, each under an outpoint, under none or under another
  channel's; `Outcome` walks it as the code does. `figures` says whether a policy
  passes `Validate` and its channel's bounds, `blind` for which members LND gives
  the txid of an outpoint in bytes only.
- `SettleVerdict` is its abstract specification: one verdict per channel, never
  taken back, and an end that waits for all.

Around the window:

- `Preflight` is `run.prepare` over `internal/peers`: the connections, the probes
  and the wait for the peers to forget them. `left[k]` is what the program
  believes of probe `k`, `heldFor[k]` what is so.
- `Reserve` is the finding, the top-up planned from it, its refresh against the
  streams that opened, and LND's own check at each `psbt_verify`.
- `FileWallet` is both waits of the file transport, the clearing of left-overs
  and the two stats around a read, against a wallet that creates, truncates and
  writes piece by piece.

Decisions over data:

- `PlanVerify` is the verifier: all problems it can find in a packet, as a set.
- `Combine` extends it with the merge, the finalizing, the lifting of a raw
  transaction and the checks of the plan that follow.
- `BatchFile` goes from the tables of the file through its overrides and
  narrowings to the request LND is sent.

`AroundWindow` puts `Journal` under any callers, `Preflight`, `Reserve` and
`FileWallet` side by side. `MCArmedWindow`, `MCScreens`, `MCSettle`, `MCAroundWindow` and
`MCData` give the constants values for TLC; the modules ending in `Proofs` hold
the theorems.

What is abstracted: a transaction of the window is its txid and a file also
whether it is signed; an outpoint is the txid, since a plan pays each channel's
address once; amounts, peers and times are left out of the window. The steps
that only read appear there as the choice of a transaction that passed them, and
have modules of their own. `WindowFails` stands for every error return of the
window, each of which leads to the same teardown. Loops over channels go
in any order; the code's order is one of those. Time in `Settle` and `Preflight`
is a timer that saturates where no comparison can see the difference. In
`PlanVerify` and `Combine` a script is a name, a key is a name and a signature is
its key and whether it is over this transaction; scripts run as a table of what
each kind of coin needs; a size is the weight of the signatures in it, which the
verifier bounds where they are not there yet (`SpendSize`) and which the last check
compares with what was extracted (`Recheck`); `Nested` says which script the hash of
a wrapped coin commits to. In
`BatchFile` a table is a function from keys to integers, a channel is known by the
place of its table, and the widths of the integers are constants.

Assumed of LND, from the comments of `arm`, `abort`, `journal`, `peers`,
`reserve` and `settle` that say what was measured: a cancel that finds an intent
stops that channel's flow for good; abandoning a channel LND does not have is no
error; the safe flag is declined for every channel opened this way; a receipt
follows the channel's entry into the database; a peer forgets a reservation
after its timeout and one sweep; the reserve LND asks for grows with its public
anchor channels up to a cap; `UpdateChannelPolicy` reports a refusal inside a
successful response.

Next to a definition there may be one commented `Mutant of ...`: a form of it with
a plausible mistake in it, often the one that an issue in the repository fixed.
It is not part of the specification. Each checked property is violated when its
mutant takes the definition's place; `PROJECT.json` pairs them.

## The runs

| Run | Asks | Bounds | Distinct states |
|---|---|---|---|
| `window` | one run with its screens and recovery after it | 3 channels, 2 txids, 3 faults | 366,622 |
| `window_overlap` | what holds when recovery runs against a live run | 2 channels, 2 txids, 1 fault | 1,106,465 |
| `recovery_converges` | liveness of taking a batch apart | 2 channels, 1 txid, 2 faults | 47,027 |
| `settle` | verdicts and end of the settlement | 2 channels at depths 2 and 1, window of 1 interval | 1,108,050 |
| `around_window` | the journal under any callers; probes, reserve and files | a journal of 2 channels and 2 txids; 3 channels to 2 peers; reservation 3, sweep 2; 3 members, balance up to 7; files of 2 pieces, 3 saves | 984,285 |
| `data` | verifier, combiner and batch file against references | packets of up to 3 outputs and 2 inputs, 3 devices, files of up to 3 tables | 1,612,509 |
| the six violations below | claims the code does not keep | 2 channels, 1 txid, 0 or 1 faults; `arming_screen` 3 channels, 2 txids | stop at the first |

Two channels are enough for most properties: each relates one channel to the
rest of the batch, and two make "some but not all" possible in every loop. The
window runs with a third, so that one channel can be done, one under way and one
untouched. Two txids are enough because a file is either the built transaction
or not. `MaxFaults` counts crashes, stream losses, LND restarts and failed calls
together; three let a crash of the run, a failure of the recovery and a restart of
LND meet in one behaviour. Errors of the run's own steps, late calls, peers that
refuse and operators that wait are not counted and not bounded. Channels are
symmetric in the safety runs; no liveness run uses symmetry.

In `settle` the members differ (`MCInit`): the second needs a block less, so that
one is decided while the other is pending, and may have a policy that its channel
or `Validate` refuses, or else be one that LND names in bytes only; the first
carries its policy and is named in words. A refusal window of one interval already
tells "at the first refusal" from "when the window is out". In `around_window`
the reservation and the sweep differ, so forgetting one of them shows; two
probes go to one peer; the reserve's cap of four channels lies within reach of
one existing and three new ones. Three saves allow one left unfinished, one
over it and one more. In `data` the plans include two channels, a channel and a
top-up, a script that is both, and an input restriction; inputs include every
kind of coin, missing, wrong and doubled records, and a signature that came too
early; a device answers with nothing, its signature, another's, one over
another transaction, a complete witness, or a packet that was altered. The
integer widths are scaled to 5 and 8 bits, with values on both sides of every
bound and one that narrows into range.

`around_window` and `data` each hold parts that share no state. A behaviour
follows one of them (`part`) while the others stay at an initial state, so the run
adds their state spaces instead of multiplying them; each property is about one
part and loses nothing.

Deadlock is checked everywhere: a behaviour may end only where the code does,
which each module names by a stuttering action (`Over`, `Done`, `WalletOver` and
so on).

What they show:

- `RowsAreUsable`, `PinsNeverMove`: any sequence of calls, by any
  number of callers, leaves the pin, the bytes and the outpoints where they
  were first put.
- `PublicIsPinned`, `PublicIsRecoverable`: whatever the network has or is being
  handed is the transaction LND committed every channel to, its bytes were
  recorded first, and every channel is standing.
- `SettledRowsAreEmpty`, `AbortedLeavesNothing`: a row that lets an abort skip a
  channel is true, and an aborted run left nothing behind, whatever was late,
  lost or repeated (issue #32 of the repository).
- `SignedRowIsTrue`, `NothingSignedEarly`: the signed row (issue #37), and no file
  before the gate.
- `NoStreamIsForgotten`: the id of every stream that LND answered for ends in the
  journal or in the error, also when an answer could not be read, its shim could
  not be cancelled and the journal refused the others.
- `KeepsTheGate`: the program implements `BatchGate`, with a transaction counted
  as public from the moment the journal says it may be.
- `ScreenIsTrue`, `PlanIsTheAbort`, `OutcomeIsTrue`, `UnlistedIsOver`: what the screen
  of a run claims of LND, the wallet and the network is so, at any step of a run, a
  teardown or after a crash, but for four sentences (`SaysHowFar`, below);
  the abort does no more than the plan that was printed; the outcome says "nothing
  left" exactly when nothing is; a run that is not listed needs nobody.
- `RecoveryConverges`, `AbortConverges`: a run that stopped before the publish
  call is taken apart, up to rows left `verified` whose shim is gone, which the
  journal leaves for the operator to look at; without such rows it ends aborted.
- `AppliedIsTrue`, `NobodyLeftAtDefaults`: a policy reported applied was taken by
  LND, whatever is on its list of failures, and a settlement that ends names every
  channel that still routes at the defaults (issue #6); both for the members whose
  failures LND names in words.
- `GivenUpAfterWindow`, `KeepsVerdicts`, `SettlementEnds`: silence is given up on
  after the whole window and not before, however passes and failures fall; a
  verdict is never taken back; the loop ends.
- `PeerDepthIsThePeers`: LND's countdown is never shown for the depth the peer
  asked for.
- `GateIsSound`: no batch arms against a peer that holds a slot for one of our
  own probes, but for a probe whose accepting answer was lost (below).
- `VerifyIsNeverRefused`, `NodeIsWholeAfterwards`: with nobody else at the node's
  wallet, the reserve never refuses a member, and the coins and the top-up cover
  the node with the batch pending.
- `NothingStaleIsRead`, `PrefixSatStill`, `SavedIsRead`: what is read was created
  for this question; a part of a file is taken for a whole only if the file did not
  grow between the two stats, which a second save that truncates it and writes it
  to the same size in between escapes; a whole file is read in the end.
- `VerifierIsExact`: the verifier accepts exactly the transactions that pay every
  named output once, at its amount, and nobody else but the change, out of witness
  coins, for a fee. `NothingSignedIsVerified`: and no signed one.
- `OrderDoesNotMatter`, `FaithfulRoundIsSigned`, `SignedIsSound`: the order of the
  devices decides nothing, honest devices are not refused, and what comes out is
  the verified transaction with a witness each coin accepts, of the size that the
  verifier says.
- `RequestIsTheFile`, `NoKeyIsIdle`: LND is sent what the file says, through
  overrides and defaults: the very integer if the field can hold it, else the one
  it wraps to, which is then within LND's bounds. Every key of an accepted file
  counts.

Fairness. `ArmedWindow`: weak fairness of each process's recovery step, which
needs LND to answer and the operator to answer each question, and of the recover
command, which the program tells the operator to repeat; faults are finite;
nothing is assumed of the peers, of the chain or of the run. `Settle`: the loop
runs and its calls return, time passes, blocks are found, and a channel whose
transaction is confirmed opens and gets its edge; nothing is assumed of what LND
answers. `FileWallet`: the poller is a ticker's loop, and a save that has begun
goes on and ends; the operator may never start one.

### Claims the code does not keep

Each of these runs checks one sentence of the repository and TLC refutes it.

- `overlap_aborts_a_publish`. README.md:479: "It refuses a run that reached the
  publish call, and nothing in this program will abort one". `Recover` decides on
  the state it loaded and then writes `aborting` unconditionally
  (recover.go:233); a run that entered `publishing` in between is aborted. It
  needs `winthistle recover` on a batch that is being armed, which the same
  paragraph lists as something it may show.
- `overlap_publishes_leftovers`. write.go:333: an aborting run is refused by
  `MarkPublishing`, "which is what stops ... an abort's leftovers from being
  broadcast". `MarkPending` puts an aborting run back to `armed`
  (write.go:276), and the abandoned channels' rows say `pending` until
  `recordAbort`.
- `verified_row_not_asked`. recover.go:182: "A row left saying verified is one LND
  did not list as a pending open when it was asked", except after a crash.
  `Receipts` and `Verify` stop at the first channel that fails, so the others are
  never asked about.
- `interrupted_open`. arm.go:444: "The Recv failure immediately below needs nothing
  from us, because LND cleans up its own refusals". Recv also fails on Ctrl-C and
  on a lost connection, when LND refused nothing.
- `crash_before_begin`. write.go:25: Begin runs early, "so that the pending channel
  ids ... are on disk before a crash could orphan them". All streams are
  opened, each waiting on a peer, before Begin.
- `arming_screen`. recovery.go:543, printed for every arming run: "Funding streams
  are open and no channel has reached chan_pending." The run stays `arming` until
  the last receipt (write.go:276), so after the first one of several the sentence
  stands above rows that say otherwise, to which it does send the reader.

Reading the code for the models also showed the following. The modules do what
the code does; no run asks for what the sentence says.

- settle.go:880 says that what a stopped settlement leaves is "all of it visible in
  the Result".
  The pass that was interrupted is discarded with the policies it had applied
  (`PassFails`), so the result may lack some that LND has taken.
- probe.go:115 and 160 take any error of `arm.Open` for a refusal. If the peer
  accepted and the answer was lost, its slot is not counted: `GateIsSound` leaves
  those probes out by name (`lost`).
- run.go:368 and 384: `waitForPeers` reads the clock twice; if the last reservation
  runs out between the two readings it gives up although the way is clear.
- verify.go:515: the fee is not looked at when the inputs are worth nothing
  together; `VerifierIsExact` is stated for inputs that are worth something.
- combine.go:30 says the UTXO attached to an input must be the one the base had.
  The merge compares like with like only (470): a witness UTXO is not compared
  with the base's previous transaction. A wrong amount that gets in this way is
  caught later, when the witness is executed over it (`SignedIsSound`).
- wallet.go:99 refuses to truncate a recipients file it did not create; it looks
  once, at the start, and truncates what has the name minutes later (286).
- `SaysHowFar` names the four sentences that `ScreenIsTrue` leaves out. Beside the
  one of `arming_screen`: "Funding streams are open" (recovery.go:543) also stands
  after a crash, and "the unsigned transaction is out with the signing wallet" (558)
  before it is asked and after it answered; both paragraphs add that they do not
  say whether anything is going on. recovery.go:234 calls cancelling free, "nothing
  was finalized", for a channel whose row says `verified` too, to which LND may have
  committed by then; `PlanIsTheAbort` holds the screen to the split it prints.
- settle.go:418 treats "an unattributed failure as ours". A failure under an outpoint
  without `txid_str` is not: its words are "" (431), it is skipped as another
  channel's, and the refusal is reported as applied. A stock LND fills the field
  (settle_regtest_test.go:112 logs it); the properties leave out the members for
  which it does not (`blind`).
- recovery.go:688 takes the rows it prints the outcome from for "the states the
  abort found". Both callers load the run for the screen and `Recover` loads it
  again; without an overlapping run the two agree where the screen needs it
  (`OutcomeIsTrue`).
- policy.go:73, batch.go:135: 64-bit integers are narrowed to 32 bits before they
  are validated, so a delta of 2^32+40 is accepted and sent as 40, against
  policy.go:73. `RequestIsTheFile` allows it and nothing more.
- batch.go:102: two channels to one peer are refused by the spelling of the key, so
  one key in two cases passes.

## The theorems

Every safety property that a run passes, invariant or action property, is a
theorem as well, each in one of eight modules and proved for any values of the
constants: any set of channels, peers, processes or devices, any txids, bounds on
faults, windows, depths, times, balances and sizes, with `Overlap` either way,
any plan and any packet, any file and any width of its integers.
`WindowGateProofs` and `ScreensProofs` alone take a side: their theorems assume
`~Overlap`.

The assumptions are the named ones of the modules, and TLC evaluates each on the
instance that a run checks. Null values lie outside their sets, bounds are natural
numbers, `Runner` is a process. Of data they say what its encoding does: amounts
are integers, a packet's outputs and its transaction's are as many, and in each
map of a packet a key stands once (`PlanAssumption`, `BuildsAssumption`); at least
one signature is needed (`RoundAssumption`); a file is a sequence of tables with
integers in them (`FilesAssumption`); a width is even (`WidthAssumption`).

`JournalProofs`: `JournalTypes` (`JSpec => []JTypeOK`), then `JournalUsable` and
`JournalPins`; `AroundWindowTypes` takes the types of that part from it. The
invariant is the types together with `RowsAreUsable`; the
action property follows from the step alone, given the types.

`ArmedWindowProofs`: `WindowTypes` and `WindowPublishesThePin`
(`Spec => []PublicIsPinned`). `PublicIsPinned` is not inductive: that the bytes
handed to LND are the pinned ones follows from what the run had established
several steps earlier. `PinInv` says what that is at each place of `pc`: before the
pin, LND has been shown nothing and nothing is recorded; after it, the journal
holds `built`, a channel LND committed to is committed to `built`, the loop's
`todo` covers the channels not yet committed, past the loop all of them are, and
past the check of the bytes the file is `built`. `Inv == TypeOK /\ PinInv` is
inductive. Its proof is laid out by who moves: the run (one step per action),
LND, and recovery, which is shown to leave every variable of `PinInv` alone.
`WindowUsesTheJournal` (`Spec => JSpec`): every step of the composition is a step
of the journal or leaves it alone. `WindowPins` then carries `JournalPins` over.

`SignedIsTrue`, `StreamsAreNamed` and `SettledIsEmpty`, in the same module, are about
what the rows are worth, each from `Inv` and one more invariant. `SignedInv`: a
signed row exists only past the acceptance of the file. `NamedInv`: what is opened
is still to be written, written, or told. `RowsInv` is why a settled row means
there is nothing: a row leaves `shim_registered` before LND is shown a transaction
for its channel and never returns; an intent excludes a channel; what an abort
reports as cancelled had an intent and so has neither afterwards; and an intent
that is gone stays gone, since intents come before rows and rows before aborts.

`WindowGateProofs`, for recoveries that wait for the run and for each other:
`PublicStands` (I-1), `SignedAfterTheGate`, `AbortedIsEmpty` and
`ImplementsTheGate` (`Spec => KeepsTheGate`). The assumption is used once, in
`AloneInv`: while the run is in its window nobody recovers, and afterwards one
process at a time does. `StandInv` is the gate: a channel whose receipt the run
took stands from then on, past the gate all of them do, LND is asked to publish
only after the journal says the transaction may be public, and from then on no
abort gets past its look at the journal. `AbortInv` says what an abort knows at each
of its steps: its target and its report hold the rows as the journal has them, a
channel it counts as removed or cancelled is, and it closes a run only over rows
that are all settled, which `RowsInv` turns into an empty LND. The refinement maps
a channel to `recoverable` while it stands and to `undone` once abandoned, and the
journal's row to `public`; `GateMoves` is what each actor's step amounts to under it.
That the assumption is needed is what `overlap_publishes_leftovers` shows: with a
recover command against a live run the gate opens over an abandoned channel.

`ScreensProofs`, on top of that module: `ScreensAreTrue`, `PlanIsCarriedOut`,
`UnlistedRunsAreOver` and `OutcomesAreTrue`. A screen is made of rows that lag
behind LND, so none of the four is inductive. `StateInv` ties the run's state to
where the run and the recoveries are: while it says `armed` or `signing` every
channel stands and no recovery is past its reads, and a recovery that writes or
calls has set `aborting` first. `AskedInv` orders what is asked of the wallet and
of the network against what the journal says of it. `PlanInv` follows one abort
from the plan on the screen to the rows it leaves: what is still to be done is on
the printed side, a step that did not fail has been done to all of them, and once
recorded only a verified channel whose shim was not there is still in the way.

`SettleProofs`: `TypeCorrect`; `WindowIsGiven`, by `WindowInv`, which relates the
program's timers, carried from pass to pass, to the time LND has really been
silent; `VerdictsAreTrue` and `NobodyIsForgotten`, by `VerdictInv` and what the walk
over LND's failures comes to, whichever of them are the member's
(`OutcomeOfFailures`);
`PeerDepthIsRead`, by `DepthInv`, which keeps what has been read of a channel
consistent with the depth and the state the node has moved to since;
`ImplementsVerdicts` (`Spec => KeepsVerdicts`), from `WindowInv` (the pass starts from
the States of the pass before) and `VerdictInv`: a call decides at most the member it
was made for; `PredictionIsBounded`, about the predicted depth for every amount,
which TLC cannot enumerate.

`AroundWindowProofs`: `AroundWindowTypes` for the four parts together (a step of
one leaves the others alone, `PartsKeepTheirSpecs`), and what each promises.
`GateHolds`: `GateIsSound` alone is not inductive; that the time
assumed of a probe outlasts the time its peer holds it (`AssumedOutlastsHeld`) is,
with the order in which probes are made.

`ReserveSuffices` and `TopUpCoversTheBatch`, by `CoverInv`: at each read of the pre-flight,
the figure read so far is no less than what LND will ask for, and the coins are
still there; then `Need` and the top-up computed from it cover every number of
channels LND may count by the time of each verify. `RefusalIsOthers`: with others
at the wallet, a refusal means they changed what was read.

`NothingStale` and `PrefixStoodStill`, from an invariant that ties what the
poller has in hand to the file it stated and read: if the two stats agree, the
file did not only grow in between.

`CombineProofs`, about the transaction from the plan to the publish call:

- `VerifiedIsExact`. The verifier looks at one script at a time: what is paid to
  none of the plan's, what is paid twice, what is short. The reference says that
  outputs and plan are the same, one for one, but for the change. They meet in
  the map from outputs to what they pay: no script twice makes it one to one
  (`NamedOnce`), every name paid makes it onto (`PaidInFull`), and the
  cardinalities do the rest. `OnlyUnsignedIsVerified` needs less: each output has a
  name, and is paid at its amount. `CInv` holds what each step up to the verifier
  has established.
- `PublishedIsSound`. `MInv` says that what is merged is the verified
  transaction, and that what is published passed the finalizer's checks and the
  plan's a second time. The fee the report says is the true one because a witness
  runs only over what its coin is worth.
- `AnyOrder`. `InOrder` folds the merge over the answers. `Outcome` is where it
  arrives, in words that do not mention an order: it is refused if some answer may
  not be merged into the base or two answers disagree, else every field is the
  one value given for it and every map the union. `OutcomeStep` shows that one
  more answer takes the outcome of a set to the outcome of the larger set, and
  the fold over any order of the answers arrives there.
- `FaithfulRoundsAreSigned`. By `RInv` the packet merged so far is the outcome of
  what came back, and a faithful round that was refused would have been refused
  by a step: the merge (no two faithful answers disagree), the finalizer (each
  coin has the signatures it takes) or the plan's checks (`SoundBase`: what the
  verifier accepted is accepted again with the witnesses on; `ViewMeasures`: at
  the size that was extracted).

`BatchFileProofs`: `TheFileIsSent` and `NoKeyIsIgnored`, from `BInv` (what is held
comes from the file, what is sent from what is held) and lemmas about one policy.
The reader takes the first `[policy]` table, the property whatever table names a
key; they meet because an accepted file has no key that nothing asked for.
What a narrowing sends lies in the field and differs from what was written by whole
widths (`NarrowingsWrap`, `RemainderIsCongruent`), so it is the same integer
wherever the field holds it; and it tells neighbours apart whatever the width, so a
key that changes a field changes the request.

What remains to TLC alone is liveness (`RecoveryConverges`, `AbortConverges`,
`SettlementEnds`, `SavedIsRead`): fairness and ENABLED are beyond the prover. A fold
is a recursion, and the library's induction theorems are out of the provers'
reach as well; what a fold computes is proved here by the least number for which
it would be otherwise (`LeastNumber`), which needs a closed form to compare it
with. Totals are compared with themselves and need none.

## Not modelled

- `internal/doctor` reads and prints findings, keeps nothing and changes nothing.
- `internal/lnd` dials, parses outpoints and identifiers; here those are values.
- `internal/regtestenv` is the harness of the integration tests.
- The node's own configuration file and the static table of RPC methods.
- Wording and layout of screens and reports; the run's progress report.
- The bytes of a size and the fee rate. The rate is printed for the operator and
  nothing judges it (verify.go:537); of a size, the weight of the signatures is.
- The refusal of `reserve.StillApplies` over members that did not open: `arm.Open`
  opens all streams or returns an error, so the run never reaches it.
- `journal.Unfinished` as a query; which runs it lists is in `Screens`.
