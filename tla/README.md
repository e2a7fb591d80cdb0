# Verification of v6pool

TLA+ models of v6pool, a forward proxy (HTTP and SOCKS5) that leaves from a different IPv6
address of a pool for every request. The models are translated from the Go source under
`src/`; they are model-checked with TLC on small instances, and the central ones are proved
with TLAPS for every value of their constants. Line references are to `src/internal/...`.

## 1. Inventory

| Component | State | Operations | Modelled in |
|---|---|---|---|
| Rotation cycle, `pool.Stream` (`pool/pool.go`) | two-word counter, stride, mask | `NewStream`, `Next` (a bounded skip loop over `advance`, `at`, `needsHygiene`) | `Stream`, `StreamCycle`, `Cycle`, over `Powers` |
| Keyed mapping, `Pool.IPFor`, `IPForAcct`, `sanitizeHost` | none | pure functions of seed, account, counter | `Slices`, checked in `Process`; a choice from the slice in `SourcePick` |
| Recent-address guard, `brRing/brIdx/brMap` (`proxy/proxy.go`) | ring, index, lookup map | `brHit`, `backstopLocked` | `RecentRing`, `RecentWindow` |
| Source selection (`proxy/proxy.go`) | sessions, tracked cycles, list index, gauges, `mu` | `pickSource`, `stickyIP`, `freshIP`, `poolForPick`, `streamLocked`, `evictStreamLocked`, `SweepSessions`, `SweepStreams` | `SourcePick`, `SourcePickHistory` |
| Address claiming (`claim/claim.go`) | last-seen times, cached interface name | `EnsureClaimed`, `claimIface`, `claimAddr`, `delAddr`, `Sweep` | `Claim`, `ClaimHistory` |
| Interface inspection (`ifaceutil/iface.go`) | none (reads the kernel) | `GlobalIP`, route-table parsing | `GlobalIP` in `Claim` (partly) |
| Tunnels (`proxy/http.go`, `proxy/socks5.go`, `dialTarget`) | two sockets, two copies, two deadline tickers, gauge, byte counters | `dialTarget`, `handleCONNECT`, `HandleSOCKS5`'s tail, `relay`, `keepAlive` | `Tunnel` |
| SOCKS5 handshake (`proxy/socks5.go`) | one deadline, the part of a message it waits for | `HandleSOCKS5` up to its dial | `Handshake` |
| Plain HTTP forwarding (`proxy/http.go`) | a kept connection, one limit per request | `handleHTTP`, `reject`, `handleCONNECT`'s head | `Handshake` |
| Authentication (`proxy/proxy.go`) | the account table | `New`'s loop, `splitUsername`, `authenticate`, `parseBasicAuth` | `Handshake` |
| Metrics | atomic gauges and counters | add, render | the gauges the other models touch |
| Configuration, `config.Load` | the accepted configuration | `presentKeys`, defaults, `validate` | `Process` |
| Process, `cmd/v6pool/main.go` | listeners, `errCh`, the sweeper, the signal context | `run`, `serveSOCKS5`, `proxy.New` | `Process` |
| Scripts and container files | files on disk | shell | not modelled |

**How they interact.** Every connection is a goroutine. It authenticates, then `dialTarget`
calls `pickSource` (shared memory under `Proxy.mu`), `ensureClaimed` (shared memory under
`Claimer.mu`, the `ip` command, the kernel) and a dial with the picked source, and for a
tunnel `relay` starts two copying and two ticker goroutines. Beside the handlers one
sweeper goroutine calls `SweepSessions`, `SweepStreams` and `Claimer.Sweep` every 30 s. In
`auto_pool` mode a pick reads the interface's addresses, which include those `Claimer`
has added: the claimer and the picker are coupled through the kernel.

**What is hard.** `stickyIP` gives the mutex up between its lookup and its store;
`poolForPick` reads the interface before the lock; `SweepSessions` reads the clock before
the lock; `Claimer.Sweep` deletes an address and its entry in two steps, with a command in
between; eviction, recreation and purge all move one gauge; the guard's redraws move a
cycle other streams depend on; `Stream.Next` skips positions inside a full-period walk;
`relay` must wake one blocked copy without cutting the other; one deadline covers the whole
SOCKS5 handshake and has to be gone before the dial; a request comes in fragments, with the
tunnel's first bytes behind it; the error of a body copy is dropped, and the transport may drop
the length that would show it; a write waits for a peer that does not read;
signals, refused listeners and failing ones meet in any order at the end of `run`; and what
a restart repeats depends on which pool got the boot's seed. `PROJECT.json` lists these as
hazards, each at its line with the properties about it.

**What makes each component correct.** A cycle gives each clean address once per lap and
covers the pool breadth first. The guard is a window of the last distinct addresses. A pin
is kept for its owner until it expires and is the answer to every sticky request; each
critical section is entered and left with the lock; gauges agree with the maps; a site sees
no address twice within a lap of a cycle, and a cycle is dropped only when it is idle or the
least recently seen at the cap; a pick follows the interface's prefix; every request is
answered. A claimed address has an entry that expires, a fresh entry has an address, stale
claims go. A tunnel delivers a whole response, ends when its upstream has ended, and leaves
its gauge and counters right; IPv4 is the last resort. Nobody is served on another
request's credentials, every handshake ends and so does every forwarding to a client that
reads, a dial is always answered, a SOCKS5 request is read to its last byte and no further,
and a body whose length the client was told is never cut unnoticed. A process serves what its
file does not switch off, with limits that hold something and are those of the file; every pick lies
in its pool and its slice; accounts and boots walk apart; a failure or a signal ends it.

## 2. Modules

    RecentWindow <--(refines)-- RecentRing <- SourcePick <- SourcePickHistory <- MCPickHistory
                                    ^                             ^              (-> MCPick)
                        RecentRingProofs <---------------- SourcePickProofs -> PowersProofs
    Cycle <--(refines)-- StreamCycle -> Stream -> Powers
                              ^ StreamProofs -> PowersProofs -> Powers
    Slices -> Powers          Slices <- Process <- ProcessProofs -> PowersProofs
    ClaimHistory -> Claim <- ClaimProofs
    Tunnel <- TunnelProofs    Handshake <- HandshakeProofs
    MCStream, MCPick, MCClaim, MCClaimHistory, MCHandshake, MCProcess give the constants for TLC.

**Powers** is `1 << n` and the bit of a word, as recursive functions, so that they can be
proved about.

**Stream.** An address is the function of its host bits, the coarsest first: `at` writes those
only. `posHi, posLo`
and the other words are the fields of `Stream`, with `WordBits` for 64, and `Advance` is
`advance` with its carry. The loop of `Next` is two actions, `Skip` (a turn) and `Emit`
(the return with its stride step). `splitmix64` is any value: `InitStream` quantifies over
the seed material. The EUI-64 marker is a field of `MarkBits` bits at `MarkLow`, looked for
from `MarkWidth` host bits up; in the code 16 bits at bit 24 from 40 host bits (the comment
above `needsHygiene` says 48, the code is followed). `AllOnes` is `isAllOnes` as it is: it sees
the last address only where the low word is all host bits. `StreamCycle` adds the history the
promises speak of, and `Cycle` is the promise: laps of all clean addresses, each once.

**RecentRing** is `backstopLocked`'s recording; `brIdx`, which the code lets grow and only
reads modulo the length, is kept as the remainder. `RecentWindow` is the promise.

**SourcePick.** One variable per shared field, `pc` per handler. A critical section is two
actions: one takes `mu`, one does the section's work and releases it, so a handler may be
held up before every lock. `PickFixed/PickIface/PickOn` are `pickSource`'s priorities;
`StickyLookup` and `StickyStore` are `stickyIP`'s two sections; `FreshFromList`,
`FreshNoPool`, `FreshFromPool` are `freshIP` before the lock, `DrawCycle` the full-pool
section (stream creation with eviction, up to three redraws, recording, gauges),
`DrawSliced` the sliced picks through `backstopGuard`; `SweepBegin`, `SweepSessions`,
`SweepStreams` the sweeper. A cycle is `CycleOf[key]`, a fixed sequence, because a stream
made again for a key starts at the same place; that it holds no address twice
(`PickAssumption`) is what `ImplementsCycle` says of a `Stream`. Eviction among equal times is
any choice (map order). `SourcePickHistory` remembers, per key
and since its cycle was made, how many positions the cycle has walked and which address it gave
where, and forgets both when the cycle goes for a reason the code has (`MayGo`): a cycle dropped
for any other reason keeps its past, and its first repetition is a violation.

**Claim.** `Claimer.mu` guards single assignments, so each is one action and everything
else interleaves: `ReadName`, `Detect*`, `Cache` (claimIface), `Look`, `Track`, `Add`
(EnsureClaimed), `SweepCollect`, `SweepDelete`/`SweepSkip`, `SweepForget` (Sweep). An
address is on an interface as `"subnet"` (the host's own) or `"host"` (a /128); only the
latter is what `claimIface` recognises, because `ifaceAddrs` keeps `ParseCIDR`'s network.
`Pickable` is `auto_pool` over `GlobalIP`, the longest prefix first. The kernel, SLAAC,
unplugging and the restart are the world. `Prompt` bounds time: the instructions between
the look and the entry, or between the removal of an address and that of its entry, take no
time unit, an `ip addr add` less than the TTL. The second of these was found to be needed by
the proof: a sweeper held up for longer than a TTL between the two would forget an address
a request has claimed again in the meantime (`claim.go:79-88`).

**Tunnel.** `dialTarget`'s order of families, then `relay`: `CopyRead`, `CopyWrite` and
`CopyEnd` are the two goroutines, a read and the write of what was read (`hand`) being steps of
their own. A peer reads what it was given (`PeerRead`) or not: at most `Window` bytes stay
unread, then a write waits, as one against a full socket buffer does. `FirstDone` is what
follows the first receive from `done` (`CloseRead` of the client), `RelayEnd` the second
receive and the deferred closes. Deadlines count down in quarters of `idleRelay`, the tickers'
period, for reads and writes alike. Bytes are counts.

**Handshake** is one client connection up to its relay. The greeting and the login of SOCKS5
are a step each. Its request is read part by part (`ReadHead`, `ReadLength`, `ReadAddress`,
`ReadPort` or `ReadPortRefused`, each an `io.ReadFull`): the client sends it in any pieces and
may send what is meant for the tunnel right behind it (`SendBytes`), `sent` and `taken` count
the bytes, and `Forms` are the layouts requests come in, a refused address type and an empty
host name among them. `RequestLength` is RFC 1928's, what a client owes. `timer` is what is
left of the deadline, `Say` a write, which fails past it. An HTTP connection stays for several
requests, each with its own credentials (`HttpRead`), which are refused, turned into a tunnel,
found malformed or forwarded (`HttpReject`, `HttpConnect`, `HttpBadURL`, `HttpForward`); a
forwarding fails, times out or answers, and its body ends or is cut. The limit of a forwarding
ends its reads from the upstream; its writes to the client wait while the client does not read
(`WriteBlocks`, `WriteGoesOn`). The transport may have decompressed a body (`unzipped`), and
then its declared length is not passed on. What net/http does with a body shorter than the
length it was given (close the connection) is modelled from how `handleHTTP` relies on it. A
user name is the sequence of its parts between separators, so duplicate names and names that
hold the separator are ordinary cases. The dial itself is `Tunnel`'s.

**Slices** is `IPForAcct` over two words of `WordBits` bits: `IpForNarrow`, `IpForWide` and
`SanitizeHost`, whose loop of at most eight turns is a function of the turn.

**Process** is an installation: a file, `Load` (`SwitchedOn` is `presentKeys` with
`applyEnableDefaults`, `WithDefaults`, `Valid`), `New`, the three listeners bound in order
(`Open`, `OpenNone`, `OpenRefused`), their Serve calls returning and reporting into `errCh`,
the sweeper, the final select, and the next start. A literal of the file is absent, good or
bad; `validate` looks at all of them but `fixed_source`. `walks` records, boot after boot, from
which seed and domain each account's cycles are made; a seed or domain is its origin
(`splitmix64` is taken to keep different ones apart).

Operators named as faulty variants, each before the definition it distorts, are plausible
mistakes (a dropped carry, a missing second lookup, one eviction too many). No action uses
them. `PROJECT.json` pairs one with every property of every passing run: with the variant
in place TLC finds the property violated, so the property depends on that code.

## 3. Runs that pass

| Run | Shows |
|---|---|
| `stream` | `CascadeExact` (all prefix levels, breadth first), `CounterWalks` (one double-word counter), `ImplementsCycle` (laps of clean addresses), for every counter, stride and mask |
| `pick_sticky` | two handlers of three accounts (one sliced) and the sweeper, one token, one tracked cycle, guard depth 2: `LockOK`, `RingOK`, `StreamsBounded`, `SessionGaugeCovers`, `PinKeptByOwner`, `AnswerIsThePin`, `CrossStreamFresh`, `ImplementsWindow` |
| `pick_live` | every request is answered and every expired session goes, in `auto_pool` mode, with a static pool, with a list behind the interface and with a fixed source, for an account on the full pool and one on a slice, while the interface comes and goes |
| `pick_fresh` | `auto_pool` on a roaming interface: `FreshPerSite` and `FollowsPrefix`, beside sliced picks that write into the guard |
| `claim` | `ClaimsAreTracked`, `FreshClaimStays`, `SweepsKeepOwn`, `StaleClaimsGo`, with renumbering or unplugging, and a restart |
| `tunnel` | copies that wait for peers that do not read: `ResponseComplete`, `CountersMatch`, `FourIsLast`, `UpstreamEndEnds` |
| `front` | one connection of either protocol: `ServedIsAuthenticated`, `RequestReadExactly`, `SlowDialIsAnswered`, `CutBodyIsNoticed`, `HandshakeEnds`, `ForwardEnds` |
| `process` | files, start-up, failures, signals and a restart: `ServesWhatIsEnabled`, `LimitsUsable`, `WalksApart`, `StopsWhenTold`, `FailureEnds`; and for every configured slice and every hash `SlicedPicksClean`, `PicksKeepToSlice` |

The modules that keep many kinds of state also check their type invariant.

**Bounds.** `stream`: 4 host bits in 2-bit words, so the counter uses both words, the carry
matters at every other step, and every one of the 4^6 seedings is tried; the marker is two
bits, so seven of 16 positions need skipping and come in runs (never more than the eight skips
allowed, so that these run out is left to the proof). No bound cuts the walk: each behaviour is
followed until it repeats. `pick_*`: two handlers are enough for every race between lookup,
pick and store; three requests (two in `pick_live`) are a pin, a hit and a replacement, or
three draws, which fill a guard of depth 2 and overwrite it; one tracked cycle makes every
second key evict; in `pick_sticky` and `pick_live` clock 2 passes a TTL of 1 and reaches the
instant of expiry itself. `pick_live` has a guard of depth 1 and cycles of four, so redraws
happen and end. In `pick_fresh` the clock does not move: cycles go there for the cap only, and
that the least recently seen goes, or one idle for long enough, is what the proof adds. The
cycles have two addresses and two of them are tracked, so that three picks finish a lap,
redraws shorten it and a third key evicts; the bound of `FreshPerSite` is met exactly (with one
position more TLC finds it violated). `claim`: one interface, two prefixes with one own and one
pool address each, two handlers, two requests, TTL 1, clock 4: a claim, its staleness, and a
second claim between the sweeper's two steps; one change of the world, one restart. `tunnel`:
two answers for a name, four quarters, one byte of request and two of response with a window of
one, so that the response waits for a client that does not read, with the upstream's end
already behind it. `front`: two HTTP requests, so that one follows another's credentials;
requests with both kinds of addresses, names of length 0 and 3 and a refused type, of which any
number of bytes may have come at each read, and up to two bytes behind them; limits of two
units, so that every step can meet its end; four accounts with a duplicate name and one that
holds the separator. `process`: words of 6 bits with a 3-bit marker at bit 2, so pools of 0 to
8 host bits lie on both sides of the word and of the marker's width, with slices at the start,
in the middle and across the end, and every pair of hashes is tried; three families of files
(listeners and flags, sources and seeds, limits) instead of their product, because the code
reads them independently; two boots. `MaxClock`, `MaxRequests`, `MaxChanges`, `MaxRestarts`,
`MaxAnswers`, `Request`, `Response`, `Window`, `MaxEarly`, `MaxBoots` bound the models only. A
guard of depth 0, with which a sliced pick takes no lock, is in the model and in the proofs,
which hold for every depth, and in no run: `Load` turns a written 0 into 128, so no running
process has one. That a cycle's redraws are used up needs more recent addresses than a small
cycle has; it too is left to the proof. Handlers are interchangeable, in `pick_fresh` prefixes
too (they have the same cycles, slices and own address), and symmetry is used only where no
liveness is checked. `CHECK_DEADLOCK FALSE` is set for `claim`, `tunnel`, `front` and `process`
runs: a spent bound, a closed connection or an ended process really is the end; the sweeper
keeps the `pick` runs going.

**Fairness.** Weak fairness of each handler's own steps, of the sweeper and of the copying
goroutines: a runnable goroutine runs and the tickers keep firing. Strong fairness for
taking `Proxy.mu`: Go's mutex hands itself to a waiter after 1 ms (starvation mode), so a
waiter that is repeatedly able to take it takes it. Dials end by `dial_timeout_seconds`. The
interface comes back in the end. Nothing is assumed of clients, peers, requests or time in
`pick_live`, `claim` and `tunnel`; `tunnel_idle` adds that time passes and the tickers run,
which only makes its violation stronger. In `front` time passes, an accepted connection gets
its goroutine, an operation past its deadline returns, and a write to a client that has left
returns: a silent client and a silent upstream are the cases the properties are about. What a
peer must do is a hypothesis of the property and not fairness: `UpstreamEndEnds` is for peers
neither of which leaves a full window unread for ever (`KeepsReading`), `ForwardEnds` for a
client that reads again after each pause or leaves (`ClientReadsOrLeaves`). Without these
hypotheses TLC finds both violated, as the code does (section 4). In `process` the main
goroutine runs and a listener whose Serve returned delivers its error; no signal, failure or
restart is owed.

## 4. Disagreements between the code and what it says

Each has a run in which TLC finds the statement violated.

| Run | The code | The statement |
|---|---|---|
| `claim_idle` | `EnsureClaimed` does not refresh the entry of an address it finds assigned, so an address in use is removed | `claim.go:25` "last-seen time", `claim.go:58` "idle for the TTL" |
| `claim_prefix` | after a renumbering a claimed /128 of the old prefix outranks the interface's own address in `GlobalIP`, so `auto_pool` stays on the old prefix | `README.md:177-179` "rotation survives prefix changes with zero intervention" |
| `tunnel_idle` | `keepAlive` moves the deadline whether or not anything was transferred; a silent relay stays | `http.go:17-18` "max time a relayed connection may sit without traffic" |
| `seed_replay` | `New` never sets `Proxy.seed`, so `auto_pool` makes its pools with seed 0 at every boot and repeats the boot before | `proxy.go:128-129` "so restarts never replay address sequences", `README.md:21-23` |

The following were met while reading and have no run of their own.

*Sources.* A session stored over another account's, or at the instant of expiry, is counted
again and the gauge only drifts up (`proxy.go:438` speaks of keeping it in sync;
`SessionGaugeCovers` is what is left). `auto_pool` without a usable address pins nil for the
TTL (`proxy.go:403`). Sessions are keyed by the token alone, so another account with the same
token replaces a live pin. A skipped position makes two consecutive picks of a narrow pool
share a half (`README.md:9-15` claims exact coverage of the picks). `isAllOnes` asks for a whole
low word of ones, but `hostValue` has masked it before (`pool.go:331`, `290-294`): in pools of 3 to
63 host bits the last address is given out (theorem `AllOnesIsGiven`), against `README.md:21-22`;
the test, `pool_test.go:394`, uses a /48 only. After eight skips the next position is returned
whatever it is (`pool.go:234`): a stride that hardly moves the marker's bits, about one in 2^18,
can return a marked address. An evicted or purged cycle
restarts at its first address. `auto_pool` without `pool_prefix` gives all accounts domain 0,
so they share their cycles' order (`README.md:23-24`), and `stats.SeedFP` shows a seed
`auto_pool` does not use. A slice of an interface identifier loses its reserved and marked
values to the neighbouring ones: `start: 0, size: 1` yields host 2, and all ones wraps to 2,
possibly in another account's slice (`config.go:26-28`). `PoolMode` names the address list
where `source_iface` answers; `dialTarget` falls back to IPv4 (`README.md:27` "IPv6-only").

*Claims.* An address the host has with its network's length is not recognised and is entered
(`claim.go:44-46`); `SweepsKeepOwn` shows the sweep cannot remove it. Claimed addresses of a
process that ended are never removed.

*Configuration.* `avoid_recent: 0` is documented as off (`README.md:128`, `proxy.go:80`) and
means 128. `source_iface` alone is refused (`README.md:124`). `fixed_source` is never
validated, and one that is no address leaves the dial without a source (`proxy.go:231`); an
IPv4 `pool_prefix` is accepted.

*Waiting for a peer.* A forwarding's 120 s cancel its reads from the upstream only: `http.Serve`
has no write timeout (`main.go:71`), so a client that stays and stops reading holds the handler
in its write (`http.go:101`) for ever, against `http.go:14` "bounds a single forwarded HTTP
request". In a relay `keepAlive` moves the deadline of a blocked write with that of the reads,
and `CloseRead` wakes no writer (`http.go:149`, `186`), so a relay whose upstream has ended
stays while the client does not read.

*Clients.* The transport of a forwarding asks for gzip when the client did not (`http.go:68-76`
leaves `DisableCompression` off), decompresses the answer and deletes its length: if such a
body is cut, it ends as a complete one. An account whose username holds `-session-` can never
log in. Bytes behind a CONNECT header are dropped (`http.go:117`). A truncated body of
undeclared length ends as complete. A host that does not resolve is answered 500, not 502.
Plain HTTP requests are logged without a source (`http.go:61` is never filled) and counted in
no byte counter; the per-account counters are exported and never incremented
(`metrics.go:28-29`). `http.Serve` runs without a header timeout.

*Process.* One SOCKS5 Accept error, also a temporary one, ends the process. Shutting down
does not wait for relays.

## 5. Proofs

Proved with TLAPS from the named assumptions on the constants (`StreamAssumption`,
`RingAssumption`, `PickAssumption`, `ClaimAssumption`, `TunnelAssumption`,
`HandshakeAssumption`, `ProcessAssumption`, `SliceAssumption`), which TLC evaluates in the runs
above. No bound on handlers, accounts, tokens, cycles, depths or requests enters the proofs.

* `PowersProofs`: what the other proofs need of powers of two, remainders and bits.
  Induction over the naturals is by least counterexample (`LeastElement`, from the library's
  `NatLessThanWellFounded`), over a set and without an operator parameter; `Pow2Recursion`
  gives the recursive function its equation. On it rest `BitsDetermine` (the low k bits
  fix a number modulo 2^k), `OddFactor` (an odd factor is invertible modulo 2^k) and
  `SameField` (numbers that agree on a field of bits are close).
* `StreamProofs`, for every width, word size, seed, stride and mask. `StreamWordsOK` (words
  stay words, the stride stays odd) and `StreamCounterWalks` (the two-word addition with its
  carry is addition modulo `Word * Word`, by `CarryAddition`). `StreamCascadeExact`: the
  invariant `WalkInv` says that the remembered addresses are those of consecutive multiples of
  the stride; two of them in one group at depth k would differ by a multiple of 2^k
  (`OddFactor`), so 2^k of them fill 2^k groups. `StreamImplementsCycle`, the refinement of
  `Cycle`: `CycleInv` says what the current lap has walked and that it gave exactly the clean
  addresses among them; it needs `ShortRuns`, that no run of positions to skip is
  longer than `maxCycleSkips`. `StreamLapsExact` discharges it with seven skips (the code has
  eight) for every stride that moves the marker's bits at each step, which in a pool too narrow
  for the marker is every stride, and with the code's widths all but one in 2^15: then
  marked positions are not neighbours, and there are at most three reserved ones. The rest is
  a fault of the code (section 4), not of the proof. `AllOnesIsGiven` is a theorem about what
  the hygiene lets out.
* `RecentRingProofs`: `RingAlwaysOK` (`RingInv`, the type and `RingOK`, is inductive as it
  stands: the map can be updated exactly only because the ring holds no address twice), and
  `RingImplementsWindow`, the refinement: `Window` reads the ring from its oldest entry, a
  growing ring appends to it, an overwrite drops its head and appends.
* `SourcePickProofs`: `Inv`, the conjunction of `TypeOK`, `LockOK`, `RingOK`,
  `StreamsBounded` and `SessionGaugeCovers`, is inductive, with one lemma per action or
  group of actions. `PickTypeCorrect`, `PickLockDiscipline`, `PickRingOK`,
  `PickStreamsBounded` and `PickGaugeCovers` are its parts; `PickMutualExclusion` follows
  from `LockOK`. The ring's invariant is reused through `RecordInv`: a pick records
  whatever its redraws end at. `StreamsBounded` needs the cap to be positive and the
  gauge to be set from the map's size in both places; `SessionGaugeCovers` needs a
  session to be dropped only where it is there, which the types of `sessions` carry.
  `PickPinKeptByOwner`, an action property, follows from `Inv`: a sweep's time is never later
  than the clock, so what it calls expired is expired; a store finds an unexpired pin of
  its own account and leaves it. `PickAnswerIsThePin` is read off the two sections.
  `PickImplementsWindow` lifts the refinement of `RecentRing`: each step records one address
  or leaves the guard. `PickCrossStreamFresh`, for every depth of the guard: the last draw
  is in the guard only if all `MaxRedraws` + 1 draws were. In a cycle of at most that many
  addresses they are all of it (`ReachAll`), in a longer one they are four different ones
  (`FourAreMore`), more than there are redraws. `PickFreshPerSite` adds `SiteInv`: a
  tracked cycle stands where its walk has brought it, an untracked one has no past, and what
  was shown was the address at its place of the walk. It is kept because every cycle that
  goes may go (`CyclesStep`; a sweep never evicts for the cap, by `StreamsBounded`), and equal
  addresses are whole laps apart (`LapBetween`). `PickFollowsPrefix` adds `DuringInv`: the
  prefix a handler holds was live during its request, whatever the interface does between the
  read and the lock; that a cycle's addresses lie in its prefix is `PrefixAssumption`.
* `ClaimProofs`: the types; `ClaimSweepKnowsIface`, from the order in which names are
  learned (`NamesInv`); `ClaimSweepsKeepOwn`, an action property: a sweep's `ip addr del` names
  a /128. `ClaimNeverLost` and `ClaimFreshStays` are proved for a claimer that uses one
  interface (`SingleIface`: `claim_iface` is set, or there is only one; with several and
  none set two detecting handlers may keep different names). The strengthening of the first
  says where an address without an entry can come from: none is added before it is entered,
  and none is forgotten before it is deleted, so between the sweeper's two steps it is
  either gone or freshly entered. The second holds on a link that has not changed.
* `TunnelProofs`: `TunnelTypeCorrect`, `TunnelCountersMatch`, `TunnelFourIsLast` as parts of one
  inductive invariant `IInv` (what was sent is received, in hand or delivered, a finished copy has
  counted its bytes, an untried address is left while the family is not 4), and
  `TunnelResponseComplete`, an action property: only the end of the upstream, a reset or a
  deadline ends the copy towards the client.
* `HandshakeProofs`: `HandshakeInv` adds to the types that a deadline runs only in a handshake
  or a forwarding, that whoever got to the SOCKS5 request has logged in, how many bytes of the
  request each of its stages has behind it, and that the length is told while a body is written
  unless it was not declared or the body was decompressed. Its consequences are
  `OnlyAuthenticated`, `RequestsReadExactly` (by `Layout`, the parts of every form add up to
  `RequestLength`), `CutIsNoticed` and `DialIsAnswered`.
* `ProcessProofs`: `CfgInv` (the configuration in use is the valid file with its defaults),
  `ServingInv` (exactly the listeners asked so far serve, or have failed and are heard of)
  and `WalksInv` (each boot's walks are made from its own seed), and from them
  `EnabledServe`, `LimitsHold` and `WalksStayApart`, for any set of files and any number of
  restarts. `SlicedPicksAreClean` and `PicksStayInSlice` hold for every word size, prefix, slice
  and hash: `ThreeTurns` shows that three turns of `sanitizeHost` reach a clean value that
  stays (`Sanitized`), and the word keeps the prefix above it.

**Model-checked only:** liveness under fairness (`EveryRequestAnswered`, `ExpiredSessionsGo`,
`StaleClaimsGo`, `UpstreamEndEnds`, `HandshakeEnds`, `ForwardEnds`, `StopsWhenTold`,
`FailureEnds`), which the prover does not handle. Every invariant and every action property of
the passing runs is proved; with hypotheses beyond the assumptions on the constants are
`ImplementsCycle` (`LeavesMarker`), `ClaimsAreTracked` and `FreshClaimStays` (`SingleIface`).

## 6. What is abstracted

Addresses are model values or small numbers, time is a counter, names and payloads are left
out. The keyed hashes are choices. A critical section reads the clock once (the code may twice;
the later reading gives the same outcomes). `IfaceAddr` is the address of the interface's live
prefix. In `SourcePick` a handler's claim and dial do not appear; `Claim` takes the pick as any
address `auto_pool` could return; `Tunnel` starts where the source has been chosen. `Handshake`
takes the dial as one step with either outcome, and `Process` takes a file that cannot be read
or parsed for one that is refused. An `ip` command either takes effect or fails as the kernel's
state makes it; it has no other errors. The claim counters of the metrics are left out of
`Claim`. A reset the kernel sends when a socket with unread bytes is closed comes after the
relay and is not modelled. A reader of a half-closed socket gets what was already received.

## 7. Plan

Done, in this order: the rotation cycle and its promise; the guard; source selection with
its proofs; claiming composed with `auto_pool`; tunnels; the client's side of a connection;
configuration, address mapping and process; the proofs about claiming, tunnels, handshakes
and the process; powers of two and bits, and with them the proofs of the cycle's promises
and of the address mapping; the remaining promises of source selection.

Next:
1. `Claim` with two interfaces and a name that has gone stale (`claim.go:119`): first what
   the code should promise then, which nothing in the repository says.
2. `ClaimNeverLost` for several interfaces where `claim_iface` is not set: what is left of it
   when two handlers detect different names.
3. The safety half of the liveness properties: that `relay`, the handshake and the end of `run`
   have a step to take until they are over (no `ENABLED`, but a measure that never grows).

## 8. Not modelled, and why

Rendering of metrics, the token check of the stats listener and the route-table parser are pure
functions of their input. The parsing of YAML, of a header and of a SOCKS5 greeting and login
is abstracted to its outcome. A failing `Hijack` or `rand.Read` does not occur on the platforms
the program is built for. What net/http does inside `RoundTrip` and `Serve` is external. Shell
and container scripts write a file and restart a service.
