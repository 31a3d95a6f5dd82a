# httppooler in TLA+

httppooler relays HTTP requests between peers that cannot reach each other. One
daemon is the *server*; the others are *clients* that dial it. Every peer may
*consume* (listen for applications and turn their requests into jobs) and
*provide* (run jobs against a local upstream with a fixed number of slots). The
server queues jobs per service and hands each to a provider with a free slot.

This directory models the program from the bytes of a connection to the signals
of its daemon, checks it with TLC on small instances, and proves its safety
with TLAPS for every instance. Paths below are relative to the repository.

## Inventory

| component | state | operations | hard behaviour | what makes it correct |
|---|---|---|---|---|
| pool (`internal/pool/pool.go`) | per service: providers in order, waiters in order; per provider: busy, gone; a one-place channel per waiter | `Add`, `Remove`, `Acquire`, `Release`, `Snapshot` | `Acquire` unlocks before its select; a timer, a cancellation and a handed-over lease race in `abandon` | slots are counted right; no lease is lost; no slot idles beside a waiter; order; deadline from the first arrival |
| job queue (`internal/peer/queue.go`) | items, close error, ready channel | `push`, `close`, `next` | `next` waits on a channel it read under the lock, after unlocking | nothing lost, doubled or reordered; the error only after the items; no lost wake-up |
| server relay (`internal/peer/server.go`, `job.go`) | per job: collected body, lease, `started` | `relay`, `dispatch`, `answer`, `collect`, `watchCancel` | provider lost before, during or after the answer; cancellation races everything | the submitter hears exactly one legal answer; nothing is left in the pool; every job ends |
| provider side (`internal/peer/provide.go`, `endpoint.go`) | `Endpoint.running` per service | `provide`, `runUpstream`, `take`, `give` | slots outlive sessions; END is sent before the slot is given back | never more jobs than slots; nobody runs a job that nobody relays |
| connection (`internal/peer/conn.go`) | job tables, error, write lock, pong token | `run`, `dispatch`, `start`, `newJob`, `openJob`, `endJob`, `send`, `fail`, `hello`, `ping`, `pong` | `fail` races `newJob`; deadlines at each stage; only the server pings | no job left in the table of a failed connection; dead peers noticed, live ones kept |
| consumer side (`internal/peer/consume.go`) | per request: where the handler is, what was written | `consume`, `relayAnswer`, `answerFailure` | the connection may fail between any two steps of a handler | a broken answer never looks whole; every request ends |
| client (`internal/peer/client.go`, `endpoint.go`) | backoff, the attached connection | `Run`, `session`, `Serve`, `attach`, `connection` | a new session is attached while handlers still hold the old one | backoff doubles, is capped and is reset |
| server accept (`internal/peer/server.go`) | the peers, their providers in the pool | `Run`, `accept`, `handle`, `register`, `serveSelf` | registration refused half way; removal after loss | a provider is in the pool only while its connection is handled |
| wire records and codec (`internal/wire`) | plaintext buffers | `Handshake`, `Read`, `Write`, encoders and decoders | lengths at their limits; a write cut short | what is written is what is read; both sides refuse the same things |
| noise (`internal/noise`) | cipher states with nonces | handshake messages, `Encrypt`, `Decrypt` | the counter at its end; failure in the middle of a handshake | nonces never repeat; both ends agree on keys |
| conf (`internal/conf`) | none | `Load` | ranges, duplicates, cross-references | what it accepts can be run |
| headers (`internal/peer/headers.go`) | none | stripping and copying | names listed in `Connection` | hop-by-hop headers do not travel |
| daemon (`cmd/httppooler/main.go`, `Run` and `Start` of the roles) | the role, its open ports, the signals that wait | `run`, `start`, `reload`, `Run`, `serveSelf`, `Endpoint.Start`, `Close` | the file changes between check and restart; a port cannot be opened; signals before, during and after a restart | a bad file changes nothing; no role is half there; a reload is obeyed |

How they meet: a connection's read loop calls `start`, which opens a job and
starts `relay` (server) or `provide` (peer); messages reach the goroutine of a
job through its job queue; `relay` calls the pool, then opens a second job on the
provider's connection and copies messages from one to the other; a failing
connection closes every job queue it has and cancels every job it started. Below
them a connection is a Noise channel of records that carry encoded messages;
above them the daemon reads a configuration, opens the ports of the role it asks
for, and replaces itself by a fresh process to take another.

## Modules

| module | models | composed of |
|---|---|---|
| `Pool` | the pool; every critical section is one action, and `Acquire` is split where it unlocks | |
| `PoolOrder` | `Pool` with two history variables for the order of service | `Pool` |
| `SlotPool` | what the pool promises: jobs ask for slots, hold them and give them back, one step each | |
| `PoolRefines` | the mapping under which `Pool` implements `SlotPool` | `PoolOrder`, an instance of `SlotPool` |
| `PoolProofs` | proofs: slots, handover, timeout, the loop of `best` | `Pool` |
| `PoolRefinesProofs` | proofs: `Pool` implements `SlotPool`; the order of service | `PoolRefines`, `PoolProofs` |
| `JobQueue` | `jobQueue`; `next` is split where it unlocks | |
| `JobQueueProofs` | proofs: a faithful queue, no lost wake-up | `JobQueue` |
| `Relay` | `relay` and `dispatch`, the links to providers with both ends, `provide` with its slots | `Pool`, whose actions it takes |
| `RelayProofs` | proofs: one answer, nothing left behind, slots kept by count | `Relay`, `PoolProofs` |
| `Client` | the reconnect loop, the lent connection, the handlers of `consume` | |
| `ClientProofs` | proofs: job tables, honest answers, handlers that answer, the backoff | `Client` |
| `Session` | one connection in time: handshake, HELLO, registration, PING and PONG, deadlines, removal | |
| `SessionProofs` | proofs: no false alarm, silence noticed, no ghost providers | `Session` |
| `Noise` | the NNpsk0 handshake and the cipher states, with symbolic cryptography | |
| `Wire` | the messages, their encoder and their decoder, over bytes | |
| `Headers` | HTTP headers to the wire and back | |
| `Channel` | one connection from its preamble to its last record, both ends, and the carrier between them | `Noise`, `Wire`, `Headers` |
| `ChannelProofs` | proofs: counters, keys, delivery, refusals | `Channel` |
| `Conf` | what a configuration file means, and when it is refused | `Wire`, for its limits |
| `Daemon` | the process, its role's ports, signals, restarts | `Conf` |
| `DaemonProofs` | proofs: ports all or none, a reload keeps the Conf | `Daemon` |
| `MC*` | instances for TLC | |

### Pool

`providers`, `waiters`, `busy` and `gone` are the fields of the same names.
`phase[j]` is the program counter of the goroutine that calls `Acquire`, and
`lease[j]` the lease from the moment `take` makes it until `Release`, so a lease
lying in a waiter's channel is `lease[j] # None` with `phase[j] = "select"`,
`"quit"` or `"drain"`. `AcquireFree` and `AcquireWait` are the two outcomes of
the locked part; `Receive` and `GiveUp` the cases of the select;
`AbandonQueued`, `AbandonLate` and `Drain` the two halves of `abandon`. `Release`
and `Drain` include the `dispatch` that `Lease.Release` ends with, and
`AddProvider` the one in `Add`.

`dispatch` is written in closed form: the *n* leases one call hands out are a
function *g* from the first *n* waiters to providers, each choice being the best
one given the slots taken by those before it. `best` is also written as the loop
the code runs, and that the two agree (`BestIsTheLoop`) is proved. Every lease is released once,
by `relay` or by `abandon`, so its `released` flag is not state of the model.

A requeued job may call `Acquire` again or end; both are possible from
`"released"`, since the pool does not decide that.

`SlotPool` is the pool as a relay sees it: no queue, no channel, no clock. A job
is idle, waiting, granted or over; a provider is new, open or closed. Each of its
steps ends with no job waiting beside a free slot, and a granted slot is nobody
else's until its job gives it back, even after its provider has closed.
`PoolRefines` reads a lease as a grant from the moment `take` makes it
(`owner <- lease`), so that a lease lying in a channel is already granted, and
`Drain`, which returns a lease nobody received, is a `Finish`. Everything
`Acquire` and `abandon` do without the lock is then a stuttering step.

### JobQueue

Ready channels are numbered: `wake` closes the current one and makes the next,
so channel *c* is closed exactly when *c* < `ready`. `nextLook` is the locked part
of `next`; `nextWoken` and `nextGivesUp` the cases of its select.

### Relay

A provider of the model is one upstream of one session of a peer. It has a link
of two streams whose ends fail separately (`srvUp`, `cliUp`); a lost link does
not come back, and a peer that reconnects is another provider with the same
`Endpoint`, because `Endpoint.running` outlives sessions. `stage[j]` is where
`relay` is, `inbox[j]` the job queue of the current attempt. `Acquiring` takes
the pool's own actions. A message to a peer that has closed is lost, and a send
to it may fail or not, as a TCP write may. A send to a live peer that stopped
reading fails by its write deadline, which does not fail the connection
(`conn.go:121`): `half` has the jobs that were cut short so, with nothing of the
request or a REQUEST without its END at the provider. The record that went out in
part makes the rest of that stream unreadable (`Channel` shows this), so a link with
such a job is `Broken` and carries nothing more to the provider, until the provider
ends it.

Abstracted: REQUEST, BODY* and END of a request that goes out whole travel as one
message, since one goroutine sends them one after the other and the provider, once
it has taken a slot, collects them all before it asks the upstream; an answer has at most one BODY; every job has a submitter
connection of its own; the pool's timeout is 0, so that the timer of any waiting
job may fire at any moment; job numbers are the jobs, so the parity check of
`start` is not modelled, nor are the REQUESTs `provide` refuses for a service it
never announced. The upstream may answer, fail or keep a job for ever. A CANCEL, a
PING or an answer that runs into its deadline is one that stays unread until the
link is lost, and a send to the submitter that does so is the loss of the submitter
(`SubmitterLost`), since nothing after it can be read either.

### Client

`loop` is where `Client.Run` is, `session` numbers the sessions, `attached` is
`Endpoint.conn`. A handler asks for the connection (`Look`), opens a job on it
(`Open`), sends REQUEST (`SendRequest`) and the rest (`SendBodyEnd`), and relays
the answer (`Relay`, `RelayEnds`); between any two of these `ConnFails` may empty
the job table and another session may be attached. The server here is an
environment that answers as `relay` does: a job is accepted, answered with a
RESPONSE first, and ended with END or FAIL, or its connection ends. `SendFails` is a
send that fails, also by the write deadline on a live session, which is then `cut`:
the server has what was sent before, and nothing that is sent later. An END that
cannot be encoded (`Unsendable`) is different: nothing of it is written, and the
session is as good as before.

### Session

Time is a clock in ticks. The network delivers within `MaxDelay` ticks until it is
cut, and then nothing more, without telling anybody. `quiet` counts the ticks
since a side last set its read deadline; the clock does not pass anything that is
due, so `IdleTimeout` is exact. `entries` are the providers of this connection
that are in the pool. The handshake is its two messages. `ended` has the ping and
pong goroutines that returned: an error of sending, which comes when what they sent
does not arrive, ends them for good and the connection not at all.

### Noise, Wire, Headers and Channel

`Noise` has the operations of `symmetric` and `Handshake` under their names. A hash
is the sequence of what was hashed, a key says from what and as which output it
was derived, and a ciphertext opens only under the key, the nonce and the
associated data it was sealed with: the primitives are taken to be ideal. The
counter wraps after `nonceReserved`, as a `uint64` would.

`Wire` has the builder's and the decoder's fields, each with its width, its count
and its refusals, and the two switches over kinds, the encoder's and the
decoder's, written apart as in the code. A byte is a digit of base `Base`, so that
a small base makes small messages reach every limit. The decoder says "more" where
the code would block for bytes.

`Headers` is `fromHTTP`, `toHTTP`, `connectionHeaders`, `requestHeaders` and
`writeHead` over functions from names to sequences of values; canonical names and
the splitting of a `Connection` value are parameters.

In `Channel` a preamble, a framed handshake message and a record are items of a
stream to each side. `Initiate`, `Respond`, `Complete` and `HandshakeFails` are
`Handshake`; `Say` is `Encoder.Write` on a `RecordWriter`, and `SayInPart` the same
when the deadline passes in the middle of a record or the counter is exhausted in
the middle of a message, after which the connection goes on; `ReadRecord` and
`RefuseRecord` are `RecordReader.next`, `NextMessage` and `RefuseMessage`
`Decoder.Next`. `SayStray` is a server of another make, `Disturb` the carrier.

### Conf and Daemon

`Conf` takes a file as lines of the grammar (blank, section header, setting,
neither) to a Conf or to `Refused`. The order of the checks decides only which line
a refusal names, which is left out, so each check is a predicate.

`pc` in `Daemon` is where the main goroutine is: before `signal.Notify`, before
`start`, at the channel, or between the two halves of `reload`. `stage`, `opened`
and `held` follow the role's goroutine through the addresses it opens, the
server's own first, and through the deferred calls by which it gives them up, one
after the other (`EndpointCloses`, `RunReturns`). Listening may fail for any reason. `Exec` drops everything but the file: ports are close-on-exec,
and the channel with the signals that wait in it is memory of the old process.
`self` is the session of the server's own sections, which nothing makes again.
SIGINT and SIGTERM are one signal of the model. A signal before `Notify` kills, but
for a SIGUSR1, which Go's runtime ignores once it is there.

## Runs

| run | checks | shows |
|---|---|---|
| `pool` | `SlotAccounting`, `NeverOverSubscribed`, `WorkConserving`, `QueuedOrHanded`, `RequeuedFirst`, `DeadlineFromArrival`, `FreshInOrder`, `ImplementsSlotPool` | with three jobs and two providers that come and go, every interleaving of handover, timer, cancellation and requeue keeps the slots, the order and the deadlines right, and is a behaviour of `SlotPool` |
| `queue` | `NothingLost`, `DrainedBeforeError`, `NoLostWakeup`, `ClosedReleasesAll` | the inbox is a faithful queue and wakes everybody |
| `relay` | `AnswerWellFormed`, `EndedMeansAnswered`, `EndedHoldsNothing`, `AcquireReturns`, `EveryJobAnswered`, `CancelledEnds`, `OrphansStop` | a link lost or stalled at any moment, a reconnection, a submitter that cancels or vanishes: one legal answer in the end, `Acquire` returns, jobs leave nothing in the pool and do not run on |
| `relay_slots` | `SlotBusyUntilTerminated` (violated) | the slot of a cancelled job is given away before the job has ended |
| `relay_refused` | `NeverRefused` (violated) | a provider counts a job as running after it has sent its END |
| `relay_unsayable` | `EveryJobAnswered` (violated) | an error text too long for a FAIL leaves a job without an end |
| `client` | `AnswerIsHonest`, `ReturnsWithAnswer`, `NoOrphanJobs`, `BackoffDoubles`, `EveryRequestEnds`, `NoSentJobLeft` | a session lost between any two steps of a handler, or a send that its write deadline cuts |
| `client_half` | `NoJobLeftAtServer` (violated) | an END that cannot be encoded leaves half a job at the server |
| `session` | `NoFalseTimeout`, `SilenceIsNoticed`, `NoGhostProviders` | quiet connections live, dead ones are noticed, their providers leave the pool |
| `session_ghost` | `NoGhostProviders` (violated) | a HELLO refused half way leaves providers in the pool |
| `channel` | `KeysAgree`, `DeliveredAsSaid`, `RefusedOnlyIfHarmed`, `TakenAsEncoded`, `NonceNeverReused`, `HeadersTravel` | whatever the carrier, a write deadline, another secret, another version or an exhausted counter does: what is delivered was said, in order; what was said well is not refused; the decoder takes only what the encoder could have written; headers arrive as they should |
| `daemon` | `AllThereOrNotAtAll`, `AcceptedCanAnnounce`, `ReloadKeepsAConf`, `ReloadIsObeyed` | through edits, signals, failed restarts and contended ports: no role is half there, what is accepted can be announced, a reload keeps the Conf it checked, a waiting reload is obeyed |

`NoSentJobLeft` is `NoJobLeftAtServer` for the requests that can be encoded.
`ReloadIsObeyed` says nothing of a stop, nor of a signal that comes before
`signal.Notify`: a restart throws the one away and the other kills the process. So
what `main.go:85-86` says, that a reload during startup does not kill the daemon, is
true from `Notify` on and not before. `HeadersTravel` takes the list of
hop-by-hop names from the code, so that it says nothing about the list itself.

The invariants that the proofs below rest on were checked with TLC on these
instances before they were proved.

### Bounds, and why they are enough

- `pool`: three jobs over three slots on two providers. Two jobs can be requeued
  from one provider while a third waits, and one `dispatch` can hand out two
  leases; the timer of each may fire. Jobs are interchangeable in this instance
  (one service, and no action treats them differently), so they are a symmetry
  set; no liveness is checked with it. The clock reaches the deadline (`MaxTime` 1,
  `Timeout` 1); `Arrive` requires that the deadline lies within `MaxTime`, so that
  time does not stop under a waiting job. There is one service, as services share
  nothing in the pool.
- `queue`: two readers, one more than the code ever has at once on one queue
  (`collect` and then `watchCancel`, or `dispatch`), three pushes, one close.
- `relay`: one job, which may be cancelled or lose its submitter, and two sessions of
  one peer with one slot, the first of which may break or stall. The job meets its
  own first attempt, still at the upstream, as it would meet another job: in the
  pool, whose own run has three, and in `take`. The safety properties are proved
  for any number of jobs; `AcquireReturns` and the other progress properties are
  checked for one.
- `relay_slots`, `relay_refused`, `relay_unsayable`: two jobs and one slot, the
  smallest instances with a queue, on a link that does not break; in `relay_slots`
  one job may leave (`MayLeave`).
- `client`: one request and three sessions, so that a handler can hold a failed
  session while the next is attached; requests share nothing but the job table.
  Three failed dials reach the cap of the backoff. `client_half` has one session and
  one request that is in `Unsendable`.
- `session`: ping every 2, idle timeout 5, delay at most 1, 16 ticks: three idle
  timeouts. The code's 30 s and 90 s have the same order: one ping and a delay
  each way fit in the timeout (`TimesAssumption`).
- `channel`: base 10, so a name has at most 9 bytes, a HELLO 9 providers, a job
  number 8 digits; one message at each of these limits and one beyond it. 25 bytes
  to a record, so that messages span up to four, and three records to a key, so
  that the counter runs out in the middle of some message and not of others. One
  fault, since every fault ends the connection or ends in a refusal; it may hit
  the preamble, either handshake message or any record. Two messages from the
  client (its HELLO, and one more), one from the server. Equal secrets and
  versions, or one of them different.
- `daemon`: six files that are accepted and one for each way to be refused, all of
  them possible at the start; an edit writes any accepted one, a torn one or none.
  One edit falls between any two steps; three signals and a channel of two, so
  that a signal can be dropped, lost by a restart, or arrive before `Notify`. Two
  of the ports are contended. `AsNamed` checks that `Conf` accepts and refuses the
  files as their names say.

### Fairness

Weak fairness only, and only of what the Go runtime and TCP give: a goroutine
that can go on does; what lies on a live connection is read; an end whose other
end has closed notices it (end of file, or the idle timeout, which `Session`
checks), and so does the reader of a stream that a write deadline cut (a record it
cannot open, or the idle timeout, as no PING or PONG comes through either); a
cancelled context ends an upstream request. `Pool` alone has no fairness:
`AcquireReturns` is checked as part of `Relay`, where the timer of a waiting job may
fire at any moment and the goroutine in the select goes on. In `Daemon` only the main goroutine is assumed to go on. Nothing is assumed of upstreams, of applications, of the order of a
select, of a provider's arrival or of the network's good will. `EveryJobAnswered`
and `EveryRequestEnds` therefore except a job while it is at its upstream, or at
the server, which may keep it for ever.

## What the runs found

1. **A slot is given back after the job's END is sent** (`provide.go:37`).
   The server frees its slot on the END and may send the next job at once; if it
   is read before `give` runs, `take` refuses it, and the peer fails the whole
   connection with every other job on it. No loss and no cancellation is needed.
   The same happens when a cancelled job is still ending, and when a new session
   starts while the jobs of the last one still run.
2. **A FAIL that cannot be encoded is dropped** (`provide.go:53`): the job has no
   end, its slot stays busy and the application waits while the connection lives.
3. **A refused HELLO leaves providers in the pool** (`server.go:169`): `register`
   adds each as it goes and returns nil on a duplicate, so nobody removes them. A job
   given to such a ghost is requeued, and `Acquire` gives it the ghost again: its fast
   path (`pool.go:133-138`) looks at neither the deadline nor the context, so that a
   job that is alone in its queue goes round without end.
4. **The slot of a cancelled job is given away early** (`server.go:290`): `dispatch`
   returns as soon as it has sent the CANCEL, and the lease is released, while
   PROTOCOL.md:201 keeps the slot busy until the END or FAIL. The next job may
   reach the provider while the cancelled one still runs, and be refused there (1).
5. **An END that cannot be encoded leaves half a job at the server**
   (`consume.go:56`): with a trailer name over 255 bytes the application is answered
   503, no CANCEL is sent, and `collect` waits at the server while the connection
   lives.

Seen while modelling, and part of the models:

- Requeued jobs go in front of each other (`pool.go:143`), so two jobs lost with
  one provider are served youngest first, while the package comment says oldest
  first. `RequeuedFirst` and `FreshInOrder` are what does hold.
- `conf` does not count providers, and a HELLO counts them in a u8: with 256 or
  more, every session ends before it begins, and the server's own sections are
  gone while their ports stay open (`SelfHello`). `AcceptedCanAnnounce` holds up
  to that count.
- A SIGTERM that waits behind a SIGHUP is lost by the restart, and a signal between
  the restart and `signal.Notify` has its default effect, which is to kill
  (`main.go:88`, `:161`). A waiting SIGHUP that is lost does no harm, as the fresh
  process reads the file later.
- A configuration whose ports collide is accepted, and its role gives up; so does a
  server whose `Accept` fails once, whatever the error (`server.go:67`), while the
  sessions it has run on.
- A write cut short does not fail the connection (`conn.go:124`); the counter it
  used makes every later record fail at the reader, which is what ends it. The pipe
  of the server's own sections has no records and so no such safeguard; its writes
  have a deadline too.
- A write deadline in the middle of a request leaves half a job at the other end, as
  in finding 5, but its stream is cut, and the job goes with the connection
  (`NoSentJobLeft`, `OrphansStop`).
- `hopByHop` drops `Proxy-Authenticate` (`headers.go:26`), and `fromHTTP` sorts the
  names, neither of which is in PROTOCOL.md:171-174. `HeadersTravel` shows neither:
  it compares the code's list with itself and the values of each name in order.

## What is proved

With TLAPS, for every set of jobs, providers, services, endpoints, requests and
readers, every slot count, priority, timeout, record size and counter width, and
any number of messages, sessions and faults. Each theorem is an invariant of the
specification, proved from an inductive one (`Init` implies it, every step keeps
it), or a step property or a refinement, proved from the same invariant.

**Pool** (`PoolProofs`, `PoolRefinesProofs`)

- `HandoverCorrect`: a job inside `Acquire` is queued once or has a lease, never
  both and never neither. `HandoverInv == TypeOK /\ QueuedOrHanded` is inductive as
  it stands, because `QueuedOrHanded` says three things at once: a queue has no job
  twice, who is queued is waiting and has no lease, and who waits without a lease
  is queued. Leave one out and `dispatch` or `abandon` breaks the others.
- `SlotsAreAccounted`, `SlotsAreNeverOversold`, `WorkIsConserved`. The invariant is
  `SlotInv == HandoverInv /\ SlotAccounting /\ SlotsKept /\ AtHome /\ WorkConserving`.
  The four need each other: that `dispatch` may stop when nobody is eligible is
  work conservation; that a choice is eligible keeps the slots; counting leases
  needs that the jobs served are distinct and had no lease; and a provider must be
  listed once and under its service (`AtHome`) for a slot to be seen at all.
- `TimeoutFromArrival`, a step property: the deadline of a waiting job was set from
  its first arrival (`TimerInv`), and the clock does not pass it while the job waits.
- `LoopFindsBest`: the closed form of `best` is what the code's loop finds, for
  providers that differ in priority and free slots in any way (no run checks it: the
  smallest instances in which every comparison matters are too large). The loop
  is a recursive function, and induction is out of reach, so the proof takes the
  least index at which the loop's candidate is wrong, which a library theorem on
  well-founded orders provides, and contradicts it.
- `RequeuedAreFirst` and `FreshServedInOrder`: `OrderInv` adds to `SlotInv` that the
  recorded line is the arrivals (`LineOK`), that jobs never requeued wait in its
  order (`FreshKeepLine`) and that requeued ones are ahead (`AgainAhead`). It speaks
  of pairs of places in a queue (`Before`), which every action keeps or shortens.
- `PoolImplementsSlotPool`: under the mapping of `PoolRefines` the initial states
  are initial in `SlotPool`, and every step of the pool is one of its steps or a
  stutter. `WorkConserving` after the step is what each abstract step demands, and
  `SlotAccounting` turns `busy` into the abstract count of grants.

**JobQueue** (`JobQueueProofs`): `QueueIsFaithful` (nothing lost, doubled or
reordered; the error only after the items) and `WakeupsAreNotLost`. `QueueInv` adds
how the number of the ready channel follows pushes and the close: without it a
reader could hold a channel that no later wake closes.

**Relay** (`RelayProofs`). Every step of the relay is a step of the pool or leaves it
alone (`RelayIsPool`), so the pool's invariants hold here too. The invariant is
`RelayInv == SlotInv /\ StageInv /\ AnswerInv`:

- `StageInv`: where a job is in `Acquire`, by where its relay is. It gives
  `EndedLeavesNothing`: no lease and no place in a queue survive `relay`, on any of
  its error paths.
- `OneAttempt`: on a link the server holds to be up, a provider has something of a
  job only while the job is relayed from it or once the relay has returned.
  So a retry never meets what the last attempt left behind. `Strangers` (nobody
  talks to a provider before it joins) and `SentOnce` (one REQUEST) go with it, and
  that a link which a write deadline broke carries nothing more to the provider.
- `Answering`: what is in the inbox, on the link and still to come from the provider
  is one answer, in order (`AttemptOK`), so a RESPONSE is relayed first and
  `started` says whether it was. `Heard` follows it to the submitter, and through
  `Leave`: after a RESPONSE there is no retry, only a FAIL.
  It gives `SubmittersHearOneAnswer`.
- `GivenUp`: who is cancelled, or left without an end, has cancelled or is gone. It
  gives `SilenceIsOnlyForTheGone`.
- `Concluded`: a job that ended at the server without being cancelled has sent its
  END or FAIL at the provider. With `OneAttempt`, the jobs outstanding at a provider
  are among those that hold its lease, and the pool counts those: `ServerKeepsCount`,
  whose hypothesis is that nobody cancels or leaves (`MayLeave = {}`). `relay_slots`
  shows that it is needed.

**Client** (`ClientProofs`): `TablesAreKept`, `AnswersAreHonest`, `HandlersAnswer`.
`IInv` says which sessions may still be lent (`Lending`, `OnSession`), how far a job
can be at the server by where its handler is (`Reached`, `Asking`), what the server
has said by then (`Spoken`), that what the application got plus what is on its way
is that (`Aligned`, `StreamOK`), and that nothing is on its way before the request
is whole (`Silent`). Honesty alone is not inductive: END looks the same whether or
not a BODY before it was lost. `WaitsDouble` is the backoff: the invariant `Backs`
says that `backoff` is the next wait and `nap` the one before it, shortened by at
most half. The prover knows no law of exponents, so `Client` has the power of two as
a recursive function, `Doubled`, whose two equations are all the proof needs.

**Session** (`SessionProofs`): `NoFalseAlarm`, for all times that satisfy
`PingEvery + 2 * MaxDelay < IdleTimeout`. The invariant `Lively` says, for each phase
of a live session, what is on its way and how old it is, and so how long a side can
have heard nothing; while it is live, no ping or pong goroutine has ended. `SilenceEndsTheSession` and `ProvidersLeaveWithTheirPeer` need a
hypothesis, `AnnouncedOnce`: the HELLO announces no service twice, which
PROTOCOL.md:122 asks of the peer. `session_ghost` shows what happens without it.

**Channel** (`ChannelProofs`): `CountersAreFresh` (`NonceInv`: the counters used under
a key are those below the current one, each once, up to the reserved value) and
`HandshakeAgrees` (`KeyInv`: the handshakes under way are those the code made, every
message on its way that nobody spoilt is genuine, an open side has the keys of a
peer like itself). The proof of the latter follows the transcript: what a side
hashes and derives tells its peer's secret, version and keys apart.

Two more theorems of `ChannelProofs` build on these. Both have the hypothesis
`CodecFaithful`, a fact about single messages and no behaviour: the decoder reads
back what the encoder wrote for a message, with nothing left over, and waits while a
part is missing. It is data, so the prover cannot have it for every message;
`MCChannel` has it as an ASSUME, which TLC evaluates for all messages of the run.
What the theorems add is everything that happens between two messages.

- `DeliveryInOrder`: what a side has read is what the other has said, in order and
  without a gap. `DeliveryInv` has, in each direction, the messages written (`w`) and
  the log (`l`) of the records sealed, record `n` being a certain part of a certain
  message. A record on its way that opens is the one of the log with the reader's
  counter (`RecordOK`), because nothing else is sealed under that key and counter:
  this is where `NonceInv` and `KeyInv` are needed. The reader is at the start of the
  log, in the middle of a message, of which it holds the bytes up to its last record,
  or behind one (`Halfway`). So a record that is lost, repeated, swapped or spoilt
  does not open, and a message cut by a deadline is not continued by another one.
- `RefusalHasAReason`: a side that was not harmed, with a peer like itself, refuses
  nothing. Safety of what is delivered does not give this; it needs that what should
  open does. `ServerReads` and `ClientReads` show that the two handshakes end in one
  symmetric state, and `Tidy` that what is on its way to an unharmed side is what was
  written and not yet read: the rest of the handshake, then the records between the
  reader's counter and the writer's, each once and in order.

**Daemon** (`DaemonProofs`): `PortsAllOrNone` (`PortInv`: a role that has not begun has
opened nothing, and one that has opens its ports in order) and
`ReloadNeverCostsTheConf` (the file is as `reload` checked it until it is edited).

Assumptions: the named ASSUMEs of the modules, which TLC evaluates in the runs.
Most say that constants have their types; those that say more are `JobsAssumption`
(finitely many jobs), `TimesAssumption`, `ClockAssumption` (`Relay` uses the pool with
timeout 0: any timer may fire at any moment), `BackoffAssumption`,
`EncodingAssumption` (an encoding is a string of bytes of base `Base`) and
the ideal cryptography of `Noise`. `CodecFaithful` and `AnnouncedOnce` are
hypotheses of the theorems that need them.
`RelayProofs`' theorems hold for every `MayLeave`, `MayBreak` and `Unsayable`.

Only model-checked:

- liveness under fairness, which is out of the prover's reach: `AcquireReturns`,
  `ClosedReleasesAll`, `EveryJobAnswered`, `CancelledEnds`, `OrphansStop`,
  `EveryRequestEnds`, `NoSentJobLeft`, `ReloadIsObeyed`;
- what the codec, the headers and the configuration compute for every input, since
  they fold over sequences and would need induction over data: `CodecFaithful`,
  `TakenAsEncoded` (the bytes behind what was read are its own encoding, also from a
  peer of another make), `HeadersTravel`, and `AcceptedCanAnnounce`, where a configuration the parser accepts
  is encoded.

## What is not modelled

- the cryptographic primitives, which are libraries, and the lengths of frames and
  records as bytes: a frame and a record are whole, spoilt, or cut short;
- the characters of a configuration line, and which line a refusal names;
- flags, `genkey`, the log and SIGUSR1's report, which change nothing;
- in `Relay`, the messages of a request one by one, the parity of job numbers, and
  `dispatch`'s default branch (`server.go:313`), which a provider reaches that sends
  a kind `provide` never sends, and which after a RESPONSE would end the relay with
  neither END nor FAIL;
- the deployment scripts.

## Plan

1. *done*: `Pool`, `JobQueue`, `Relay`, `Client`, `Session`, their runs, and the
   proofs of `HandoverCorrect`, `QueueIsFaithful` and `WakeupsAreNotLost`.
2. *done*: `SlotPool` and the refinement; `Noise`, `Wire`, `Headers` and `Channel`;
   `Conf` and `Daemon`.
3. *done*: the theorems above.
4. Left for proof: `RelayTypeOK`, whose `running \in Nat` needs a count of the
   provides that hold a slot, as `SlotAccounting` is one of leases. With a prover that
   does induction over sequences: `CodecFaithful` and `TakenAsEncoded` field by
   field, `AcceptedCanAnnounce` and `HeadersTravel`.
