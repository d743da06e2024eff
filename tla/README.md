# A TLA+ model of the JEAN P2P system and its NAT test

The repository holds a hole-punching rendezvous system (`src/p2p-src`), the NAT
test that preceded it (`src/src`), an earlier relay (`src/turn-src`) and a few
UDP measurements. These modules model the parts that carry the logic, check
them with TLC on small instances, and prove with TLAPS every safety property the
passing runs check, and that a connection attempt implements its abstract
specification.

## 1. Inventory

| component | where | state | operations | modelled in |
|---|---|---|---|---|
| Rendezvous server, main thread | `p2p-src/server/main.c`, `Include/List.h` | node list (`node_net`), `Uname`, `Peers_Sheet_Index`, `turnSign`, thread flags | one handler per opcode; four nested receive loops (`Send_S_IP`, and three in `POL_SENT`) | `RendezvousServer` |
| Master program | `p2p-src/client-master/main.c` | `Ctl_Rec`, `slave_sin`, `connectionStatus` | `JEAN_init_master`, `Keep_con`, `JEAN_close_master` | `MasterClient` |
| Slave program | `p2p-src/client-slave/main.c` | `Ctl_Rec`, `master_sin`, `connectionStatus` | `JEAN_init_slave`, `JEAN_close_slave` | `SlaveClient` |
| UDP between them | `Include/JEANP2PPRO.h` | datagrams in flight | loss, duplication, delay, reordering | `P2PNet` |
| Command and control relays | `server/main.c` 432-649, 1151-1205 | `cmdSign`, `connectSign`, `peerInSign`, `cmdThreadRunning`, `c1fd`, `c2fd` | `CMD_CHAN` and `CONTROL_CHAN` handlers, `cmdThread`, `controlThread` | `CmdRelay` |
| NAT test | `src/src/server`, `client`, `androidclient` | `port`, `port_flag`, `chang_ip` | rotation, bursts | `NatTest` |
| TURN relay thread | `server/main.c` 292-430, `Include/List.h` | `recvProcessBuf`, `turnSign`, `turnThreadRunning`, the list cursor | `turnThread`, and the handlers that meet it | `TurnRelay` |
| Data transport | both client programs | `lastIndex`, `pauseSign`, back buffer, `recvBuf` | `recvData`, `JEAN_send_*`, `JEAN_recv_*` | `Transport` |
| Stand-alone TURN programs | `src/turn-src` | `Uname`, `Passwd`, `n`, `Verify_*`, `Start_send` | two login threads, two client programs | `TurnServer` |
| Retransmission ring | `Include/ring.h` | `buf_list`, `empty_list` | `reg_buff` | not modelled, see 5 |
| Not to be modelled | `commonkey.h`, `DSet.h`, `stashed-src`, `test-udp`, `test_udp`, `nat_set.sh`, Android UI | - | - | no state of interest, not compiled, or host set-up |

How the parts meet: a master logs in (`V_UAP`), a slave logs in (`V_UAP_S`) and
the server tells each the other's address (`S_IP`, `RESP_M_IP`). The slave then
asks for a connection (`POL_SENT`); the server lets the master probe the slave
(`M_POL_REQ`), then the slave the master (`S_POL_REQ`), and announces a verdict
(`CON_ESTAB`). With a direct path the peers use it, otherwise the TURN thread.
Either way both then open the command channel, a TCP relay on the server. Data
then flows from `JEAN_send` of one program to `recvData` of the other, directly
or through `turnThread`.

What is hard: everything travels over UDP with retries on both sides, so every
request may arrive late, twice or never; the server's dispatching thread itself
waits inside four handlers; the clients read their receive buffer without
looking at `recvfrom`'s result; both programs and the server empty their sockets
in a loop without a count; the registry entry is shared by all slaves; the relay
threads share plain global flags, and the TURN thread even the cursor of its
list walks, with the main thread; and the application reads a buffer whose
length the receiving thread changes beside it.

What makes each part correct: a direct path is only announced after a probe went
through, and only registered peers are introduced (`Session`); one relay thread
at a time, and no request that waits for it for ever (`CmdRelay`, `TurnRelay`);
packets relayed in order and only turned away for a reason (`TurnRelay`);
packets given to the application in order and unharmed (`Transport`); a login
judged by what was sent (`TurnServer`); client and server at the same address
(`NatTest`).

## 2. Modules

* `P2PNet`: the clients, their addresses, datagrams. `msgs` only grows: a
  datagram nobody takes is lost, one taken twice is a duplicate, and order is
  free. Retransmissions therefore add nothing to the state.
* `RendezvousServer`: one action per handler (`MasterLogin` is `V_UAP`,
  `SlaveLogin` is `V_UAP_S` with `Peer_Set_Slave` and the start of `Send_S_IP`,
  ...). `spc` is the `recvfrom` the thread is in; `SendSlaveIP`, `MasterPoles`,
  `SlavePoles` and `Announce` are one pass of a nested loop; `"mclean"` and
  `"sclean"` are the two `clean_rec_buff` of `POL_SENT`, whose end is
  `EmptySocket`. `nodes` is the list; all entries have the one name that is not
  refused, and left alone there is one. A lookup is made with the globals `plist`
  and `node`; while a relay thread runs it may give any entry or none
  (`Lookup`), and `disturbed` records that one did. What follows is the
  handler's: a second entry (`MasterLogin`), the return from `main`
  (`SlaveLogin`), the null entry (`PolSent`). `TurnThreadKills` is the relay
  thread's own death in such a walk. `TurnRelay` has both walks step by step.
* `P2PClient`, `MasterClient`, `SlaveClient`: `cpc[c]` is the `recvfrom` that a
  run of the program is in. A timeout reads again what `Ctl_Rec` holds
  (`Received`); `Stack` is what it may hold at first. `"clean ..."` is a
  `clean_rec_buff`, by what comes after it: a state that a client may stay in
  for ever (what it discards is a copy that the network may still bring, so that
  only its end is a step, `CleanRecBuff`).
* `Session`: the server and all clients; the properties; `SessionInv`.
* `Rendezvous`: the abstract specification of a connection attempt.
  `Session!ImplementsRendezvous` is the refinement: the host is the master of the
  oldest entry, an
  introduction is an address in some master's `slave_sin`, an attempt a
  `POL_SENT` taken, a contact an answered probe, a settlement a
  `connectionStatus`. `polRuns` is a history variable for it.
* `MCSession`, `MCTurn`, `MCTurnServer`: instances, bounds and symmetries.
* `SessionProofs`, `RendezvousProofs`: the proofs about `Session`; the second
  extends the first with the properties of an attempt and the refinement.
* `RelayProofs`, `TurnProofs`, `TransportProofs`, `TurnServerProofs`, `NatProofs`:
  the proofs about the module each is named for. Each begins with its inductive
  invariant.
* `CmdRelay`: one TCP relay. Each access of a relay thread to a shared flag is a
  step; `channel` says whether it is `cmdThread` or `controlThread`, which differ
  in one assignment and in that `MASTER_QUIT` reaches only the first. Threads
  have two slots, so that a second one could be seen. External parts: `accept`
  (`acceptFailed` records one that failed), a `bind` that fails during
  TIME_WAIT, and the kernel's backlog in order of arrival. A `send` to a client
  that has closed raises SIGPIPE, which ends the server (`BrokenPipe`, `Running`).
* `TurnRelay`: `turnThread` and the main thread. `walk[w]` is where a thread is
  in `list_for_each`, whose cursor `plist` and entry `node` are the globals both
  use; `for` is what the main thread walks for, and what it does with the result
  is modelled: it sets the slave of the entry it is given, adds an entry when a
  registered name is missed (up to `PeerSheetLen`), uses a null entry or returns
  from `main` (`GoesWild`). A datagram is received at `at`, the address
  `recvfrom` was given before it blocked. The socket or its bind may fail
  (`BindFails`). `owed` is the ideal queue that the buffer is compared with;
  where the code throws packets away, `intact` is cleared unless it is for one of
  the reasons that `TurnFIFO` names.
* `Transport`: the receiving program. A packet's scan is one step, since only
  `recvData` sees what it works on; every access to `recvBufP` is one of its own.
  `program` chooses between the master's and the slave's locking. A payload in
  `recvBuf` is known by its place in the stream the application is owed, so that
  a copy that is spoilt shows. `lastRead` is -1 until a packet has been appended,
  where the code's `lastIndex` is 0.
* `TurnServer`: the two login threads of the stand-alone relay, statement by
  statement where they touch `n`, `Uname` and `Passwd`, and the client programs'
  reading of the answers. `mem` is one memory that holds `Uname`, `Passwd`,
  `buff` and `buffer` in this order, without gaps, as the binary beside the
  source (`natserver`) has them; a character is the right one for its place in the
  name or the password, a comma, the end of a string, or another. The comma is
  looked for in all of a buffer, `n` is whoever received last, and lengths
  differ, as in the code. `accept` may fail, `recv` may bring nothing, and
  `recv_data` may get no port.
* `NatTest`: the rotation of the server and the bursts of a client; a bind that
  fails ends the server (`up`), a `recvfrom` that fails counts as a datagram.

Definitions whose names end in `_Something` after an action's name
(`Probe_AnyAnswer`) are the same action with a plausible mistake in it. They are
not part of any specification; each shows that a property notices the mistake.

## 3. Runs

All Session runs use model values for clients. `MaxTry` is 10 in the code and 1
or 2 here: it only bounds the passes of retry loops, passes do not depend on
each other (nothing in the network is consumed), and 2 is enough for a pass
that fails, a pass that succeeds later, and running out. `PeerSheetLen` is the
code's 200 where no lookup goes wrong; where one does, which may add an entry, it
is 1 (`session_live`: the list is full) or 2 (`session_connect`, `turn_relay`: a
name gets its second entry, and with that every outcome of a lookup, which is
none, the right entry or another, has happened). `CHECK_DEADLOCK FALSE` everywhere: the client programs end, the NAT
test's client does too, and the servers and `recvData` may die of a memory access.

| run | instance | shows |
|---|---|---|
| `session_connect` | 1 master, 1 slave, `MaxTry` 2, dirty buffers, lookups that a relay thread leads astray | `TypeOK`, `SessionInv`, `P2POnlyIfPunched`, `OneVerdictPerAttempt`, and the refinement of `Rendezvous` |
| `session_crowd` | 2 masters, 2 slaves, one with another name, `MaxTry` 1 | `OneHost`, `MasterIntroduced`, `CrashOnlyAfterQuit` |
| `session_two_slaves` | 1 master, 2 slaves, one behind the master's NAT | `MasterIntroduced`, `RoutablePeers` |
| `session_live` | 1 and 1, `MaxTry` 2, channels and quitting, a relay thread, fairness | `ServerReturns`, `ClientsMoveOn`, `CrashOnlyAfterQuit` |
| `relay` | either channel, 2 masters, 1 slave, failing accepts, fairness | `RelayTypeOK`, `OneRelayThread`, `FlagsAreHeld`, `ControlSpinEnds`, `WaitingPairIsRelayed` |
| `turn_relay` | 1 master, 2 slaves in turn, a list of up to 2, 3 datagrams, room for 3 packets | `TurnTypeOK`, `OneTurnThread`, `TurnFIFO`, `MembersHeard`, `StopsAfterQuit`, `TurnServed` |
| `data` | master or slave, 4 packets, room for 3, reads of 1 to 4 | `DataTypeOK`, `StreamIntact`, `ReadsStayInRoom`, `NoUnseenGap` |
| `turn_server` | 1 master, 2 runs of the slave program, five logins or none | `ServerTypeOK`, `VerdictIsRight`, `NothingIsInvented`, `TransmitsOnlyIfVerified`, `ListensOnlyToMaster`, `PairMeets` |
| `nat_test` | linux or Android client, 3 runs, loss and errors or none | `NatTypeOK`, `LinuxKeepsStep`, `AndroidStalls`, `KeepsTheOrder` |

The constraints of `MCSession` are bounds on how far a run is followed.
`UntilVerdict` stops after a client has taken a verdict (the state that takes
it is checked), in the runs whose properties are about what comes before it;
`BothVerdicts` lets every client take its verdict and stops when one goes on or
the server takes its next request; `OneOpens` lets one client go on to the end
of its run, and stops when a second one takes a verdict; `NoCommands` stops when
a client is past its TURN request (what disturbs lookups is running then, and
the command channel makes none); `VerdictsOrRelay` follows both kinds of run, any
number of attempts as far as their verdicts, or one attempt with a relay thread
beside it, in which no client is at a second try (`FirstTries`); `OneAttempt`
stops after a second `POL_SENT` has been taken; `NoKeepAlive` leaves keep-alives
out, whose only effect on others is their answer, a `GET_REQ`, of which
`session_live` has others. The NAT test's
`Count` is 20 in the code and 2 here: what matters is whether a burst is
the last one at an address.

In the other runs the bounds are these. `turn_relay`: three datagrams give one
that is rejected, one that takes it along and one that comes late, or fill the
buffer; when the list has two entries only two are followed (`Followed`); nothing
bounds the main thread's requests. `data`: four packets, any of
which may arrive again and again, so that the buffers (10 and 5 MB in the code,
3 packets here) fill, and a gap of one or two packets can open, close or stay;
a call may ask for one packet more than the buffer holds, which it survives
unless `recvBufP` has gone below zero (`CopyLen`);
`Wrap` (2^32 in the code) is 16: what matters is that a subtraction below zero
gives a number above `Room`. `turn_server`: a right name
and a right password of one character; a password that is longer, wrong ones, and
a login whose name is longer than the right login is in all. `Size` (10 in the
code) is 5, which is what that one needs; two slave runs give a longer login
before a shorter one in the same buffer.

Several properties say what holds *unless* something happened, and name it:
`disturbed` (`RendezvousServer`), `spoilt`, `clashed` (`Transport`), `raced`,
`met`, `late`, `unbound` (`TurnRelay`), `mixed`, `merged`, `unsaid`
(`TurnServer`), `acceptFailed` (`CmdRelay`), `recvFailed` (`NatTest`). These are
the races and the failures in the code. The properties show that they are the only ones: without one
of them nothing goes wrong, and each history variable is set by the one event
it names.

### Disagreements found

Each is a run in which TLC finds a sentence of the repository violated.

| run | the code says | what happens |
|---|---|---|
| `session_modes` | "Send connection result(%d) to master and slave." (server 1097) | a repeated `POL_SENT` starts a second attempt with another verdict: one peer in P2P, one in TURN |
| `relay_hang` | "Entering cmd thread!" (server 1157) | the main thread waits for ever on `peerInSign` (`CmdSpinEnds`) |
| `data_setaside` | "pause status out!" (client-master 446) | what was set aside is copied behind `recvProcessBufP` (448), which is not raised, and forgotten: it is never scanned |

Seen while modelling, with no run of their own:

* "Node Deleted." (server 940, 945) is printed after every `MASTER_QUIT`, but the
  arguments of the `memcpy` before it (935) are swapped: `del_item` gets an
  empty name and deletes nothing.
* A packet found in the back buffer (client-master 483-491) is acknowledged and
  counted as delivered, but copied to `recvBuf` without raising `recvBufP`: the
  application never reads it. Nothing is ever sent again, so that a lost packet
  stops the stream for good; and a late copy of packet 0 starts it again (471).
  Packet 0 itself is not waited for: `lastIndex` starts at 0, so that when it is
  lost the application's stream begins with packet 1 (465, 477) and nothing
  tells. `NoUnseenGap` excepts packet 0 for both reasons.
* Both copies of what was set aside (448, 490) go behind the end of what the
  buffers hold without a test for room. `Transport` ends in "overrun" there.
* A `TURN_REQ` that comes while `turnThread` waits in `recvfrom` resets
  `recvProcessBufP` but not the address the datagram goes to: an older packet is
  relayed in its place. One that comes when the thread has just left its loop is
  answered, but serves nobody (`late`).
* A packet of an unknown sender stays in the TURN buffer and is relayed with the
  next datagram of a known one.
* The TURN buffer is emptied, whoever's packets are in it, when more than
  `TURN_DATA_SIZE - recv_size` is there (360-364), and when the thread ends.
  When its port cannot be bound (326-330), the request has been answered.
* While the TURN thread runs, a lookup of the main thread can miss a registered
  name, since the walks share `plist` and `node`: `POL_SENT` then dereferences
  null (951-952), `V_UAP` registers a second master under the name (812-814), and
  `V_UAP_S` returns from `main` (875-877). `MembersHeard` and
  `CrashOnlyAfterQuit` show that nothing else makes them do so but a quit or
  another name.
* `clean_rec_buff` (server 281, clients 245 and 255) ends when 100 ms bring
  nothing: steady traffic of anybody holds the dispatching thread, or a client,
  there. In the server `ret` is not initialised, so that it may also do nothing.
* A `send` of a command relay to a client that has closed ends the server (523,
  448): SIGPIPE is not handled.
* In `turn-src`, a 0 is never sent (`strlen` of it): a refused client waits. A
  master whose login failed reads the slave's 1 as "Verify success!". One `recv`
  may take both of a master's bytes, and it then waits for ever (`merged`).
* In `turn-src`, a login shorter than the name of an earlier one in the same
  buffer ends the server: the old comma is found, `n-k-1` is negative and
  `memcpy` gets it (server 103-109, 172-178). So does a client that connects and
  sends nothing. And since `n` is shared, a login that arrives during a parse
  can cut a longer wrong password down to the right one: `NothingIsInvented`
  says what is left of the check.
* A second slave that logs in before the attempt takes the first one's place in
  the node (271), while the master keeps the first one's address (client-master
  688-701): the attempt joins a master and a slave that probe different peers.
* The TURN loop (client-master 740) takes any `GET_REQ` for its answer, a
  heartbeat's (3 in the protocol document) included: a client may go on to the
  command channel before the server has its `TURN_REQ`.
* The spin in `CMD_CHAN` (1160) leaves `cmdSign` at 0: a master's request that
  ends a relay in progress is answered, but the new thread leaves at once, or
  none is created because the old one is still ending (1165).
* `cmdThread` (496) relays the first two connections to each other, two masters
  too.
* The Android client is described as having the linux client's function
  (androidclient/README 1), but sends to one IP: `AndroidStalls`.
* The NAT test's rotation after its first cycle skips (ip1, 61000), which
  `LinuxKeepsStep` says of later runs. The repository's own log,
  `src/src/server/natinfo.log`, shows the same: from the seventh burst of a
  server on, 61000 appears once per cycle (lines 697-771).

### Fairness

`Session!Fairness` is weak fairness of the receives that have a timeout
(`SO_RCVTIMEO` makes them return): the server's nested loops and each client's
timed receives. Nothing is assumed of the network, nor of receives without a
timeout (the dispatch loop, the master's wait for `S_IP`, whose loop starts
again on every timeout, the slave's wait and its TURN loop), nor of
`clean_rec_buff`, which only silence ends. `ServerReturns` and `ClientsMoveOn`
say that those are the only places to stay in: from every loop that counts its
tries the server comes back to its dispatch, unless it is in `clean_rec_buff` for
ever, and so on.
`CmdRelay!RelayFairness` is weak fairness of the threads and of the clients'
`close`, which follows `connect` directly in both `main` functions. Data may
never come: `RecvData` has no fairness, and neither has an `accept` that fails.
`ControlSpinEnds` and `WaitingPairIsRelayed` except runs in which one has: it
leaves `peerInSign` set with nobody connected, and the main thread then waits
for two clients that may never come. `ControlSpinEnds` also excepts the end of
the server by SIGPIPE. `TurnServer!ServerSpec` is weak fairness of
the server's threads, whose waits are `sleep(1)` and sends, and of the master
program once it has something to read; nobody has to log in. `TurnRelay` and
`Transport` state no fairness: their threads wait for datagrams, which may not
come.

## 4. Proofs

Everything here holds for every value of the constants. The assumptions on them
are the named ASSUMEs of the modules (`NetAssumption`, `ServerAssumption`,
`ClientAssumption`, `RelayAssumption`, `TurnAssumption`, `TransportAssumption`,
`TurnServerAssumption`, `NatAssumption`), which say that bounds are positive
numbers, that sets are disjoint and that the names of "nobody" name nobody, and
which TLC evaluates in every run. Two of them say more. `TransportAssumption`:
`Wrap` is greater than `Room + MaxWant` and at least `2 * MaxWant`, as 2^32 is
for `len`, an `int`, and 10 MB. `TurnServerAssumption`: every name and every
password that is sent has a character and fits, with the end of a string behind
it, in an array of `Size`.

| module | theorems | property |
|---|---|---|
| `SessionProofs` | `Invariance` | `SessionInv` |
| | `TypeCorrect`, `DirectPathIsReal` | `TypeOK`, `P2POnlyIfPunched` |
| `RendezvousProofs` | `RendezvousInvariance` | `RendezvousInv` |
| | `HostIsUnique`, `IntroducedBeforeConnecting`, `PeersAreRoutable` | `OneHost`, `MasterIntroduced`, `RoutablePeers` |
| | `CrashIsExcused`, `OneVerdict` | `CrashOnlyAfterQuit`, `OneVerdictPerAttempt` |
| | `Implementation` | `ImplementsRendezvous` |
| `RelayProofs` | `RelayInvariance` | `RelayInv` |
| | `RelayTypeCorrect`, `NeverTwoRelayThreads`, `NoFlagIsOrphaned` | `RelayTypeOK`, `OneRelayThread`, `FlagsAreHeld` |
| `TurnProofs` | `TurnInvariance` | `TurnInv` |
| | `TurnTypeCorrect`, `NeverTwoTurnThreads`, `RelayIsFIFO` | `TurnTypeOK`, `OneTurnThread`, `TurnFIFO` |
| | `MembersAreHeard`, `QuitStopsTheRelay`, `RequestIsServed` | `MembersHeard`, `StopsAfterQuit`, `TurnServed` |
| `TransportProofs` | `DataInvariance` | `DataInv` |
| | `DataTypeCorrect`, `StreamIsIntact`, `ReadsAreInRoom`, `NoGapIsUnseen` | `DataTypeOK`, `StreamIntact`, `ReadsStayInRoom`, `NoUnseenGap` |
| `TurnServerProofs` | `TurnServerInvariance` | `TurnServerInv` |
| | `ServerTypeCorrect`, `AloneIsJudgedRightly`, `VerdictsAreNotInvented` | `ServerTypeOK`, `VerdictIsRight`, `NothingIsInvented` |
| | `NoTransmissionUnverified`, `SlavesListenToMaster` | `TransmitsOnlyIfVerified`, `ListensOnlyToMaster` |
| `NatProofs` | `NatInvariance` | `NatInv` |
| | `NatTypeCorrect`, `LinuxIsHeard`, `AndroidNeverFinishes`, `OrderIsKept` | `NatTypeOK`, `LinuxKeepsStep`, `AndroidStalls`, `KeepsTheOrder` |

None of the properties is inductive, and each module adds what is missing. TLC
has checked every one of these invariants on the instances of the runs of its
module before it was proved.

* `SessionInv`. A client goes P2P on a `CON_ESTAB` of 1, which the server sends
  because of a GRQ 0x0e or 0x10, which a client sends because of a GET_REQ 0x0a,
  which its peer sends because of a POL_REQ. `SessionInv` adds this chain as
  `Caused(p)` for every datagram in `msgs`, the kinds of peer addresses
  (`PeersInv`), and what the server remembers between a report and its verdict
  (`ServerInv`). Since `msgs` only grows, a cause is never lost (`CauseStays`).
* `RendezvousInv`, on top of `SessionInv`. `Told(p)` says what a datagram tells
  of the state it left behind: an `S_IP` goes to, and a `RESP_M_IP` names, the
  master who is the host; after a GET_REQ 8 some master has a peer, after a
  `POL_SENT` some slave; after a verdict an attempt has begun. `At(c)` says what
  a client at a given receive has already been through, `PeerRight(c)` whom it
  holds for its peer, `ListInv` that a list no lookup has disturbed has one entry.
  `Excused` lists what can leave `POL_SENT` without an entry. `AttemptInv`
  ties the verdicts on their way to `poleRes` while the server announces one:
  with it, `OneVerdictPerAttempt` says that the verdicts agree, and not only the
  clients that have read them. The proof goes over the same loops as that of
  `SessionInv` and shows of each step that it keeps the invariant and is a step
  of `Rendezvous` or a stutter (`AbsStep`), so that invariants and refinement
  are proved by one analysis of cases. Most steps send datagrams that tell
  nothing (`Plain`); the others are the logins, the introductions, the answers
  to probes, `POL_SENT` and the verdicts.
* `RelayInv`. `FlagIsThread`: `cmdThreadRunning` is set exactly while a thread
  lives, and all living threads are one (the thread that SIGPIPE kills with the
  server counts as living). Without it, a second thread could end and clear what
  the first still relies on.
* `TurnInv`. While the process lives, `AtPc(pc)` says what the one thread may
  rely on at each of its statements: the bound of `recvProcessBufP` there
  (`BoundAt`), what a quit has left it (`QuitAt`), that a request will be seen
  unless it came late or the port could not be bound (`ServedAt`), and, unless a
  `TURN_REQ` came inside the pass (`raced`), what is in the buffer of what is owed
  (`HandAt`). `Undisturbed`, in `CursorInv`, says where the shared cursor `plist`
  and entry `node` are as long as the two threads' walks have not met (`met`).
  `turnThreadRunning` is written by both threads; `FlagIsThread` holds again.
  The bound of `recvProcessBufP` in `TurnTypeOK` is the buffer's size, which the
  thread's test after a `recvfrom` restores although any `TURN_REQ` may set it
  to 0 before, between or after.
* `DataInv`. `InRoom`: as long as no reset has met a call, `recvBufP` is only
  raised by `recvData` and only lowered by `JEAN_recv`, so that a length either
  has tested or loaded errs on the safe side. `Wrapped`: after a reset has met a
  call, `recvBufP` is in the buffer or within `MaxWant` of 2^32, and then no call
  is past its shift. `Stream`: what `recvBuf`, the call's copy and its register
  hold of what is owed, before (`Whole`) and after the shift (`Shifted`).
  `Gapless`: everything set aside or waiting has arrived, and so has everything
  from the packet read last to `lastIndex`, except perhaps packet 0, for which
  the code does not wait. The first three are about shared variables, the last about
  `recvData`'s own: a step of one thread leaves one half alone (`ScanStays`,
  `BufStays`).
* `TurnServerInv`. `From`: a character that is anywhere in the memory and right
  for a place of the name or the password was sent at that place in some login;
  the copies move characters, whatever `n` and `k` are, and make none. `BuffInv`: a
  comma in the slave thread's buffer is where the name of one of its logins ended,
  and the master's is empty until its only login comes. `Alone(t, l)` says what `n`,
  `k`, `Uname` and `Passwd` hold at each statement of a parse of `l` that no other
  met: either `k` is the end of the name, or it is a comma that a longer login
  left, and then it lies behind `n`, so that the `memcpy` of the password kills
  the server. It gives `VerdictIsRight`; `From` gives `NothingIsInvented`.
  `AnswerInv` relates the bytes under way to the verdicts, for the two properties
  of the client programs.
* `NatInv`. `Position`: the server's three variables together are one of six
  positions. `Together`: while nothing is lost or late, the client is in a burst
  at the server's address and all it sent is taken or queued (`InStep`), or it has
  finished one and the server has moved on (`Ahead`), or it has begun again and
  the server waits at the second address (`Waiting`). `Stalled`: with the Android
  client the server does not get past its second address.

Two lemmas about the community modules' operators were needed and are proved in
`TransportProofs`: `RemoveFirst` returns a sequence of the same elements, one
shorter, and `Max` of two numbers is one of them. The first rests on the
well-foundedness of the numbers (`WellFoundedInduction`).

The proofs reach cases that the runs' bounds do not: `Transport!CopyLen` says what
a call does that asks for more than `recvBuf` holds (if `recvBufP` has wrapped
round it reads beyond the buffer), and no run asks for so much.

Only model-checked: the liveness properties `ServerReturns`, `ClientsMoveOn`,
`ControlSpinEnds`, `WaitingPairIsRelayed` and `PairMeets`, since the prover does
not reason about `WF` and `ENABLED`. The properties of the violation runs are
false.

## 5. What is left out, and the plan

Abstracted in what is modelled: the byte offsets of `recv_str`, user names other
than equal or different, a wrong password with the right name (answered like a
wrong name, without further effect), the common key, and `POL_REQ`'s repetition.
NATs appear only as addresses that can or cannot be reached from a site;
whether a datagram passes a NAT is loss. In `Session` the relay threads are two
flags and what the TURN thread does to the main thread's lookups (any result, or
its own death), and a `CMD_CHAN` request does not wait; `CmdRelay` has that wait.

In `TurnRelay` packets are whole: a datagram holds one packet, `GET`s, which are
skipped byte by byte, are not relayed, and `sendto` is taken to work. In
`Transport` packets are whole too; acknowledgements (`sendGet`), which nobody acts
on, `TEST_LOST`, timeouts of `recvfrom` (which change nothing) and the end of the
connection are left out, and what lies in `recvBuf` behind `recvBufP` is not
kept. In `TurnServer` a login is shorter than the buffer, the write one past the end of
`slave_info` (server 198) is left out, as are the datagrams that
`recv_data` passes on and what the client programs do when the server has died.
`CmdRelay` has of `cmdThread_recv2` only that its `send` may end the server, not
that it may outlive its pair.

Not modelled, and why: `ring.h` (only `reg_buff` is called, by one thread, and
nothing reads the ring: `unreg_buff` is commented out and `getPointerByIndex`
has no caller); the bytes of the relays (every byte goes
from one `recv` to one `send`); `JEAN_close`'s freeing of the buffers after a
fixed wait, which is a matter of time; the key and set headers, the stashed list,
the UDP timing tests and the host set-up, which have no state of interest.

Next:

1. `CmdSpinEnds` and `SetAsideIsKept` are false; what holds instead is worth
   stating and proving: when the main thread may wait for ever, and what of the
   packets set aside does come back.
2. The refinement of an abstract queue by `Transport` (while nothing is spoilt)
   and by `TurnRelay` (while nothing is raced), whose ideal states are there as
   `owed`.
3. The safety half of the liveness arguments: that a nested loop of the server
   and a timed receive of a client only ever count up.
