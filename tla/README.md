# A TLA+ model of ezMP

ezMP is a small UDP library for games on Windows. An application creates one
`MPInterfacer`, as a server or as a client, sends `Packet`s through it, and
receives packets in a callback. This directory models what is hard about it: two
threads that share unsynchronised members, datagrams that get lost, repeated and
reordered, a key exchange that races the constructor, and the byte layout both
sides must agree on.

Line numbers below refer to `src/EZMP/`.

## The system

| Component | State | Operations | Hard part |
|---|---|---|---|
| Sending and acknowledgement (`MPInterface.cpp` 262-326, 394-460) | `ACKBuffer`, the global `iError`, each packet's `delivered` | `sendPacket`, `multicastPacket`, the listener's ACK case, ACK replies | the application's thread and `ListenerThread` change the vector and `iError` without a lock; ACKs are matched by number alone |
| `ACKManager` (462-490) | `ACKBufferLength`, `timeSent` | retry and timeout | the loop's bound is never assigned |
| Key exchange (250-260, 363-392, the constructor 95-105) | `privateKey`, `publicKey`, `sharedSecret`, `isServer`, `ServersideEndpoints` | `startHandshake`, `onHandshakeReceive` | the listener runs before the keys and `isServer` are set; old handshakes arrive late |
| Key arithmetic (`MPInterface.h` 64-78) | none | `generateRuledKey` | both sides must reach one number |
| `Packet` (`Packet.cpp`), `recvPacket` (117-218) | data, metadata, `appendedBytes` | `appendData`, `getFullPacket`, `setCompleteData`, `get...AtLocation` | offsets and sizes through encryption and padding |
| `NTPacket` | a `Packet` and an id | `appendVariable`, `get...ByEnumeration` | names and values are paired by position |
| `Encryption`, `aes_ni.h` | none | `aes_encrypt`, `aes_decrypt`, the AES rounds | whole blocks, padding, in place; decryption keys in reverse order |
| Session (`MPInterface.cpp` 192-214, 236-248, 269, 299, 320-326) | `sharedSecret`, `ServersideEndpoints`, a packet's data | encrypted multicast, relays, decryption by endpoint | one secret for all endpoints, encryption in place, the table changes while it is copied |
| Startup, callbacks, destructor (22-115, 220-228) | callbacks, threads, `isServer` | `attachReceiveCallback`, constructor, destructor | callbacks are empty and `isServer` is garbage while the listener already runs |
| `Utils` | none | parsing of the STUN client's output | its last character, missing and extra addresses, numbers that are too large |
| `PortForwardEngine` | COM objects | `UPnPportForward` | every call may fail and leave a NULL pointer, or garbage nobody checks |
| `EZMP::Init` | none | self test of cipher and exchange | runs on one input each |

Interactions: the application calls `sendPacket` and `multicastPacket` from its own
thread, and from inside the receive callback, that is, in the listener's thread
(`README.md` 51-58). The listener sends ACK replies and handshake follow-ups through
the same `sendPacket`. Members and the globals of `MPInterface.cpp` are shared by all
of them.

`Client`, `Server` and `NetworkTable` are empty classes. `PROJECT.json` lists every
component with its status and every hazard with the properties that cover it.

## Modules

| Module | Models | Checked by | Proved in |
|---|---|---|---|
| `AckBuffer` | sending and acknowledgement | `MCAckBuffer` | `AckBufferProofs` |
| `DeliveryPromise` | what the `delivered` flag promises (abstract) | refinement from `AckBuffer` | `AckBufferProofs` |
| `AckManager` (extends `AckBuffer`) | clock, retry, timeout | `MCAckManager` | `AckManagerProofs` |
| `EndpointTable` | adding an endpoint to `ServersideEndpoints` (373-388) | through the next two | `VectorLemmas` |
| `Handshake`, `RuledKey` | key exchange, restarts | `MCHandshake` | `HandshakeProofs` |
| `Session` | keys in use, encrypted multicast, relays | `MCSession` | `SessionProofs` |
| `Startup` (extends the next four) | from `EZMP::Init` to the destructor, with the listener | `MCStartup` | `StartupProofs` |
| `Aes` | one block through `aes_ni.h` | through `Startup` | `SelfTestProofs` |
| `SelfTest` (extends `Aes`, `RuledKey`) | what `Test` asserts | through `Startup` | `SelfTestProofs` |
| `StunOutput` | `getPublicIPAddress`, `getPortTranslation` | through `Startup` | `StartupProofs` |
| `PortForward` | `UPnPportForward` | through `Startup` | `StartupProofs` |
| `PacketLayout` | appending, encrypting, serialising, parsing | through `NTPacket` | `PacketProofs` |
| `NTPacket` (extends `PacketLayout`) | the wrapper and its getters | itself | `PacketProofs` |

`VectorLemmas` holds the lemmas the proofs share: what `push_back` and `erase` leave of a
vector, and induction over loops.

### AckBuffer

`pc[t]` says where thread `t` is: `rest`; before `sendto`; before the test of
`iError` (`check`); before and inside `push_back` (`grow`, `store`); in the loop over
`ACKBuffer` (`sweep`). `todo[t]` holds the sends its call still has to do, so a
multicast is a sequence of sends. Actions and code:

- `Call` is the entry of `sendPacket` or `multicastPacket` in the application's
  thread; `ReceiveData` and `ReceiveHandshake` start the listener's sends (the ACK
  reply, what the callback sends, the follow-up).
- `SendTo` is line 279 or 307, `CheckThrows` and `CheckPasses` are 280-286 or
  308-314. An exception ends the process when the thread is the listener.
- `PushBegin` and `PushEnd` are the two halves of `push_back`. If the vector changed
  in between, C++ gives the outcome no meaning; `RacedPush` lists what the standard
  library's implementation can leave behind and `RaceCrash` stands for the freed
  array. The flag `raced` records it, and properties that such an overlap breaks in
  any program say so.
- `ReceiveAck` and `ReceiveUnspecified` enter the loop of lines 432-440, one
  iteration of which is `SweepStep`, the `i++` after an erase included.
  `ReceiveUnspecified` is `recvPacket`'s `Packet()`, whose type has the value of
  `ACK_RESPONSE`.
- `PeerReceive` is the listener of the other side.

`answered`, `threw`, `raced`, `started`, `wire` and `received` are history
variables or the network; the rest are variables of the code. `wire` and `received`
are sets: a datagram may never arrive, and an ACK may arrive late, repeatedly or
never.

### AckManager

The third thread and the clock beside the two threads of `AckBuffer`, whose actions it
takes over: `TargetedSendTo` and `StampedCheckPasses` add what `sendPacket` writes into the
packet, its target and `timeSent`. `ReadClock` is line 470; an `Iteration` is one pass
through the body of 471-488, with a `sendto` that may fail, an exception that ends the
process, and an index that nothing keeps inside a buffer the listener shrinks. The body is
translated although its bound, `ACKBufferLength`, keeps it from running.

### Handshake

`phase[n]` is how far the constructor has come, `step[n]` where the listener is in
`onHandshakeReceive`, which reads `privateKey` twice and `isServer` once, each in a
step of its own. The network `net` only grows and anything in it can be received at
any time. `Restart` ends a process at any step and starts it again with its next
private key. `isServer` starts as an arbitrary Boolean. The power function is a
constant; the instances use `RuledKey` over the prime 11.

### Session

An exchange is a number, and so is the key the server derives from it, so that a key
tells which handshake it came from. Whether the client derives the same key is the
question of `Handshake`; `Agreeing` is any set of exchanges for which it does, and the
instance has exchanges of both kinds. The server's listener handles a handshake in the
three steps of `onHandshakeReceive`, from before the constructor's last statement on
(`ServerLeavesOut` is the garbage `isServer`), while the application multicasts:
`CallMulticast` and `CopyTable` are the beginning and the end of the copy of
`ServersideEndpoints` (`getConnectedUsers`, or the argument itself), which a
`ServerRegisters` in between makes undefined; `SendNext` is one `sendPacket` of the
loop, which may throw or not whether or not `sendto` took the datagram: the result is tested
in the global `iError`, where the other thread may have put its own. `Relay` is the callback of `README.md` 51-58, in the listener's thread. Data is
known by its layers, the encryptions and decryptions it went through, and two opposite
operations under one key cancel out. `wire` and `uplink` keep every datagram, so each
may be received in any later state; receiving changes nothing but what the callback
gets, which `ReceivedByClient` and `ReceivedByServer` compute.

### Startup and what it extends

`phase` is the statement the application's thread has reached, from `Test` through the
constructor to the finished object; `process` says how the process ended, if it did.
Every system call may fail. An exception leaves the constructor as long as no thread
runs and terminates the process afterwards (`Thrown`), because the thread members'
destructors do. `isServer` starts as any Boolean and is assigned last. The listener
takes packets from `StartThreads` on: `SendACKReply` reads `isServer`, `Dispatch` reads
the callback, which is empty, being assigned, or attached.

- `Aes` is the key schedule and the two chains of ten rounds. The instructions are
  constant operators; `InstructionsAssumption` is what AES-NI promises of them:
  inverse pairs, and an InvMixColumns that distributes over xor. TLC checks the
  assumption for the instance's three-bit blocks.
- `SelfTest` has `aes_encrypt` and `aes_decrypt` block by block, and one side of the
  exchange. `RuledKeys` gives every result of `generateRuledKey`, whose `int` counter
  is compared with a 64-bit number: past the largest `int` the outcome is undefined
  and the model has two of them.
- `StunOutput` reads a text character by character as the two loops do; the marker
  "Mapped address: " is one character of it. `Undefined` and `"undefined"` stand for an
  access outside a string or an array. `Number` is what `std::stoi` makes of digits, or
  throws for: caught for the ports, not for the address. `PortTranslation` takes its `int`s
  modulo 2^16. The reference definitions behind the line say
  what should be found, of the whole text at once.
- `PortForward` has one action per call of `UPnPportForward`; the search for a gateway
  is one action per ping. What goes wrong unchecked ends the process: a list of adapters
  that was never filled or an adapter without an address (`"garbage"`), a COM call through
  NULL (`"null"`), an exception that is no `std::exception` (`"threw"`).

### PacketLayout and NTPacket

A byte is named by what it is the n-th byte of, so reading one back from the wrong
place, or through the wrong layer of encryption, shows. `Overloads` lists the
`appendData` overloads with the size and type each really passes. `sendPacket`
encrypts in place, as line 269 does; the wire is the sequence of datagrams sent, and
any of them may be the next received. The cipher is ideal: a whole cipher block
decrypts to its plain block, anything else to garbage. Sender and receiver have one
key. `NTPacket` adds the enumerations and the lookups; its getters differ only in the
type they ask for and the bytes they read, so there is one operator for them;
`getDoubleAtLocation` reads through its bytes as an address, which is `Undefined`. The
base packet a wrapper hands out (`getBasePacket`) takes plain `appendData` calls too.

## Runs

| Run | Bounds | Shows |
|---|---|---|
| `ack_unicast` | 2 packets of the application's thread, 1 follow-up, numbered 0, 2 and 1, 2 endpoints, fairness | no false mark of a packet with its own number, sweeps that mark what they look for, calls that return, the delivery promise |
| `ack_multicast` | the same packets numbered 0, 1, 1 (the numbers of `startHandshake`, of the follow-up and of the example program), one of them multicast | a mark needs a reception of that number; nothing is forgotten; a sweep takes out at least half of its number |
| `handshake_restart` | 1 client, 2 starts of each process, 2 handshakes, fairness | kept keys are derived from the running process's keys; each client that greets gets a secret |
| `handshake_two` | 2 clients, 1 start of each process, 2 handshakes | one entry per address, others' entries untouched |
| `startup` | server and client, 3-bit blocks, keys 0 to 6 with a largest `int` of 3, outputs of up to 3 lines with a largest `int` of 41 and ports of 5 bits, 3 adapters with 0, 2 and 1 gateways, 2 peers, fairness | the cipher and the exchange invert and agree; addresses and ports are read whole; no COM call goes through NULL, and a true result leaves nothing unreleased; replies and callbacks are right once the object is set up; the constructor ends |
| `session` | 2 clients (symmetric), 2 exchanges of which one agrees, 2 multicasts or relays | each endpoint is tried once; nothing is sent under a secret no exchange has made; a first datagram is readable with its secret; the server reads what was sent under the registered key |
| `packet_receive` | up to 5 `appendData` calls, direct or in pairs through `appendVariable`, 2 enumerations, strings of 3 and 16 bytes, 1 send | variables read back, only padding behind them, getters find the first match, whole |

Three packets, one of them multicast to two, make up to four entries of the buffer,
three of them with one number: the least in which a sweep erases, skips and erases again.
Two threads are all there are; two endpoints show a multicast half done. String
lengths 3 and 16 fall inside and on the border of a cipher block. `BufferLen` is 96
instead of 1024, small enough for the longest packets not to fit. One send is enough:
values appended after it still occur, a second datagram of a plain packet is built
like the first, and of an encrypted packet only the first is asked about. Two starts
make one old set of keys. Two exchanges are one for each client, or a repeated one of a
single client; two multicasts are a first one and a repetition of its packet, or one of
the application next to a relay. Keys 0 to 6 lie on both sides of the largest `int`. The
outputs of three lines hold no, one, two and three ports, with and without a newline at
the end, ports that fit, that 5 bits cut and that are no `int`, and addresses with a part
missing, one too many, a sign or a part that is no `int`.

Runs that show a disagreement between the code and what its comments say:

| Run | What happens |
|---|---|
| `ack_late` | 288: an ACK that is handled before `push_back` is lost |
| `ack_failed` | 308: the test reads the result of the other thread's `sendto`, and a failed send goes on to `ACKBuffer` |
| `handshake_agreement` | 369: the arguments are swapped, so the two secrets differ |
| `manager_overdue` | 471: nothing is retried or timed out |
| `packet_double` | `Packet.cpp` 122: a double gets the size 2 and no type, and its getter never finds it |

`DeliveredWasReceived` and `KeepsPromise` are about the packets with a number of their own:
no other packet has it, and it is not 0. The rest of the buffer may have any numbers. The
library's own packets do not all qualify: `HolePunch` (232) and `startHandshake` (252) both
wait on number 0, each follow-up has 1, and a failed `recvfrom` yields `Packet()`, which the
listener takes for an ACK of number 0. For repeated numbers `ack_multicast` checks the
weaker `DeliveredNumberWasReceived`, which excepts number 0. For the same reason one
endpoint's ACK marks a multicast packet delivered for all.

The loop's `i++` follows the erase of line 437, so the second of two neighbouring entries
with the ACK's number stays in the buffer. `SweepTakesHalf` says how much can stay: behind
the loop index no more entries of the number than the sweep has taken out, whatever the
other thread pushes meanwhile. So the second ACK of a number finds what the first one
skipped, and as many ACKs as entries empty the buffer of them.

`iError` is one global: the value `sendPacket` tests at 280 or 308 may be the result of the
other thread's `sendto`. `ack_failed` shows it; `NothingForgotten` and `EachEndpointOnce`
say what holds in spite of it.

299 encrypts a multicast packet in place for every endpoint, each time under the secret of
the handshake the server handled last. What can be said for it: that secret is one an
answered exchange has made (`EncryptedAfterExchange`; the initial 0 is never used, since the
table is empty as long as it is there, also when `isServer` was garbage during a handshake),
and the first datagram is readable by an endpoint that has it (`LatestReads`). That the other
datagrams are not is a defect no comment denies, and no property states it.
`EachEndpointOnce` excepts a copy of the table that overlaps with a handshake, which the
model marks as `raced`.

`Agreement` leaves out restarts and the secrets that a `privateKey` of 0 yields, so the
run shows the swapped arguments and no accident of startup: where the first power is
g^a, the answer is b^g and not g^b.

### Fairness

`ack_unicast` assumes weak fairness of each thread inside the library: `sendto` returns,
the operating system schedules both threads, and no lock exists that one could hold.
Nothing is assumed of the network, the peer or the application, so no property says
that an ACK arrives. `manager_overdue` assumes that the `ACKManager` thread runs and
that the clock goes on, which makes the missing retry a fault of the loop and not of
scheduling. The clock is bounded; the property only asks about times the bound
reaches. `handshake_restart` assumes that a process's two threads run and, as strong
fairness, that a listener that keeps coming back to `recvfrom` is at some time given one
of the handshakes of each client and one of the follow-ups: without a retry in the code
nothing less brings a secret, and `SecretArrives` shows that nothing more is needed.
`startup` assumes that the application's thread is scheduled and that the programs and
system calls it waits for return.

Deadlock is checked in every run but `startup`, where the process may end.

## Proofs

Every safety invariant and action property of the passing runs, and the refinement, is
proved as well, for every value of the constants that satisfies the assumptions next to
them. `PROJECT.json` lists the theorems. In each module the invariants follow from one
inductive invariant, with a lemma that `Init` establishes it and lemmas that each action
keeps it.

The assumptions, which TLC evaluates on the instances, give the constants their C++
types and little else: bounds are numbers, packets have numbers and lists of endpoints
(`PacketsAssumption`), keys are closed under `generateRuledKey` and there is one private key for each start
(`KeysAssumption`), exchanges are among those counted (`SessionAssumption`), the tests are
texts of blocks and keys (`SelfTestAssumption`), outputs are texts in which no digit is a
colon, a dot, a blank, a newline or the marker and stands for a number up to 9
(`StartupAssumption`, `StunAssumption`),
enumerations are 16 bits wide (`EnumerationAssumption`), cipher blocks are not empty and a
packet has at least one value (`PacketAssumption`). `InstructionsAssumption` is what AES-NI
promises of its instructions.

### AckBufferProofs

- `TypeCorrect`: the type invariant, by itself inductive. It includes that a thread
  inside `push_back` has an awaitable packet at the head of its `todo`.
- `DeliveredNumber`: `DeliveredNumberWasReceived`. A mark is set in the middle of a
  sweep, from the number the sweep remembers, so the inductive invariant adds
  `SweepJustified`: that number is 0 or the number of a packet some endpoint received.
- `Delivered`: for a packet with a number of its own it follows that the packet itself was
  received.
- `SweepAlwaysTakesHalf`: `SweepTakesHalf`, for any numbers and destinations. An erase moves
  one entry into the place the loop leaves, so that at most one is added to what was left
  behind, and `taken` grows with it. A place the loop has passed and the buffer has lost counts as
  left behind, so a push into it changes nothing.
- `NothingIsForgotten`: `NothingForgotten`, whose disjuncts follow a packet from
  `sendto` to `delivered`; the proof has one step per action.
- `Implements`: `AckBuffer` implements `DeliveryPromise` for the packets with a number of
  their own: each step sends one of them, lets one reach a peer, confirms one that has been
  reached, or stutters.

### AckManagerProofs

- `ManagerChangesNothing`: `ManagedSpec` implements `AckBuffer`'s `Spec`. The loop index
  starts at 1 and the bound is 0, so no iteration is enabled (`NoIteration`), and the other
  actions are those of `AckBuffer` or leave its variables alone. This is what lets
  `AckBuffer` leave the third thread out.
- `StillNothingForgotten`: so `NothingForgotten` holds beside it, too. Each other theorem
  about `AckBuffer`'s `Spec` carries over in the same way.

### HandshakeProofs

- `OneEntryPerAddress`: `EndpointsUnique`, from lemmas on `Registered`.
- `KeysAreDerived`: `EndpointKeysAreDerived`. Between the derivation and the
  registration the secret waits in `sharedSecret`; the invariant says that it then
  belongs to the handshake being handled, and that `privateKey` is 0 or the key of
  this start.
- `OthersKeep`: the action property `OthersKeepTheirEntry`.

### SessionProofs

`UplinkAlwaysReads`, `EachEndpointAlwaysOnce`, `AlwaysEncryptedAfterExchange` and
`LatestAlwaysReads`, from one invariant of six parts:

- `TypeInv` ties `handling` and `send` to what they are about: a handshake that was begun,
  a multicast of the thread's own, nothing sent while the table is copied.
- `TableInv`: addresses in the table differ, and its keys are the last ones registered.
  `UplinkReads` needs it to find the sender's entry.
- `SecretsInv`: `sharedSecret` is 0 or of an answered exchange, and before the server's first
  secret there is nobody to multicast to, in the table or in a group. This is
  `EncryptedAfterExchange`.
- `GroupInv`: the endpoints of a multicast are the table at the call, unless the copy raced
  with a handshake. `ProgressInv`: each position up to the thread's has its one datagram or
  its failed send, and not both. `EachEndpointOnce` needs both, and that addresses differ.
- `LayersInv`: a packet that is multicast for the first time has no layer before its first
  `sendPacket`, and one after it, under the secret of that moment.

### SelfTestProofs

- `DecryptInverts`: `aes128_dec` undoes `aes128_enc` under the keys of `LoadKey`. One
  round is undone by `RoundInverts`: InvMixColumns is linear, so the transformed round
  key cancels. The proof goes inwards round by round from the last encryption round.
- `CipherRoundTrip`: the same under the key schedule of every key, for texts of any length.
- `PowersCommute` and `BothSidesAgree`: (g^a)^b = (g^b)^a modulo the prime, for the loop of
  `generateRuledKey`: the loop is the power, the power of a product is the product of the
  powers, each an induction over the loop.

### StartupProofs

One theorem for each invariant of `startup`. `TestsInv` follows from `SelfTestProofs`;
`UPnPInv` says which COM objects are held at each call; `ReturnedInv` and `AttachedInv` say
what a packet received after the return or after an attachment finds when it is handled.
The two readers of STUN outputs are proved about all texts, digit values, largest `int`s and port widths:

- `MappedAddressAlwaysRead`: from a text with a mapped address every dot and the colon are
  found, so `stoi` has four numbers in its range.
- `AlwaysForwardsThroughObjects`: `UPnPInv` follows the pointers: `mappingCollection` is set
  only through `nat`, `staticMapping` only through `mappingCollection`.
- `PortsAlwaysOfTheAddresses`: the loop's invariant `ReadingAt` says, between the two
  separators a and b and after b, that what was read is a piece of the text behind the
  separator that either reaches the present character or stops at a newline. `Whole` is
  what remains of it at the end; `SameDigits` says that `stoi` reads the same number from
  such a piece and from the rest of the text.

### PacketProofs

`VariablesAlwaysReadBack`, `PaddingOnly` and `GettersAlwaysFindTheFirst`, for all lengths of
strings, block lengths, enumerations and orders of calls, and any number of sends.

- `AppendedInv`: the packet is built of the values one after the other, `ChunkSize` bytes
  of metadata for each. Its data counts only while it has not been encrypted.
- `NamesInv`: what carries an enumeration has the type `PACKET_VARIABLE_NAME`, and nothing
  else is looked at by a getter.
- `WireInv`: each datagram carries the first m values, through the cipher at most once if
  it is the first one or plain. `IncomingInv`: so does what was received.
- The cipher's round trip, `DecryptPads`, goes through the division of a position by the
  block length: a byte is in the block and at the place it was put, and a last, shorter
  block comes back with zeros. Data is typed as a vector over some set, because cipher
  bytes nest the bytes they encrypt.

### Limits

Model-checked only: the liveness properties (`SweepDelivers`, `CallReturns`,
`SecretArrives`, `ConstructorEnds`), which are beyond the proof system here. The five runs
that show disagreements are counterexamples and have nothing to prove.

The library's induction theorems take an operator as a parameter, which the provers cannot
instantiate. `VectorLemmas` has induction in a form they can use: `Induction` is about a set
that contains 0 and with each number the next one, and `Iterates` says that the function a
loop defines exists, its step being a function too. Both come from the well-foundedness of
the less-than relation.

## Not modelled

- Several `MPInterfacer` objects in one process, which share the globals of
  `MPInterface.cpp`.
- What the destructor would do after `std::terminate`, and changes of the callbacks
  after they were attached.
- Lifetimes: `ACKBuffer` holds raw pointers, and the example program's callback
  (`README.md` 57) hands over the address of its parameter.
- The values of keys: `generatePrivateKey` and `generatePublicKey` are constants, being
  hashes of the clock and the password.
- The overflow of the 64-bit product in `generateRuledKey`, which its 32-bit
  base and prime exclude.
- AES's S-box and field arithmetic (the processor's), Crypto++ (`Encryption.cpp` 2-44,
  which `CommonDefinitions.h` 41 leaves out of the build), the STUN client.
- `getIPFromString` and the other conversions of `Utils`: the address arrays they fill
  never reach their callers, the pointer being overwritten by `malloc` (94, 126), so
  what is sent and compared is made of uninitialised bytes or comes from the socket.
- `UPnPRemoveMapping`: nothing calls it, it tests none of its pointers, and it calls
  `Release` through a NULL one on every path.
- `NTPacket(Packet*)` for a packet of another type, which leaves its members
  uninitialised.
- The empty classes, the example program, the build files.

## Plan

Every safety property of the runs is proved. What would say more:

1. `AckBuffer`: the safety half of `SweepDelivers`, an action property: a packet ahead of
   the loop index stays ahead, or is marked, or a data race has happened.
2. `Session`: a `sendto` and the test of `iError` in steps of their own, as in `AckBuffer`, so
   that a datagram is only lost without an exception when the other thread did send.
3. `Handshake`: which power each secret is, so that the disagreement of
   `handshake_agreement` is stated for all keys.
4. `PacketLayout`: appending to a packet between two sends of it.
