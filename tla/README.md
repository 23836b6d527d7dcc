# ether_house: a TLA+ verification of the firmware

`ether_house` is an Arduino with an ENC28J60 Ethernet chip. Each board belongs
to one person's house and shows eight houses as eight LEDs. It sniffs the LAN for
frames of its owner's phone; when it hears the phone it lights its own house and
tells a server (`ether_housed`), when it has not heard it for fifteen minutes it
turns the house off and tells the server, and every five minutes it fetches from
the server which houses are lit. Everything below is about `src/client_firmware`.

## 1. Inventory

| component | source | state it keeps | operations |
|---|---|---|---|
| setup and main loop | `client_firmware.ino` | `state`, `target_ip`, `target_mac`, four millisecond timers | `setup`, `loop` |
| API client | `api_client.ino` | `locked` | `get_target_mac`, `get_remote_state`, `api_set_off`, `api_set_on`, their three browser callbacks, `wait_for_tcp`, `find_response` |
| sniffer callback, lights | `sniffer.ino`, `lights.ino` | `sniffer_nested`, LED pins | `packet_sniffer_callback`, `toggle_house`, `sync_leds` |
| probing | `ping_sweep.ino` | none | `ping_sweep`, `ping_target`, `is_ip_local`, `validate_dhcp` |
| saved state | `rw_helpers.ino` | EEPROM | `saveStateToEeprom`, `readStateFromEeprom`, CRC |
| watchdog | `watchdog.ino` | hardware timer | `enable_watchdog`, `reboot`, `reboot_after_delay`, interrupt |
| logging | `syslog.ino`, `printers.ino` | none (but it builds its packet in the shared buffer) | `syslog` |
| TCP client | `ethercard/tcpip.cpp` | `tcp_client_state`, `tcp_fd`, `www_fd`, callbacks, `seqnum`, `tcpclient_src_port_l` | `clientTcpReq`, `browseUrl`, `packetLoop` |
| ARP / next hop | `ethercard/tcpip.cpp` | `waitgwmac`, `has_dns_mac`, `has_dest_mac`, `destmacaddr`, `hisip` | `packetLoop`, `selectAndArpDestAddr`, `forceDestMac`, `setGwIp` |
| sniffer | `ethercard/sniffer.cpp` | `sniffers[1]`, `numSniffers` | `snifferListenForMac`, `snifferProcessPacket` |
| DHCP client | `ethercard/dhcp.cpp` | `dhcpState`, `leaseStart`, `leaseTime`, `currentXid` | `dhcpSetup`, `DhcpStateMachine` |
| DNS client | `ethercard/dns.cpp` | `dnstid_l`, `dnsip` | `dnsLookup` |
| chip driver | `ethercard/enc28j60.cpp` | `gNextPacketPtr`, `Enc28j60Bank`, `broadcast_enabled`; in the chip the receive ring, the selected bank, filters | `initialize`, `packetReceive`, `packetSend`, `enable`/`disableBroadcast`, `-Multicast`, `powerDown`, `powerUp`, `isLinkUp`, `doBIST`, `copyin`, `copyout`, `peekin` |
| packets | `tcpip.cpp`, `dns.cpp` | the packet buffer | `fill_checksum`, `step_seq`, the reply to a ping, `dnsRequest`, `checkForDnsAnswer` |
| Stash, BufferFiller | `ethercard/EtherCard.cpp` | page map, two page buffers, the objects | `create`, `put`, `save`, `open`, `get`, `size`, `release`, `prepare`, `extract`, `cleanup`; `emit_p`. The firmware uses only `emit_p` |
| TCP server | `tcpip.cpp` | `seqnum` and the buffer; no connections | `accept`, `httpServerReply`, `httpServerReplyAck`, `httpServerReply_with_flags`; the firmware calls none of the replies |
| UDP server | `udpserver.cpp` | `listeners` | `udpServerListenOnPort`, `-Pause-`, `-Resume-`, `udpServerHasProcessedPacket`, `makeUdpReply`; not used by the firmware |
| webutil | `webutil.cpp` | none | `findKeyVal`, `urlEncode`, `urlDecode`, `parseIp`, `makeNetStr`; not used by the firmware |

**How they interact.** There is one thread and one 500-byte packet buffer. All
waiting is done by polling `packetLoop(packetReceive())`. `packetLoop` first lets
the DHCP client look at the frame, then the sniffer, then ARP, ICMP, UDP and the
TCP client. The sniffer calls `packet_sniffer_callback`, which may call
`api_set_on`, which polls `packetLoop` again: the program re-enters itself, at
most one level deep (`sniffer_nested`), over the same globals, the same buffer,
the same single TCP client. API calls exclude one another by the boolean
`locked`: a call that finds it set gives up silently.

**What is hard.** (1) the re-entrance: two calls over one lock, and pointers into
the buffer held across nested packet loops; (2) three copies of "this house is
lit" (board, EEPROM, server) updated by different requests that can be lost,
abandoned by a reboot or answered late; (3) reboot as the only error handler:
every time-out, bad lease and stuck state ends in `jmp 0`; (4) a minimal TCP/IP
stack without retransmission; (5) time: a watchdog of eight seconds over waits
of five seconds that nest.

**What makes each part correct.**
Main loop and API client: calls never overlap; the house is turned off only after
real silence; board and server agree when nothing failed, and come to agree again
when something did. EEPROM: a torn write is never taken for data. TCP client: a
request's callback gets that request's answer; the client never gets stuck beyond
the callers' time-out. ARP: a frame for a peer goes to that peer's MAC. DHCP: a
bound board renews in time and never uses an address it was not given. Driver:
the read pointer always frees exactly the packets read, every access reaches the
register it names, the filters stay as they were asked for, and calls end. Stash: no
page in two chains, and what is read is what was put. TCP server: a page arrives whole
and in order though nothing is remembered of a connection. UDP server: a listener
hears what is sent to it. The functions on texts and packets: what one writes the
other reads, checksums verify, the right bytes are found. The hazards of `PROJECT.json` list
these line by line.

## 2. Modules

| module | what it models |
|---|---|
| `OneCall` | abstract: what the API calls promise together, with lock, stack and network forgotten |
| `House` | the firmware's `.ino` files with the server, the phone and the LAN around them |
| `TcpClient` | the TCP client of `tcpip.cpp` as `browseUrl` uses it, the network and the server's TCP |
| `Eeprom` | the bytes `rw_helpers.ino` saves, their CRC, and power loss between two of them |
| `Crc16` | functions: `crc_calc` over avr-libc's `_crc16_update` |
| `Watchdog` | the waits of the firmware in seconds against the eight-second watchdog |
| `DhcpClient` | the state machine of `dhcp.cpp`, `dhcpSetup`, and the server that grants addresses |
| `NextHop` | the ARP part of `packetLoop`, and the MACs by which SYNs, DNS queries and pings leave |
| `Enc28j60` | the chip's receive ring with `packetReceive`, and `packetSend`'s wait |
| `Registers` | the driver's register accesses: banks, filters, sleep, reset, self-test |
| `Stash` | the strings the library keeps in pages of the chip's memory |
| `TcpServer` | `accept` and the replies to an HTTP request, with peers and a bad network |
| `UdpServer` | the UDP listeners and what their callbacks may do |
| `Packets` | functions: checksums, sequence numbers, the reply to a ping |
| `Servers` | `TcpServer` and `UdpServer` on one board, with the functions of `Packets`, `Dns` and `Response` |
| `Dns` | functions: the DNS query and the search through its answer |
| `Response` | functions: the search for an answer's body and status |
| `Texts` | functions: `webutil.cpp`, the formats of `Stash` and `BufferFiller` |
| `MC...` | one per checked module: the instance TLC explores |
| `HouseProofs`, `TcpClientProofs`, `DhcpClientProofs`, `NextHopProofs`, `StashProofs`, `FirmwareProofs` (`Watchdog` and `Eeprom`), `ServersProofs` (with `TcpServer`, `UdpServer`, `Packets`, `Dns`, `Response`), `DriverProofs` (`Enc28j60` and `Registers`) | theorems about the module of that name, proved with TLAPS |

`House` and `TcpClient` look at the API calls from above and from below, and both
are checked to implement `OneCall`: `House` assumes of a call that it is sent,
handled by the server or not, answered or not; `TcpClient` shows that the TCP
client gives it just that over a bad network. `Eeprom` shows what `House` assumes
of a save (all of it, or a CRC that does not match: action `TornSave`). `Watchdog`
shows where `House`'s `Reset` comes from when nobody pulls the plug, and that one
pass of `loop()` is far shorter than the absence timer, which `House`'s
`AbsenceElapses` relies on. `DhcpClient` is where `House`'s `LeaseLost` and
`LeaseBack` come from. `NextHop` answers for `TcpClient`'s gateway: a pending SYN
leaves, and to the right MAC. `Enc28j60` is below them all: what it loses are the
lost frames the others allow, and `Registers` the driver seen one access at a time,
which `Enc28j60` takes as one step. `Packets`, `Dns`, `Response` and `Texts` are what those modules
abstract from: that a segment's numbers are its predecessor's plus a length, that an
answer is good or bad, that a DNS answer gives an address. `Stash`, `TcpServer` and
`UdpServer` stand alone, as they do in the code; `Servers` puts the two on one board,
and `MCServers` checks them together with all the functions.

### How `House` corresponds to the code

The firmware is one thread, so a state is a place in the code plus the globals.
`loc` is the statement of `setup()` or `loop()`; `phase` says whether the API
call made there is in `while (locked)` (`"wait"`) or in `wait_for_tcp`
(`"drain"`). Every packet loop may call the sniffer callback, which may make an
API call of its own; `nested` is that call's phase, and `sniffer_nested`, the
code's own flag, keeps it to one level. An action is the code from one
`packetLoop()` to the next: `MainCall` is a call up to its first poll,
`StateParseCallback` is the callback run by the poll that brings the answer,
`Return` is everything up to the next place that polls.

Data are reduced to what decides: a house is a model value and `state` a set of
them; an address is one of the LAN or not; a frame is IP or ARP with a source
address; an HTTP answer is good or bad. `ptr` remembers where in the shared buffer
the callback's `src_ip` points while nested loops overwrite it, and
`NestedDrainEnds` reads whatever frame is there then: another frame's address,
the board's own (frames are built in the same buffer), or bytes that are no
address. Timers are due or not due whenever they are read.

Faults are an HTTP time-out, a watchdog reset, a power loss (also in the middle
of a save), a bad or foreign answer, a lost lease and a failed `setup()`. Every
reboot keeps EEPROM and LED pins, forgets all else, and leaves a request that was
under way in `late`: the server may still handle it, or never.

### How `TcpClient` corresponds to the code

`tcp_client_state`, `tcp_fd`, `www_fd` and `src_port` are the file's statics. One
action per branch of the TCP part of `packetLoop`, with the result callback as
part of it. What the code compares is modelled, and nothing else is compared: a
segment's session number is the upper three bits of its port, and only the
callback looks at it. `net` holds every segment sent since the last reboot; any of
them may be delivered at any time, again, or never. The server is an ordinary
TCP peer: one request per connection, then it closes; a port that was used in
this run of the board is not opened again by a late SYN; one used before a reboot
may be, or may still be waited out. `Reboot` empties `net`: segments from before a
reboot are assumed not to arrive after it. The answer's test `len_of_data > 12` is
dropped: answers are whole. The gateway's MAC is known. `req`, `given`,
`handled` and `orphans` are history for the properties.

### How `DhcpClient` corresponds to the code

An action per branch of `DhcpStateMachine`; `mode` says who polls it: `dhcpSetup`,
the loops, or, in `reboot_after_delay`, nobody. Time is in ticks, and a tick cannot
pass while a poll, or the watchdog, would act. A message lives `MaxDelay` ticks and
can arrive any number of times in them, in any order. `currentXid` is `millis()`,
and repeats after restarts: it has two values. The client takes any
acknowledgement with its identifier, does not compare the address, and knows no
NAK, as in the code. `leaseTime` is what the offer's last time option said: `Offer`
takes `RenewalTime` (option 58 came last) or the whole `Grant` (option 51 did, or 58,
which the client does not ask for, is missing). The server is external: it keeps one
address for the board while that is granted or spoken of, and may give another
afterwards, whatever the board holds. `granted` is how much of the grant is left; below
0, for how long the board has counted an address as its own without.

### How `NextHop` corresponds to the code

`waitgwmac`, `has_dns_mac`, `has_dest_mac` and the two MACs are the file's statics,
and `EmptyPoll` is the branch `plen == 0` of `packetLoop` in its order: the gateway
is asked for, a pending SYN leaves, the DNS server and the destination are asked
for. `ArpReply` is what the code after that does with a reply, for each of the
three at once. `target_ip` is the phone's host, though it may be any address of the LAN.
`pc` is how far `setup()` has come, and whether an API call or the
loop (sweeps, pings) is running. A MAC is written as its host, so "goes to its next
hop" compares two fields of `sent`. `Syslog` is the broadcast that any place in
`setup`, `loop` and the calls may send.

### How `Enc28j60` corresponds to the code

Bytes are positions in the ring and a frame is where it lies, where the header
says the next one begins, and whether it was written over before it was read.
`ChipReceives` is the chip's rule for room (external); `PacketReceive` computes the
read pointer as the code does, in a signed `int`. `stray` remembers that it once
came out of the ring; what the chip then does to unread frames is left open, and
`FramesIntact` and `NoLeak` speak of runs where it has not happened. A hung
transmission has TXRTS and TXERIF set, and TXERIF stays set, because nothing
clears it.

### How `Registers` corresponds to the code

A call of the driver is the sequence of its register accesses, in the order of the
code, and an access is a step: through `SetBank`, as by `readRegByte` and `writeReg`,
or with `readOp` and `writeOp` alone, in whatever bank is selected. `Enc28j60Bank` is
the driver's belief, `bsel` the chip's choice; soft resets change the one, restarts of
the board the other, plain writes of `ECON1` both. Of the contents only the bits are
kept that a loop or a later call looks at. `SetBank`'s two writes are one step, and so
is each of the waits of `packetSend`; the loops are steps that may repeat. The chip's
events and a restart of the board may come between any two accesses; MAC and PHY
details, and what frames are, are left out. `window`, `overruled` and `multicast` are
history: that DHCP has broadcasts on (`enableBroadcast(true)`) and has not given them
up, that the sketch has switched them off since, and what it last said of multicasts. `MayCall` says what a sketch may ask for:
`initialize` after `doBIST`, and of a sleeping chip only to wake up.

### How `TcpServer` and `UdpServer` correspond to the code

`TcpServer` has an action per branch of `accept`; a sketch answers a request at once
with a page of `parts` parts. Every segment is made of the one in the buffer by
`make_tcphead`, as in the code, and part `k` has the number that `SEQ` has then.
The peers are ordinary TCP clients; what was sent stays in `net` and may arrive at any
time and again. One request is shorter than the eight bytes `accept` asks for.

`UdpServer` has one step for each turn of `udpServerHasProcessedPacket`'s loop. `gPB` is
the datagram the buffer holds; the loop, the pausing and the resuming compare with it. A
callback runs from `CallsListener` to `CallbackReturns`, and in between does any of these
in any order and as often as it likes: it answers or logs (to a port nobody listens on),
each of which replaces `gPB`, it pauses or resumes a port, or listens on another, which
the loop, reading `numListeners` each time, then comes to. The sketch makes the last
three between packets, too. `origin` is the datagram as received, `repeated` that a
callback has answered twice.

### How `Packets`, `Dns`, `Response` and `Texts` correspond to the code

They are functions on sequences of bytes and characters, with the code's lookahead and
its order of comparisons, where loops over a pointer become recursive functions or folds.
Bytes and words keep their width. What lies behind the end of a text or a packet is 0 or
does not matter. `checkForDnsAnswer` is modelled for answers with the query's ID, and
without its first test `plen < 70`. Of `Stash`, `Texts` has what formats need: `StashOf`
is `put` after `put` into pages, `size` is computed as in the code from the count of full
pages and the tail of the last, and `get` moves from page to page. `prepare` begins with
the length of the format and adds the length of each argument; `extract` is the code's
loop, one turn per character of the format or of an argument, from the beginning each
time and counting what lies before `offset` without writing it.

### How `Stash` corresponds to the code

A page is its bytes, with the header, the tail and the link at their offsets, also
where they overlap: the last byte of a full page lies over its tail. `mem` holds the
chip's pages and the two buffers, `LoadW` and `LoadR` are `load(0, ...)` and
`load(1, ...)`. Each call is one step. A sketch creates a stash, puts, saves, and
then gets, puts again, sends (`prepare`, then `extract` and `cleanup` when the
connection is there) or releases it, as those in the repository do. Two calls are
left out. With no free page `put` goes on in page 0; the sketch asks `freeCount`
before that. And `release()` while the stash's first page is in the write buffer
(right after `save`, or after a `put` to a stash of one page) reads the link in the
chip, not the newer one in the buffer, and may free pages of others; `cleanup` and
the example sketches never do that.

### How `Eeprom` corresponds to the code

`image` is the EEPROM, byte by byte; `WriteByte` is one turn of the writing loop,
`PowerLoss` may come between any two. `crc_calc` is a parameter of the module, and
what the code needs of it is three assumptions: `BlankAssumption` (an erased EEPROM
does not pass), `CrcAssumption` (it has 16 bits, and a save passes) and `TearAssumption`
(what a tear leaves of an image passes only if it is all of one save). The run gives it
the real CRC-16 over the real bytes, `Crc16` (`_crc16_update` is avr-libc's, from its
documented polynomial), and TLC evaluates the three for it. The
watchdog cannot interrupt a save, since `cli()` holds its interrupt off.

### How `Watchdog` corresponds to the code

The control skeleton of `House` with a clock: `wd` counts seconds since
`wdt_reset()`, `t` and `nt` those of the main and nested wait, and `Second` passes
only where the code really waits. Everything else may happen at any moment; that
`get_target_mac` reboots as soon as its time is up is not used (`Timeout`).

## 3. What each run checks

| run | shows | bounds | distinct states |
|---|---|---|---|
| `house` | `LockDiscipline`, `NeverDarkButReported`, `OffOnlyAfterSilence`, `RefinesOneCall`, `AwayIsDark`, `HomeIsLit`, `OthersShown` of `House` | 2 houses, 2 faults | 131 296 |
| `toggle`, `target` | a violation each, see section 5 | 1 house, no fault | |
| `torn` | `EepromTypeOK`, `NoTornLoad` of `Eeprom` | 6 states, 4 addresses, one interrupted save between two completed ones | 130 000 |
| `client` | `OneGet`, `AnswerIsOwn`, `RefinesOneCall` of `TcpClient` | 2 requests, 3 SYNs | 105 032 |
| `watchdog` | `BitesOnlyNested`, `PassIsShort`, `NeverBites` of `Watchdog` | the firmware's times; a watchdog of 8 s and one of 64 s | 53 420 |
| `lease` | `HeldIsGranted`, `LeaseRegained` of `DhcpClient` | 2 addresses, times of 1 to 8 ticks | 421 056 |
| `remote` | `ToNextHop`, `SynLeaves` of `NextHop` | 4 hosts of the LAN, server and DNS server there or elsewhere | 494 976 |
| `ring` | `FramesIntact`, `NoLeak`, `SendEnds` of `Enc28j60` | a ring of 12 bytes, frames of 2, 4 and 6, up to 5 unread | 241 830 |
| `registers` | `FilterKept`, `ReachesRegister`, `SleepsQuiet`, `CallsEnd` of `Registers` | 18 calls in any order, 1 restart of the board | 97 755 |
| `pages` | `PagesAccounted`, `GetsNext`, `SendsAll` of `Stash` | 2 stashes, 3 pages, 3 bytes each | 482 312 |
| `servers` | `PageInOrder`, `OneConnection`, `PageArrives` of `TcpServer`, `OwnNotServed` of `UdpServer`, and the functions: `NumbersAddUp`, `DnsAddressFound`, `BodiesFound`, `TextsReadBack`, `FormatsAgree` | 2 peers, pages of 1 to 3 parts, 2 answers to a SYN; 3 listeners; texts of 2 letters, messages of 5 bytes, DNS answers of 3 records; pages of 5 bytes, stashes of up to 8 | 28 046 |

The runs of `House` also check its `TypeOK`; elsewhere a property of the
module begins with it.

What the properties say, briefly (each is stated above its definition):

- `LockDiscipline`: although the code that takes the lock is re-entered, the lock
  is held by exactly the innermost call, and no call of the main thread is ever
  skipped because of it. Only the sniffer's own call ever finds it taken.
- `NeverDarkButReported`: without faults the board never shows its house dark
  while the server has it lit, except during `/off` itself. (The converse fails:
  section 5, `toggle`.)
- `OffOnlyAfterSilence`: `/off` is only ever sent when fifteen minutes of silence
  have passed at that moment, whatever was heard in the last sweep.
- `AwayIsDark`, `HomeIsLit`, `OthersShown`: whatever was lost, board and server
  come to agree with the phone again.
- `AnswerIsOwn`, `OneGet`: a call succeeds only with the answer to its own request,
  and a request is never sent on two connections.
- `NoTornLoad`: a start never loads a mixture of two saves, and finds a completed one.
- `BitesOnlyNested`: the watchdog fires in no wait but those of `setup()` and an
  API call nested in another's `wait_for_tcp`. `NeverBites`: a period longer than each
  wait would be enough, because between two waits the code always resets it; that is
  why the run has a second period, under which the time-outs of `setup()`, dead code
  with the real one, are reached.
- `HeldIsGranted`: an address the DHCP client counts as its own is the one the server
  grants to this board, as long as that grant lasts, though nothing but an identifier
  that repeats is compared. If the offer ended with option 58, it is never used without
  a grant. If the renewal is asked for only when the lease is over, it is: but for no
  longer than `Overdue`, a late acknowledgement (`MaxDelay`), the renewal's time-out, and
  the delay of a reboot that cuts it short. The run reaches each of the three bounds, and
  states in which the server has given the address to somebody else. `LeaseRegained`: no loss leaves the machine waiting for good.
- `ToNextHop`: with one variable for the MACs of three kinds of peers, no frame is
  sent to another's, but one kind of SYN (section 5). `SynLeaves`: a pending SYN
  waits for the gateway's MAC, which is asked for again when a reply is lost, and
  then leaves.
- `FramesIntact`: the chip never writes over what `packetReceive` has yet to read,
  also round the end of the ring; `NoLeak`: reading gives all the room back;
  `SendEnds`: `packetSend`'s loop ends, whatever the transmission before came to.
- `ReachesRegister`: no reset, of the chip or of the board, makes the driver's memory
  of the bank send an access to another register. `FilterKept`: frames for
  the board pass always, multicasts as the sketch said last, and broadcasts, whose one
  bit the sketch and DHCP share, exactly while one of them wants them -- but that the
  sketch's `disableBroadcast()` takes them from DHCP, too (section 5). `SleepsQuiet`: the chip is put to sleep only when nothing is under way and
  nothing new can begin. `CallsEnd`: every wait for the chip ends, but `powerDown`'s for
  a transmission that hangs.
- `PageInOrder`, `OneConnection`: though each copy of a SYN is answered with another
  first number, and each copy of a request with the whole page again, the peer reads
  the page once and in order. `PageArrives`: and all of it, if one copy of everything
  sent arrives.
- `OwnNotServed`: the loop over the listeners goes on over a buffer that callbacks write
  to; a listener is given a frame the board made only if the datagram came from a port
  listened on, or a callback has answered more than once.
- `NumbersAddUp`: checksums verify, those of replies to pings as well, and numbers are
  stepped modulo 2^32, with the exceptions that section 5 names. `DnsAddressFound`,
  `BodiesFound`: the first address of a DNS answer and the body of an HTTP answer are
  found wherever they are. `TextsReadBack`: `findKeyVal` finds the parameter, and
  `urlDecode` and `parseIp` undo `urlEncode` and `makeNetStr`. `FormatsAgree`: a message
  is what its format says (each item carries the text it stands for) and as long as
  `prepare` counted, also when `extract` makes it in two pieces, cut anywhere, and
  though stashes end before, with and behind a page; `emit_p` writes the same. A stash
  with a 0 among its bytes is left out: `extract` takes it for the end.
- `PagesAccounted`: pages are neither shared nor lost, though `release` follows links
  in pages that held other stashes; `GetsNext`, `SendsAll`: of the three copies of a
  page, the newest is the one read.

**Why the bounds are enough.** A second house is only ever copied, so one stands
for seven. Addresses matter only by being local, the board's, the phone's or
neither; the instance has one of each and one in both roles. Two faults allow a
fault during the recovery from another; the theorems of section 4 hold for any
number. In `client`, two requests are one whose segments are late and one they
disturb, and three SYNs leave one for a retry; three requests with three SYNs and
two with four were also explored (0.95 million states each), without an error.
`TcpClient` states are bounded by the requests made, so the model, not the
program, stops: its configurations say `CHECK_DEADLOCK FALSE` for that reason
alone. `MaxReq` is below the eight sessions of `tcp_fd`: that no segment outlives
eight requests (two minutes at least, as each request takes five seconds or more
and the next usually minutes) is an assumption. In `Eeprom`, an interrupted save
is followed by a completed one before the next interruption (`MaxTorn` is 0 or 1, by
assumption): the second of two in a row may complete the image there was before the
first, and a start then finds that older save again, so `NoTornLoad` fails with 2. The
instance is a /24 LAN, where two saves differ in at most two data bytes and the CRC;
nothing says that the CRC tells every tear of every two saves apart, and
`TearAssumption` is checked for the instance. Byte writes are taken as atomic.

In `lease` the times keep the order of the real ones: the watchdog is shorter than
the request's time-out, and a grant whose server names a renewal time just outlasts
the use that may follow it, the age of a late acknowledgement, an unanswered renewal
with its time-out and the delay of a reboot (`DhcpAssumption`); a longer grant only
makes `HeldIsGranted` easier. Of offers without option 58, or with 51 last, nothing is
assumed. In `remote`, `Cycle` (65536 in the code) is 2, one poll that asks and one that
does not, and a lease is renewed at most once during a call: it lasts longer. In
`ring`, frames wrap round the end at every offset a header can have; 14 bytes and 6
unread frames (a million states) were also explored. In `pages`, a stash of three
bytes has a second page, and the third page is free to be linked from what is left
in the others; the links the chip's memory holds at power-on are any. In `registers`
every call has all its accesses; a second restart finds nothing that the first could
not. In `servers`, a peer is disturbed only by what it caused itself, and two show
that; `seqnum` wraps (8 for 256); the functions' bytes are those where carries and signs
change, and they are evaluated in one state (`Once`), as they read no variable.

**Fairness** (`House!FairSpec`). The thread keeps executing and the server keeps
answering: weak fairness of `Device` and `ServerHandles`. Timers fire while the
loop keeps reading them, and a phone at home keeps sending frames: strong fairness
of `SyncDue`, `RebootDue`, hearing and `AbsenceElapses` in `loop()`, because each
is disabled and enabled again as the loop goes round. That the absence timer and
the phone's frames are required at `loc = "top"` only says that they do not
happen each day exactly in the round that ends in the daily reboot. No fairness
is assumed of anything that helps by luck: late requests, other houses, a lease
coming back, faults.

In `DhcpClient` the client's steps, its timers and time itself are weakly fair; the
network is not fair to a message, but what is asked again and again in the present
exchange is at some time answered and the answer received (strong fairness of
`AnswersDiscover`, `AnswersRequest`, `Offer`, `Ack`). In `NextHop` the loops poll, and
a reply of the gateway that is caused again and again is heard. In `Enc28j60` the
driver's loop runs and the chip ends every transmission, well or badly; in `Registers`
likewise, and the chip ends what it began: a frame, a PHY access, a memory test. In
`TcpServer` both sides go on, and one copy of everything sent arrives: without that no
page can be promised, since the board never sends anything again.

## 4. What is proved

The theorems hold for every value of the constants that the named assumptions of the
modules allow; TLC evaluates those in every run. Assumptions beyond them are in the
last column.

| theorem | statement | also assumed |
|---|---|---|
| `HouseProofs!TypedAndLocked`, with its halves `TypeCorrect` and `LockIsDisciplined` | `Spec => [](TypeOK /\ LockDiscipline)` | |
| `HouseProofs!NeverDark` | `Spec => []NeverDarkButReported` | |
| `HouseProofs!OffAfterSilence` | `Spec => OffOnlyAfterSilence` | |
| `HouseProofs!Refinement` | `Spec => RefinesOneCall` | |
| `TcpClientProofs!AnswerOfOwnRequest` | `Spec => []AnswerIsOwn` | |
| `TcpClientProofs!RequestOnOneConnection` | `Spec => []OneGet` | |
| `TcpClientProofs!ClientRefinement` | `Spec => RefinesOneCall` | |
| `DhcpClientProofs!HeldAddressIsGranted` | `Spec => []HeldIsGranted` | |
| `NextHopProofs!FramesToNextHop` | `Spec => []ToNextHop` | |
| `DriverProofs!FramesStayIntact` | `Spec => []FramesIntact` | |
| `DriverProofs!RoomComesBack` | `Spec => []NoLeak` | |
| `DriverProofs!FilterIsKept` | `RegSpec => []FilterKept` | |
| `DriverProofs!RegistersReached` | `RegSpec => ReachesRegister` | |
| `DriverProofs!SleepIsQuiet` | `RegSpec => SleepsQuiet` | |
| `FirmwareProofs!WatchdogBitesOnlyNested` | `Spec => []BitesOnlyNested` | `SweepIsShort`: a sweep and a wait for an answer fit into each period |
| `FirmwareProofs!LongPeriodNeverBites` | `Spec => []NeverBites` | |
| `FirmwareProofs!PassesAreShort` | `Spec => []PassIsShort` | `2 * SWEEP + 10 * HTTP_TIMEOUT < 90` |
| `FirmwareProofs!SavedTypes` | `EepromSpec => []EepromTypeOK` | of `crc_calc` what section 2 says of `Eeprom` |
| `FirmwareProofs!NoTearIsLoaded` | `EepromSpec => NoTornLoad` | the same |
| `StashProofs!PagesStayAccounted` | `Spec => []PagesAccounted` | |
| `StashProofs!GetGoesOn` | `Spec => []GetsNext` | |
| `StashProofs!StashIsSent` | `Spec => []SendsAll` | |
| `ServersProofs!PageIsInOrder` | `Spec => []PageInOrder` | |
| `ServersProofs!ConnectionIsOne` | `Spec => []OneConnection` | |
| `ServersProofs!OwnFrameNotServed` | `UdpSpec => []OwnNotServed` | |
| `ServersProofs!NumbersAlwaysAddUp` | `ServersSpec => []NumbersAddUp` | |
| `ServersProofs!BodiesAreFound` | `ServersSpec => []BodiesFound` | |
| `ServersProofs!AddressesAreFound` | `ServersSpec => []DnsAddressFound` | |

None of these invariants is inductive but `TypeOK /\ LockDiscipline`; each proof
strengthens its own to one that is, in three lemmas: it holds at first, every action
keeps it (a lemma per action or per kind of action), and it implies the property.

*`House`.* The type of `target_ip` needs nothing of the lock, but the lock needs to
know which values `loc` and `phase` have; each action keeps both because a call
starts only with the lock free and only the innermost loop runs callbacks.
For `NeverDarkButReported`, `ServerInv` says what a call under way knows of the
server, in three parts. `OffReady`: at `"off"` before its call, the phone is absent and
the bit is clear. `NestedOn`: during the sniffer's call the bit is set. `InSync`, while
`faults = 0`: no request is orphaned; a synced board that is not in `/off` is dark only
if the server's house is; a handled `/off` left the server dark; and an answer to
`/state` on its way is not older than what the server holds for this house.
`OffOnlyAfterSilence` follows from the same invariants: only `MainCall` at `"off"`
starts an `/off`, and `OffReady` says `absent` there. For `Refinement`, initial states
map to initial states and each action is matched with a step of `OneCall` or with none
(`CallStep`), using `LockDiscipline` to know that a call never starts over another.

*`TcpClient`.* The client compares nothing but a session number that repeats. `Sessions`
says why that is enough: some request `base` was the first since the last restart, and
every request and answer under way has a number that tells which request since `base` it
belongs to, as there are fewer requests than numbers (`BoundsAssumption`, the assumption
that section 3 names). With `Handshake` (as long as a SYN is pending or unanswered, the
request is not sent yet), `Connections` and `Handles` (the server handles a request
while its caller waits, once, or when it has been given up) this gives `AnswerIsOwn`,
`OneGet`, and the refinement: handling is `OneCall`'s `Handle` or `Late`, by `orphans`.

*`DhcpClient`.* The client does not compare the address it is acknowledged, and its
identifier repeats. `LeaseHolds` is a bound on how much of the grant, and of the time
after it, is used up in each state of the machine (`Used`): the age of the lease, then
the wait for a renewal, then the delay of the reboot; and it says that the server keeps
another address for the board only when the grant is over. `MessagesHold` relates what
is in the network to the server: all of it is about the address reserved now, and an
acknowledgement is as old at least as its grant is. `Used` exceeds `leaseTime` by
`Overdue` at most, less `MaxDelay`: with `leaseTime = Grant` that is how long the address
outlives its grant, with `RenewalTime` the sum is below the grant by `DhcpAssumption`.

*`NextHop`.* `destmacaddr` is the DNS server's because nobody can ask for another host
before the query is sent (`DnsFirst`), and a SYN is pending only in a call to the server
(`SynIsCalls`); the order of `setup()` is what keeps three uses of one variable apart.

*`Enc28j60`.* Addresses are compared by how far behind the next frame to be read they are
(`Dist`), which makes the ring a line: the unread frames lie on it in order, each ends
where the next begins, and the last at `erxwrpt` (`FramesHold`). All begin at even
addresses, so the chip's next byte is never the odd one the read pointer guards, and
its count of the room is the true one (`FreeIsFree`).

*`Watchdog`.* `ResetHolds` bounds `wd` by the time spent in the present wait, and, for a
call right after a sweep, in that sweep as well; a nested call adds the outer wait,
which is the one place in `loop()` where the bound is above the period. For
`PassIsShort` the time of the pass is bounded place by place: by the sweeps and answers
that the statements of `loop()` before this one may have waited for (`Before`), the time
in this one, and what a nested call has cost or can still cost (`InNested`,
`StillNested`).

*`TcpServer`.* Every segment under way is one of seven kinds, each with the numbers it
has (`Known`): they are functions of the one number the peer has accepted, because the
board makes every segment of the one it answers. *`UdpServer`.* Unless a callback has
answered twice, the buffer holds the datagram received, or a frame of the board's own
that went to where the datagram came from or to no listener; and a callback that has
not answered yet has at most logged (`OwnFrames`).

*`Registers`.* What the accesses of each call may be is a constant fact (`Sound`): which
of them can change the filter, the sleep bit or the receiver, that one without
`SetBank` follows one to the same bank, and how a reset goes on. `RegInv` says for the
place reached in the call under way that the driver's idea of the bank is the chip's,
but from a reset to the access after it, which needs none or bank 0 (`BanksHold`); that
the filter is as asked for (`Wanted`), but for the call that is changing it, which is
told apart by what it changes (`FilterHolds`); and
what `powerDown` has brought to rest already (`SleepHolds`, `TestHolds`).

*`Stash`.* `StashInv` gives every stash a chain of pages: each links the next, the last
links none, and no page comes twice (`Linked`); the bytes put lie in it in their order
(`Filled`); a saved first page has the count and the ends (`Headed`); `get` is at the
place in it that it has read to (`ReadTo`). No page is in two chains, or in one and free
(`Apart`). The difficulty are the two page buffers: `Buffered` says that the one written
is the last page's, or the first's once saved, and that an old copy is read of none but
the first page, until it is saved. A chain has no page twice, so it is never longer than
there are pages, and the count in one byte does not wrap. That the chain `Chain` finds by
following the links is the one the invariant speaks of is shown without induction: of the
places where they differ there would be a least.

*`Packets`.* The same argument takes the place of induction for its recursive functions;
that such a function exists at all is shown by giving one (`FoldExists`, `SumsExist`).
`fold` is the remainder modulo 2^16 - 1, with 2^16 - 1 in place of 0 for sums above 0
(`FoldIs`): a turn of the loop makes the sum smaller and keeps that remainder. The sum of
a packet with its checksum is the sum without it and the checksum (`FilledSum`), so that
it folds to all ones, whatever the packet and the place (`ChecksumWorks`); for a ping's
reply the six bytes are added up (`EchoReply`). The bytes of `step_seq` are remainders
whose carries cancel (`StepSeqWorks`, for every `rel` that does not wrap, not only the
sampled ones).

*`Dns`.* `FlattenSeq` puts the records where the lengths of those before say (`FlatIs`, by a
least counterexample), so each lies whole behind the query (`LaidInAnswer`), whose length
its own first byte gives (`AnswerBegins`). A name written as servers write it is skipped to
its end (`OwnerEnds`: the only zero of labels is the last, and no label begins like a
pointer), so that a turn of the walk gives the record's address or goes to the next record
(`RecordTurn`); `TooShort` stops it before the end only at the last record (`LastIsShort`),
because a record that follows needs more than it leaves. From the last record backwards,
the walk therefore finds the first address there is (`FirstIsFound`). `DnsAssumption` has
the query's length fit in a byte and labels be shorter than 64, as the protocol has them.

*`Response`.* Of what comes before the body the search rests on three facts (`IsHead`):
where the blank line is, that no two carriage returns stand two apart before it, and that
the only space is the status's. A blank line found is therefore never above the true one
(`BodyIsFound`), and "200 OK", which has a space and no line feed, lies whole in the status
or whole in the body (`Straddles`), where moving it by the length of what is above makes it
one that is found in the body alone (`Shifted`).

*`Eeprom`.* Between saves the image is read as something `mayLoad` holds, and it is intact,
written by one save or erased, if it passes the CRC or no save was cut short
(`SavedHolds`). During a save the bytes before `next` are the new ones, and if none was
cut short before, the others are those of an intact image that read as `kept`
(`SavingHolds`): just what `TearAssumption` speaks of when power is lost, and at the end
of the loop an image that reads as what was saved (`ImageLoads`). After a tear the base is
not intact; that the next save must be completed is where `MaxTorn` is needed.

*Only model-checked*: the liveness properties (fairness and `ENABLED` are outside the
prover): `OthersShown`, `AwayIsDark`, `HomeIsLit`, `LeaseRegained`, `SynLeaves`,
`SendEnds`, `CallsEnd`, `PageArrives`; that the CRC-16 is as `TearAssumption` wants it
(bitwise operators, of which the provers have no theory, and a matter of the data saved);
and `TextsReadBack` and `FormatsAgree`, whose functions are recursions and folds over texts
of any length.

## 5. Where the code and its comments disagree

Two runs end in a violation, each of a comment in the code:

- `toggle`: "we need to let the server know that our state changed"
  (`lights.ino:26`). A toggle made by the sniffer while any API call is under way
  is never reported, because `api_set_on` gives up on a taken lock. The next
  `/state` clears the bit, and only then can the phone's next frame set it again.
- `target`: "Only copy the ip as a target if it is local" (`sniffer.ino:16`).
  `src_ip` is read after the nested call has reused the buffer it points into, so a
  local address of someone else, or the board's own, is stored as the phone's.

The models contain more, and the properties that hold are worded around them. In the
firmware and what it uses:

- HTTP_TIMEOUT "needs to be lower than the 8s watchdog" (`client_firmware.ino:18`). It
  is, but two such waits nest without a reset between; `BitesOnlyNested` names the
  place. And DHCP "Will try 60 secs" (`dhcp.cpp:284`): the watchdog allows eight.
- A late FIN, or the reset of another connection, takes the client out of state 1, and
  the SYN that `browseUrl` asked for never leaves (`tcpip.cpp:829`). The caller reboots
  the board after five seconds instead.
- `validate_dhcp` "checks to make sure that our dhcp lease is still valid"
  (`ping_sweep.ino:64`), but only looks for 0.0.0.0, and the board has an address from
  the moment one is offered; `HeldIsGranted` speaks of `BOUND` and `RENEWING`.
- "option 58 = Renewal Time, 51 = Lease Time" (`dhcp.cpp:240`) go to one variable, and 58
  is not asked for. Where 51 is what is stored, the renewal is asked for when the lease
  is over, so that the address is in use without a grant for as long as it takes to be
  answered, or to give up (`Overdue` in `DhcpClient`).
- `destmacaddr` serves two peers "at different times" (`tcpip.cpp:364`), but to a server
  on the LAN the SYN leaves before the server's MAC is asked for, to whatever MAC the
  variable holds; `ToNextHop` leaves out that SYN.
- "end of RX buffer" (`enc28j60.cpp:237`): for a frame that begins at 0 the read pointer
  is meant to become that end; the comparison is signed, and it becomes 0xFFFF
  (`stray` in `Enc28j60`).
- The waits for the chip's clock, `!x & ESTAT_CLKRDY`, end on any bit of the register
  (`AwaitsClock`); `powerDown` waits for ever for a transmission that hangs.
- `find_response` and `is_200` stop one place early, so an empty body is not found, and
  "200 OK" is looked for in the body, too (`BodyFound`). The answer to a ping whose
  checksum ends with 0xFF loses a carry (`EchoReplyVerifies`). In a DNS answer a name
  of labels that ends with a pointer, or the root, is not skipped as it should be;
  `Owners` are the two forms servers use for one question.

In parts the firmware does not use:

- "Pause listing on UDP port", "port Port to pause" (`EtherCard.h:464`):
  `udpServerPauseListenOnPort` and `-Resume-` compare the listeners with the port in the
  packet buffer and never read their argument. Called before a datagram has come for
  that port they do nothing, and later they may reach another port. `SetListening` does
  what they do; no property says that they do what they are asked.
- A UDP callback that answers twice sends its second answer to the board itself, and a
  further listener on its port is given that frame (`repeated` in `OwnNotServed`).
- `disableBroadcast()` of a sketch switches broadcasts off under a DHCP exchange that
  still waits for them (`enc28j60.cpp:512`); it then gets no broadcast answer
  and starts again (`overruled` in `FilterKept`).
- Requests of fewer than eight bytes are ignored by `accept` (`LongEnough`); a repeated
  request is answered with a page made anew, and a lost answer never again.
- `findKeyVal` finds a key that only ends a longer name, and does not look again at
  the character behind a key without `=`. `urlDecode` reads past a `%` at the end.
- `emit_p`'s `$H` writes `A4`, not "a4" (`EtherCard.h:174`).
- "up to 7 concurrent requests" (`EtherCard.h:344`): there is one connection.

## 6. Not modelled, and why

Logging's texts and printing, the wording of requests, who answers the pings and when,
the contents of ARP and DHCP messages but for times, addresses and identifiers. Of the
chip: SPI transfers, which nothing interrupts, and what MAC and PHY registers mean. Of
`Stash`, formats other than `$H` (they are in `Texts`); `put` with no page left, which
goes on in page 0. `httpPost`, `tcpSend`, `persistTcpConnection`, `ntpRequest`,
`sendWol` and `staticSetup` have no caller in the firmware, and the example sketches are
the vendored library's. `house_models/` are 3D models. The server's source is not in
the repository: it is modelled from the requests the firmware makes.

## 7. Plan

Done so far: the core (`OneCall`, `House`), the modules under it (`TcpClient`,
`Eeprom`, `Crc16`, `Watchdog`, `DhcpClient`, `NextHop`, `Enc28j60`, `Registers`, `Packets`,
`Dns`, `Response`, `Texts`), those beside it (`Stash`, `TcpServer`, `UdpServer`, `Servers`), and the theorems of
section 4.
Next, in order:

1. `PacketBuffer`: one buffer under the nested packet loops; what the outer
   `packetLoop` still reads of a frame after the sniffer's callback has returned.
2. `Probe`: who answers a sweep or a ping, with the timers of `loop()`; a phone that
   answers is found within the sweep interval; the timers' 32 bits.
3. `EtherHouses`: several boards with one server; they come to show the same.

Worth proving next: `TextsReadBack`, for every text and not only the short ones. Its
functions would have to be written as recursive functions on `Nat`, as those of `Packets`,
`Dns` and `Response` are, and the argument by a least counterexample, which replaces
induction there, goes over the length of what is left to read.
