# drcom: a verification development

drcom is a client for the Dr.COM campus network authentication, packaged for
OpenWrt with a LuCI page. This directory holds TLA+ models of it, the TLC
configurations that check them on small instances, and theorems about them
checked by TLAPS. Line references such as `auth.c:741` are to
`src/drcom/src/`; `init.d` is `src/drcom/files/etc/init.d/drcom`,
`drcom.lua` is `src/drcom/files/usr/lib/lua/luci/controller/drcom.lua` and
`form.htm` is `src/drcom/files/usr/lib/lua/luci/view/drcom/form.htm`.

## The system

The program is one thread. `main` reads its options, perhaps becomes a daemon,
reads the configuration, perhaps logs in over 802.1X on the first interface
that works, and then stays in `dogcom`, which keeps a session with the
authentication server over UDP until it gives up.

On the router procd runs it as a service. The init script frees the port the
client binds and registers it; a LuCI page shows the service's state, edits its
configuration and runs the script, through a controller that builds the state
from the script's state file, procd, the log and the process list.

| component | state it keeps | operations | talks to | hard about it | correct when |
|---|---|---|---|---|---|
| dhcp client (`auth.c:732-799`, `keepalive.c:21-169`) | attempts, failed logins in a row, template, retry delay, missed heartbeats, seed, auth information | challenge, login, heartbeat, pause, give up | socket, retry policy, keepalive_2 | replies carry no number the client looks at and nothing drains the socket: loss, delay, duplication and notices can make it read the answer to another request | it acts on the answer to its request; the pause is the one the last verdict asks for; sessions end after six missed heartbeats and not before; attempts are used up exactly |
| pppoe client (`auth.c:800-846`) | failed challenges, first-login flag, seed, sip | challenge, login, heartbeat every round | socket, keepalive_2 | all accepted replies start with the same byte | as above, and it ends when the failed challenges are used up |
| keepalive_2 (`keepalive.c:244-404`) | `*first`, packet counter | file packet, packets A and C | socket | a stray datagram fails a beat | each packet follows the answer to the one before |
| retry policy (`retry_policy.c`) | none | four functions | - | boundaries | - |
| cooldown text (`auth.c:106-143`) | loop variables | scan a rejection for "N s" | dhcp login | cap, boundaries, several numbers | returns the first number of seconds, if it is sane |
| socket and network | receive buffer, datagrams under way | answer, notice, loss | both clients | external | - |
| 802.1X client (`eapol.c`) | global send and receive buffers, tries, time | logoff, start, identity, digest; heartbeat process with a pid file | raw socket, authenticator | blocking reads, a receive buffer other traffic overwrites, answers to earlier requests | the verdict is that of this login |
| program start (`main.c`) | options, paths, working directory | parse, order of the steps | all | failure half way; a daemon leaves the directory its paths are relative to | it logs in with what it was told, from the files it was told, after 802.1X if asked |
| daemon (`daemon.c`) | pid file, lock | fork twice, lock, write, remove on SIGTERM | other instances | races on the file | one instance, whose pid the file names |
| configuration (`configparse.c`) | `drcom_config` | parse lines by mode | main, read again by LuCI | partial configuration after an error; quotes, prefixes, full buffers | all or nothing is used, and it is what the page shows |
| interfaces (`libs/common.c`) | - | list interfaces | main | bound of the list | - |
| service script (`init.d`) | port state file | free the port, start, stop, restart | procd, ss, netstat, LuCI | kills its own running instance while procd respawns it; other holders of the port come and go | a start leads to a client that has the port; the state file tells what came of it |
| LuCI controller (`drcom.lua`) | snapshot cache | status, logs, service action, save and restart | service script, files | cache age by wall clock, concurrent requests that save and restart | the client runs with what was saved; a snapshot gets old |
| LuCI page (`form.htm`) | last status and logs, timers, busy flag | poll, post, change language, hide | controller | timers, answers and actions in any order; answers out of order | refreshing goes on, and the page comes to show the state |
| digests, packaging, tests | - | - | - | - | - |

The hazards, each at its line with the properties that cover it, are listed in
`PROJECT.json`.

## Modules

| module | what it is | models |
|---|---|---|
| `RetryPolicy` | constants and operators | `retry_policy.c` |
| `UdpChannel` | variables `net`, `queue`, `calm`, `sync` and the ways to use a socket | the socket as `auth.c` and `keepalive.c` use it, the network, the server (external) |
| `Keepalive2` | `UdpChannel` plus `pc`, `first`; actions with the caller's continuation as a parameter | `keepalive_2` |
| `DhcpClient` | `Keepalive2` plus the dhcp loop | `dogcom` in dhcp mode, `dhcp_challenge`, `dhcp_login`, `keepalive_1` |
| `AuthSession` | abstract specification of a session | what `dogcom` promises, without sockets |
| `PppoeClient` | `Keepalive2` plus the pppoe loop | `dogcom` in pppoe mode, `pppoe_challenge`, `pppoe_login` |
| `RetryAfter` | the scan, one step per turn of the loop | `extract_retry_after_seconds` |
| `EapLogin` | client, link and authenticator | `eaplogin`, the three filters, the responses |
| `EapDaemon` | heartbeat processes, pid file, authenticator | `eap_daemon`, `eap_keep_alive` |
| `DaemonPid` | processes, pid file, signals | `daemonise`, `signal_handler`, `kill_daemon`, what `main` does after them |
| `ConfigParse` | constants and operators on a line | `read_d_config`, `read_p_config` and what they call; `parse_config` of `drcom.lua` |
| `MainBoot` | `ConfigParse` plus the steps of the start | `main`, `config_parse`, `try_smart_eaplogin`, `getall_ifs` |
| `Service` | LuCI requests, script, procd, processes, port | `init.d`; saving and service actions of `drcom.lua` |
| `Panel` | page and controller processes | the script of `form.htm`; `build_snapshot`, `status_json`, `logs_json`, `service_action` |
| `UdpChannel_proofs`, `DhcpClient_proofs` (with `RetryAfter`), `PppoeClient_proofs`, `EapDaemon_proofs` (with `EapLogin`), `DaemonPid_proofs`, `MainBoot_proofs`, `Service_proofs`, `Panel_proofs` | theorems | - |
| `MCDhcpClient`, `MCPppoeClient`, `MCRetryAfter`, `MCEapDaemon`, `MCDaemonPid`, `MCMainBoot`, `MCService`, `MCPanel` | values for TLC | - |

### How the clients correspond to the code

`pc` is the place the one thread is blocked in: a `recvfrom`, named after the
kind of the request sent last, or a sleep (`boot` for the grace period after
the router starts, `pause` for the retry delay, `idle` between heartbeats,
`notice` for the extra `recvfrom` after a login). An action is everything the
thread does from one such place to the next, so a login that is rejected sets
the delay, counts the failure and goes to sleep in one action
(`LoginRejected`), and a missed heartbeat counts, decides and either sends the
next one or begins the pause (`Keepalive1Fails`). The pauses of 0.2 s between
a reply and the next request are part of such an action: a datagram that comes
then is in the buffer before the next read just as if it had come before the
last one.

`keepalive_2` is written once. Its actions take the request its caller sends
when it fails and the place its caller goes to when it succeeds:
`Keepalive2Fails("ka1")` in dhcp mode, `Keepalive2Fails("challenge")` in pppoe
mode.

Packet contents are left out, but for what the code branches on: the first
byte of a reply, for 0x07 also the third, and for a rejection its code, its
length and its cooldown. What a request is computed from is kept as the
question whose seed it is: `seed_current` and `auth_current` say that the
bytes were copied from the answer to the last challenge and login. The packet
counters (`keepalive_counter`, `pppoe_counter`) number packets the client
never compares with anything. `login_failed_attempts` meets only `> 2` and
`% 2`, so above 3 it moves between two values of the right parity.

### The network

`net` holds requests the server may still answer and `queue` the receive
buffer. A message is `fresh` while it belongs to the request the client is
waiting on; sending again or giving up makes it stale. No action of a client
reads the bit: it exists to state properties. `sync` says that so far nothing
came that the client does not expect: no stale answer, and no notice but where
the code waits for one. Answers may come late, twice, out of order or never;
notices may come at any time. `BecomeCalm` starts a network and server that
answer every request at once with the answer the client hopes for, and lose
nothing; it is what the recovery properties are about.

### The 802.1X login

The filters loop over `recvfrom` on a raw socket without a timeout and look at
the clock between two frames. `waited` is the time since a filter began, a
`Tick` may happen whenever the client waits, and `ReadFrame` is one turn of
the loop with everything that follows from it: the frame matches, is a
refusal, is ignored, or is the one after which time is found to be up, in
which case the request is sent again, built from that frame. The
authenticator keeps one attempt at a time; it and the other traffic are
external.

A response takes its id from the frame read last, byte 19 of whatever that is
(`eapol.c:233, 244`). A frame of other traffic (`NoiseFrames`) therefore has any byte
there: that of a request of this login, the logoff's, or one of no request
(`NoId`, which stands for all the rest). So a response sent again can have the
attempt's id over a digest of no challenge, and the authenticator refuses it;
`judged` is history and says whose challenge the digest was of that it decided
on. `VerdictIsOfThisLogin` says that this is the only way to a refusal of a good
account, and that it takes a response sent again: `eaplogin` then returns 4 and
reports a wrong password.

### The 802.1X heartbeat

`EapDaemon` begins where `eaplogin` has succeeded: it forks, and the child is
the heartbeat process. `proc` says how far each child is in `eap_daemon`: its
five starting places are the calls that touch the pid file, in the order of
the code, and two children may be at any of them together. The file is kept as
the characters it holds, since a child writes its pid from the start of the
file over whatever is there. What else is in it when two pids overlap is the
pid of some other program. `since` is `stime` seen from now. The loop of
`eap_keep_alive` has no exit, so the -1 that `eap_daemon` would write after it
is never written. The authenticator, its clock and its patience, the death of
processes and the reuse of pids are external.

### The daemon

`DaemonPid` tells the name `/tmp/dogcom.pid` from the files that were behind
it: `opened[p]` is the file process `p` opened, `name` the one a process would
open now, and they part when the SIGTERM handler removes the name. `locker`
is the state of `lockf`. The handler takes two steps, since its `close` gives
up the lock before its `remove` takes away the name. `text` is kept as
characters, because the file is opened without truncation and a shorter pid
leaves the end of a longer one. A process that fails later, in
`config_parse` or after, leaves the file as it is.

`hasty` records that a SIGTERM was handled while some process was between
`open` and `lockf`, or that one was started during the handler. The
properties make an exception for it, and have to: the handler is set before
the file is opened and removes the name without looking who holds the lock,
so a second instance that is terminated at once takes away the name of the
first, and a third one can then lock a new file beside it.

### Start and configuration

`MainBoot` is `main` from the first option to the return of `dogcom`, one
action for each option, each line of the configuration and each interface.
What the steps do inside is in the other modules: `Daemonise` is all of
`DaemonPid`, a call of `eaplogin` all of `EapLogin`, `DogcomReturns` all of the
udp clients. `ConfigParse` is what becomes of one line. Values are sequences
of characters, because quotes, the prefix of a mac and the NUL that must fit
are the points where the code can go wrong; blanks and case are not kept.

A path is a sequence of names and stands for a place that depends on the
working directory, which `daemonise` changes. `DuplicatePathValue` is
`realpath` with its fallback. The fields of `config` that `memset` spares
(`Globals`) are variables of their own in the code: options set them before
the file is read. `given` and `lines` are history. Memory is C's: the field a
text was too long for has been filled all the same (`AfterError`).

### The service

`Service` composes four parties. A LuCI request saves (`Truncate`, `Write`) and
runs the script; `step` is where the script is, one place for each look at the
port and each signal; procd starts what is registered (`Spawn`); and a
process reads the configuration, binds the port or ends. Other programs may
take the port: one ignores TERM, one is not told by `ss` and `netstat`. Of
procd the model assumes what its interface is built on: `procd_lock` of
rc.common lets one script of the service run at a time; a `start` that opens
no instance leaves the service without one, so its process is ended; `stop`
takes the instance away after `stop_service`; an instance is started again
when it ends, until procd gives it up as a crash loop; opening an instance
that runs restarts it when a file it depends on has changed.

Each request that saves has a text of its own (`text`), and two may write the
file at once: one `open` empties it under the other, and each writes from the
start (`Store`). A file is the set of the texts of which it holds something: none
between `open` and write, one, or more when a shorter one lies over the end of
a longer one. Who wrote last need not be who asked last, and two saves may
leave the file `Mixed` for good. A client that reads a mixed file may find a line it does
not understand and end. `RunsWhatIsSaved` compares what a client has read
with what is in the file, so a client with one text and a file with the other
violate it.

### The page

`Panel` numbers the states of the service; a snapshot is the number it was
built from. Each controller process has its own cache (`full`, `age`), since a
Lua module lives as long as its process, and `age` is the wall clock's view: it
falls when the clock is set back. A build begins when the state is looked at
and ends when it is stored, and requests, changes and ticks come between. A
request may fail meanwhile; the process goes on building, for nobody, and keeps
the snapshot.
`poll` is the pair of requests of `refreshAll`, status first, then logs, and is
`refreshBusy`; `post` is `triggerService`. `follow` counts the timeouts that an
answered action sets, which nothing clears. `errors` is the list both kinds of
answers write, so the last one to come determines it.

## Runs

| run | instance | shows |
|---|---|---|
| `dhcp_eternal` | eternal client, plain keepalive_1, threshold 2, template change after 2 failures, all verdicts | `TypeOK`; `RepliesMatchRequests`: while nothing unexpected came, replies are read as answers to the right requests; `CredentialsCurrent`; `PauseFollowsVerdict`: no cooldown outlives or misses its attempt; `TemplateAlternates`; `NothingRealigns`: on a calm network one datagram too many stays one too many for ever; `SilenceLeadsToRelogin`; `RecoversWhenInSync` |
| `dhcp_limited` | three attempts, keepalive1_mod, threshold 3, good and bad heartbeat answers | `ImplementsSession`: the client refines `AuthSession`; `SilenceStops` |
| `pppoe` | eternal or two challenges may fail, every class of answer, a buffer of three | `TypeOK`, `RepliesMatchRequests`, `SeedCurrent`; `RecoversByItself`: unlike the dhcp client it gets back in step whatever came, and stays there; `SilenceStops`: a limited client ends, an eternal one asks for ever |
| `retry_after` | all texts up to five bytes over the digits 0, 1, 8, 9, space, s, NUL and another byte; bounds 100 and 18 for 100000 and 1800 | `ScanTypeOK`, `ReturnsFirstSeconds`: agrees with a definition without the loop |
| `eap_login` | two tries, a timeout of one tick, two frames in the socket, other traffic with every id | `LoginTypeOK`; `VerdictIsOfThisLogin`: success only when granted, 1 only for an unknown name, 4 only for a wrong password or a response sent again that digests no challenge; `EndsUnderTraffic` |
| `eap_responses` | as `eap_login` | violated: `ResponsesAnswerRequests`, the comments at `eapol.c:227` and `241` |
| `daemon_pid` | three processes, three files, pids of one and two digits | `TypeOK`; `OneDaemon`; `FileNamesDaemon`: also over the remains of a longer pid |
| `eap_daemon` | three logins, pids of one and two digits | `TypeOK`; `OneHeartbeat`: after logins that do not overlap at most one process runs, and the file names it; `StrangersSpared`; `StaysAuthorized`: the guard time costs a session at most one request |
| `boot` | every order of options, daemon and 802.1X or not, configurations of up to three lines out of fourteen | `TypeOK`: no text overflows its field; `SettingsInForce`; `PathsOutliveChdir`; `AuthorizedFirst`; `LuciShowsWhatRuns`: page and client read the same file alike |
| `boot_mac` | the same | violated: `DocumentedMacAccepted`, the form of a mac the README, the page and the shipped configuration use |
| `service` | two requests at a time, two processes, two other programs, any number of saves of a short and a long text | `TypeOK`; `RunsWhatIsSaved`; `StateFileAgrees`; `StartIsNotLost`: killing one's own client while procd starts it again ends well |
| `panel` | two processes, one change, a clock set back, requests that fail at any time | `TypeOK`; `RefreshGoesOn`; `PageCatchesUp`: through caches, clock, lost answers and actions the page comes to show the state |

`RecoversWhenInSync` and `NothingRealigns` belong together. The first says
that a dhcp client that was never given a datagram too many comes back when
the network does. The second says what happens otherwise: out of step, it
reads every challenge reply as the answer to a login and every answer to a
login as a challenge reply, pauses for a minute, and does so again, on a
network that works and against a server that accepts it. Loss alone cannot
bring this about; an answer that comes after its timeout can.

### Bounds, and why they are enough

- `QueueCap` (2, once 3): one answer and what came before it. Getting out of
  step needs one surplus datagram; a full buffer, where the next one is
  dropped, is reached with two.
- `MaxLate` (1): one request given up on that may still be answered, as often
  as the network likes. Together with the current request that gives late,
  duplicated and reordered answers.
- `ReconnectThreshold` 2 or 3 for 6, `TryTimes` 2 or 3 for 5: the counters
  pass through first, middle and last value, and every reset is reached with a
  count that is not zero. The theorems hold for every value.
- `JluAfter` 2 is the code's. `ShortDelay` and `DefaultDelay` are the code's;
  they are compared, not counted.
- `RetryAfter` with a cap of 100: five bytes reach the cap with two digits
  left, or hold two numbers with their units; 8 and 9 reach both sides of 18
  and of the cap.
- `EapLogin` with two tries and one tick: a request is repeated once and given
  up once in each stage; the answer to the logoff, to both starts and to both
  identities can be under way together. Ids are told apart as far as the login
  does: those of its requests, the logoff's, and one for all other bytes.
- `MainBoot` with three lines: a line before, the line in question and one
  after it; two lines for one key and a line joined to the one before are
  among them. The fourteen lines have one for each way a value is read or
  refused, at the capacity of its field where it has one. Three interfaces:
  none, one, and as many as the list has room for (`IFS_MAX`, 64).
- `Service` with two requests, two processes and two texts, saved as often as
  one likes: two saves overlap in every order, with the same text or with
  different ones, the short one over the long one and the other way round, and
  a save is under way while another request restarts or stops; procd has a
  process left while one is dying. No text is `Faulty` in the run (a mixed file
  may be refused); the theorems leave that open, too.
- `Panel` with two processes, one change, and a `Ttl` of 1 for 3 with a clock
  set back by as much: a snapshot is good until time passes, and again when
  the clock is set back, however often, until `quiet`; one process keeps the
  old snapshot while the other builds the new one.
- `DaemonPid` with three processes: one that holds the lock, one that is
  refused and one that ends meanwhile. A process that is gone can be started
  again, so the files are reused too; files are symmetric, as no step
  distinguishes them.
- `EapDaemon` with three logins: a third process meets what two that
  overlapped left in the file; one pid is longer than the others, so its end
  can stick out. Guard, repetition and period of 1, 2 and 3 seconds for 10,
  more than 10, and 60: `StaysAuthorized` uses only their order. With a
  repetition inside the guard time it is false: each request that is not
  answered begins the guard time again (`eapol.c:277-280`), and the
  authenticator is never answered. The authenticator ends a session after
  three requests, the fewest that allow for one lost and one ignored.

### Fairness

`FairSpec` of the udp clients is weak fairness of the client alone: it is a
running process that wakes from every sleep, and `recvfrom` returns within
SO_RCVTIMEO (`auth.c:713-720`). Nothing is assumed of the network: silence is
the premise of `SilenceLeadsToRelogin` and `SilenceStops`, calm of the two
recovery properties. In `EapLogin` the client is scheduled whenever its
`recvfrom` has a frame, and time passes (`Tick`); nothing makes a frame come.

In `Service` a request and a script that have begun go on (a shell and a Lua
process), procd starts what is registered, a process goes on to `dogcom` and
one that was signalled ends. Nobody has to ask, crash or take the port; the
property is about what follows when they stop (`quiet`). In `Panel` each
request is served by some process and answered or fails, timeouts fire and
time passes; these are the browser's and the web server's part. Fairness of a
request is over all processes, as any of them may serve it.

## Theorems

`DhcpClient_proofs` proves, for every server (`Answers`), buffer size, number
of late requests, threshold, delay and number of attempts that satisfy the
named assumptions:

- `TypeCorrect`, `InStep` (`RepliesMatchRequests`), `CurrentCredentials`
  (`CredentialsCurrent`), `PauseIsVerdict` (`PauseFollowsVerdict`),
  `TemplatesTakeTurns` (`TemplateAlternates`),
- `Refinement`: every behaviour of the client is one of `AuthSession`
  (`ImplementsSession`),
- `OutOfStepForEver` (`NothingRealigns`), for buffers of more than one datagram:
  with room for one only, the surplus one would keep the next answer out,
- `SessionHolds`: on a calm network a session in step (`InSession`) never ends, and
  no heartbeat of it fails.

The assumptions: the delays and the threshold are positive
(`DelayAssumption`, `ThresholdAssumption`), the server's replies are replies
and the good one is among them (`ChannelAssumption`), this one
lets the client go on at the place it answers, and the client is allowed at
least two attempts (`DhcpAssumption`): the for loop at `auth.c:735-738` would end
an eternal client that is allowed one, and `main` passes five. `JluAfter` is even, as the code's 2 is.

The argument is one inductive invariant, `IInv`. `RepliesMatchRequests` looks
at the head of the buffer and is not inductive: after the head is read, what
was behind it is the head. `Aligned` therefore says what the whole buffer may
hold at each place as long as nothing unexpected came: at most one fresh
datagram, last in the buffer, with only notices before it where keepalive_1
skips them, or, while an acceptance waits to be read, the notice behind it
that the extra `recvfrom` will take. `FreshOnce` and `FreshAwaited` say that a fresh
message is unique and that there is none where no answer is awaited; they are
what keeps `Aligned` true when an answer comes. `DelayReset` and
`CountersBounded` carry `PauseIsVerdict` and `Refinement`: the delay is the
default one throughout an attempt, and the counters are below their limits
wherever the client still runs. `TemplateFollows` carries `TemplateAlternates`:
a login goes out with the template of its count, and a counted failure makes the
count ask for another one, which is where an even `JluAfter` (the code's 2) is needed. `CalmIsPrompt` carries
`NothingRealigns`: on a calm network nothing is under way, so each request puts
exactly one answer behind the surplus datagram, and each read takes exactly one;
with nothing surplus, that answer is the one read, which is `SessionHolds`.
What every client may rely on of its socket is
proved in `UdpChannel_proofs`, once for each way of using it (`Ask`,
`AskAwake`, `SleepIn`, `SkipOne`) and for each step of the network.

The last part of `DhcpClient_proofs` is about the text that `dhcp_login` reads.
For texts of any length, over any digits and for every `ValueCap` and
`MaxCooldown` in the order `RetryAfterAssumption` gives them, it proves
`ScanTypeCorrect` (`ScanTypeOK`, with it that the number being read fits an int)
and `FirstSecondsReturned` (`ReturnsFirstSeconds`). `LoopInv` is the loop invariant: no number of seconds
lies behind the loop, and in a number the value is what its digits so far say,
or both are past the cap. The number itself is defined recursively over its
places. No induction over the text is needed: `ValueOf` says of the digits read
so far that the recursion has a solution and that every solution agrees with
the value, and a turn of the loop (`OneMoreDigit`) adds one place to both.

`DaemonPid_proofs` proves, for any sets of processes and files and any
distinct pids, `TypeCorrect`, `Exclusion` (`OneDaemon`) and `NamesDaemon`
(`FileNamesDaemon`). `OneDaemon` is not inductive: `FileHeld` says that a
process past `lockf` holds the lock of the file it opened, and `AtName` that
this file is the one behind the name, so that two such processes would hold
one lock. `AtName` in turn needs `Alone`, that nobody else is about while a
SIGTERM is handled. `Written` keeps the line of the daemon in its file: only
the holder of the lock writes.

`PppoeClient_proofs` proves `TypeCorrect`, `InStep` (`RepliesMatchRequests`) and
`SeedOfTheRound` (`SeedCurrent`) on the lemmas of `UdpChannel_proofs`. Its
`Aligned` is simpler than that of the dhcp client: the fresh answer comes first
in the buffer, and only a login has a notice behind it, which the read after
the login takes. `KeepsCourse` is the part of `RecoversByItself` that needs no
fairness: a client that has come to sleep in step on a calm network
(`OnCourse`) is in step ever after, whatever notices follow its logins, if the
good answers are such as `PppoeAssumption` says. That it comes there is left
to TLC.

`EapDaemon_proofs` proves, for any number of logins, any distinct pids and any
guard, period and repetition in the order `DaemonAssumption` gives them,
`TypeCorrect`, `OnlyOneHeartbeat` (`OneHeartbeat`) and `NoStrangerStruck`
(`StrangersSpared`). `InTurn` says who may exist at each place of the start:
from the moment the old process is killed until the new pid is written none
runs. `NamesHeartbeat` says that the file names a heartbeat, or nobody, but for
the moment in which the one it names has just been killed. `SessionKept`
(`StaysAuthorized`) rests on `KeptUp`: of the requests since the last answer at
most one was not lost, and then the heartbeat's clock began with it and will be
past the guard time when the next one is due. This is where
`MaxLost + 1 < MaxAsk` and a guard shorter than repetition and period are needed.

Its last part is about the login: `LoginTypeCorrect` (`LoginTypeOK`) and
`VerdictOfThisLogin` (`VerdictIsOfThisLogin`), for any number of tries whose ids
stay below that of the logoff (`EapAssumption`; the code tries three times), any
timeout and any size of the socket. `VerdictIsOfThisLogin` says nothing of the
frames under way, and there is the difficulty: the answer to the logoff at the
start is a failure frame, and the client may take its id over when it sends a
response again (see `eap_responses`). `LogoffFirst` says that this frame comes
before everything the client waits for after the start, so it is never taken
for a refusal. `FramesTellAttempt` says what
each other frame means while the authenticator's attempt lasts; `UplinkInOrder`
and `StagesInStep` that it lasts, for no start is behind a response;
`AttemptsCounted` bounds the ids by the starts sent. `DigestsFit` says that the
first response of a stage digests the challenge whose id it has, whatever the
ones sent again do, `AccountFits` that the authenticator refuses a good account
only for a digest of another challenge, and `RefusedLater` that the client is
then past its first response: of these three the case of 4 is made.

`MainBoot_proofs` proves `TypeCorrect`, which says that every text ends inside its
field whether it was accepted or refused, and `AllSettingsInForce` (`SettingsInForce`), `PathsStay`
(`PathsOutliveChdir`) and `AuthorizedBefore` (`AuthorizedFirst`) for every set
of lines, paths and files and any `IFS_MAX`. `InForce` is the loop invariant of
`config_parse`: every line so far was understood, and `LastWord` holds of every
field, which appending a line keeps. `Resolved` says that a path that is still
relative after the options leads nowhere from the directory of the start,
which is why `PathsOutliveChdir` may speak of existing files only.
`PageShowsSettings` (`LuciShowsWhatRuns`) puts the two readers of the file side by
side: of what `InForce` says of a running client's fields, the last line for a
field is the one the page takes (`PageReadsLastWord`), and both undo the same
quotes but for a value in two sorts of them (`SameUnquoting`).

`Service_proofs` proves `TypeCorrect`, `SavedRuns` (`RunsWhatIsSaved`) and
`StateFileTells` (`StateFileAgrees`) for any number of requests, processes and
texts of any length, faulty ones among them. While requests are under way the client may well run with something
else than what is saved; `Pending` says that then there is a request that will
still end it: one that has yet to write, or one whose restart has yet to come
to `stop`. `Told` follows the state file through the script.

`Panel_proofs` proves `TypeCorrect` and `RefreshingGoesOn` (`RefreshGoesOn`) for
any number of controller processes. `BuildsForOne`, part of `TypeOK`, is
needed for the answers: a process that completes a snapshot finds the request
it builds for still waiting, unless that failed; then it builds for nobody
(`WorkGoesOn`). `Room` bounds the timeouts that actions leave.

Every invariant and every action property of the passing runs is proved. Only
model-checked is liveness (`SilenceLeadsToRelogin`, `SilenceStops`,
`RecoversWhenInSync`, `RecoversByItself`, `EndsUnderTraffic`, `StartIsNotLost`,
`PageCatchesUp`): fairness and ENABLED are outside what the installed provers
handle.

## Disagreements with the documentation

Two have a run that shows them:

- `boot_mac`: a mac written `0xB025AA851014`, the form the README recommends
  (`README.md:159`), the page accepts and the shipped `drcom.conf:11` has, is
  rejected: `collect_hex_digits` (`configparse.c:144`) counts the 0 of the
  prefix as a thirteenth digit.
- `eap_responses`: a response that is sent again is built from whatever frame
  was read last (`eapol.c:227, 241`). The consequence that `VerdictIsOfThisLogin`
  has to allow: a good account may be refused, and "Password error"
  (`eapol.c:463`) reported.

Four more are visible in the models and stated by their properties only as far
as the code goes:

- The message at `auth.c:430` announces that a short rejection probes the
  alternate template; the template changes only after more than two failures
  (`TemplateAlternates`).
- `eapol.h:9` gives a timeout, but the filters look at the clock only after a
  frame (`eapol.c:117`): on a silent link a login never returns.
  `EndsUnderTraffic` therefore needs traffic.
- The code -2 is "no server found" (`eapol.c:384`), but it is also returned after a
  server has answered the start and then nothing else.
  `VerdictIsOfThisLogin` says nothing of -2.
- A `start` of a service that runs may leave it unregistered: the script
  returns 1 when the port cannot be freed (`init.d:114`), and procd is given no
  instance. `StateFileAgrees` says that the state file then tells so.

## Not modelled

- Errors of `recvfrom` other than the timeout, and datagrams shorter than the
  bytes the code looks at.
- Failures of `socket`, `bind` and `setsockopt`, at which `dogcom` returns
  before anything happens, and the builds for WIN32 and TEST.
- Packet layout, checksums and digests, logging and console output.
- Failures of `fork`, of the calls on the 802.1X pid file, and clocks that are
  set while a heartbeat process counts its ten seconds.
- The heartbeat process of a login with `-d -x` as a heir of `daemonise`: it
  inherits the SIGTERM handler and the open pid file.
- `eaplogoff` and `eaprefresh`, which the program does not call.
- Of `main`: failures of `malloc`, and what `realpath` does with links.
- Of `getall_ifs`: which names of `/proc/net/dev` it takes; only how many there
  are matters to `main`.
- Of `drcom.lua`: reading the log and the output of `ss`, `ip` and `ps` into
  issues and network details (patterns on text); `enable` and `disable`, which
  change the links of rc.common; access checks of requests.
- Of `form.htm`: what is rendered and in which language, reloading the page (it
  begins again in `Init`), and a request that is never answered: the script sets
  no time limit, so `refreshBusy` would stay set.
- Digests (third-party, pure), packaging scripts and the smoke tests, which
  were read for what they promise.

## Plan

In this order, most important first; all of it is done.

1. `RetryPolicy`, `UdpChannel`, `Keepalive2`, `DhcpClient` with its runs.
2. `AuthSession` and the refinement; `UdpChannel_proofs`, `DhcpClient_proofs`.
3. `PppoeClient`, `RetryAfter`.
4. `EapLogin`.
5. `EapDaemon`; `DaemonPid` and `DaemonPid_proofs`.
6. `ConfigParse` and `MainBoot`, with `MainBoot_proofs`.
7. `Service` and `Panel`, with their proofs.
8. `PppoeClient_proofs`, `EapDaemon_proofs`.
9. The proofs of `NothingRealigns`, `StaysAuthorized`, `LuciShowsWhatRuns` and
   those about `RetryAfter` and `EapLogin`.
