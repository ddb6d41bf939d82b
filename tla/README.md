# A TLA+ verification of MeshTender

MeshTender is a Go server that holds one MeshCore identity with admin rights on
many LoRa repeaters and decides which people may use it: owners share a
repeater with people and organizations, run commands on it from a browser
console through a modem on their desk, or over a USB cable, and organizations
run check-in nets over the air. All state of the server is in PostgreSQL; the
pages' scripts drive serial devices, maps and passkeys by themselves. This
directory models the parts where order, races, retries and shutdowns decide
whether all this is correct, checks them with TLC on small instances, and proves
the main results with TLAPS for instances of every size.

    tlc -config MCSharing.cfg MCSharing           # any run of PROJECT.json
    tlapm SharingProofs.tla                       # likewise OrgProofs, MeshProofs,
                                                  # ConsoleProofs, ConfigureProofs, SetupProofs,
                                                  # RegionProofs, PasskeyProofs

`PROJECT.json` lists components, runs, mutants (a plausible slip of the code for
each property, which the property must catch), the source lines of each
definition, findings, hazards and theorems.

## Inventory

The server (`internal/`):

| Component (code) | State | Operations | What makes it hard | Correct means |
|---|---|---|---|---|
| Repeater access (`store/{shares,share_commands,transfer,repeaters}`, `core/{shares,transfer,repeaters}`) | owner, shares with a steward flag, per-command grants, single-use links | share, unshare, save grants, mint/redeem/delete a link, hand over, delete | each handler makes several store calls, only some are transactions; links are redeemed by strangers at any time | one owner, who holds no share; a link lets in one person; nothing else does; a repeater goes only where its owner sends it |
| Organization access (`store/{orgs,org_repeaters,org_repeater_command_optin,commands}`, `core/{orgs,org_participation,admin}`) | roles, opt-outs, opt-in lists, the site's ceiling | join, leave, promote, demote, remove, save limits, edit ceiling | "empty list" means "everything"; state outlives the membership it belongs to | narrowing never widens; opt-outs end by decision |
| Packet exchange (`mesh/{exchange,seqclock,limiter}`) | the active attempt, clock, next slot, learned path | login, command, their retries; the modem's reader matches replies | two goroutines, a lossy reordering radio, replies without request ids, clocks | commands run in order and are not dropped as replays; requests end; sends are paced |
| Console (`core/{console,modem,modemsession}`, `store/{console_sessions,command_log}`) | message queue, session row, audit log, coordinates | open, read, permit, log, send, reply, fetch location, unwind | permissions change meanwhile; stragglers; shutdown races opening and closing | authorized recently, logged before sent, always unwound and stamped |
| Net control's modem (`core/netmodem`, `store/net_session_air`) | queue, members in flight, stored acknowledgements, advisory lock | check-in, acknowledge, announce, transmit, reconnect | three goroutines, a modem that fails, a roster read before it is used | nobody waits twice, nobody is left out, nobody is stored unsent |
| Passkey ceremonies (`auth/{handlers,service,reauth}`) | the session's one challenge, pending name, freshness | begin and finish of five kinds of ceremony | one challenge for all ceremonies and tabs of a session | only what the server verified moves on |
| MQTT ingest (`ingest/*`, `store/{leader,org_mqtt}`) | leader lock, broker connections, queue, status | elect, reconcile, reconnect, enqueue, discover | replicas, lost locks, late status writes | one leader's effects; status tells the last configuration's truth |
| Check-ins, observations (`store/{checkins,repeater_observations}`, `observe/*`) | adverts, relay sets, intervals | record an advert heard by many, sweep, estimate | duplicates, sweeping races counting | one check-in per advert; exact counts |
| Nets (`store/{nets,net_air}`, `core/{nets,net_session}`) | schedules, sessions, rosters | schedule, open, close | time zones, concurrent scheduling | every active net has its next session, once |
| Account deletion, counts (`store/delete_user`, migration 0033) | rows and row locks of everything above | delete, trigger recounts | lock order, READ COMMITTED snapshots | no org without an admin; counts exact |
| Hand-off, email, usernames (`auth/{handoff,email,reset,account}`, `store/{auth_codes,email,reset,username}`) | sessions per host, one-time codes, tokens, cooldowns | hand off, verify, reset, rename | expiry races, single use | a code works once; ended logins end everywhere |
| Config profiles, modem bridge, the rest (web, marketing, analytics, mail, identity, licenses, seed, config, geo) | | | pages, cryptography, I/O | not modelled, see `PROJECT.json` |

The pages' scripts (`internal/web/static/`):

| Component (code) | State | Operations | What makes it hard | Correct means |
|---|---|---|---|---|
| Over-the-air connection (`serial-port`, `mesh-bridge`, `air-console`, `configure`, `console`) | the USB port's open/claim/line, the socket, the bar's choice and buttons | pick, open, connect, send, close, unplug | six awaits to open, a socket that closes at any of them, cleanup once | the port is left closed; the page hears every end once; the choice is locked while connected |
| USB connection (`usb-console`, `serial-cli`) | the CLI in use, the promise chain of commands | connect with a key check and retries, send, read the location, reboot, close | commands run later than they were asked for; a step that throws | a command reaches the repeater the page is about; every request settles |
| Configuration panel (`console-config`) | rows, statuses, the run and its waits | load a list, run one or all | statuses name no command; lists come late; typed commands share the connection | replies mark their own row; what was pressed is what runs; a run ends |
| Setup wizard (`serial-setup`) | key, command list, run, record; the board's own delayed save | generate, search or paste a key, list, run, reboot, save | background searches, a list spliced with the key of the moment, a board pulled out | the record is the board's; the reboot keeps access |
| Region editor, basemap (`regionmap`, `basemap`) | hidden field, drawing store, mode; style, layers, stored preference | draw, edit, delete, clear, swap styles; pick a location | a swap destroys the drawing layer at any moment, handlers pile up, tabs share the preference | what is saved is what was drawn; overlays come back |
| Passkey pages (`webauthn`) | ceremonies under way, the abort handle, the form's three states | the automatic prompt, buttons, sign-up, confirmation | the browser has one prompt, the session one challenge | a press is served; a ceremony ends; no move without verification |
| Command completion, net control's rail, small page scripts (`console-complete`, `netcontrol`, `net-air-form`, `ui`, `link-editor`, ...) | | | sequential | not modelled |

Handlers of the server run concurrently, one goroutine per request, and meet
only in the database. The console and net control's modem add goroutines of
their own per WebSocket. The janitor and the ingest supervisor run in the
background. A page's script runs one event at a time, and everything else may
happen at each of its awaits; it meets the server through fetches and the
WebSocket, the board through the serial port, and other tabs through the
session and localStorage.

## Modules

| Module | Models | State and actions against the code |
|---|---|---|
| `AccessStore` | the tables of access and the store methods | one variable per table (`owner`, `share`, `grant`, `link`, `role`, `excluded`, `optin`, `ceiling`), one action per statement or transaction, with its `WHERE`, `ON CONFLICT` and `ON DELETE CASCADE`; reads are operators of the methods' names |
| `Sharing` | the handlers of sharing over `AccessStore` | `pc[s]` is the next store call of request `s`; `Begin...` is the guard and first read, `handle...` the calls after it; `GiveUp` any error return; `late` is what a delete in flight at READ COMMITTED does not see |
| `RepeaterAccess` | what sharing promises: owner, people, single-use tickets | abstract, no code |
| `OrgAccess` | the handlers of organizations over `AccessStore` | as `Sharing` |
| `Exchange` | `Exchanger.exchange`, `HandleData`, `SeqClock`, `RateLimiter` | `pc` follows the loop; `HandleData` is three steps (read `active`, match outside the lock, signal); `sent`, `ran` are the radio and the repeater |
| `Console` | `wsConsole`, `modemSession`, `fetchAndStoreLocation`, `DrainWebSockets` | `pc` follows the handler; `Read` is the socket's goroutine; `log` is `command_log` with how often a row was sent and heard |
| `NetModem` | `wsNetModem` and its goroutines | `ackPc`, `txPc` follow the two loops, `CheckIn` is everything that makes a member due |
| `MeshTransport` | what a page may rely on from a connection: phases, accepted commands, statuses | abstract; the contract named at the head of `air-console.js` |
| `SerialPort` | `CdcAcmPort` over WebUSB | `portPc` is the await of `open()` or `close()` it is at, `opened` and the claims and line what is left to undo |
| `AirConsole` | `air-console.js` over `mesh-bridge.js` over `SerialPort` | the socket's and the port's events are actions, the cleanup its own steps |
| `UsbConsole` | `usb-console.js` over `serial-cli.js` | `connect()` step by step, `queue` is the chain of promises, a throwing step breaks it |
| `ConfigureTab` | `configure.js` and the location banner over both connections | what the last event's `render()` left of choice and buttons; `KeepsTheContract` is the refinement of `MeshTransport` by both |
| `ConfigPanel` | `console-config.js` over the contract | `sent` is what is under way on the connection, its own lines or not; `todo` the run's rows to come, taken in their order, and its wait |
| `UsbSetup` | `serial-setup.js` and the board | `coming` and `asking` are keys and lists on their way, `runPc` the run, `due` and `permAt` the firmware's save and the wizard's wait |
| `Basemap` | `basemap.js` and MapLibre's events | per map: style asked for, style there, layers, handlers waiting; the preference all tabs share |
| `RegionMaps` | `regionmap.js`: the editor of an area and the picker, over `Basemap` | `field` is the hidden input, `store`, `mode`, `outline` Terra Draw's, `area` what the operator last finished |
| `Passkeys` | `webauthn.js` with the handlers of `internal/auth` | `at[c]` is the ceremony's await, `stash` and the session's challenge the server's; `Visit` a page load that drops the scripts but not the session |
| `SharingProofs`, `OrgProofs`, `ConsoleProofs`, `SetupProofs`, `RegionProofs`, `PasskeyProofs` | theorems about the module of the name | |
| `MeshProofs` | theorems about `Exchange` and `NetModem` | |
| `ConfigureProofs` | theorems about `ConfigureTab` (with both its connections) and `ConfigPanel` | |

`Sharing` and `OrgAccess` are both machines over `AccessStore` (EXTENDS);
`Sharing` implements `RepeaterAccess` under the mapping at `Access`.
`AirConsole` extends `SerialPort`, `ConfigureTab` extends both connections and
shows each to implement `MeshTransport`; `ConfigPanel` runs over any connection
that does, its link being the contract's actions. `RegionMaps` extends `Basemap`.
`Console` abstracts an exchange to any number of sends up to `Tries` and one
reply to any send of the session, which is what `MeshProofs` proves of
`Exchange` (`TurnsAreTaken`, `AnswersAreRepliesHolds`); that a send is replied to
more than once is left to `Exchange`. `AirConsole` sees of `Console` that it may
answer and close at any time. `NetModem` and `ConfigPanel` name their
specifications `ModemSpec` and `PanelSpec`, so that each shares its module of
proofs with another component.

Operators commented "Slip" are the mutants' forms of the definition below them.

## Runs

Every run is exhaustive within its bounds.

| Run | States | Shows |
|---|---|---|
| `sharing` | 71k | three users, one repeater, two links, two racing requests, deletion, expiry, pruning, ignored read errors: links, owners and shares never mix; refinement of `RepeaterAccess` |
| `org_access` | 420k | two racing requests over opt-in lists and ceilings of two commands: narrowing never widens, a list that shrinks included, but where the owner saves that there is no list; opt-outs end by decision |
| `exchange` | 94k | a login and a command with two tries each, every loss, delay and repetition; wall clock set back: order, no false replays, pacing, termination |
| `console` | 1.2M | typed commands and "Fetch location" with resends and stragglers, permissions changing, a shutdown at any moment: authorization, unwinding, stamps |
| `net_modem` | 239k | two connections of the modem one after the other, a queue of one, announcements in the second: a repeated acknowledgement has an excuse, all are handled, and come in the end |
| `connections` | 150k | a tab with both its connections, the cable pulled and the socket closed between any two awaits: both implement the contract, the port is released as far as the device lets it, the choice is locked, USB commands go to the right repeater, requests settle |
| `config_panel` | 281k | two profiles of two commands, lists in any order, typed commands and location readings between: while nothing else is under way a row gets its own line's result or fails as given up, what was pressed runs, runs end |
| `usb_setup` | 710k | two keys, keys and lists that come late, a board that may be pulled out and saves late: record and access |
| `region_maps` | 35k | the editor and a picker in two tabs, drawing and editing through swaps of the basemap: field, overlays, marker |
| `passkeys` | 83k | two ceremonies of any kind over three page visits, the automatic prompt among them: verified before moving on, a press is served, ceremonies end |
| `revocation`, `pending_name` | | what a document or a comment promises and the code does not keep |

The last two are violations of one property each, findings in `PROJECT.json`
with the line of code and the sentence it departs from: unsharing leaves the
command grants, which are honoured without a share; and the name of an abandoned
sign-up takes a later passkey for that sign-up.

### Other departures

The models take these steps as the code takes them; no property is stated on
them, since the code does not promise one, or promises one it does not keep.

The server:

* `core/org_participation.go:120`: a form with no command checked is stored as
  "no restriction", and so is one with as many commands as the ceiling has by
  then, whichever they are (the page may show an older ceiling), against the
  comment at `:93`, which speaks of a full selection. `NarrowingNeverWidens`
  exempts such saves. The switch and the list are two commits (`:106`), and the
  owner is checked once, before both (`:95`).
* `mesh/exchange.go:102`: a late reply to one command is taken as the answer to
  the next; a timer that fires while a reply is being matched reports none.
* `core/modem.go:110`: a straggling longitude answering "get lat" is stored as
  the latitude; only "Fetch location" guards against the reverse.
* `core/modemsession.go:54`: a handler that outlives the drain's time goes on.
* `core/netmodem.go:346`, `:386`: who was sent to but could not be stored (the
  query fails, or the session is canceled before it), and who was picked from a
  roster read before the storing, is acknowledged on the air again. The comment
  at `:34` says that a reconnect never repeats one. `RepeatsAreExcused` says that
  these are the only ones who are.
* `core/netmodem.go`: the lock's own connection may break and the lock with it
  (`store/leader.go:42` leaves that to the caller); `NetModem` keeps it.
* `store/share_commands.go:80`: of overlapping saves of one person's commands
  the union stays. Joining with mode "none" is two commits (`core/orgs.go:442`).
* `core/console.go:481`: "Fetch location" checks both its permissions before its
  first command's exchange, which may take 40 s, and sends "get lon" without
  looking again, so it may use a permission taken away since; its comment has it
  authorized as typing the two would be. `console` takes either permission away
  at any moment, and `AuthorizedSinceTaken` says what remains true: no permission
  used is older than the message it serves.
* A send that leaves its slot late is followed by the next one less than an
  interval later (`mesh/limiter.go:29`).

The pages (`internal/web/static/`):

* `usb-console.js:57` and `configure.js:11`: a connect begun while `close()`
  awaits its port is unlocked by the old connection's late `mesh:closed`, and a
  command chained for the old port may be written to the new one, whichever
  repeater is on it. `ChoiceLocked` and `OnlyTheRightRepeater` are stated for the
  rest; `KeepsTheContract` and `RequestsSettle` for the overlap as well.
* `usb-console.js:145`: reboot needs only an open port, so it may reach a
  repeater whose key was not checked; its button is not enabled again.
* `usb-console.js`: a throwing step breaks the chain; what was chained behind it,
  Disconnect included, never runs. `RequestsSettle` is about what the chain took
  while it was whole.
* `serial-port.js:113`: when `selectConfiguration` throws, the device stays open
  until `close()`; `:214`: a write to a pulled device resolves; `:245`: a device
  that cannot be told or shut is left as it is, without a word. `PortReleased` is
  about all that the device did not refuse (`refused`).
* `console-config.js:298`: a list that arrives in the middle of a run replaces
  the rows the run's index is for; a list that fails to load leaves the old rows
  to run (`:52`). `:333`: any status ends the wait, a typed command's and one of
  no command too (`core/console.go:313`, `:326`, `:344`, when the page connected
  anew within the minute), against the comment at `:290`. The latter only fail
  the row, which `RepliesMapWhenAlone` allows; after either, a result may be
  taken for another line's (`stray`).
* `serial-setup.js`: a key or list changed by the user during a run, and a board
  pulled out in it, still end in a record; `RecordIsTheBoard` is about the rest.
* `serial-setup.js:133`: a late generated key replaces a pasted one; `:141`:
  stopping and starting the search again leaves two running; `:397`: when the
  last step fails the run button stays disabled.
* `webauthn.js:191`: a press while the automatic prompt's begin is on its way has
  no handle to abort it with, and one of the two loses its challenge; a second
  press is not blocked. `PressIsServed` is about presses made with nothing else
  on its way.
* `basemap.js:98`: the switch compares with localStorage, not with what the map
  shows. A swap drops the outline being drawn, and "clear" while a style loads
  throws after it has emptied the field (`regionmap.js:397`).
* `regionmap.js:347`: areas that Terra Draw refuses (holes, long decimals) are
  emptied on load, although the server accepts them (`core/config_region.go:386`).

### Bounds

* Two requests in flight (`Slots`): each handler re-reads the tables at every
  call and holds nothing but its form, so a violation needs one request and one
  to come in between; three users cover owner, steward and stranger, two links
  cover racing and re-minting. Repeaters meet only in the handover's check that
  the new owner has no row of the same key, so one is enough here; grants of
  commands are not what `sharing` is about, so it has no command (`revocation` has
  one); the proofs are for any number of either. Two commands tell "this one",
  "all" and "none" apart for lists.
* `Tries = 2` has a first, a last and one direct and one flooded attempt (the
  code's 4 only repeats either); two requests have a straggler of one meet the
  other. `MaxNow`/`MaxWall` bound only idle time: while the session waits for a
  slot or a timer the clock runs on.
* One queue slot is full or empty; `MaxLog` commands are sent in a run.
  `Revocable` and `Messages` are what the page sends and what is taken away. One
  console is run; consoles share only the drain, and the proofs have any number.
* `net_modem` has two connections of the modem, as the second finds what the
  first has stored and the roster it left, and one member: repeated, refused,
  lost and stored too late are things that happen to one. The proof has any
  number of members, messages and connections. Announcements come in the second
  connection only.
* `connections`: two commands accepted over the air (`MaxOwed`) have one under way
  and one behind it; three steps chained over USB (`MaxQueue`) have a command
  behind a disconnect that is behind another command; two tries of the key check a first and a last,
  two presses of Connect an old connection beside a new one.
* `config_panel`: two profiles of two lines have a next row, a last row and
  another list to replace them with, one line is not permitted; one list is on
  its way besides the one shown, one foreign line besides the run's, and the
  second run may meet what the first left behind.
* `usb_setup`: two keys are the one in use and another, one more of each comes
  late, two runs. `SaveDelay < AclWait` as 5 s to 6 s; only their order counts.
* `region_maps`: three swaps go there, back and there again, so handlers pile up;
  four shapes are the most that two stored ones and a drawing reach; two points.
* `passkeys`: two ceremonies overlap, over three visits (before, during and after,
  a page left in the middle included).

### Fairness

Safety runs need none. `Exchange` assumes the console's goroutine and time go
on (`WF(Caller)`, `WF(Tick)`), nothing of the radio. `Console` assumes each
handler goes on when it can (`WF(Handler)`): a goroutine is always scheduled
and every wait of it has `ctx.Done()` or a timer. `NetModem` assumes the same of
its goroutines, and that a modem and a database that are asked again and again
answer in the end (`SF(SendOK)`, `SF(Stores)`): without these nothing can be
promised. `EveryoneIsAcknowledged` is stated for runs in which announcements
end: they may fill the queue before every pass.

On the pages: the browser runs what is due, promises and timers settle, and the
user answers a picker that is open (`ConfigureTab`'s `Fairness`, per action).
`ConfigPanel` assumes the run's next step and its timer (`WF`), of the repeater
nothing: its answer may be lost. `Passkeys` assumes requests are answered,
promises settle, and prompts a user asked for end, by an answer or the
browser's timeout; nobody has to take up the automatic prompt, press a button,
pull a cable or load a page.

`CHECK_DEADLOCK FALSE` is set where the system stops: sessions, runs and
consoles are bounded in number and end.

## Proofs

Every safety property the runs check, invariant or action property, is a theorem
of its specification, for every value of the constants that satisfies the named
assumption of the module; so are both refinements. Besides what is listed, each
module of proofs proves the type invariants of what it is about (`TypeCorrect`,
`ModemTypeCorrect`, `TabTypeCorrect`, `PanelTypeCorrect`).

**`SharingProofs`** (`NoneAssumption`, `OpsAssumption`): `OwnersHoldNoShare`,
`RedeemersNeverOwn`, `LinksRedeemedOnce` (invariants), `SharesAreGiven`,
`HandoversAreAskedFor` (action properties), and `SharingImplementsAccess`, the
refinement `Spec => Access!AccessSpec`. The argument is the inductive invariant
`IInv`: types; an owner holds no share; who is about to redeem a link that still
works does not own its repeater; no link that can still be redeemed has been; a
redeemed link was redeemed by one person. The first alone is not inductive:
redeeming makes a share, and that the redeemer is not the owner is known only
from a comparison made calls earlier. It stays true because the one action that
changes an owner also deletes the repeater's links, and a deleted link's id does
not come back, so the request that compared too early finds its link gone. The
redemption history needs the third part in the same way.

**`OrgProofs`** (the same assumptions): `NarrowingHolds`, `OptOutsStay`. `Inv` is
types and what each request carries for the calls it still makes. Narrowing then
needs three facts: every step that changes people's grants changes an owner;
what an organization lets a person run is monotone in role, ceiling,
participation and list, as long as the list does not become empty; and a list
becomes empty only by the step of a save that carries none (`EmptiedBySave`). Opt-outs are deleted by two statements only, the switch, whose
request carries "include" or "exclude", and the handover, whose new owner is
another one and outside the organization.

**`MeshProofs`**, of `Exchange` (`ExchangeAssumption`): `RunsInOrder`, `FreshSendsRun`,
`PathsStay` and `PacingHolds`. Its `IInv` adds to the properties what they rest
on: stamps grow from send to send and the packet built is newer than all sent
(`StampsOK`); the guard's stamp is that of the last send that ran, and those ran
in order (`GuardOK`); one slot more than packets sent was reserved (`PaceOK`); a
reply in HandleData's hands belongs to a present or former request, and an
attempt is told of one only after the request took one (`MatchOK`); a packet
routed directly was made when a path was known (`PathOK`). The last two are
needed together: that the answer to a direct login leaves the path in place
holds because the result is a packet really sent, which is only known from what
the other goroutine did before it signaled.
Two further theorems say what `Console` rests on. `RequestsTakeTurns` (the packets
of a request follow those of the one before, `Tries` at most) needs the count of
the present request's packets tied to its attempt at each step of the loop
(`TurnsOK`); `AnswersAreReplies` (an answer is a reply to a send of the session
that ran, of the request's kind) needs that whatever the reader has in hand or
has handed over is one (`AnswerOK`), since the request, the attempt and the
frame may all have changed between the match and the signal.

**`MeshProofs`**, of `NetModem` (`NetModemAssumption`): `AcknowledgementsHold`. Each member in flight is
in exactly one place, the message being sent, one that waits, or the one being
queued; queues and messages are disjoint, and what is stored was in a message
sent. Disjointness is what keeps a failed send from making a member due that
waits elsewhere. A repeat needs a member who is on the air, waits once more and
is not excused: whoever is being stored is in flight until it is, and whoever is
stored is found so by the next roster read.

**`ConsoleProofs`** (`ConsoleAssumption`): `DrainStamps`, `Authorized`. A row that
is open and not lost belongs to a handler between its insert and its stamp; the
WaitGroup counts the handlers between upgrade and close; whoever upgrades once
the drain began is canceled from the start, so makes no row (`Unwinding`).
Without the last part the drain could be overtaken by a page that connects
after it counted. `Authorized` holds since what is left to send of a
message was permitted at a moment since it was taken: the permissions grow in
the history `fresh` and the list left to send only gets shorter.

**`ConfigureProofs`**, of `ConfigureTab` (`AirAssumption`, `UsbAssumption`,
`TabAssumption`: bounds are natural numbers, `MaxTries` not 0):
`OnlyTheRightRepeaterHolds`, `ChoiceLockedHolds`, `PortReleasedHolds`,
`BusyIsConnectingHolds` and `KeepsTheContractHolds`, the refinement of
`MeshTransport` by both connections. `TabInv` first says of each connection what
it does by itself. Of the port: what is open, raised or written lies between two
steps of opening and closing (`PortInv`); of the session over it: opening, socket,
bridge and cleanup follow one another, and a port lives only within them
(`AirInv`), so that an idle connection has none. Of the chain of promises: the
step under way is its first (`UsbInv`). With these every step of a connection is
one of the contract's or invisible to the page; the contract's count of commands
owed is for USB the number of command steps in the chain, whose change by
appending and by ending a step is a lemma on sequences (`OwingAppend`,
`OwingTail`). What relates the two connections holds only while no close ran
beside a connect (`overlap`, see the departures) and is a second part
(`UsbInOrder`, `BarInOrder`): a wrong repeater is on the port only while
connecting, when the chain is at rest and has nothing but reboots left, so no
command can reach it. `ChoiceLocked` alone is not inductive: that the bar hears
the end of the connection it locked for needs to know that the other one is idle
and its chain empty. `BusyIsConnecting`, the safety half of `RequestsSettle`,
needs no such condition: whenever the bar waits, something is under way whose
end it will hear.

**`ConfigureProofs`**, of `ConfigPanel` (`PanelAssumption`):
`RepliesMapWhenAloneHolds`, `RunsWhatWasPressedHolds`. `PanelInv`: while nothing
else was sent and no wait given up, the connection owes at most the line the run
waits for, so a status is that line's, and a wait that ends otherwise is given up; unless the rows were replaced, the rows
to come were pressed and no pressed row has failed. That what is under way has
room, which the types need, counts the foreign commands in `sent` again
(`OthersSent`): each may end with a reload, which the guard on `loads` alone does
not bound.

**`SetupProofs`** (`SetupAssumption`): `RecordOfTheBoard`, `AccessKept`. The list's
shape (the key second, setperm two lines before the reboot, which is last), how far an unmeddled run has come
in it and what that means of the board's identity, and that the board's timer
and the wizard's add up: `due + permAt = SaveDelay` while both run, so a wait of
more than `SaveDelay` finds the list saved.

**`RegionProofs`** (`RegionAssumption`): `FieldHolds`, `OverlaysAreBack`. The field
and, in a built editor, the store are the area; an outline exists only in a
built editor outside select mode; a map whose style is on its way has a handler
waiting that rebuilds it, however many swaps piled up.

**`PasskeyProofs`** (`PasskeyAssumption`): `MovesOn`, `Served`. Ceremonies are
numbered in the order they begin; the automatic prompt is the page's own and the
one the abort handle is for; a press made with nothing else on its way has every
other ceremony over and the session's challenge to itself, until the next one
begins.

Only model-checked: all liveness (`RequestsEnd`, `ConsolesUnwind`,
`EveryoneIsAcknowledged`, `RequestsSettle`, `RunEnds`, `CeremoniesEnd`). Liveness under fairness and ENABLED are out of this
prover's reach, as are induction over data and RECURSIVE operators; the modules
use neither.

## Abstractions to know of

* A store method that is one transaction with a row lock is one step, and so is
  one that is a single statement. Where a transaction takes no lock and deletes
  before it inserts, delete and commit are two steps.
* The radio is worse than real ones; the repeater's replay guard is modelled
  from what `SeqClock`'s comment says of the firmware (external).
* A coordinate's value is the name of the command that reads it, so that
  "latitude and longitude differ" holds as the code assumes.
* In `Console` marking a repeater confirmed, resolving typed text and status
  messages are left out; in `NetModem` the channel log and the receive queue.
* A script's code between two awaits is one step, everything else may happen at
  an await. Terra Draw, MapLibre, WebUSB, authenticators and the browser's
  prompts are external, modelled from how the scripts use them.
* A serial reply's text is "it comes" or "null"; a region is a sequence of simple
  polygons, each a model of "some shape", so crossing edges is a choice; keys are
  names; a passkey's signature is whether the server takes it.

## Not modelled, and what comes next

`PROJECT.json` says of each component what is left out. Left aside for good are
pages that only read, mail, cryptography and byte layouts, tooling, and the
sequential page scripts. In the order in which they would add most:

1. Ingest: replicas, the lock's connection, reconciliation, backoff and the
   status of a replaced broker.
2. Account deletion with the last-admin guards at row-lock granularity, and the
   trigger counts at READ COMMITTED.
3. Two consoles on one repeater, whose clocks stamp packets independently.
4. The hand-off between hosts, one-time codes, verification and reset tokens.
5. Check-ins and observations; nets and their schedule.
6. Config profiles, packet paths and KISS framing as operators against
   reference definitions.
