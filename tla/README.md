# Verification of the factory provisioning station

TLA+ models of the factory provisioning system of this repository: a PC program
(`src/pc`, Python/Tk) that writes factory data -- serial number, Matter onboarding
data, device attestation credentials (DAC) -- over a UART into units that run
`src/device` (C). TLC checks the models on small instances; the theorems in the
`*Proofs` modules are checked by TLAPS for every value of the constants.

    tlc -workers 2 -config FrameLink.cfg MCFrameLink          # a run
    tlapm FrameLinkProofs.tla                                 # the proofs of a module

## 1. Inventory

| Part | Code | State it keeps | Operations | What makes it correct |
|---|---|---|---|---|
| Frame codec | `pc/src/frame/frame.py`, `device/src/factory_frame.c` | none | encode, decode, CRC-16, control frames | both ends agree on every byte, a damaged payload is recognised (the header has no check) |
| Frame link | `pc/src/frame/link.py`, `assembler.py`, `fragmenter.py`; `factory_session.c` 294-678, `factory_frame.c` | frame being sent, tries, assembler, one frame set aside | send a packet, receive a packet | a packet arrives whole or not at all as long as the UART leaves frame types alone, a call ends |
| Session | `pc/src/session/*`, `factory_session.c` 388-840 | session id, open flag | open (HELLO exchange), send, receive, close (BYE) | no packet of another session is taken for one of this |
| Device manager | `factory_manager.c` | data items stored on the unit, answer | serve requests until a write succeeded | reboots only when fully written; always returns |
| Dispatcher | `pc/src/transaction/*` | none between dispatches | dispatch one set of factory data | success only if the unit holds the data |
| DAC pool store | `pc/src/storage/dac_pool_store.py` | status of each pair in memory and in `stat.json` | load, get_material, set_material_state | a DAC is injected into one unit only |
| PAI/CD stores | `pc/src/storage/{pai,cd}_cert_store.py` | path and certificate | load, get | what is handed out is the loaded file |
| Provider, retrievers | `pc/src/factory_data/*` | data in progress, serial index, DAC in hand | pull, report | each pull is reported once, to those who gave data |
| Provision manager | `pc/src/provision/manager.py` | state, pending result, worker, command queue | activate, start, finish, stop; worker loop | a result is confirmed and reported once; no dead end |
| Reporter | `pc/src/provision/reporter.py` | result files, counters | write, get_stats | each counted report is counted once, none without its file |
| Settings | `pc/src/system/settings.py` | values in memory, `settings.json`, subscribers | get, set, load, subscribe | file and memory agree; a change reaches its subscriber |
| Logger | `pc/src/logger` | queue, thread, listeners | write, subscribe | nothing the rest depends on |
| Serial stream | `pc/src/stream/serial.py`, `view/widget/serial_settings.py` | port, reader thread, queue, carry-over buffer; the widget's transition | open, close, read, write | bytes in order; a live connection is seen; a transition ends |
| Thermostat dispatcher | `pc/src/models/thermostat` | line buffer | dispatch of records, reader loop | success only if every record was written |
| Emulator, doorlock models, application start | `pc/src/models`, `pc/src/main.py` | the active model | setup, teardown | |
| Matter codecs | `pc/src/chip` | none | Base38, setup payload, SPAKE2+ verifier | (vendored) |
| User interface | `pc/src/view` | steps of the start-up wizard, widgets | wizard, credential files, start/finish, serial port | what is shown is what is set |

How they interact: the Tk thread selects a model (`main.py`), which registers a
dispatcher with the provision manager and starts its worker thread. START is
queued; the worker pulls factory data from the provider (which takes a DAC from
the pool), dispatches it over session and link to the unit, and keeps the result
pending until the operator presses FINISH; then it reports to the provider
(which settles the DAC) and writes the report files. Readiness is polled from
the stream, which has a reader thread of its own.

What is hard here: two programs that mirror a protocol with small differences, a
half-duplex UART with stale bytes of earlier units and dispatches, retries and
lost acknowledgements, three threads on the PC, and credentials whose custody is
kept in a file that is written in place. PROJECT.json lists each hazard at its
line under `hazards`.

## 2. Plan

1. `FrameLink`: both ends of the link and the UART, with proofs. *(done)*
2. `FactorySession`: a station -- dispatcher, sessions, device manager -- composed
   over an INSTANCE of `FrameLink`. *(done, with proofs)* `Provisioning`: what a station
   promises, without UART, packets and sessions, implemented by `FactorySession`.
   *(done, with the proof of the refinement)*
3. `DacPool`: the DAC store with crashes and failing writes, with proofs. *(done)*
4. `ProvisionManager`: Tk thread, workers, queue, stop and restart, events to the
   widget. *(done, with proofs)*
5. `Custody`: provider and all retrievers over `DacPool`, serial numbers: what one
   pull and one report do when a part of them fails. *(done, with proofs)*
6. `Startup`: settings, certificate stores, wizard and the change of model, with
   failing writes, loads and setups. *(done, with proofs)*
7. `Reporter`: result files and counters, half done by a failure or a crash.
   *(done, with proofs)*
8. `SerialStream` and `Thermostat` over it: reader threads, queue, carry-over buffer,
   the widget that opens and closes, and the dispatch of records. *(done, with proofs except for the lines that are logged)*

Open: `PacketChannel`, an abstract link (a packet is delivered whole, at most once per
send call unless an acknowledgement was lost) with the refinement
`FrameLink => PacketChannel`; the deadline arithmetic modulo 2^32; the logger.

## 3. Modules

### FrameLink, MCFrameLink, FrameLinkProofs

Two nodes, `Device` and `PC`, each with the variables of its program: `op`
(where the call is), `tx` (packet, fragment, tries), `buf` (the frame the next
write transmits), `asm` (assembler), `pending` (frame set aside), `wire` (frames
on their way to the node), `res`/`inbox` (what the last call returned). One
action stands for one read or write of a frame and what follows it in the code
up to the next one:

| Action | Code |
|---|---|
| `CallSend`, `CallReceive` | entry of `send_packet`/`receive_packet` |
| `WriteFrame`, `WriteFails` | `write_frame`, `FrameLink._write_frame` |
| `GetAck`, `GetNack`, `SkipControl`, `SetAside`, `AwaitUnreadable`, `AwaitTimeout` | the outcomes of `wait_flow_control` |
| `ReceiveAccepted`, `ReceiveDuplicate`, `ReceiveRejected`, `ReceiveControl`, `ReceiveUndecodable`, `ReceiveTimeout` | the outcomes of one round of `receive_one_packet` |
| `Lose`, `Damage` | the UART |

The two programs differ, and the model keeps the differences: the device has one
static `frame` which its wait for flow control overwrites, counts a timeout as a
try, and checks the CRC only when it uses the frame; the PC raises on a timeout
and checks every CRC. Abstracted: bytes (a fragment stands for its bytes), sizes,
absolute times. A deadline may pass whenever a read or write waits;
`LateReplies = FALSE` restricts that to a quiet line.

The CRC is of the payload, which begins with the sequence byte (of a FIRST frame: with
the total size and the sequence byte). So `PayloadDamaged`, which may change the sequence
number, makes `ok` false. Magic, type and size are not in the CRC. A frame whose magic or
size was damaged is lost to its reader or fails its CRC (`Lose`, `PayloadDamaged`). One
whose type byte was damaged passes as a frame of the other type: `TypeDamaged` keeps `ok`
and gives the sequence number that is read from the same bytes under the new type
(`SeqAs`). What is assembled from such a frame is `Misread`, bytes of no fragment; how
many they are decides whether a packet then overflows, ends or waits for more
(`MayOverflow`, `Totals`). `TypeFaults` is the relation of types the UART may confuse:
any for the theorems, those within a kind for `link`, none for the station.

### FactorySession, Provisioning, MCFactorySession, SessionProofs

The station: `factory_manager_process` on the unit (`dpc`: hello, wait, serve,
answer, bye, reboot) and `GenericProvisionDispatcher.dispatch` on the PC (`ppc`:
hello, open, request, response, bye) over `Link == INSTANCE FrameLink`. Session id
and factory data of a dispatch are its number (ids are random 16 byte tokens). The
operator boots the unit, places the next one and starts dispatches at any time;
frames nobody has read stay in the PC's queue, frames to a unit that leaves are
lost. `written` and `rebooted` record what happened to units, `result` what each
dispatch reported. The write of the fields is one action, but may fail after some
of them were stored (`stored = "part"`); an entry of `written` also says whether the
request it came from was `spliced`, that is, had fragments of a later request in it.

`calm` is history too: the dispatches that began with nothing unread on the UART but the
DEVICE_HELLO of a unit in its first try (`Fresh`), and before whose verdict nothing was
lost or damaged and no deadline passed while an answer was coming (`Undisturbed` takes
the dispatch in progress out). The agreement of verdict and outcome is about them;
others may come before and after.

`Provisioning` is the abstract station: dispatches one after the other (`Start`), the
verdict on each (`Decide`), the one application of its request by a unit (`Store`), the
unit's reboot (`Reboot`), the next unit, and `Disturb`. Its guards are the promises: a
success only for a unit that has everything; a failure only if no unit has, a request
applied only while its dispatch runs and a reboot only after the success, unless the
dispatch was disturbed; fragments of two requests mixed only once the first one's
dispatch is over. `Station == INSTANCE Provisioning` in `FactorySession` maps to it: the
verdict is known when the dispatcher begins its BYE (`Verdict`), what is stored is what
`written` has of the dispatch (`Applications`). It has no code of its own, so it is in no
row of `map`.

### DacPool, MCDacPool, DacPoolProofs

`files` is the directory, `json`/`saved` the file `stat.json`, `entry` the
dictionary `_entry`, `setting` the path in Settings. The outcomes of each operation
are actions of their own:

| Action | Code |
|---|---|
| `Load` | `load`, with its refusals; called by the start-up wizard only |
| `OpenWindow` | the wizard's credentials step is ready: the pool is loaded |
| `CrashAndStart` | the program ends and starts: `__init__` |
| `GetMaterial`, `GetMaterialFails`, `GetMaterialEmpty`, `GetMaterialRefused` | `get_material`: a pair, a failed save, no usable pair, a pair already in progress |
| `SetMaterialState` | `set_material_state`, as the retriever's `report` calls it |
| `Move` | the operator takes files of the kinds in `Movable` away and puts them back |

Every write of `stat.json` is refused (nothing changes) or torn (the file was opened
with "w" and is no longer JSON) up to `MaxFailures` times. A crash in the middle of
an operation is a failed write followed by `CrashAndStart`. `given` is the name the
attestation retriever holds; `open` says whether the wizard is finished, after
which nobody loads the pool; `spent` is history: the pairs whose report, success or
failure, was saved.

### Custody, MCCustody, CustodyProofs

The provider and its retrievers as the worker uses them, over `Pool == INSTANCE
DacPool`, with one worker (`OneWorker` of `ProvisionManager`). A run is a pull
(`Pull`, `PullWithoutSerial`, `PullWithoutDac`, `PullWithoutRest`: how far
`FactoryDataProvider.pull` comes; the rest are certificates, onboarding data, constants
of the schema and the check for missing fields, `FetchRest`), a `Dispatch`, and `Finish` or
`FinishWithoutData`, which is `report`. `inProgress` is `_in_progress_data`, `index`
the serial number retriever's `_index`, `indexSaved` its value in `settings.json`, -1
when that file was torn. A dispatch is one step with the outcomes
`FactorySession` allows: success only if the unit was written, failure either way.
`EndAndStart` is the end of the program at any point, also an orderly one with
a result unconfirmed (`ProvisionManager.stop`). `units` is history: what was written
to which unit. `Asked` is what a schema asks of a retriever, `Partial` the schemas that
name no constants for it.

### ProvisionManager, MCProvisionManager, ProvisionProofs

The PC program around a dispatch. Three kinds of threads' steps interleave:

| Action | Code |
|---|---|
| `Select`, `OpenWindow`, `Exit`, `Toggle` | the operator: wizard (`main.py`, `ModelSelectionStep.commit`), main window, closing it, the stream connected or not |
| `Stop`, `StopSet`, `StopJoin`, `StopEnds` | `ProvisionManager.stop`, called by the teardown of a model |
| `Register`, `Activate`, `Activated` | setup of a model, `register_dispatcher`, `activate` |
| `ClickStart`, `StartReads` ... `StartQueued`; `ClickFinish` | `start`, `finish` |
| `Show` | `update_view` of the widget, from the Tk queue |
| `Begin`, `Render`, `Post`, `Loop`, `Get`, `Poll`, `Polled`, `Claim`, `Store`, `Finalize`, `Settle` | `_worker_main` and what it calls, from one lock section to the next |

`state`, `ready`, `pending`, `queue`, `stopEvent`, `thread` are the class attributes;
a result is the number of its run. `active` says that a model is set up (which one is
`Startup`'s business). `posted` is the Tk queue, `shown` what the widget shows and thereby which of
its buttons is enabled. `run`, `confirmed`, `reported` are history. A dispatch and
its pull are one step (`Store`) that succeeds or fails: `FactorySession` and
`DacPool` say what is behind it. `stop` waits 2 s for the worker, which the model
turns into: it may give up only on a worker that is dispatching or reporting.

### Startup, MCStartup, StartupProofs

From the start of the program to the main window, on the Tk thread, one handler an
action. An operation on settings and stores (`Put`, `Save`, `Load`, `Restore`,
`ApplyExample`) takes the record of their state and returns the set of those it may
leave, each with `ok`, whether it raised; `Then` chains them as statements are. `Save`
may be refused or leave `settings.json` torn, a load may be refused, or for the pool
empty it and raise. What a handler did before an exception stays, as in Tk.

| Action | Code |
|---|---|
| `Start`, `StartRaises`, `Close`, `TakeFileAway` | `main`, `Settings._load`, the constructors of stores and steps; the end; the operator with a file the program does not start with |
| `ChooseModel`, `NextModel` | `ModelSelectionStep`, `Settings.set` and its callback `_setup_runtime_for_model` |
| `TypeStation`, `EnterDir`, `NextStation` | `StationSetupStep` |
| `BrowseDac`, `BrowsePai`, `BrowseCd`, `ToggleExample` | the resolvers and `_on_use_example_changed` |
| `Prev`, `Finish` | `Navigator.prev`, `finish` with `MatterCredentialsStep.commit` |

`dirty` and `failed` are history: the last write, or the last change of model, failed.

### Reporter, MCReporter, ReporterProofs

`ProvisionReporter.write` from one file operation to the next: `Write` (directory and
document), `WriteFile`, `ReadStats`, `WriteStats`, each with its failure. `files` maps a
name -- second and result -- to what the file holds; `stats` is the statistics document.
`Restart` may come between any two steps; the main window then builds the overview
anew, the only time it reads the counts (`shown`). `success`, `named` and `counted` -- the
reports whose update of this document went through -- are history.

### SerialStream, Thermostat, MCThermostat, SerialProofs

`SerialStream` is `stream/serial.py` with the widget that opens and closes it. Each
port opened has a number and a pySerial reader thread (`reader[c]`: fresh, running,
leaving, lost, dead; pySerial is external and modelled from how it is used). The
widget's thread (`opener`) is one call of `_do_connect` or `_do_disconnect`:
`StartClose`, `JoinReader`, `OpenPort` or `OpenPortFails`, `Connect`, `Adopt`, between
which the reader threads run. `RefreshPorts`, `Click` and `FinishTransition` are the
widget on the Tk thread. Bytes are numbered as they arrive; `queue` holds chunks,
`buffer` the surplus of a chunk, `result` what the read in progress has. `strays` is
history: ports whose reader ended before `open()` held them.

`Thermostat` EXTENDS it with the dispatcher: `Dispatch` (expansion, encoding and the
first value that cannot be sent), `Write`, `Hand`, `HandFails` (one record: the test for
a connection, the write) and `ReaderLoop`, the thread that reads and logs lines: a line
ends at a newline and loses a carriage return directly before it (`Stripped`). `Newline`
and `CarriageReturn` say which of the numbered bytes are such.

## 4. Runs

| Run | Question | Bounds and why they are enough |
|---|---|---|
| `link` | Do receive calls return whole packets only (`WholePacket`, and `LinkInv` with the types and its strengthening); does every send call end? | a one-frame and a three-fragment packet (first, middle and last fragment), both directions at once, 2 tries (one retry), 1 fault: a frame lost, its payload damaged, or its type, within the kinds of data and control frames, one or two bits apart. What is misread as FIRST is left out, being always refused; with all pairs of types the instance has 2.2 million states and is too slow for a run with `SendReturns`; the invariants hold there as well |
| `link_retry` | Does a retry repeat the fragment? (violated, see Findings) | two fragments, 2 tries, types intact |
| `session_faults` | What do success and reboot promise with a fault and early deadlines; do verdict and outcome agree for the calm dispatches; is it an abstract station? | two dispatches, boots and units: stale frames of one meet the other, and a calm dispatch comes before or after a disturbed one |
| `session_timely` | Do every dispatch and every run of the manager return? | 2 dispatches, 3 boots, 2 units, 1 fault; stale frames of earlier boots, a UART that answers in time |
| `dac_pool` | Is a DAC spent for good once its report was saved; can its holder report? | three pairs (a usable one before and after an unreadable one), 2 failures, 2 moves, 2 crashes |
| `custody` | Do serial number and DAC reach one unit only, and does each report settle the DAC of its run? | pairs as above; 3 runs, 1 failed write of each file, 1 move, 2 restarts; one schema whose pulls succeed, one that asks for certificates |
| `custody_shipped` | violated, see Findings | one run suffices |
| `provision` | Is there one worker; is each result reported once, in order, after its confirmation; do connections, READY and results reach manager and button, and confirmations the reports? | one change of model; 4 clicks (two whole cycles, or double clicks); the stream comes and goes once |
| `provision_notice` | violated, see Findings | one change of model suffices |
| `startup` | Does the program run with what the wizard shows and the file keeps? | two models, two stations, one directory, own and example credentials, 1 failed write; starts without bound |
| `reporter` | Are the counts those of the reports whose update went through, and is every report still in its file? | 4 reports (two of each result, or of one), 2 seconds, 2 failures |
| `serial` | Are bytes read once and in order; does each transition end; what does success of the thermostat's dispatch mean? | 2 ports opened (one after the other), 4 bytes in chunks of up to 3, reads of 2: a chunk that is split, joined or waits; two carriage returns, a newline and a byte after it |

Every bound is a CONSTANT: `MaxTries` (3 in the code; 2 shows a try, a retry and
giving up), `MaxFaults`, `MaxBacklog` (stale frames when a send call starts),
`MaxDispatches`, `MaxBoots`, `MaxUnits`, `MaxFailures`, `MaxMoves`, `MaxCrashes`,
`MaxSelects`, `MaxClicks`, `MaxToggles`, `MaxRuns`, `MaxReports`, `MaxSeconds`,
`MaxSlips`, `MaxOpens`, `MaxBytes`, `MaxChunk`; `slips` counts failed writes of files,
in `Custody` up to `MaxFailures`. Two `Worker` identities show a second worker
beside the first; those of dead workers are used again.
Deadlock is checked for the link, the pool, the start-up, the reporter and the serial
stream. In the station everything stops once
the operator has used up boots, units and dispatches, and the PC program ends when
its window is closed, so those runs do not check it and liveness takes its place.
In `Custody` everything stops when the runs are used up or when the program does not
start with a torn settings file.

Fairness (`session_timely`, `link`, `provision`, `serial`): both programs are loops whose reads and writes have deadlines, so each of
their steps is weakly fair, deadlines included; a send call needs only that writes return
and its wait's deadline comes (`link`). `session_wait_pc_hello` looks at an
absolute deadline after every read; the check is enabled again and again rather than
continuously, hence strong fairness for `OpenExpires`. In the PC program the threads are scheduled and a dispatch returns
(`DispatchReturns`, checked in `session_timely`), so the Tk thread, its queue and
each worker are weakly fair; so are the widget's thread, the reader threads and the
Tk thread of `SerialStream`, where pySerial's reader is assumed to leave its read,
whose timeout is one second, when it is told to stop. Nothing is assumed of the operator, the UART's faults or
the order of events.

## 5. What is proved

`FrameLinkProofs` (no assumption but the named ones of `FrameLink`):

* `LinkInvariant`: `Spec => []LinkInv`, for any `TypeFaults`. `WholePacket` alone is not
  inductive: it needs that every undamaged frame that has the type it was sent with --
  on the wire, in a buffer or set aside -- is the fragment it says (`FramesWellFormed`),
  and that each assembly in progress is a prefix as long as its expected sequence number,
  gapless but for misread frames, each in the place of one fragment, and of the length
  its first frame announced unless a misread frame was shorter (`Prefix`). On a UART with
  `TypeFaults = {}` nothing is misread (`TypesKept`), and every packet received has all
  fragments its first one announced and no more (`IntactLink`, which the station's proofs
  use). One lemma per action.
* `TypeCorrect` and `WholePackets` follow from it.
* "Fragments in order" is for the users of the link: give each packet a rank (`K`) such
  that the PC sends packets of several fragments in rising order. Then the fragments that
  can still be assembled -- set aside, on the wire, still to be sent -- come in rising
  order (`Rising`, `From`): the one-place queue of a sender that waits for each
  acknowledgement makes a repetition equal to the last fragment, never older.

`SessionProofs`, from the named assumption of `FactorySession`. It has requests of at
least two fragments (a request with two certificates and a key is longer than a frame of
512 bytes) and at most 254 (the sequence is a byte). Of the link in there, the UART leaves
frame types alone (`TypeFaults = {}`) and `MaxBacklog` is 1000 frames.

* `SessionInvariant`: `Spec => []SessionInv`. A request of one fragment could be repeated
  after it was applied; one of several cannot, and this is what the invariant is about.
  Requests are ranked by their dispatch. Nothing of a request exists before its dispatch
  sends it (`Known`); once a request was received or applied, only fragments behind its
  first one can still come (`Taken`, `Behind`), so a `FIRST` frame of it cannot, and an
  assembly that begins with another one is another request's. An OK response on its way
  is deserved: the request was applied, whole, or its dispatch is over (`Answered`); a
  unit on its way to reboot has stored all of it (`Rebooting`).
* `SuccessIsWritten`, `WritesHappenOnce`, `RebootIsWritten` and `SessionTypeCorrect`
  follow. That fragments are of one packet is not among them: it is false, see Findings,
  and `SuccessIsWritten` says that no success is reported for such a write.
* `CalmInvariant`: `Spec => []CalmInv`, for the agreement of verdict and outcome. While a
  calm dispatch has no verdict the two programs are in lockstep, and `Lockstep` names
  the positions: nothing sent but DEVICE_HELLO (`Awaiting`), that and the PC's HELLO in
  exchange (`Greeting`, `Joining`), the request fragment by fragment (`Moving`), the
  response (`Answering`), the response the PC has got (`Told`); or the PC, with
  nothing received, is about to fail (`Doomed`). Each position says what
  both ends wait for and every frame there is, which leaves one next step of one of
  them; a lemma per position and program shows that it leads to the same or the next
  position. Within a position the work is the link's: the lemmas on an exchange in which
  nothing is lost, at the end of `FrameLinkProofs`, follow one packet from fragment to
  acknowledgement to the next fragment. After the verdict a calm dispatch is `Settled`:
  a success, or a failure whose request was applied in part or of which no frame exists
  any more, and stays so whatever comes of its BYE and of later dispatches (the order of
  the fragments, `SessionInv`, keeps an applied request from being applied again).
* `FailureIsUnwritten` and `RebootIsReported` follow from it.
* `StationImplemented`: `Spec => StationSpec`. Each step of the station is a step of
  `Provisioning` or changes nothing of it; the invariants above are what its guards ask
  for: `SuccessMeansWritten` for `Decide("ok")`, `CalmInv` for `Decide("failed")` and for
  calm applications and reboots, `WrittenOnce` for `stored[d] = {}` in `Store`,
  `RebootMeansWritten` for `Reboot`.

`DacPoolProofs`, from the hypothesis that one file of every pair stays in the
directory (`Movable # Kind`):

* `PoolInvariant`: `Spec => []PoolInv`. The strengthening says that a spent pair is
  CONSUMED or ERROR both in the dictionary of a loaded pool and in every `stat.json`
  that can be read, and that `stat.json` exists once a pair was spent -- a missing
  file, unlike a corrupt one, would make the pool new.
* `SpentStaysSpent`, `HolderIsHeard`, `OneInProgress` follow from it.

`CustodyProofs`, from the named assumption of `Custody`:

* `SerialsAreUnique`, `DacsAreUnique` follow from `CustodyInvariant`: `Spec => []CustodyInv`.
  For serial numbers it says that those on units are behind the counter in memory and
  behind the one in a settings file that can be read, and so is the number being
  dispatched, which no unit has. For DACs it says that one injected in the current
  start of the program is not READY in memory -- no action of an open window makes a
  pair READY, and a unit of this start exists only while the window is open.
* `CustodyRunsPool`: the custody implements `DacPool!Spec`, so the pool's theorems carry
  over. With `DacIsHeld` (what is in progress is held by the retriever) they give
  `ReportsSettle` and `SettledStaysOut`, under the pool's hypothesis on the files.
* `CustodyTypeCorrect` (under that hypothesis) takes the pool's types from
  `PoolInvariant` and adds that a run uses up one serial number at most (`RunBounds`).
* `NothingIsLeft` (likewise): `RunsLeaveNothing` needs what holds in the middle of a run,
  that a pair in progress without data in the provider comes from a failed write or from
  a retriever that raises after the DAC's (`LeftInv`).

`StartupProofs`, from no assumption on models, stations or directories:

* One lemma for each operation on settings and stores says what it leaves alone (the
  other keys, the other certificates) and that it keeps `Kept`: file and memory agree
  after a write that did not fail, each certificate is that of its path. The inductive
  `StartupInv` adds that the readiness of the first two steps is that of what they show
  and that a step left behind was ready; `PassedStepsAreKept` alone says nothing of what
  is shown in a step not yet passed, and `FinishedIsConfigured` follows only with it.
* `MainIsConfigured`, `StepsShowSettings`, `RuntimeIsOfModel`, `FileKeepsSettings`.
* `StartupTypeCorrect`: each operation maps states of settings and stores (`Stores`) to
  such states, whatever it raises.

`ReporterProofs`:

* `CountsAreRight`: `ReporterInv` is inductive as it stands: the report in hand has its
  file and is not counted, the counts that were read are those of the document. Counted
  reports have their files, so what `Restart` shows is no more than was written.
* `NoReportLost`: `ReportsAreKept`, from `ReporterInv`.

`ProvisionProofs`:

* `OneWorkerServes`. `stop` may give up on a worker in a dispatch, so the theorem rests
  on where that can be: before the main window is there, nothing but STOP is queued and no
  worker serves (`Unclicked`), and after it only the end of the program stops workers. So
  the invariant says that a worker that lives is the manager's until the program is gone,
  and dead once it was joined for a change of model.
* `RunsAreReported` and `ProvisionTypeCorrect`, from `RunInv`. `ReportsFollowRuns` alone
  says nothing of the clicks under way. The invariant says that runs and reports take
  turns: between a START that is claimed and the end of the report the manager is in
  PROGRESS or has the pending result, and only then (`Books`); what is shown and still to
  be shown changes at most once between a result and anything else (`Display`), so START
  is not clicked on a result and FINISH on nothing but one; a FINISH in the queue is of
  the pending result or comes before the next START, and no START is behind it that could
  be claimed before it (`Order`). It also needs that the worker of the first run lives
  until the program ends and reads no STOP (`Steady`).

`SerialProofs`:

* `BytesAreInOrder`: `Spec => []StreamInv`. What reads have returned, what the read in
  progress has, the surplus carried over and the chunks in the queue are, one after the
  other, the bytes that arrived. The strengthening: a read with room left has no surplus
  beside it, and no chunk goes beyond the last byte that arrived (`ReadInv`, `Bounded`).
* `LiveConnectionIsSeen` (`FlagIsOfHeldPort` and `OneReader`, two parts of `StreamInv`):
  a reader that lives is of the port the stream holds, or of the one the widget's thread
  closes or opens, and while that has one the stream has none (`Owners`).
* `RecordsInOrder`: `SuccessMeansAllSent`; what was written and what is left are always
  the records in order.

Only model-checked:

* all liveness (`SendReturns`, `DispatchReturns`, `ManagerReturns`, `ConfirmedIsReported`,
  `ReadyIsShown`, `ResultIsShown`, `ConnectionReachesManager`, `TransitionEnds`): fairness
  and ENABLED are outside what TLAPS proves here;
* `LogInv`: the log has every byte that was read but newlines and the carriage returns
  directly before them, and no line runs over a newline (`LinesAreOfBytes`). It is about filters and folds of sequences of any length and needs
  induction over them.

## 6. Findings and limits of what holds

* **A retry does not repeat the fragment** (`link_retry`). `send_current_packet`
  retries by writing `frame` again, but `wait_flow_control` has initialised and read
  into the same object: after a timeout the device transmits a blank frame, after a
  NACK the NACK. The packet is lost where the retry was meant to save it. The unit
  test only counts the frames written.
* **A leftover STOP ends the next worker** (`provision_notice`, manager.py:129). A
  worker that leaves on the stop event leaves STOP in the queue; the worker of the
  next model reads it and ends, and nobody polls the stream. `ReadyIsShown`,
  `ResultIsShown` and `ConnectionReachesManager` therefore except a manager whose
  worker is dead (`Unserved`).
* A frame whose type byte was damaged is accepted (factory_frame.c:144, frame.py:129: the
  CRC is of the payload). CONSECUTIVE (0x03) read as SINGLE (0x01) is returned as a packet;
  SINGLE read as CONSECUTIVE has the protocol version, 1, in the place of its sequence
  number and continues an assembly that waits for its second frame; an ACK becomes a NACK
  and back. `WholePacket` says what can come of it: a misread frame is a packet of its own
  or takes one place in a packet that leaves out nothing else. That the layers above refuse
  such a packet (version, session id, sizes, protobuf) is not modelled; everything said of
  the station is about a UART that leaves types alone.
* A packet may be completed with another one's fragments (factory_session.c:642). A
  CONSECUTIVE frame names no packet, and the unit takes a FIRST frame in the middle of an
  assembly for a retransmission. When a dispatch fails after the unit took the first frame
  of its request (a stale frame in the PC's queue is enough), the next one starts within
  the second the unit waits for the rest, its PC_HELLO is lost and a stale ACK stands for
  the missing one, then the fragments of the second request complete the first. It takes a
  third dispatch and boot beside the bounds of `session_faults`. The decoder of the unit
  may refuse the result (`ServeInvalid`) or write it (`ServeWrite`); `SuccessMeansWritten`,
  proved for all bounds, says that the PC then reports no success.
* With a lost acknowledgement the PC may report a failure for a unit that is written
  (two generals). `FailedMeansUnwritten` and `RebootMeansReported` are therefore about
  calm dispatches: nothing disturbs them before their verdict.
* A UART that loses nothing and answers in time is not enough for that; the dispatch must
  also begin on a fresh UART (`Fresh`), because the PC never drains the frames earlier
  dispatches left it, and an ACK names neither packet nor session. Without a fault, one
  unit booted four times: the DEVICE_HELLO of the first boot times out and stays unread.
  Dispatch 1 reads it; its ACK confirms the second boot's HELLO instead, and where the ACK
  of PC_HELLO should be it finds that HELLO and fails, leaving the unit's ACK unread.
  Dispatch 2 fails likewise one frame later and leaves more ACKs and a DEVICE_BYE. In
  dispatch 3 they confirm PC_HELLO and the first fragment ahead of time; the whole
  request reaches the unit, which writes it, while the PC finds the old DEVICE_BYE where
  it waits for the last ACK and reports a failure. One lost frame in an earlier dispatch
  shortens this to two dispatches.
* **Every pull with a shipped schema fails** (`custody_shipped`,
  matter_attestation.py:109 and 118): `pai_cert` is a property whose bytes are called,
  and `cd_cert_store` has no `cert`. The exception comes after the DAC was taken, so
  it also stays in progress and the next pull is refused by the pool. The run `custody`
  therefore also has a schema without certificates, to see what lies behind.
* `get_material` marks a pair in memory before it saves (dac_pool_store.py:225). When
  the save raises nobody holds the pair, and no other is given out until the program
  starts again; `RunsLeaveNothing` is stated for runs without a failed write.
* `SpentForGood` needs one file of each pair in place: when both files of a spent
  pair are away during a load, `stat.json` forgets it, and it is READY when they are
  back. A pair counts as spent only when its report was saved: a crash, or a window
  closed on an unconfirmed result, between injection and FINISH makes the pair READY
  again at the next start. `DacUnique` is therefore stated within one start of the
  program, `SettledNotInjected` over all of them.
* A torn `settings.json` keeps the program from starting. `SerialUnique` holds
  because of that; an operator who deletes the file starts again with number 0.
* A disconnection that `start()` notices is not shown (manager.py:118): the state becomes
  IDLE, a START is queued nevertheless and dropped without rendering (line 197), and the
  worker's poll then sees no change (line 192). The button keeps offering START; nothing
  is checked that says IDLE is shown.
* `setup` of a model initialises the provider once and `teardown` does not reset it
  (models/doorlock/\_\_init\_\_.py:51): after a change of model in the wizard it keeps
  the schema and the retrievers of the first.
* A change of model whose write or setup failed leaves the new model in memory; Next once
  more finds nothing to set (settings.py:64) and goes on without a runtime.
  `RuntimeFollowsModel` excepts it.
* The credentials step is built with the wizard, when the settings have the model of the
  last start, and applies that model's examples; a model chosen afterwards does not apply
  its own until the box is toggled (`OpenCredentialsStep`).
* The count of a report is lost when its file was written and the update of the counts
  then fails or is cut off by the end of the program (reporter.py:103, 389): nothing counts
  the files again. `CountsAreOfReports` is about the updates that went through.
* A torn statistics document stays: later reports write their file and are not counted,
  and the overview shows 0, until somebody takes the document away. The overview reads
  the counts only when it is built.
* Two reports of the same second and result share a file name, and the later one replaces
  the earlier: `ReportsAreKept` excepts it.
* A reader that dies between `connect()` and the moment `open()` holds its port is joined
  by nobody; its late `connection_lost` clears the flag of the next connection, which then
  looks closed while its reader runs. `FlagIsOfHeldPort` excepts such ports (`strays`).
* The bytes of one connection that nobody read are read over the next: neither `open` nor
  `close` clears queue or buffer. A click on "Disconnect" that comes after the cable was
  lost connects (serial_settings.py:224 asks again).
* The records of a thermostat's dispatch may go over two connections, even to two units,
  and the unit acknowledges nothing: `SuccessMeansAllSent` is about writing only.

## 7. Not modelled

* The byte codec and CRC of frames: pure; the payload of a frame is intact or damaged, its
  type the one it was sent with or another. A CRC that matches by chance is left out. The deadline
  arithmetic of `factory_session.c` modulo 2^32: deadlines may pass at any moment, late
  ones (after 49 days of uptime) are not modelled.
* The logger and its widgets, the QR code, alerts and layout: nothing that is modelled
  reads what they keep.
* The form of schemas and their merge, the parsing of certificates, and the values that
  the onboarding retriever generates: a choice of accepted or refused.
* `emulator`'s dispatcher: any outcome of a dispatch, as in the other models.
* Left out for good: vendored Matter codecs (arithmetic on curves), generated protobuf
  code, authentication packets (declared, sent by nobody).
