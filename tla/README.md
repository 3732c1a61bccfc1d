# Verification of lsp-plugin-fw in TLA+

lsp-plugin-fw is the framework the LSP plugins are built with: it runs one
plugin under JACK, LADSPA, LV2, VST2, VST3, CLAP or GStreamer and connects it to
its user interface, to shared memory, to files and to presets. What is hard in it
is not the signal processing but the exchange of state between the audio
thread, the user interface, the host and the framework's own threads. This
directory holds TLA+ models of that exchange, the runs of TLC that check them
and the proofs TLAPS checks.

Paths below are relative to `src/` of the repository's copy (so
`src/main/core/KVTStorage.cpp` is `src/src/main/core/KVTStorage.cpp` in
`PROJECT.json`); `core/`, `plug/`, `wrap/` abbreviate the directories of that name
under `src/main` and `include/lsp-plug.in/plug-fw`.

## 1. Inventory

| component | state it keeps | operations | hard behaviour | what makes it correct |
|---|---|---|---|---|
| `core::KVTStorage` | tree of nodes with hand-made reference counts; lists of valid, garbage, TX- and RX-pending nodes; trash of parameters; counters | put, get, exists, remove, remove_branch, clear, touch, commit, touch_all, commit_all, gc | sequences of calls on nested paths, failure part of the way, listeners called from inside loops, what gc() frees | counts exact, nothing dangles, one owner per parameter, loops end, it is a map |
| `core::KVTIterator` | mode, current and prefetched node, index, stack of indices | next, get, put, remove, touch, commit, remove_branch | the storage changes under it | visits what the header says, never a freed node |
| `core::osc_buffer_t` | ring, size (atomic), head, tail | submit, fetch, skip, clear, reserve | one thread writes while one reads; records meet the end of the ring | a FIFO of whole packets |
| `core::KVTDispatcher` | two buffers, number of clients, number of requests | iterate (thread), connect_client, disconnect_client, submit, fetch, skip | clients come and go in the middle of a round; buffers fill | the two storages agree in the end |
| LV2 and VST3 wrappers, KVT part | the UI's own storage, its mutex | receive_kvt_state, send_kvt_state, transmit_kvt_events, transmit_kvt_changes | trylock of the other side's mutex, two consumers | as above |
| `plug` data ports (`data.h`, `data.cpp`) | mesh_t, stream_t, frame_buffer_t, string_t, path_t, midi_t, position_t | write and commit on one side, sync and read on the other | lock-free windows over rings, spin locks, serial numbers | readers see whole, recent data; no update is lost |
| `core::Catalog`, `ICatalogClient`, `CatalogManager` | list of clients, thread, request and response serials | attach, detach, request_update, request_apply, the thread's loop | thread starts with the first client and stops with the last; requests race with their service | every request is served; detach returns only when nobody uses the client |
| `core::AudioSend`, `AudioReturn`, `ShmClient` | parameters and streams handed over between threads, status word | publish, connect, begin, write/read, end, apply, update | status written by two threads; failure to publish | the last settings win; begin and end alternate |
| `core::SamplePlayer` | requested and taken file name, request and response counters, loader and collector tasks, garbage list | play_sample, process, load_sample, perform_gc | requests of another thread, a task's completion against a new request, failed loads | each sample has one owner, requests settle, the file requested last plays |
| wrapper protocols | path_t flags and serials, serials of texts and resets, preset flags and state, LV2 state mode | submit, accept, commit; lock, set, fetch, notify; save and restore | three threads with compare-and-swap, messages that cross | no request lost, no half-written state read, the interface shows what the plugin holds |
| `ui::IWrapper`, presets | list and active preset, dirty mark, A and B settings, what the plugin was told | select, save, remove, scan, switch, copy, import, reset | long sequences of legal operations; marks set from port callbacks | A/B keep what they were left with; an unmarked preset is what the ports hold; the plugin knows |
| `meta`, `ctl`, utilities, tracing, resources | | | single-threaded glue, text and floating point | not modelled |

How they interact: the plugin (audio thread) and the dispatcher's thread share one
`KVTStorage` under the wrapper's KVT mutex. The dispatcher moves marked
parameters between that storage and two `osc_buffer_t`; a user interface has a
`KVTStorage` of its own and stands at the other end of the buffers, directly in
LV2 (same process) or through host messages. `Catalog` serves `AudioSend` and
`AudioReturn` from its thread; they belong to `ShmClient`, which the wrapper owns
and drives from the audio thread. Data ports carry streams, pictures, texts and
paths between the audio thread and the user interface, and the preset state
travels between the interface, the plugin's wrapper and the host.
`PROJECT.json` lists every component with its status, and under `hazards`
everything in this code that is hard to test, each at its line.

## 2. Modules

| module | what it is |
|---|---|
| `KVTMap` | abstract specification of the storage: a map with TX and RX marks and calls that visit many parameters |
| `KVTStorage` | the tree; implements `KVTMap` |
| `KVTStorageProofs` | theorems about `KVTStorage` for every finite tree, with that refinement |
| `MCKVTStorage` | the trees and parameters TLC uses |
| `OscQueue` | abstract specification of the buffer: a bounded FIFO of packets |
| `OscBuffer` | the ring, word by word; implements `OscQueue` while calls do not overlap |
| `OscBufferProofs` | theorems about `OscBuffer` for any capacity, packets and limits, with that refinement |
| `MCOscBuffer` | the packets TLC uses |
| `KVTDispatcher` | the dispatcher's thread, the plugin and the user interface |
| `KVTDispatcherProofs` | theorems about `KVTDispatcher` for any keys, values and room |
| `MCKVTDispatcher` | the parameters TLC uses |
| `ICatalogClient` | request and response serials, with wrap-around |
| `Catalog`, `MCCatalog` | the catalog's thread, its manager and the life of its clients |
| `CatalogProofs` | theorems about `Catalog` for any finite set of clients |
| `RtState` | `lltl::state`, the box two threads hand objects over in |
| `AudioSend`, `AudioReturn` | the two ends of an audio link, audio thread against catalog's thread |
| `MCAudioLinks`, `MCAudioSend` | both ends in one run; the send by itself |
| `AudioLinksProofs` | theorems about both ends for any names, number of slots and width of serials |
| `StreamPort`, `FrameBuffer` | `plug::stream_t` and `plug::frame_buffer_t`, writer against reader |
| `StringPort`, `PathPort` | `plug::string_t` and `clap::path_t` with the ports that use them |
| `SamplePlayer` | files the user listens to, and the ownership of their samples |
| `MCDataPorts` | the buffer, the four ports and the sample player in one run |
| `DataPortsProofs` | theorems about streams, pictures, texts, paths and the sample player, each by itself or in that run |
| `PresetManager`, `PresetManagerProofs` | presets, A and B of the user interface, with theorems |
| `PresetExchange` | the preset state between interface, plugin, controller and host |
| `MCPresets` | both in one run |
| `PresetsProofs` | theorems about the exchange, by itself and in that run |

A definition named `...Always`, `...Short`, `...Kept` and so on, with a comment
that starts with "Slip:", is not part of a specification: it is the definition
below it with a plausible mistake, kept to show that the properties notice it.

### KVTStorage

State: `children`, `refs`, `param`, `pending` are the fields of `kvt_node_t`;
`sValid`, `sGarbage`, `sTx`, `sRx` and `pTrash` are the lists, as sets; `nNodes` to
`nRxPending` the counters. `loop` is the loop a call is in (with the nodes it has
left), `ret` what the last call returned (`NoReturn` while a call loops). A node is named by its path. A path
may be freed and allocated again: one that is neither in `sValid` nor in
`sGarbage` is not allocated.

Steps: under the KVT mutex one call is one step. The exceptions are
`remove_branch()`, `touch_all()` and `commit_all()`: they call the listeners between
two rounds, so each round is a step, and each state between rounds is checked. The
listeners are assumed to look at the storage and not to change it, as the ones in
the repository do. `put()` is five actions: created, changed, rejected (`KVT_KEEP`),
failed (an empty component, or no memory for a node or the parameter, after
the nodes of a prefix were created: `PutFailed(n)` is the failure behind the
prefix `n`) and orphaned: `create_node()` allocates a node into the garbage list and
then finds no memory to grow the parent's children array. That node is linked
nowhere and has no parent; it is an element of `Spare` in `sGarbage` until `gc()`
takes it by the branch `parent == NULL`, and a later `put()` of the same path
allocates another one. `TreeSound` says that such a node is in no children array
and that every other one is in its parent's. The loops may run out of memory between two rounds (`GiveUp`).
`get()`, `exists()` and `remove()` may be asked for the wrong type. `clear()` is
`remove_branch()` of the root.

Climbing loops are written as sets: `Raised(n)` is the set of nodes
`reference_up(n)` passes (up to the first one that was referenced already),
`Lowered(n)` the same for `reference_down(n)`. `Gc` cleans the children arrays of
referenced parents of garbage nodes only, as the code does; that nothing else
needs cleaning is part of `TreeSound`.

Left out: the order of lists and of children arrays (it matters to iterators
only), the text of paths, types and contents of values beyond "right or wrong
type", and `destroy()`, after which the storage cannot be used any more because
the root is left without its reference.

### OscBuffer

The ring is counted in words of four bytes. `words`, `nSize`, `nHead`, `nTail` are the
fields. A call of `submit()` is three steps (load of `nSize` and the check, the
copy, the store of `nSize`), a call of `fetch()` too (load, copy, `atomic_add`).
Positions may equal `nCapacity`, where the size word lies behind the ring; `create()`
allocates that word by its alignment reserve, and it starts as `Junk` like the rest.
`held` (the packets accepted and not taken) and `due` (what the last fetch should
have taken) are history variables: no step reads them to decide anything.

Three specifications share the actions: `Spec` (calls do not overlap),
`ConcurrentSpec` (one thread submits while one fetches) and `SkippingSpec` (calls do
not overlap, and a reader skips what is too large for it).

Left out: `reserve()` and the `submit_...()` helpers that forge a packet before they
call `submit()`, checks of null arguments, and `clear()` at the time of another call.

### KVTDispatcher

The storage is used through `KVTMap`'s promises (value and marks per key) and the
buffers with room counted in packets. `at` is the position of the dispatcher's thread
in `iterate()`. It holds the KVT mutex unless `at = "away"`, so the plugin's actions and
the UI's `UiReceive` (which takes that mutex by trylock) need `"away"`;
`connect_client()`, `disconnect_client()` and `send_kvt_state()` do not take it and
interleave with every step of a round. The UI is the direct UI of the LV2 wrapper
(`wrap/lv2/impl/ui_wrapper.h`). What a plugin and a controller do to their storages
(`DspChange`, `UiChange`) is outside this repository and modelled as the interface
allows. Marks nothing here reads (`KVT_RX` at the plugin, `KVT_TX` at the UI) are left out.

Both ends take the mutex to use `pTx`, so calls do not overlap there and it is the queue
`OscQueue` promises. `pRx` is not: the UI submits while the dispatcher fetches, which is
what `buffer_concurrent` refutes, or clears. So a `submit()` is two steps here:
`UiSubmit` loads `nSize` and writes the record (`sending` keeps the sum), `UiStore` stores
the sum, whatever was fetched since. `nSize` is then larger than the number of whole
records in `pRx`. When the records run out, `ReceiveStale` takes what the memory of the
ring holds: a record of a parameter that was ever submitted (`sent`) with any value, or
one that ends the loop, or one that is too large to fetch and to skip, with which the
dispatcher turns round for ever, mutex in hand (`at = "stuck"`). From then on (`torn`),
as after a `clear()` while a `submit()` is in progress, head and tail enclose no whole
record, until the next `clear()` that meets no `submit()`.

`clash` is a history variable: the keys both sides changed while the other's value
was on the way, or whose change the UI dropped because the buffer was full or the
packet could not be built. `Unsure` is what a torn buffer may tell of. The code makes
no promise for either (see hazards), so the properties leave them out: `clash` until
the next UI connects, `Unsure` until the buffer is whole again.

Left out: records at unaligned positions, whose first word may read as anything (a torn
buffer tells of parameters that passed through it); several clients at a time (the
LV2 host UI and the direct UI compete for one buffer); the VST3 messages.

### Catalog, ICatalogClient

State: `vClients`, `pThread`, `sThread`, `sMutex` of `Catalog`; `nCatalogRefs` and `alive`
of `CatalogManager`; `pCatalog`, `sUpdate`, `sApply` of each client. `life[c]` is where the
owner of `c` is in `attach_client()` or `detach_client()`, `at`, `left` and `busy` where the
thread is in its pass. Each lock and unlock, each step of attaching and detaching
and each call the thread makes is an action, so an owner can be anywhere while the
thread is in a call. A serial that is loaded before a call and stored after it
(`took`) is kept apart from the one raised meanwhile. A call succeeds or fails
(`MaxFails`), the thread's start too. `keep_alive()` changes nothing modelled.

### AudioSend, AudioReturn, RtState

The audio thread (`rt`) and the catalog's thread (`srv`) share `enStatus`, two boxes
(`sParams`, `sStream`) and two requests; each access to one of them is an action.
`RtState` gives the boxes as the library behaves toward its users: an object pushed
over is freed by the push, one replaced by `get()` is kept until the next push.
`dspu::Catalog` is `entry` (who publishes a name) and `news` (who has to see it
changed). Others publish, write and close at any time. The audio itself is left out.

The catalog may refuse a name (`Refuses`: `get()` or `get_or_reserve()` fails). The return
then pushes a stream that is not open, keeps the record it had, and counts the request as
answered. `refused` is a history variable: the stream made last is one of these.

### StreamPort, FrameBuffer

Samples and rows are numbers in the order of writing, so that a reader that gets
the wrong one can be told from one that gets the right one. `src` and `dst` are two
objects of the code's type; `sync()` of the reader is a step per frame or row, and
the writer goes on between them. `InTime` is an assumption, not a guard of the code:
the writer runs around neither ring, of samples or of frames, while one `sync()` copies.
Identifiers do not wrap (32 bits in the code), and with `nFrameCap` 16 the ring of frames
does not come around within `MaxFrames` frames; the ring of samples does, and so does the
one of rows. The proofs cover the ring of frames that comes around.

`StreamConstants` asks that a frame is shorter than two histories. The frames have up to
8192 samples (`STREAM_MAX_FRAME_SIZE`, `data.h:35`), and the history is what `create()` is
given from a plugin's metadata. With half of that or less `create()` makes room for a
single frame, and `add_frame()` of a full one silences history that `read()` still gives.

### StringPort, PathPort

`main` and `audio` (`dsp`) are the places of the two threads, the rest are the fields. A
text or path that is being copied has the value `Torn` (`Mixed`) until the copy is
complete. `crossed` (a text came into force while a reset was on the way) is a
history variable of `StringPort`, `requested` and `loaded` of `PathPort`. `StringPort`
has `set_default()`, called by the audio thread without the lock. `PathPort` has the
host's request, which does not take the lock either. The flags of a path beyond
pending and accepted (`nXFlags`) and saving to the host are left out.

### SamplePlayer

`sReqFileName`, `nUpdateReq`, `sFileName`, `nUpdateResp`, `sLoadTask`, `sGCTask`, `pLoaded`
and `pGCList` are the fields. `bound`, `playing` and `garbage` stand for the two
`dspu::SamplePlayer`, `content` for the heap: the file a sample in memory came from.
`ui` and `rt` are the places of the thread that requests and of `process()`; in CLAP,
VST2, JACK and VST3 the name is copied and counted by another thread, in LV2 an event
does both in the audio thread (`PlayEvent`). A name that is being copied is `Torn`.
`played` is a history variable: the file whose playback was launched last.
Left out: `destroy()`, channels and output ports, positions, sample rate.

### PresetManager

All ports together hold one value, `settings`; `content` gives what each preset's file
holds, `told` what the plugin was told, `dirty` and `sync` the marks, `vPresetData` the A
and B slots with their own marks. Each operation of the interface is an action with all
the calls it makes: selecting a preset imports it, marks, and asks for the plugin to be told.

The code sorts the list of presets whenever it grows, so `vPresets` is a set and `Rank`
gives the order. `nActivePreset` is an index into it, as in the code, and
`active_preset` the preset it names. `remove_preset()` takes the preset
selected in the list, which need not be the active one, and leaves the index alone unless
it is the active one's; so it may come to name the next preset, or none.

CLAP and VST2 give a state the interface sent back to it at its next iteration:
`MainIteration` may set `echo`, and `ReceiveEcho` shows what was told, whatever the user did
since. The two sides of this in full are `PresetExchange` and its run `preset_echo`.

`left` and `past` are history: what the other slot was left with, and what happened that
the marks do not show. "slot" and "preset": values came from an import or from the host;
"left": they had when the other slot was left; "shifted" and "untold": a removal moved what
the index names since a preset was chosen, since the plugin was told; "echo": an
earlier choice came back. No step reads them to decide anything.

Left out: the values in the KVT that A and B keep besides the ports (they change neither
marks nor index but through listeners, which is `Edit`), favourites, and names that differ
in case only.

### PresetExchange

`type`, `force` and `lock` are the word `nPresetFlags`, `sPresetState` the state it guards,
copied in two halves so that a torn copy can be seen. `format` is "shared" (CLAP,
VST2: the interface reads the wrapper's state) or "messages" (VST3: the controller's
`copy` and messages both ways). `pc` and `state` are the places of the user interface, the
timer and the host and their local copies. The VST3 host delivers a message by a call.
The timer transmits while `counted`, which is `nUICounterResp > 0`: the count of interfaces
that the plugin takes over when it processes audio (`Toggle`).

The controller's copy is written in two halves too, without a lock, by each of the three
(`CopyFlags`, `CopyName`), and passed to the interface as it is by then (`Notify`). If the
host calls the controller from several threads it may be torn, and the interface may show
a preset's mark without the preset: TLC finds both in the model, for a choice of
the user that meets a session the host restores. No property promises otherwise.
Reading the copy is one step.

### Runs over several modules

`MCAudioLinks`, `MCPresets` and `MCDataPorts` put systems that share no state into one
run: the initial state chooses one (`side`, `port`), `Next` steps that one, and a
property is stated for it. The fairness of each is that of its own specification.

## 3. Runs

| run (configuration, module) | constants and bounds | distinct states | shows |
|---|---|---|---|
| `storage` (`KVTStorage`, `MCKVTStorage`) | paths /a, /a/b, /a/b/c, /a/d; 2 parameters, one private; one node that is never linked | 86 thousand | `TypeOK`, `RefsExact`, `TreeSound`, `PendingHasParam`, `CountersExact`, `ParamsOwned`; refinement `ImplementsMap`; liveness `LoopsEnd` |
| `dispatcher` (`KVTDispatcher`, `MCKVTDispatcher`) | 3 keys (one too large), 2 values, room for 2 packets, 1 change by the plugin, 2 by the UI, 2 connects | 1.6 million | `TypeOK`, `Agreement`; liveness `UiCatchesUp` |
| `catalog_service` (`CatalogService`, `MCCatalog`) | 2 clients, serials modulo 4, 1 request, 1 failure, 1 change of the catalog | 81 thousand | `TypeOK`, `NeverCalledAfterDetach`, `ThreadServes`; liveness `RequestServed`, `DetachReturns` |
| `audio_links` (`AudioLinks`, `MCAudioLinks`) | 1 name, 4 slots, serials modulo 8, stalled after 1 block, 2 streams, 2 names set | 3.0 million | `TypeOK`, `LastSettingsWin`, `LastNameWins`, `SlotsSuffice` |
| `presets` (`Presets`, `MCPresets`) | 2 settings, 1 factory preset between 2 user presets; 2 choices of the user, 2 calls of the host | 465 thousand | `TypeOK`, `ExchangeTypeOK`, `SlotsKept`, `CleanIsPreset`, `PluginTold`, `NoneTorn`; liveness `Settled` |
| `ports` (`DataPorts`, `MCDataPorts`) | OSC ring of 6 words, packets of 0 to 3 and 6 words, limits 2 and 5; frames of up to 2 samples, history of 2 and of 3, 6 frames; pictures of 2 rows in 8, 12 rows; 3 texts or paths, 3 requests, 2 resets; 2 files, 4 samples, 3 requests, 1 failure | 717 thousand | `LaidOut`, `PortsTypeOK`, `SourceReads`, `CopyReads`, `PictureWhole`, `ClearShown`, `TextShown`, `PathSettles`, `SamplesOwned`, `RequestedPlays`; refinement `ImplementsQueue`; liveness `PathArrives`, `RequestsSettle` |
| `buffer_concurrent`, `buffer_skipping` (`OscBuffer...`, `MCOscBuffer`) | 6 words, three packets | | violations of `InOrder` |
| `send_end` (`AudioSendEnd`, `MCAudioSend`) | 1 name set, otherwise as `audio_links` | | violation of `BlocksEnd` |
| `stream_sync` (`StreamSync`, `MCDataPorts`) | as `ports`, the stream alone | | violation of `SyncCopies` |
| `preset_slots`, `preset_echo` (`PresetsSlots`, `PresetsEcho`, `MCPresets`) | as `presets`, no calls of the host | | violations of `SlotsAlwaysKept`, `ChoiceStands` |

The six violations are told in section 6.

Why the bounds are enough.

* Storage: the tree has what the climbing loops distinguish, a chain of three (a
  climb over two levels, a node with neither parameter nor child) and a fork (a
  climb that stops because of a sibling). Calls are not bounded; the number of
  parameters is, which also makes `malloc` fail.
* Buffer: six words and records of two, three and four words put the size word and
  the data at every possible distance from the end; nothing else is bounded.
* Dispatcher: the bounds on changes and connects keep the state space finite. Two
  connects show what one UI leaves behind for the next; two packets of the UI overlap
  in the buffer, fill it with what is counted and not there, and let stale records be
  taken. Private parameters are in the proof (any set `Hidden`), not in the run.
* Catalog: two clients let the thread outlive one of them, and let one attach while
  the other, the last, detaches. Four serials are more than are ever apart. The state is
  seen with serials relative to each other (`Relative`), which is sound because only
  differences are compared and the serials wrap.
* Audio links: four slots are those of the code; two names set and two streams give a
  change while an earlier one is being served, by the send itself and by another.
  Again only differences of serials are seen. Larger bounds leave the set of states
  too large for a run.
* Streams and pictures: frames of one and two samples meet the ends of both rings in all
  ways, and six frames run around the sample rings of both objects; the reader falls
  behind far enough for its full copy.
* Texts, paths, files: a request made while another is served, one more after it, and
  resets on both sides of them.
* Presets: two settings tell changed from unchanged; actions are not bounded in the
  manager. Removing a preset before the active one takes a list of three, switching A and B
  two sets of settings and one user preset: these are two sides of the run (`"list"`,
  `"slots"`), as the two together are too many states for a run. The factory preset
  has other settings than the default. In the exchange two acts of the user
  (choices, or closing the interface) and two calls of the host cross each other in all
  orders, in VST3 three of the four together (`MaxTogether`).

Deadlock is checked in all runs but `audio_links`, `ports` and `stream_sync`, where
bounded inputs run out and the threads then rightly have nothing to do.

Fairness.

* `LoopsEnd`: weak fairness of a loop's steps; a call that has begun runs on in its
  thread and waits for nothing.
* `UiCatchesUp`: weak fairness of the dispatcher's thread (it runs until cancelled), of
  the second half of `connect_client()` and of sending (the UI polls); strong fairness of
  `UiReceive`: its trylock finds the mutex taken during a round and free in between, as
  `run()` sleeps after a round that received nothing. None of changes, connects and
  disconnects.
* `RequestServed`, `DetachReturns`: weak fairness of the thread's and the owner's steps,
  strong fairness of taking a mutex, which others hold again and again for a bounded
  time. None of attaching, detaching or requests.
* `PathArrives`: weak fairness of `process()` with the plugin's handling of the path, of
  the interface's timer and of a host call that has begun.
* `RequestsSettle`: weak fairness of `process()`, of the second half of `play_sample()` and
  of the executor; strong fairness of the end of a playback, which is a matter of
  samples processed but seen here only between two calls of `process()`.
* `Settled`: weak fairness of the interface's event loop, of the timer, of a host call
  that has begun, and of `Toggle`: a host with an open interface processes audio. None of
  the user's choices and of new calls of the host.

## 4. Proofs

| module | theorems | for every |
|---|---|---|
| `KVTStorageProofs` | `TypeCorrect`, `ReferencesExact`, `NothingDangles`, `PendingNodesHold`, `OneOwner`, `CountersTrue`; `KeepsPromises` (`ImplementsMap`) | finite tree of paths and set of parameters |
| `KVTDispatcherProofs` | `TypeCorrect`, `SidesAgree` (`Agreement`) | keys, values, room, number of changes and connects |
| `CatalogProofs` | `TypeCorrect`, `NoLateCall` (`NeverCalledAfterDetach`), `ClientsServed` (`ThreadServes`) | finite set of clients, width of serials, number of failures |
| `PresetManagerProofs` | `TypeCorrect`, `SwitchKeepsSlots`, `CleanShowsPreset`, `PluginKnows` | settings, finite sets of factory and user presets in any order |
| `PresetsProofs` | `TypeCorrect`, `StatesWhole` of `PresetExchange`; `ExchangeTypesHold` (`ExchangeTypeOK`), `NoneTornHolds` (`NoneTorn`) of the run | presets, number of choices and calls |
| `OscBufferProofs` | `RingTypes` (`TypeOK`), `RecordsLaidOut` (`LaidOut`), `RingIsQueue` (`ImplementsQueue`) | capacity, packets of any length, limits of the reader |
| `AudioLinksProofs` | `LinkTypes` (`TypeOK`), `SettingsWin` (`LastSettingsWin`), `NameWins` (`LastNameWins`), `SlotsAreEnough` (`SlotsSuffice`) | names, three or more slots, number of streams and of names set, width of serials |
| `DataPortsProofs` | `SourceGivesLatest` (`SourceReads`), `CopyGivesLatest` (`CopyReads`), `PortsKeepTypes` (`PortsTypeOK`) | length of the history, of frames and of both rings, number of frames |
| | `PictureStaysWhole` (`PictureWhole`), `ClearIsShown` (`ClearShown`) | rows, capacity that is a power of two and holds four pictures, number of rows written |
| | `TextTypes`, `ShowsTextInForce`; `TextInForceShown` (`TextShown`) of the run | texts, number of requests and resets |
| | `PathTypes`, `LastPathWins`; `LastPathSettles` (`PathSettles`) of the run | paths, number of requests |
| | `PlayerTypes`, `EverySampleOwned`; `SamplesStayOwned` (`SamplesOwned`), `RequestedIsPlayed` (`RequestedPlays`) of the run | files, memory, number of requests and failures |

They rest on the assumptions about the constants each module names (`TreeAssumption`,
`ParamAssumption`, `SerialsAssumption`, `BufferAssumption`, `PresetAssumption`, ...; in the
modules that runs instantiate, a definition such as `TextConstants` that the run's module
states as its assumption). Three of them say more than types. `StreamConstants` has the ring
of frames that `stream_t::create()` computes and frames shorter than two histories
(section 2). `RowConstants` has the capacity `frame_buffer_t::init()` computes, the power
of two that holds four pictures. `SendConstants` and `ReturnConstants` say that within the bounds no serial comes round; the serials of
the code have 32 bits and are compared for being equal only, so a thread would have to
sleep through 2^32 requests to take a new one for an old one.

The modules of section 2 that put several systems into one run have their invariants
proved for that run's specification: `OfOnePort`, `PortsStep` and their likes split on the
system the behaviour is about.

Storage. None of the four parts of `Core` (`TypeOK`, `TreeSound`, `RefsExact`,
`PendingHasParam`) is inductive alone: that a climb may stop at a referenced node is
right only because a referenced node's ancestors are referenced (`TreeSound`) with
exact counts (`RefsExact`), gc() frees pending nodes harmlessly only because garbage
nodes are never pending (`PendingHasParam`), and so on. So `CoreInvariant` proves
their conjunction. `UpSound` and `DownSound` are its heart: after `reference_up(n)`
every node of the path is valid and every count exact; after `reference_down(n)` the
nodes that lost their last reference (`Emptied(n)`) are exactly a run of nodes from
`n` upwards and the counts above are exact again. They rest on lemmas on paths
(`LastBefore`, `ParentUpto`, `NothingBelow`) and on cardinalities (`Counts`). The step
lemmas treat one kind of action each and `CoreStep` puts them together. `OneOwner` and
`CountersTrue` are proved on top of `Core`.

The refinement of the map needs two more facts. `StoredFound`: a path that leads to a
parameter is found, with all its prefixes, so NOT_FOUND is said only where nothing is
stored. `LoopInv`: while `remove_branch()` runs, every parameter left in the branch lies
below a task of the loop, and every task lies in the branch; while `touch_all()` runs, a
node that was visited and is not skipped carries the flags. When no task is left the
work is complete (`EndMaps`); for `commit_all()`, which goes by the lists themselves,
`PendingHasParam` says so. `CallMaps`, `StartMaps` and `RoundMaps` map the other steps.

Dispatcher. `Agreement` says nothing of what is inside the buffers, so it is not
inductive: it needs that the last packet of a key to the UI carries the plugin's value
unless the key is marked again (`DownIsNewest`), the same upwards (`UpIsNewest`), that a
settled key goes one way at a time (`OneWay`), that a connection being served
has everything marked (`Touched`), and that a UI that is not connected has nothing
(`Fresh`). `Buffer` says that a `submit()` in progress finds its place behind the records,
or the buffer is torn and has none; `NewUi`, that a UI which came after `Count` found
nobody starts from nothing, so the `clear()` that follows may end the doubt. Lemmas give the keys and last packets of sequences that grow and shrink.

Catalog. `Locks` and `Pass` tie the mutexes to the places of owners and thread,
`Attached` says in which half of attaching or detaching a client is in the list,
`Thread` that the thread is gone only after the last client asked it to end,
`References` counts the holders. From them a client in a call is in the list, and the
last owner waits for the thread before it lets the catalog go.

Presets. `TypeOK` needs that factory presets are never lost (`FactoryKept`). `SlotsKept`,
`CleanIsPreset` and `PluginTold` each need the marks: a slot without its mark still holds
what the ports held, a preset without its mark is its file's content, and `sync` is set
when what the plugin was told differs. The index needs lemmas of its own, on cardinalities:
presets have different indices (`IndexUnique`), and removing a later one leaves an index
alone (`RemovedLater`), so only an earlier one makes it name another.

Texts and paths. The invariants follow the place of each thread: what the audio thread
writes (`Writing`), what is known while a reset is looked for (`Checking`), a text that
is written and not taken (`Ahead`), a reset not heard of (`ResetInForce`); for paths what
is served, shown and loaded at each place (`PathServed`, `PathShown`, `PathLoaded`).

Buffer. `LaidOut` relates the ring to the packets in it, but says nothing of a call that has
begun. `OscInv` does: `Layout` gives the positions of the packets that are in the ring as
words (`Queued`, with the one whose size is still to be stored), `SubmitCall` and
`FetchCall` what each call knows. Positions are read on a tape on which the ring repeats
itself (`At`), so that records in a row (`Chain`) lie apart and nothing wraps until an
address is computed; `Elsewhere` says that words less than a capacity apart on the tape are
different words of the ring. `Added` and `Removed` are the two lemmas that matter: a record
written behind the last one destroys none, and what is behind the first one stays in
place when it goes. From `OscInv` the step of `fetch()` returns the oldest packet, which
with `UsedCounted` (the words the packets take are those that are counted) is the step of
`OscQueue`; every other step maps to a step or a stutter (`QueueSubmits`, `QueueFetches`).

Audio links. What the last push into a box was (`LastOf`) is the invariants' subject.
`SendSettings` says that the settings pushed last are those of the last name and will be
applied, `SendRecord` and `SendStatus` what the audio thread was told of the record, and
`SendRequests` counts the requests that may still come (`Coming`), so that none is taken
for an older one. That an inactive send has no name is part of `LastSettingsWin` because
the proof showed that nothing else said so.
`RetInv` is the same for a return, where two boxes and `Asking` take part. `Taken` ties
the slots in use to the box: three are in it at the most, so one of four is free.

Streams. Sample s has one place in both rings (`SampleAt`), and a frame ends behind the
samples written up to it (`Sum`): that a frame lies in the copy where it lies in the source
is what makes `CopyReads` provable. `StreamNow` is the source while it is written: the frame
that was added is silent or complete, and the history before it is untouched because the
ring has room for a frame more than a history (`StreamSizes`). `StreamFrames` says which
frames are not written over yet. `CopyState` follows `sync()`: between frames the copy has
everything before the next one, as far as the history will reach in the end, and the
writer is not too far ahead (`InSight`, kept by `InTime`). `PutBehind` is the lemma about
the ring: samples put behind one another destroy none that is less than a ring behind.
A full copy keeps the types only; what it gets wrong is in section 6.

Pictures. The rows of `src` are the last that were written (`Full`), those of `dst` the
last of what the reader has (`Shows`), and while `sync()` runs, what of them it has copied
and what the writer cannot have reached since. The arithmetic of the ring is in the lemmas
`Division`, `Product`, `Period` and `Distinct`: capacity divides the distance of two rows
at one place.

Sample player. `Apart` and `InMemory` say place by place what `SamplesOwned` says of all;
`Tasks` adds what the state of a task tells: a loader at work has emptied `pLoaded`, one
that is done filled it, and nothing is collected but by the collector. `GiveKeeps` is the
lemma about the players: what they are given and what they give up stays apart.

`RequestedPlays` needs where the name that was requested last is on its way (`Asked`): in
the request, in the loader, or in the players, whose file stays (`FileKept`).

Exchange of presets. `Locked` says that a thread is between its two copies exactly while
it has the lock, `Halves` where a state may differ from itself meanwhile: at the one
thread that copies. Steps outside the lock (`Outside`), taking it (`Enters`) and the copies
themselves (`Copies`) are lemmas of their own. The controller's copy needs its type only
(`ControllerStep`), as its writers need not exclude each other.

Only model-checked: liveness (fairness is out of the prover's reach). What `SyncCopies` says of full copies does not hold.

## 5. Plan

Done: the key-value tree with its buffer and dispatcher, the catalog with the audio
links, the data ports, the preset protocols, the sample player. Next, in this order:

1. `KVTIterator`: lists and children arrays with their order, a refinement of
   `KVTStorage`; iteration under removal and insertion by the caller.
2. `clear()` at the time of a call word by word in `OscBuffer`, several clients in
   `KVTDispatcher`.
3. The LV2 state mode; the other messages of VST3 (paths, texts, streams, meshes).
4. `mesh_t` and `ShmState`.
5. Proofs: the refinement of item 1 and the invariants of items 2 to 4.

Not modelled, and why. `plug::Module`, `IPort` and `Factory` are interfaces with next to no
code. `AudioBuffer`, `IDBuffer`, the tracer and the dumper belong to one thread and keep
no protocol. Resources, configuration files, preset files and metadata are text and
floating point. The rest of the wrappers translates between a host's interface and
ports, the controllers (`ctl`) between widgets and ports; both are glue to interfaces
outside the repository, whose state is in the parts modelled here. The utilities
generate text at build time.

## 6. Disagreements with the documentation

Each has a run whose counterexample shows it, and an entry in `PROJECT.json`.

* `buffer_concurrent`: the header of `osc_buffer_t` says it is safe with one thread
  that reads and one that submits. `submit()` stores a size it computed before the
  copy, and so undoes a decrement by a `fetch()` that ended meanwhile; from then on
  the size counts records that are gone and `fetch()` returns stale data. The UI of the
  LV2 wrapper uses `pRx` that way (section 2, `KVTDispatcher`). Storing
  with `atomic_add`, as `fetch()` does, would be right.
* `buffer_skipping`: `skip()` says it skips the current message. For a record that
  ends exactly at the end of the ring it takes the head to 0 where `submit()` and
  `fetch()` leave it at `nCapacity`, and what is read next is not the next message.
* `send_end`: `AudioSend::end()` is to end the block `begin()` began. `apply()` stores
  `ST_ACTIVE` before it pushes the stream; a block begun in between has no stream, `end()`
  returns early, and `begin()` refuses ever after.
* `stream_sync`: `stream_t::sync()` makes a copy of a stream. Its full copy wraps the
  position in the source ring by `nBufMax` and not by that ring's size, so a history that
  lies across the end is copied from the wrong place.
* `preset_slots`: `select_active_preset_data()` is to apply the settings of a slot. Values
  of an import do not mark the slot, so switching away does not store them, and switching
  back brings older ones.
* `preset_echo`: a state from the interface is to be told from one of the host. CLAP and
  VST2 pass the interface's own choice with `PT_STATE`, so it comes back to the interface
  and may replace a later choice.

Met while modelling, and excepted by the properties that touch them:

* `AudioReturn`: nothing assigns `nStreamCounter` of a stream, so the comparison with the
  counter of the audio stream (`AudioReturn.cpp:271`) takes every stream that was ever
  written to for a live one: a sender that stopped is never reported as stalled.
* `Catalog`: when the thread fails to start, `attach_client()` frees it but leaves
  `pThread` (`Catalog.cpp:245-255`); later clients take it for a thread (`ThreadServes`
  excepts this).
* `AudioReturn`: when the catalog refuses the name (no room), `apply()` pushes a stream that is
  not open and returns true, so the request counts as answered and nothing tries again;
  `sRecord` stays that of an earlier name (`AudioReturn.cpp:338-352`). `LastNameWins`
  excepts a name that was refused.
* `IWrapper::remove_preset()` of a preset before the active one leaves `nActivePreset`, which
  then names the next preset (or none): that one is shown, unchanged if the active
  one was, though the ports hold other settings, and the plugin keeps the name it was told
  as `F_PRESET_SYNC` is not set (`IWrapper.cpp:2951-2962`). `CleanIsPreset` and
  `PluginTold` except this.
* `string_t`: a text that comes into force while a reset is on its way is shown as the
  default until the next change (`TextShownAlways` of `StringPort`).
* `SamplePlayer`: a file requested again while it is being loaded is dropped when its
  load ends (`nUpdateReq != nUpdateResp`, `SamplePlayer.cpp:333`), and the next `process()`
  finds its name taken already and plays what is bound, which is the file before it or
  nothing. `RequestedPlays` excepts this. A load that failed is not tried again for the
  same name. A request of another thread between `submit()` of the loader and the store of
  `nUpdateResp` (`SamplePlayer.cpp:325-327`) is lost; `RequestedPlays` is stated for the
  requests of LV2.
* `SamplePlayer::destroy()` destroys `vPlayers[0]` twice and `vPlayers[1]` never
  (`SamplePlayer.cpp:131`).

## 7. Running

In this directory: `tlc -config KVTStorage.cfg MCKVTStorage.tla`, and likewise for the
other configurations with the modules of section 3; `tlapm KVTStorageProofs.tla` and
likewise for the other modules of section 4.
