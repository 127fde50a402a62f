# A specification of the Bloem plugin SDK

These modules model the parts of `bloem-plugin-sdk` whose correctness depends on more than one
step: the connection a plugin keeps to its host, the resident network access provider, the scan
source that follows a log, the storage provider's streams and cursors, the startup of a plugin
process, the store of capabilities that nodes of different SDK versions share, the store a plugin
keeps with its host, and the JSON calls to other services. TLC checks each
on a small instance; TLAPS proves every safety property of the passing runs, for every value of
the constants. What holds only under fairness is left to TLC.

To check one: `tlc -config HostBrokerRebind.cfg MCHostBroker.tla`; to prove: `tlapm HostBrokerProofs.tla`.
`PROJECT.json` lists every run, every property with a mutation of the model that breaks it, the
lines each definition stands for, the hazards the properties are for, and the disagreements
between the code and its documentation that the runs show.

## 1. The system

The host (not in this repository) starts each plugin as a process of its own and talks gRPC to it
through HashiCorp's go-plugin. The SDK is what the plugin links: it loads the manifest, registers
the capability servers, and offers a client for calls back to the host over a brokered connection.
Host and tooling use the SDK too, to validate manifests and store capabilities.

| Component | State | Operations | What is hard |
|---|---|---|---|
| Host connection (`runtime/runtime.go`, `pluginHostState`) | broker, stream id, cached client, mutex | `setBroker`, `setBrokerID` (BindHostBroker), `host` (Host) | goroutines race the bind; go-plugin hands out a stream's info once, within five seconds; Dial waits with the mutex held |
| Plugin runtime (`serve_manifest.go`, `storage_provider.go`, `registerServers`) | options, servers, plugin set, the manifest served | options, startup rules, registration, GetManifest, Configure | two places resolve the same server, behind wrappers that may be left out; nil pointers in interfaces; order of options |
| Manifest (`manifest/`) | none | Load, Validate, RegisterHTTPRoutes, checksum | rules that relate fields and capabilities; values newer than the SDK |
| Capability records (`convert/`) | the host's database | encode, decode | nodes on different SDK versions write and read the same records |
| RuntimeHost client (`runtimehost/`) | none | one RPC per method | conversions to 32 bits |
| Instance state store (`runtimehost/instance_state.go`) | the host's values | ReadState, WriteState with a timeout | a timed-out write may have been applied |
| Plugin-to-plugin JSON (`runtimehost/call_json.go`), HTTP client (`httpclient/`) | a pooled connection | one request each | a body that is cut, or longer than the limit; a connection left unread |
| Network access provider (`examples/hello-network-access`) | connected, desired, restored, host info; the stored intent | Connect, Disconnect, GetStatus, restore | restarts between any two steps, failed and unanswered host calls |
| Scan source (`examples/hello-scan-source`) | the log, the host's marker | PollChanges | a writer and a rotation between a poll's steps, overlapping polls, lost answers |
| Storage provider (`examples/hello-storage`) | none between calls | Describe, Stat, List, Read | flow control, cancellation, injected faults, page boundaries |
| Config decoding, image variants, generated code, other examples, release scripts | - | - | nothing that outlives a call |

How they interact: the plugin runtime registers the servers and hands the broker to the host
connection; the host's BindHostBroker call gives it the stream; handlers (the network access
provider is one) call `Host()` and get the client or nil; the client's calls reach the host's
instance state. The manifest is loaded at startup, read by the host from its file or through
GetManifest, validated, and stored as capability records.

What makes each correct:

- Host connection: one client per binding, on the stream bound now; a bind that comes in time
  leaves a client; nobody hangs.
- Plugin runtime: a manifest that declares a connection test or a network auth provider is served
  with the services these need, or the process does not start; options combine; a nil pointer
  passed to an auth option is no server.
- Manifest and records: every node loads what any node stored, unchanged but for what it has no
  name for, and what one node accepted stays acceptable to nodes of its version or a newer one.
- Network access provider: the stored intent is the last acknowledged one, or one attempted since
  whose caller was told that it failed; after a restart a process that is called resumes it.
- Scan source: no complete line is lost, no half line is reported, history is not replayed.
- Storage provider: a read the host accepts is exact, faults do not pass, cursors walk a directory
  once, and handlers end with their call.

## 2. The modules

### HostHandle, HostBroker, MCHostBroker, HostBrokerProofs

`HostBroker` is `pluginHostState` with the goroutines that call it. Each goroutine has a program
counter that follows the code: lock (`HostLock`, `SetBrokerID`), the check at the head of the dial
(`DialSkip`), the Dial itself (`DialStart`, then `DialConnects`, `DialRefused` or `DialTimeout`),
and the unlock (`HostReturn`, `BindReturn`). go-plugin's broker is external and modelled as the
code relies on it: the info of a stream arrives some time after it was sent, is kept for `Window`
ticks, is handed to one Dial, and a Dial without info waits up to `Window` ticks. `Tick` is time
and does not pass a deadline that is due.

`HostHandle` is what the component promises: an atomic handle, bound, connected and read in single
steps. `HostBroker` implements it with `bound <- brokerID, handle <- client`.

- **HostBrokerRebind** (2 goroutines, 2 streams, 2 binds): `LockInv` ties `s.mu` to the goroutine
  between lock and unlock; `EagerDialPins` says that a lone bind call that arrives while the broker
  keeps the info leaves a client for good; the client follows the binding (`ClientMatchesBinding`),
  the handle is implemented, and `EveryCallReturns`. Two goroutines are a bind handler and a caller
  that overtakes it or waits for it, or two binds; a bind of the same stream and of another
  one both occur. The proofs are for any number of goroutines, streams and binds.
- **HostBrokerNilForever** (violation): `runtime.go:388` tells handlers to treat nil as transient.
  A bind whose dial found no info leaves nothing for a later Dial, and every later `Host()` is nil.

`Window = 2` is the smallest that tells "just sent", "kept" and "due" apart. Fairness: timers fire
(WF on `Tick`), a goroutine that runs goes on (WF on `Run`), and a goroutine waiting for the
mutex gets it although others come and go (SF on `Lock`: `sync.Mutex` hands the lock to a waiter
that has starved for a millisecond). `AskingSpec` adds that handlers go on calling `Host()`; even
then nil stays.

### NetworkAccess, NetworkAccessProofs

The three RPCs of the resident provider run under one mutex, so one program counter stands for the
handler that holds it. Between any two steps the process may die (`Restart`), with a write in
flight or without; a host call may fail. A write that fails (`WriteFails`) was refused, was applied
and its answer lost, or was given up: then it stays `adrift`, and the host may apply it at any later
time (`LateWrite`), as in InstanceState.

Three history variables say what may be concluded. `acked` is the intent of the last Connect or
Disconnect that was acknowledged over a live host handle; nothing but a later acknowledgement changes
it. `since` collects the intents whose writes were begun after it, or were adrift at that moment.
`apart` says that this process's last write failed or was skipped, or that a late one overtook it.

- **NetworkAccess** (two restarts: one to lose the fields, one more in the middle of the restore):
  `AckedIntentDurable`, what is stored is `acked` or in `since`, so that after any number of failed
  calls and lost answers no older intent comes back; `RestoredMatchesStore`, a restored process
  agrees with the store unless it is `apart`; and under fairness `IntentResumed`.
- **NetworkAccessNilHost** (violation): with a nil `Host()` the write is skipped and success
  reported, against the comment at `main.go:118`. `AckedIntentDurable` is about a live handle for
  this reason.

`IntentResumed` is conditional, as the code is: `restoreLocked` runs inside the RPCs alone
(`main.go:93`), so a process that nobody calls never reads its intent. The property takes processes
that are called until one of their reads was tried (`CalledUntilRestored`) and demands no polling
beyond that. `docs/network-access-provider.md:66-71` wants more: a host that need not poll, and a plugin
that reconnects on start. The stub leaves that to a real provider (`main.go:9`), so the project lists
it as a hazard and claims nothing about it.

A status asked for before the restore could read answers from the zero fields, `desired_connected`
false included, although `docs/network-access-provider.md:70` asks for the intent in every status;
no property is stated about it.

Fairness: the host binds the process it started; a handler that runs goes on; a read that is tried
again and again succeeds once (SF on `Read`). None for `Call`: nobody need call.

### ScanSource, MCScanSource, ScanSourceProofs

The log is a sequence of bytes that a writer extends one byte at a time, truncates, deletes and
recreates. A poll opens it anew at every step, as the code does: `Stat`, then `Resync`, or `Check`
and `Read`. The host keeps the marker, may run overlapping polls, lose an answer and clear the
marker. A byte of a line is the line's number; a newline is 0. A poll is one record for its whole
life (`Poll`, `PollStates`): the marker it was given and the log that marker was computed from,
then where it reads, then its answer and the log it was read from.

- **ScanSource** (two polls, lines of one byte, four bytes of log, one rotation, one edit):
  `NoLineLost`: each line behind the marker was queued or was there at a first poll.
  Polls are interchangeable, so the run uses symmetry (it checks no liveness).
- **ScanSourceOne** (one poll, lines of two bytes, so that a line has a middle):
  `ReportsWholeLines`, `NoReplay`, and `LineReported` under fairness.
- **ScanSourceRace** (violation): the same with a rotation allowed *between* the steps of a poll.
  `followsNewline` tests the byte before the marker on one opening of the file and `readAppended`
  reads on another; the log rotated in between is read from the middle of a line.

`RotateDuringPoll = FALSE` in the passing runs keeps rotations out of a poll's steps, as the third
run shows what happens otherwise; the writer's appends, and everything else, do interleave with
them. The theorems, but for `TypeCorrect`, take the same condition, `~RotateDuringPoll`, as their
hypothesis. The documented collision (a rotated log that has a newline just at the old marker) is
tracked in `collided` and excused. Fairness: the host polls on a timer, a started poll goes on, and
a poll repeated for ever succeeds once.

### StorageList, StorageRead, StorageProvider, StorageProviderProofs

`StorageList`: `List` is a function of its request; the host lists a directory page by page with a
page size of its choice each time, returns to older cursors, or starts from a foreign one. The
failing source fails once its position passes a page's cap. `ListSizesAssumption` makes the large
directory no smaller than the others (2,000,000 entries in the code), so that the foreign cursor,
one past its end, is past the end of each.

`StorageRead`: a Stat, then one Read. `Open` admits or refuses it, `SendChunk` sends into a stream
with room for `Window` chunks and blocks when it is full, the fault entries send twice (`Resend`),
are cut short or wait for cancellation (`Wait`). The host (external) takes chunks only as
`storage_provider.proto:16-18` allows and may cancel at any moment. A byte is its position.

`StorageProvider` composes them as a host uses the service: it lists a source and asks for entries
of that source, those it was listed and others, under the listing's revision and others.

- **StorageProvider** (directories of 8 entries, pages of at most 3, sizes asked up to 4; files of 5
  bytes, chunks of 2, largest read 6): the last page is full or not depending on the sizes
  asked, a file has a first, a middle and a cut last chunk, and offsets and lengths reach one past
  each bound. `CompleteIsWhole`, `OnlyInjectedFailures`, `CursorsAdvance`; `Exact`, `FaultsCaught`,
  `HonestAccepted`, `HandlerReturns`; and of both, `ListedReadable`: what a listing named can be read.
  `MaxReplays` bounds how often the host goes back to an older cursor.

Fairness: the handler's goroutine runs, the host reads what it opened, and a call that does not end
is ended by its deadline (WF on `Cancel`). Deadlock is not checked: one listing and one read
are the whole behaviour.

### PluginServe, PluginServeProofs

What an author can build is `choice`: whether the manifest loads, what it declares, the AuthProvider
and what its type implements, the scan source (it stands for the services registered alike), and a
sequence of options, each with a server, nil or a nil pointer in the interface. `Load`, `Check` (the
startup rules of `manifestServeConfig`), `Register` (go-plugin calls the wrapped plugin sets),
`Configure`, `Call` and `Restart` follow. `Resolved` is the outcome of the options, `OptionalService`
what the wrapper passes on, `Registered` what is served.

There are two kinds of nil pointer. The generated `RegisterXServer` calls `testEmbeddedByValue` of a
server that has it (`auth_provider_grpc.pb.go:142-151`), which panics when the type embeds its
Unimplemented server by value: `NilChecked` ends the process at registration. A type without the
embed, which `buf.gen.yaml:12` does not require, or with two whose methods hide each other, registers
unseen: `NilPlain` is served, and the process panics when it is called (`Call`, `crashed`), as the
comments at `runtime.go:229-231` warn. `resolveAuthService` turns away a nil pointer that comes from
an option; the AuthProvider it falls back to is taken by its type, nil pointer or not
(`runtime.go:236`).

**PluginServe** (two options, enough for one to override another and for two services to combine):
`DeclaredIsServed`, each service a declaration needs has a server that works, unless it is the
author's own nil AuthProvider; `OptionsCombine`, a process has a server for exactly the optional
services it was given one for; `NilOptionIsNoServer`, the process starts, panics and answers just as
it would if the nil pointers passed to auth options were left out. A nil pointer passed to another
option, or as the AuthProvider itself, is not tested by the code before it is called; `choice`
includes both, the type invariant shows that only `NilPlain` ones get as far as being served, and
nothing more is claimed of them.

### Manifest, CapabilityStore, MCCapabilityStore, CapabilityStoreProofs

`Manifest` has no state: decoding by an SDK of a given version, and the rules of `Validate` about
capabilities. An SDK is "older" or "newer"; the newer one has a name for one more value of an enum,
`FUTURE`, rates the media type it adds, and knows one more capability type, "future.v1"
(`KnownTypes`). A node refuses a type its SDK does not know (`manifest.go:131-133`), so the rules
depend on the version there and nowhere else. Optional messages are sequences of at most one
element; a slug or a wording is "good" or "bad", the external id namespaces of a watch sync provider
included. `IsManifest` types the messages: a manifest
has any number of descriptors, none included, and a field no rule of another message reads may
hold anything. `ManifestsAssumption` says that the store's `Manifests` are of this type. The rules include a watch sync provider's
connection settings and a config schema's admin form: `properties` maps the JSON schema's
properties to their types, and a field's, a section's and a condition's keys are resolved in it.

`CapabilityStore` composes it with `convert`: nodes install a plugin from its file (enum names
unknown to the node are dropped) or from the running plugin (numbers survive), refuse or store it,
load each other's records, and upgrade.

- **CapabilityStore** (two nodes; some 5000 manifests of one or two descriptors around every
  rule): `LoadedAsInstalled`, `ReloadedStaysValid`, `NetworkAuthStaysApart`,
  `RunningPluginAccepted`: a node refuses a running plugin that its own, perhaps newer, SDK
  accepted only for a capability type the node does not know. Two nodes are a writer and a reader; pairs of descriptors are what the
  pairing rule relates, in either order.

Two limits the properties leave out and a reader should know of. `convert` has no key for the
`network_access_provider` message, so a host that works from stored records cannot name the
provider (`docs/network-access-provider.md:19` has it list providers from the descriptor);
`ReloadedStaysValid` and `LoadedAsInstalled` are stated without that message. And the tolerance
documented at `manifest.go:281`, a media type the SDK does not know counts as rateable, holds for a
manifest that arrives as protobuf (`RunningPluginAccepted`) and not for one read from its file,
whose unknown names are dropped before the rule runs.

Deadlock is not checked here: a database and upgraded nodes may stay as they are.

### InstanceState, InstanceStateProofs

`InstanceStateStore` and the host's table. Goroutines call `ReadState` and `WriteState`; keys and
values are their lengths, checked before the call is sent (`Refuse`). The host (external) reads,
writes, or fails a call, whether it applied it or not (`HostFails`); a caller gives its call up at
its `Deadline`, and a write that was given up, or whose connection was lost, stays `adrift` and may
be applied at any later time (`LateWrite`).

Three history variables say what a caller may conclude. `may[k]` is the set of values key `k` may
hold: every write adds its own when it is sent, and one that is acknowledged (`Acknowledged`)
takes away the absence of a value, whatever overlapped it; if no other write of the key did
(`alone`), it leaves only itself and what is adrift. `seen` collects
`may` over a read. With them the store's promise is a property of any interleaving: `StoredExplained`
and `ReadExplained`, and in particular that `ErrStateNotExist`, upon which tailscale makes a
new identity, is never the answer for a key whose write was acknowledged.

- **InstanceState** (2 goroutines, one key, values of 0 and 1 bytes, one byte past each limit):
  both, and `EveryCallReturns` for a store with a timeout. Two goroutines are two writers, or a
  reader and a writer; one adrift write and one acknowledged one are enough to disagree.
  Fairness: a goroutine that was answered returns, timers fire; none for the host, and none for
  a store without a timeout, for which nothing is promised.

### JsonCalls, JsonCallsProofs

`httpclient.DoJSON` reads a body that is still arriving; `CallPluginJSON` has it whole. A body is
counts of bytes: blanks, a value, what follows. The value is an object, which ends with its last
byte, a number, which goes on until another byte or the end of the input, or bad. `Respond` picks
what the body is read for by its status; `Arrive` brings any number of bytes up to what the
`LimitReader` lets through (`left`); `Stop` is `Decode` returning, with a fresh `LimitReader`
for the drain; `EndOfInput` is its end, or the body's; `Break` is the server's cut, the
client's timeout or the context's end. `eof` says that the transport saw the end of the body,
which is what net/http pools a connection by: with a known length at its last byte, otherwise one
read later.

- **JsonCalls** (limit 3, plugin limit 2, each part of a body up to 3 bytes): `SuccessIsWhole`, a
  call that succeeds with a value decoded the whole of it, without one was sent none, and through `CallPluginJSON` had a body within its limit;
  `ConnectionReusable`, every path drains a body below the limit; the type invariant bounds what is
  read by twice the limit. Parts reach to, into and past the limit. `SuccessIsWhole` names two
  exceptions, both at the limit, where the decoder cannot tell the end of its input from the end of
  the body: a number there is cut, and blanks that fill it pass for an empty answer.

## 3. What is proved

All for every value of the constants that meets the named assumptions of the modules.

| Theorem | Argument |
|---|---|
| `HostBrokerProofs!TypeCorrect`, `MutexHolds`, `ClientMatches` | the inductive invariant `Inv`: types, `LockInv`, `ClientMatchesBinding`, and `ServedInv`, which says what the goroutine in the critical section already knows. Without it a Dial could finish for a stream that is no longer bound. |
| `HostBrokerProofs!EagerDialPinsOnce` | for every `MaxBinds`, of the runs that have bound once (the property's own condition; `BindsGrow`). `PinInv` follows the one bind from its arrival (`Arrived`), through the Dial it makes itself (`Dialling`), to a client or a refusal (`Done`); `OneBindInv` says there is no second. |
| `HostBrokerProofs!OneClient` | an action property no run checks: a client is not replaced within a binding (`OneClientPerBinding`). From `Inv`. |
| `HostBrokerProofs!Refinement` | every step is a step of `HostHandle` or a stutter (`HandleStep`). |
| `NetworkAccessProofs!TypeCorrect`, `AckedDurable`, `RestoredMatches` | the invariant adds what the handler knows at each program counter: what it has read and set and not yet written; and that whatever is adrift is in `since`, so that a late write brings nothing older. |
| `PluginServeProofs!TypeCorrect`, `ServesWhatIsDeclared` | `Inv`: after `Check`, every declaration resolves to a server (`RulesMet`), what is served is `Registered` and has no nil pointer that registering tests, and a process serves or panics as its choice decides (`Starts`). The heart is `OptionArrives`: the wrapper is left out only when it would pass nothing on, so registration and rules resolve the same server. `MaxIndex` (a set of option indices has a greatest one) comes from the well-foundedness of `<`. |
| `PluginServeProofs!OptionsDoCombine`, `NilOptionsAreNoServer` | from `Inv`: an auth service is served by its option, or else by the AuthProvider, any other optional service by its option alone, for any number of options in any order. `WithoutIsSame`: leaving out the nil pointers of auth options changes neither the rules' outcome nor what is registered. |
| `InstanceStateProofs!TypeCorrect`, `StoredIsExplained`, `ReadsAreExplained` | `Inv` adds to the properties what is still under way: whatever may reach a key, from a call or adrift, is in its `may` (`PendingInv`); a write that is `alone` is, and once acknowledged left its value unless an adrift one came after it (`SettleInv`); a read has seen all its key may hold since it began (`ReadInv`). Without `PendingInv` a late write would leave what `may` explains; without `SettleInv` an acknowledged write could not narrow it. `FinishStep` serves every way a call ends. |
| `JsonCallsProofs!TypeCorrect`, `SuccessesAreWhole`, `ConnectionsAreReusable` | for bodies of any length. `ReadInv`: while it reads, DoJSON has read what one `LimitReader` let through until Decode returns, and two from there on, so that it stops short of the end only past the limit; `PhaseInv` ties the phase to the status; `DecodedInv` is `SuccessIsWhole` for a call that still drains. `SuccessIsWhole` keeps its two exceptions at the limit, the cut number and the blanks that fill it. |
| `CapabilityStoreProofs!TypeCorrect`, `LoadsAsInstalled`, `ReloadsValid`, `NetworkAuthKeptApart` | for any set of nodes and any manifests. One lemma per message (`StoredEnums` up to `StoredDescriptor`) says what the way through a record gives back: the message itself to a reader that knows every name the writer knew, and otherwise one that an older SDK cannot tell from it. `RulesAgree` says that the rules of `Validate` accept the same messages whatever SDK applies them, as long as it knows their types. `StoredInv` and `ViewInv` tie the records to a manifest that the writer's SDK accepted, and each view to the records it was loaded from. |
| `CapabilityStoreProofs!RunningPluginsAccepted` | a node refuses a plugin that starts, under any SDK, only for a capability type it does not know. `RulesAgree` again: what else an older node cannot name it does not object to. |
| `StorageProviderProofs!CompleteListings`, `OnlyTheFailingSource` | for directories and pages of any size. `ListInv`: what is listed is the directory up to its length, and while it goes on the cursor names just that length or was foreign from the start. Without the second part a replayed cursor could leave a gap. |
| `StorageProviderProofs!NextCursorsAdvance` | an action property: a cursor the provider hands out is past the one it was asked with. |
| `StorageProviderProofs!ReadsAreExact`, `FaultsAreCaught`, `HonestReadsPass`, `TypeCorrect` | for files, chunks, reads and windows of any size. `ReadInv` has a part per question: the call's (`CallInv`: what each error says of the request), the bytes' (`BytesInv`: a chunk's data start at its offset, and what the host took is a prefix of its range), the faults' (`FaultInv`: where in the stream the duplicated or the short chunk is), the honest stream's (`HonestInv`: each chunk in flight starts where the one before it ends, or where what was taken ends) and the verdict's. No part is inductive alone: what the host accepts depends on what is in flight, and that on where the handler is. |
| `StorageProviderProofs!ListedIsReadable` | of the composition: an entry that a listing named is refused for nothing but an empty, negative, too long or outlying range. Uses both invariants. |
| `ScanSourceProofs!TypeCorrect` | wherever the log is rotated. `TypeInv` adds `Short`: no stretch of the log without a newline is longer than a line, so that even a reader that starts inside a line takes nothing longer for one. |
| `ScanSourceProofs!NoLinesLost`, `NoReplays`, `CompleteLinesOnly` | for any number of overlapping polls and any sizes of line and log, under `~RotateDuringPoll`. Lines are seen as `Runs` of the log between two line ends. `LogInv`: every run was written, and line numbers grow along the log, so that the runs before a line end and after it differ (`RunsDiffer`). `MarkerOK`: a marker of this log ends a line, and the runs before it were queued or passed over. `PollOK` says the same of every poll in flight: of the marker it was given, of the offset it is about to read from, and of the answer it will hand back. It is what makes overlapping polls harmless: an older answer that arrives last moves the marker back to a place that is just as good. `Grown` gathers what an append leaves alone, and `PollStaysOK` serves every step of somebody else. |

The proofs need the largest element of a bounded set in several places (`MaxIndex`, `MaxOf`); it
comes from the library's `WFMin` for the well-founded `<`, a set-based fact that needs no induction.

Only model-checked: everything under fairness (`EveryCallReturns`, `IntentResumed`,
`LineReported`, `HandlerReturns`), which is out of the prover's reach. The three violations are
TLC's too: a counterexample needs no theorem. `ScanSourceRace` is also why the theorems on the
scan source keep their hypothesis.

## 4. Mutations

Beside a definition stands a mutated copy of it, marked `Mutation:`: a plausible slip of the code
(a dropped check, an off-by-one, an order swapped). It is used by nothing; with it in the place of
the definition the property that `PROJECT.json` names is violated, so every property is one
that this code could break.

## 5. Disagreements between code and documentation

Each has a run that TLC finds violated: a nil `Host()` that is not transient (HostBrokerNilForever);
an intent acknowledged and not stored on a nil host (NetworkAccessNilHost); a rotated log read from
the middle of a line (ScanSourceRace). Section 2 names four more that no run is about: the status
before the restore, the reconnection on start, network access descriptors in the store, and newer
media types in a file.

## 6. What is not modelled

The presentation's texts and URLs, image variants and configuration decoding are checks of single
strings or values without state. The other methods of the RuntimeHost client are one request and
one answer with conversions; their hazard is listed in `PROJECT.json`.
The generated protobuf code, 22,900 of the 26,700 lines of Go outside tests, has no module: what
the other components need of it (which enum names an SDK knows, what decoding keeps) is in
`Manifest`. Of the 3,800 lines written by hand the definitions stand for about 1,800. go-plugin, gRPC, the file system and the host are external; the
modules say what they assume of them. Bodies framed by the connection's end, whose connection is
never pooled, and strings at the top of a JSON body are left out of JsonCalls. Storage's `Describe` is constant, and the zip file the
fixture serves is a sequence of positions.

Within the modelled parts: status texts and auth URLs of the network access provider, the
scopes a scan source derives from a path, and descriptor fields no rule reads.

## 7. Plan

Done, in this order: HostHandle/HostBroker; NetworkAccess; ScanSource; StorageRead and StorageList,
composed in StorageProvider; PluginServe; Manifest and CapabilityStore, with connection settings
and admin forms; InstanceState; JsonCalls. Each has its proofs: the type invariant and every
safety property a run checks.

Next, refinements: a store that applies its writes late (InstanceState) and a page-wise listing
(StorageList) as implementations of abstract specifications, stated and proved as
`HostBroker` is of `HostHandle`.

Left for the models: ValidateCatalogPresentation and the registration of routes and assets as
operations on a validated manifest, and PluginServe composed with Manifest, for a host that
asks `AuthProviderSupportsConnectionTest` before it calls. NetworkAccess on top of InstanceState
would put the store's timeout in the place of the late writes it assumes of the host.
