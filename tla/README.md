# Snakechat in TLA+

Snakechat is a Python client for WhatsApp. The protocol is spoken by whatsmeow,
a Go library; `src/gosnakechat` wraps it in a C shared library of about eighty
exported functions and `src/snakechat` calls that library through ctypes. What
is hard in it is the seam: Go goroutines that call into Python, Python threads
that block inside Go, two tables of event codes kept equal by hand, a Go map
that every exported function reads, and eighty hand-written translations of a
Go error. Beside the seam there are three smaller places where threads,
processes or widths meet: the media builders that run ffmpeg, the import that
downloads the shared library, and the helpers that turn addresses, lists and
pictures into what the other side reads. This directory models all four,
model-checks them with TLC and proves with TLAPS each safety property that a run
checks.

Paths below are under `src/`; `main.go` is `src/gosnakechat/main.go`, `client.py`,
`events.py` and `_binder.py` are in `src/snakechat`.

## 1. Inventory

| component | state | operations | status |
|---|---|---|---|
| Session life cycle (`main.go:130-705`, `client.py:250-290`, `1443-1558`) | the Go map `clients`, the device, the connect thread, whatsmeow's connection | `NewClient`, `connect`, `PairPhone`, `disconnect`, the exported `snakechat` | modelled: `Sessions` |
| Event bridge (`main.go:169-638`, `events.py`, `python/pythonptr.c`) | `list_func`, the subscribers copied at connect, `loginStateChan`, one goroutine per event | the 39 cases of `eventHandler`, `Event.__call__`, `Event.execute`, the QR callbacks | modelled: `EventTable`, `Sessions`; promise: `EventDelivery` |
| Multi-session factory (`client.py:1560-1615`, `events.py:104-125`) | the list of clients, `events.event`, the device table | `new_client`, `run`, `get_all_devices` | modelled: `Sessions`, `Accounts` |
| Method calls (`client.py`, `main.go:56-122`, `707-1971`, `_binder.py`) | where each call is, what WhatsApp carried out, whether the process lives | every method of `NewClient`, `ContactStore` and `ChatSettingsStore` | modelled: `Signatures`, `ExportTable`, `BridgeCalls` |
| Media conversion (`utils/ffmpeg.py`, `iofile.py`, builders of `client.py`) | temporary files, a child process, a pipe, the source files | the builders of video, audio and sticker messages, `to_mp3`, `FFmpeg.call` | modelled: `Media` |
| Library loader (`_binder.py:1-60`, `download.py`, `version.go`) | the file of the library, what each process has mapped | look, download, load, compare, download again | modelled: `Loader` |
| Image geometry (`utils/calc.py`) | none | crop, scale, place, thumbnail | modelled: `Pictures` |
| Contact and chat settings stores | rows of the database | put/get of names, mute, pin, archive | partly: calls in `BridgeCalls`, settings in `Accounts` |
| Event and message encoders (`utils/encoder.go`) | none | Go value to protobuf | partly: `EventTable` (which can fail), `Jids` |
| Request decoders (`utils/decoder.go`) | none | protobuf to Go value | partly: `Jids` |
| Message builders (`builder.py`, `utils/message.py`, `utils/jid.py`) | none | addresses, keys, content type, lists | partly: `Jids`, `Payloads` |
| Enumerations, types, errors (`utils/enum.py`, `utils.go`, `exc.py`) | none | declarations, media types | partly: `Payloads` |
| Build and packaging (`main.py`, `build.py`, `platform.py`, `release.yml`) | none | names of libraries and wheels | partly: `Releases` |
| Thumbnails, logging, generated protocol code | none | one library call each | not modelled |
| Examples (`src/examples`) | a SIGINT handler | `event.set`, the script's end | partly: `Sessions` |

How they interact. `connect` copies the codes of the registered handlers, makes
three ctypes callbacks and calls `snakechat`, which opens the device, files the
client in the map, installs `eventHandler`, logs in by one of three branches
(a stored session, a QR code, a pairing code) and ends in a call back to Python,
the blocking function: `event.wait()` unless the program passed its own. While
it blocks, whatsmeow raises events; a case of `eventHandler` tests the copy,
marshals the event and starts a goroutine that calls Python, where
`Event.execute` looks the handler up in the live dictionary. Handlers and other
threads call methods; each is one or more exported functions, each of which
begins with a lookup in the map. Ctrl+C sets `event`, the blocking functions
return, and so do `snakechat` and `connect`, after which the callbacks are freed
while whatsmeow is still connected.

What makes each part correct:

- *Session life cycle*: a login is over before `connect` blocks; the client is in
  the map before anything can ask for it; a method acts on its own client.
- *Event bridge*: an event somebody registered for reaches that handler, once,
  unless its kind is one the bridge cannot carry or the session has ended; a
  callback is not used after it was freed as long as the program serves.
- *Factory and shutdown*: Ctrl+C is noticed and ends every session.
- *Method calls*: a method that returns has done what it stands for; one that
  fails raises; nothing is done halfway in the wrong order; no answer of WhatsApp
  ends the process.
- *Stores, codecs, geometry, device list*: what is read back is what was written;
  a value survives its encoding; a ratio is kept.
- *Media and loader*: threads and processes do not use each other's files, a
  failure leaves none behind, waiting ends.

A builder of a media message reads the file it is given, hands it or the bytes
to `FFmpeg`, which may write a temporary input, starts ffprobe and ffmpeg, reads
their output and removes its files, and uploads. Nothing but the clock keeps the
outputs of two builders apart. The import runs before all of this, once per
process, and writes to the directory that all processes of the installation share.

`PROJECT.json` lists the hazards of each part at the line where it bites.

## 2. Modules

| module | lines | what it is |
|---|---|---|
| `EventTable` | 102 | the code each case checks, the code it sends, `EVENT_TO_INT`, which encodings can fail |
| `EventDelivery` | 67 | abstract: what a program may rely on when it registers a handler |
| `Sessions` | 611 | the life cycle, the event bridge, method lookups, shutdown |
| `SessionsProofs` | 814 | type correctness and eight safety theorems of `Sessions` |
| `DeliveryProofs` | 346 | `Sessions` implements `EventDelivery` |
| `Signatures` | 179 | what ctypes declares of each export, how its call site calls it |
| `ExportTable` | 223 | what each export tells of an error, every method with its exports in order |
| `BridgeCalls` | 227 | concurrent method calls over `ExportTable` |
| `BridgeCallsProofs` | 552 | type correctness and three safety theorems of `BridgeCalls` |
| `Media` | 467 | builders, their ffmpeg children and the directory of temporary files |
| `MediaProofs` | 2063 | type correctness and four safety theorems of `Media` |
| `Loader` | 237 | several processes that import, download, crash and start again |
| `LoaderProofs` | 252 | type correctness and three safety theorems of `Loader` |
| `Jids` | 148 | addresses in protobuf, in Go and as text; splitting and joining; keys of messages |
| `Accounts` | 280 | the device table and chat settings, listed, opened, written and read back |
| `Payloads` | 161 | content types, media keys, lists sent as one text |
| `Pictures` | 89 | the arithmetic of pictures |
| `Releases` | 91 | names of libraries, built and asked for |
| `Values` | 132 | composes the five above: one helper asked at a time, beside the accounts |
| `TextProofs` | 2354 | texts of any length: what splitting, joining and searching give, how an address is read, the fields of a line |
| `ValuesProofs` | 1448 | types, pictures, chat settings, uploads, contents, lists and libraries |
| `AddressProofs` | 1669 | addresses and keys of messages on both sides; the device list, read and opened |
| `MCSessions`, `MCBridgeCalls`, `MCMedia`, `MCLoader`, `MCValues` | 75 | constants and symmetry of the runs |

### Sessions

Each client has a connect thread, `phase[c]`, which stops at every point where
another thread can get in between: `EnterConnect` (the copy of the codes),
`OpenDevice` (`sqlstore.New`, `GetDevice` or `NewDevice`), `StoreClient` (the
unlocked map write), `StartLogin` (the branches on `client.Store.ID` and the
pairing phone), `QrItem` and `QrClosed`, `RequestPairCode`, `ReceiveLogin` (the
range over `loginStateChan`), `ReturnFromConnect`.

An event is a journey, `trip[e]`: its client, its kind and a stage.

| stage | where in the code |
|---|---|
| `parked` | the `Connected` case, blocked in `loginStateChan <- true` (`main.go:205`) |
| `ignored` | the kind's code is not among the subscribers |
| `panicked` | the handler panicked before it started a goroutine (no bytes, or `Marshal` failed); whatsmeow recovers it |
| `flying` | on a goroutine, on the way to Python |
| `handled` | its handler ran |
| `misread`, `keyError` | `Event.execute` was given a code of another class, or one with no handler |
| `dangling` | the goroutine called a freed callback |

`clients` is the Go map by key, `Key(c)` the user part of the JID, else the uuid,
else the name of the database (`client.py:261`). Unlocked accesses of the map are
undefined behaviour only while another thread writes it: `phase = "writing"` is
the assignment itself and the outcome `mapRace` is the Go runtime's
"concurrent map" abort, which may or may not happen. A lookup that finds nothing
aborts with `nilClient`. `process` records why the process ended.

`RegisterHandler` may happen at any time: nothing stops a program from it, and
the copy taken by `connect` then differs from the dictionary. The array of
`connect` is sized from the dictionary a second time (`client.py:1546`); a handler
registered between the two makes it raise `ValueError` before Go is called, which
leaves the state that a registration without `connect` leaves, so it is no action
of its own.

### EventDelivery

`promise[e]` is `none`, `pending`, `delivered` or `lost`. A pending event is
delivered at most once and while its client's session lasts; it may be lost only
if the session has ended or its kind is in `Lossy`. `Sessions` maps `flying`, and
`parked` if subscribed, to pending, `handled` to delivered, `panicked`, `misread`,
`keyError` and `dangling` to lost. `LossyKinds` is computed from the tables:

- `KeepAliveRestored`, `StreamReplaced`, `ClientOutdated` marshal to no bytes, and
  `getBytesAndSize` takes `&data[0]` (`main.go:50`): always lost;
- ten kinds with an encoder whose `switch` has no default for a required field:
  lost for an unlisted value;
- `NewsletterLiveUpdate`, whose messages have no body although `snakechat.proto`
  requires one (`encoder.go:411`): lost unless it carries no messages;
- `ConnectFailure`, checked under code 9 and sent under code 8 (`main.go:277`).

All other kinds are reliable, which is the content of `DeliveryPromise`.

### ExportTable and BridgeCalls

Each export is one of seven sorts, by what it does with whatsmeow's error:
`reported`, `silent` (there is none), `dropped` (a test of the wrong variable, so
an error reads as success), `panics` (the text of the wrong, nil error is taken
when there is an error), `always` (`NewsletterSendReaction`, which takes the
text of the error when there is none), `never` (`UploadNewsletter`, whose answer lacks
bytes that the protocol requires, `encoder.go:24`, so that `Marshal` fails and the export
panics whether or not the upload worked) and `partly` (`GetNewsletterMessageUpdate` and
`GetNewsletterMessages`: an error is reported, but an answer with a message without a body,
which an update never has, does not marshal, `encoder.go:411`). `Answers` is the set of
what may become of an outcome. Each method is the set of paths through
it, a path being the exports it calls in order. Besides, the ctypes declarations
make some exports `Uncallable` (more `argtypes` than arguments) and the answer of
others `Mangled` (the declared result type lacks the method called on it): both
are computed in `Signatures` from the declarations and the call sites, not listed.
Three methods return the error text rather than raise it (`Returned`).

A call takes `Enter` and `Leave` for each export; ctypes releases the GIL, so
calls of other threads come in between. WhatsApp answers `done`, `refused` or
`lost`: the operation was carried out and the answer is an error all the same,
which is what a timeout is. `effects[t]` are the exports that were carried out. `LocalError`
covers everything that can raise between exports (an unset required field, a
file, an image, ffmpeg).

### Media

A job is one builder's work on one file, a list of steps (`VideoSteps` and so on).
`step[j]` is where it is in the list, `pc[j]` where in the step:

| `pc` | where in the code |
|---|---|
| `ready` | between two steps |
| `opening` | in `FFmpeg.__init__`, the temporary input created and not filled (`ffmpeg.py:187-203`) |
| `calling` | in `call`, reading stdout or in `wait(10)` (`ffmpeg.py:250-263`) |
| `reading`, `removing` | `open(temp).read()` and `os.remove(temp)` after `call` |
| `unwinding` | an exception on its way to `__exit__` |

The thread and its child are separate: `Child(j)` are the steps of ffmpeg, `Thread(j)`
those of Python. The directory is `dir`, from names to files, and a file is known
by the job whose child created it, so that an unlinked file lives on behind a
descriptor (`fd`), as files do. `data[f]` is whose conversions wrote to it. ffmpeg
looks at the name (`CheckOutput`) before it opens it (`OpenOutput`): without `-y` and
with stdin closed it refuses a name that exists, and two of them may both have found
it free. `noise` and `pipe` are the bytes of stderr, of which only the amount
matters. `version` is the content behind a path or a URL, which somebody may replace
at any time; `read`, `held` and `probed` are the contents the builder read, the
temporary input holds and ffprobe saw. `magic.from_buffer` at `client.py:505` is
called without `mime=True`: it answers with a description such as "PNG image data", which
is not `image`, and a sticker always goes through ffmpeg. `StickerSteps` has no other path.

### Loader

`round[p]` says which of the three calls of `download` a process is in: before the
loop, in its `try`, or in its `except`. A download truncates the file in place, and a
process that has it mapped then has pages that change (`overwritten`): it may crash at
any time. `dlopen` of a name that is mapped returns the old image, which is why the
loop of a process that loaded another version never sees the one it downloads.
`Exit` is a kill or an end at any point, `Import` a start or another attempt; `cut`
remembers that some download ended early. `version.go` says 8.0.0 and the package
1.0.0 at this commit; the release workflow rewrites `version.go`, so what a release
reports is the constant `Released`.

### Values

`Jids`, `Payloads`, `Pictures` and `Releases` are operators, one for each helper, with
the name it has in the code. A text is a sequence of tokens, so that `split`, `join` and
the separators of addresses do what they do and names are not spelled. Widths are kept:
`DecodeJidProto` takes agent modulo 2^8, device and integrator modulo 2^16; ids of
newsletter messages are signed bytes; a mute duration goes through a C float
(`Float32`: 24 binary digits, halfway to even) and is stored as seconds since 1970.
Floating point in `AspectRatioMethod` is a choice: `width / (width / res)` is `res` or
just short of it before `int()`. `Values` asks each helper each of its inputs, one per
step, of a fresh database; `Accounts` is the part with state: `table`, `listing`,
`opened`, `settings` and what the program was told and shown.

## 3. Runs

| run | instance | distinct states |
|---|---|---|
| `pair` | two clients on threads of their own while the main thread waits as in `ClientFactory.run`, one with a stored device, one with `PairPhone`; two events of `Connected` and `Message` | 122 266 |
| `delivery` | one QR login on the main thread with its own blocking function; two events of a reliable kind, an empty one, the miscoded one and one that marshals only when it is empty, and the QR callbacks; four classes registered early or late | 363 872 |
| `live` | a QR login on a thread, a pairing login on the main thread, `FairSpec` | 52 748 |
| `calls` | two threads, each in any method, any outcome of any export | 173 105 |
| `media` | two jobs of any of four kinds, given bytes, a path or a URL whose content changes once; every step may fail; one tick of the clock | 974 036 |
| `media_live` | two jobs, a sticker or a video by path, children with up to two pieces of stderr and a pipe of one, `FairSpec` | 90 216 |
| `loader` | three processes, the library absent or old, downloads cut off, kills and restarts, `FairSpec` | 168 567 |
| `values` | three devices of two users, push and business names with and without separators, two chats, three durations; all inputs of the helpers in their bounds | 235 425 |
| `misrouted`, `sameuser`, `stuck`, `reaction` | counterexamples, see below | |

What they show:

- `pair`: `LoginGate`, a pairing login does not pass before a `Connected` event of
  its own client; `OneLogin`, at most one `Connected` event of a client gets
  through `loginStateChan`; `UnparkedByLogin`, only the end of the login lets it
  through; `HandlerReachesClient`, an event never finds its client missing from
  the map; `CallsReachOwnClient`, with distinct keys; `ServesUntilShutdown`, freed
  callbacks are used only after shutdown was asked for; `DeliveryPromise`.
- `delivery`: `HandlerFound`, an event whose case sends the code it checks always
  finds its handler in the live dictionary, however late others register;
  `DeliveryPromise` with kinds that are lost always and sometimes, and a blocking
  function that gives up.
- `live`: a goroutine's event lands, Ctrl+C is noticed, `event` ends every
  session, each unless the login of a pairing client is never confirmed.
- `calls`: `ReturnedIsDone`, a method that returned had all its exports carried
  out, but for six exports whose errors do not surface; `NothingDangling`,
  no export is carried out before those it builds on (an upload before its message);
  `DeathExplained`, the process ends only through a method before `connect` or
  one of seven exports, of which three survive an error of whatsmeow and die of its
  success.
- `media`: `OutputIsOwn`, what a conversion hands back is what its own ffmpeg wrote,
  unless another took the same name from the clock; `ReturnsClean`, a builder that
  returned leaves no input, no child, no output; `LeftoversExplained`, one that raised
  leaves an input only where `__init__` could not fill it, a child only after the ten
  seconds, an output only after a failed or abandoned conversion (nothing removes
  these); `ProbedIsUploaded`, duration and thumbnail are of the bytes uploaded, unless a
  video was given by name: `build_video_message` hands the name, not the bytes it
  read, to ffprobe (`client.py:570`).
- `media_live`: `JobEnds`, each job ends, unless its child has more to say on stderr
  than the pipe holds: `call` reads stdout to its end first, and neither goes on.
- `loader`: `PartialExplained`, the library is partial only while it is written or
  after a cut off download; `OverwrittenByLatecomer`, the right library changes under
  its user only through a process that looked before it was there or had mapped
  another version; `CrashExplained`, what kills an importing process; `ImportEnds`,
  imports end, but for a process that has mapped another version, which downloads for
  as long as the network lasts.
- `values`: `ListingIsTrue`, the device list is the table, and is refused as a whole
  if one push name or business name holds a comma or the separator (an `@` does no harm,
  since the fields are split first), unless the two names of that device hold between them
  the separator, a comma and an `@`: such names may read as devices of their own; `ListedIsFound`, a listed device is opened as itself,
  although its JID comes back with the device inside the user, and devices do not share
  keys; `SettingsReadBack`, settings read back, a duration to half a step of a float,
  but `Archived` as `Pinned`; `AddressesAgree` and `KeysAgree`, Python's texts and keys
  name what Go's do, but for a revoke without a sender; `ContentsFound`, `extract_text`
  finds a text exactly where the content has one, whatever comes with it,
  `get_message_type` finds the content, and `from_message` the server of the keys with which
  a receiver decrypts it; but the first message of a group member is taken for its
  sender key, a name that does not end in `Message` is not found, and a
  sticker has no server; `SentIsReadable`, what a builder encrypts the receiver can
  decrypt exactly if the file is of the class its message stands for;
  `RequestsArrive`, lists arrive, but for texts with a space, `mark_read` of nothing,
  ids beyond a signed byte, and a message 0 that is always marked (`main.go:1300`);
  `PicturesKeepShape`, thumbnails keep the ratio of the picture although
  the box `AspectRatioMethod` makes for a landscape is square, while `sticker_scaler`
  makes landscapes square, against its docstring (`calc.py:53`), and keeps the ratio of the
  others; `PlatformsServed`, each platform built for asks for its library, but for 32 bit x86 and ARM, whose names the two sides write differently.

Several of these are stated with the exception the code makes, as an equivalence
where that is possible: the property then fails as well when the exception is gone,
and a repair of the code shows as a change of the property.

Bounds. The only bounded quantities are `Clients`, `Events` and `Threads`; no
action counts anything. Two clients are the fewest that can share a key, write
the map at once or mix up their logins, and every property speaks of at most two.
Two events are the fewest that compete for one `loginStateChan`, overtake each
other or find a late registration. Kinds are chosen one per branch of
`eventHandler`: a reliable kind, an empty one, a miscoded one, one whose encoding may
fail, and `Connected`, which alone waits. One event suffices in `live`, whose properties speak of one.
Two threads interleave; each may be in any method, so all pairs of methods are
explored. `CHECK_DEADLOCK FALSE`: a process that exited or was aborted has no
next step, and a call that returned is not made again. Two jobs are the fewest
that can share a name; with one tick of the clock two of the same format always
do and two of different formats never, which are the cases there are. `Versions` of two
lets the content change once, between any two readings. In `media_live` a pipe of one
and up to two pieces of stderr give children that fit, fill and overfill it. Three
processes let one write, one load and one have the library mapped; `Loader` counts
nothing, so its runs are of every length. In `values` lists (`TextLists`, `IdLists`) of up to two elements show
order, separators and emptiness; the numbers are those around each width (255, 256, 257;
65535, 65536; 127, 128; durations on both sides of 2^24 seconds; sides around 200 and
512 and ratios beyond 200 to 1);
`MaxDevices` of two is the fewest with a separator, `MaxChanges` of three allows to
write two settings and a third, or to log in twice and out, with any listing, opening
and reading in between, which are not counted. Push names there are an empty one, one
with an `@` and one that is the separator, business names an empty one and one with a comma,
so that each mark is in one of the two; names that read as a device of their own
more than double the run and are left to the theorem. Symmetry is used for events, jobs
and threads, which are interchangeable, and only in runs without liveness.

Counterexamples. Four runs check a claim the repository makes and TLC refutes it:

- `misrouted` (`ExecutedByItsHandler`): a `ConnectFailure` is run by the handler of
  `TemporaryBan`, or raises `KeyError` if there is none (`main.go:277`).
- `sameuser` (`CallsReachOwnClient`): two devices of one user, each with the uuid
  that `new_client` asks for to keep clients unique, get one key, since the uuid is
  used only without a JID. The second `StoreClient` replaces the first.
- `stuck` (`ConnectedIsDelivered`, under `FairSpec`): with `PairPhone` on a device
  that has a session, the `Connected` case sends on a channel that nobody receives from,
  so the registered handler is never called.
- `reaction` (`ReactionReturns`): an accepted newsletter reaction dereferences a
  nil error and ends the process, in the loop of the example as elsewhere.

## 4. Fairness

`FairSpec` assumes weak fairness of each step of a connect thread, each waiting
goroutine, the receive from `loginStateChan` when a sender waits, the SIGINT
handler when the main thread is in Python, and the end of the script: the Go and
the operating system's schedulers provide it, whatsmeow answers its requests or
fails them, and closes a QR channel after its last code. Nothing is assumed of
people: no program has to call `connect`, no user to press Ctrl+C or to confirm a
login. Hence the exception `phase = "wait"` in `InterruptNoticed` and
`ShutdownEndsSessions`: a pairing code that is never confirmed keeps the main
thread in Go, where Python runs no signal handler. No fairness is assumed of
whatsmeow raising events.
Weak fairness of the blocking function's return is about `event.wait()` once
`event` is set; in `live` no client has a blocking function of its own.

`FairSpec` of `Media` assumes weak fairness of each thread and of each child that can
go on. No child has to fail and no thread to be slow: `ChildFails` is outside, and
the ten seconds of `wait` are a step of the thread that may be taken in place of the child's
end. A child blocked on a full pipe is not enabled, so fairness does not free it.
`FairSpec` of `Loader` assumes weak fairness of each import's own steps; nothing is
assumed of who starts, ends or kills a process, nor that the network works.

A step of `Media` or `Loader` that reads from the network is `requests.get` without a timeout
(`iofile.py:28`, `download.py:14`): its fairness assumes that the server answers or the
connection fails, which the code does not see to. `JobEnds` and `ImportEnds` name the choked pipe
and the old image as exceptions. They show that nothing else keeps a job or an import from
its end; they do not catch these two.

## 5. Proofs

All theorems hold for every set of clients, events, kinds, classes, threads,
methods, jobs, ticks, contents, processes, devices, names, addresses and chats, and
every size of the pipe, of pictures, of texts and of lists. They assume the named assumptions of the modules:
`NoClient` is no client, `Main` is a client or `NoClient`, `Kinds` are whatsmeow
kinds `EventTable` has, `Classes` are keys of `EVENT_TO_INT`, `Called` are methods of
the client, `Kinds` and `Sources` of `Media` are among those it knows, `Versions` and
`Noise` are naturals, `NoJob` is no job, `NoProcess` no process, `Released` and
`OnDisk` are versions, `Sides` are positive, `Durations` are below 2^31 seconds,
two chats differ in the text of their addresses, and `KeyJids` are as `EncodeJidProto`
makes them, with an agent of 8 bits and a device of 16. Of texts they assume what
they are made of: `DeviceJids` are as a login makes them, a user of names that is not
empty, an agent of 8 bits and a device of 16 (`DevicesAssumption`); push names and business names
are of any letters a line of the list has, its marks included (`NamesAssumption`); `WireJids`, what
a program sends, have numbers of any width and either a user of names or, from
the list, a user with a device within (`WireJidsAssumption`); texts of requests may hold
spaces, and ids of newsletter messages are naturals (`ListsAssumption`).

`SessionsProofs`. `TypeCorrect` is inductive alone. The others need
strengthenings, which are conjuncts defined in `Sessions`:

- `Located` (past the map write the key is present; online, and events, come only
  after it) gives `HandlersReachClients`;
- `Subscribed` (the copy is within the dictionary; what flies was subscribed)
  gives `HandlersFound`: registrations only add to the dictionary;
- `EntriesMatch` (an entry belongs to a client with its key) gives
  `MethodsReachTheirClient` under the hypothesis that keys are distinct, which
  `sameuser` shows to be needed;
- `Branches` (who can be in which login branch, what can be parked) with `LoginGate`
  and `OneLogin` is inductive and gives `LoginGated` and `OneLoginOnly`; the action
  property `UnparkedOnlyByLogin` follows from it step by step;
- `Endings` (why `connect` returned; a dangling event's client returned) gives
  `ServedUntilShutdown`.

`DeliveryProofs`. `SessionsImplementDelivery` is the refinement under the mapping
of `Sessions`. `OneFate` says that a step that changes one event's promise in one of
the abstract ways, and no other's, is an abstract step; `PromiseStable` that a step
that leaves an event's trip alone leaves its promise alone; then one step per action.

`BridgeCallsProofs`. The tables are functions merged from parts, so the proof
first shows that each entry of `Tells` is one of the seven sorts and each path of
each method is a sequence of exports in which an operation that others build on
is not one whose error is dropped (`TellsEntry`, the lemmas named `...Paths`). The
invariant is `TypeOK`, `Progress` (all exports before the position were carried
out or are among the six) and `DeathExplained`, and gives
`ReturnedMethodsAreDone`, `NothingIsLeftDangling` and `DeathsExplained`.

`MediaProofs` first reduces each script to three numbers, where its with statement
begins and ends and how long it is (`Bounds`, `Script`, `Here`), so that the steps of
all four kinds of work are proved at once. `Elsewhere` says that a step of one job leaves
the others where they are. `MediaInv` is `TypeOK` with `Placed` (each place of a thread
is at a step that has it), `Children` (a child runs only while its thread is in `call`
or gave it up) and `Outs` (a name is taken once); even `TypeOK` needs all of it, since
the index of a script and the name of an output are valid only where they are used. On
it rest `Inputs` and `Contents`, and `FilesInv`, which follows each file: `Owned` (a file is
found under its creator's name), `Opened` (a child writes to a file of its own
name), `Written`, `Wrote` (a conversion that did well wrote its file alone, or shares its
name), `Reads` and `Lefts`. They give `OwnOutput`, `CleanReturns`, `LeftoversTell` and
`ProbedAndUploaded`. That a shared name stays shared (`SharedKept`) is what makes the
exception of `OutputIsOwn` stable.

`LoaderProofs`. `LoaderInv` is `TypeOK` with `FileThere` (the file does not go away),
`DownloaderIsLate` (who downloads looked too early or loaded another version) and
`RightLibraryStays` (who has the right library mapped downloads no more).
`PartialsExplained` is inductive over the types; `LibrariesOverwrittenByLatecomers` and
`CrashesExplained` are action properties that follow from the two.

`ValuesProofs`. `PicturesOfAnySize` rests on `Quotient`, that a whole quotient times its
divisor is within one divisor of the number; `HighBox` bounds with it the boxes that
`AspectRatioMethod` gives a high picture, whatever its floating point does, and `Fitted`
what Pillow makes of a picture that does not fit its box. Run `values` knows fifteen
sides, the theorem all. `SettingsAlwaysReadBack` rests on `FloatNear`, that `Float32` is
within half a unit below 2^31 and 0 only for 0, and on `SettingsInv`: each row is what
was told of its chat, and an answer is of the rows as they are. The invariant is needed
because an answer says nothing of the other chats, whose rows a write must leave alone.
`AnySentIsReadable` goes through `SameNumbers`, that the codes of Python's enumeration
and the list Go indexes with them name the same types.

The contents of messages go through `FirstIn`, the first of a list of names that a set
has: `FirstOnly` and `FirstAt` (in `TextProofs`) say what it is, from `LeastOf`, that a set
of naturals that is not empty has a least member. `EveryPlatformServed` goes through the
platforms. The types of `ValuesTypeOK` need two invariants: `Asked`, that what was asked
and answered is an input and its answer, and `AccountsInv`, whose table, and whose
table when it was last listed, are sequences of `Rows`.

`TextProofs`. What a fold gives for every text is an induction over data. The library's
induction theorems take an operator and cannot be used, but one over sets can: that the
order of the naturals is well founded (`NatLessThanWellFounded`) is a fact about sets,
and gives `NatSetInduction`, `UpToInduction` and `SeqSetInduction`, where the set is that
of the numbers or sequences for which the claim holds. A fold of the community modules
chooses a function over the subsets of the positions; `FoldExists` builds one, so that
there is one to choose, and `SplitRun` and `JoinRun` say what it gives step by step. From
`SplitAppend` (one token more is one `Cut` more) and `JoinAppend` follow `SplitWhole`,
`SplitBetween` (a text splits into the pieces of what is before and behind a separator),
`SplitSeparates`, `SplitJoin` and its converse `SplitJoinSpoiled`, and `JoinKeeps` (the
pieces of each text are among those of the joined one). `ReadBack` is what
`ParseJID` reads from the text of any address, by the four forms it may have, and
`OneText` that two addresses in the widths of whatsmeow do not share a text. `FieldsOf`
is that a line has four fields exactly if neither name in it holds a comma.

`AddressProofs`. `KeysOfAnyMessage` rests on `SameText`: `Jid2String`, which writes the
separators of an address at once, and whatsmeow's `String`, which puts them together
piece by piece, make one text of any address (`Glue`, `PutTogether`). `ChatText` and
`SenderText` carry that over the bridge, where the widths lose nothing.
`AddressesAlwaysAgree` has no such bound: `WrittenAgrees` is that what `ParseJID` reads
from Python's text is cut to the same widths as `DecodeJidProto` cuts the fields, and
`ListedAgrees` that an address from the list, with the device in its user, has the text
of the device.

The list of devices: `DeviceText`, that the text of a device is a user without an `@`, an
`@` and the server; `LineHolds`, that a line holds the separator exactly if one of its names
does; `PlainRow`, that the line of plain names is read as its row. `SplitJoin` then gives
`PlainList`. For names that are not plain, `SpoiledByComma` finds the line itself among the
pieces, with other than four fields, `SpoiledBySeparator` a piece without an `@`, whose first
field does not fall into two, and `SpoiledWithoutComma` a piece of one or two fields: a
separator in a name is before or behind the comma between the names (`NamesAround`), so that what
is on its other side, up to the address (`SpoiledBefore`) or down to the flag (`SpoiledAfter`),
has one comma left; `JoinKeeps`
puts the piece into the whole text, which is refused. The invariant is `ListedInv`: the list is what `ReadLines` gives of the table
when it was listed, and what was opened from a list of plain names is one device, found
where it is present, under a key from which its text can be made. Both are needed
because the table goes on changing under the list and the clients.
`ListedAlwaysFound` follows with `DeviceOfText`, that devices do not share a text.

Only model-checked: the five liveness properties of `live`, `media_live` and `loader`, which
depend on fairness. Counterexamples are TLC's.

Taken from outside `src/`: whatsmeow recovers a panic of an event handler and
goes on; a method of a nil `*whatsmeow.Client` panics; whatsmeow closes the QR
channel; CPython runs signal handlers on the main thread between bytecodes and
ctypes frees a callback with its last reference. They are modelled as the code in
`src/` relies on them. So are ffmpeg (it looks whether the output exists, opens and
truncates it, writes, and returns 0 only if all of that went well), `dlopen` (one image
for a name), Pillow's `thumbnail` and whatsmeow's `String` and `ParseJID`.

## 6. Not modelled

In the order in which they would be worth adding:

- `store.DeviceProps`, which concurrent logins merge into without a lock
  (`main.go:164`): a torn read would change what the phone shows of a device, and no
  state here depends on that; and which of several QR codes is shown last, as they are
  passed on by goroutines of their own: any of the carried codes may be, as with events.
- The encoders and decoders that copy field by field (groups, newsletters, contacts,
  app state patches, message infos): a model of them would repeat them. They include
  `DecodePatchInfo`, whose comparison of pointers is about Go, and `DecodeMessageInfo`,
  whose timestamp no caller reads; `EncodeGroupInfo` passes times through a float32, the
  arithmetic that `Float32` has.
- The fields of contacts, which pass through, and `build_history_sync_request`.
- The other enumerations, types and errors: names of constants.
- A collision of two names of `tempfile.mktemp` (`iofile.py:81`), which are random.
- The build scripts that call compilers and wheel tools once. Seen on the way:
  `build_android` passes `aarch4`, which the release does not use, and `release.yml`
  calls `repack.py`, which is not there; `main.py` does what it would.
- The memory the bridge never frees (`main.go:45`), which has no bound to state a
  property about; thumbnails and logging; the generated protocol code.
