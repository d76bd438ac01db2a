# PS2 DriveForge in TLA+

PS2 DriveForge reads PlayStation 2 hard disks (APA partition tables, PFS file
systems, HDLoader games) on Windows: from a physical drive or a disk image, in
two desktop frontends and a command line, and as a read-only Dokany volume in
Explorer. Nothing is ever written to the disk. What can go wrong is therefore
not lost data but a wrong answer (a stale cache, metadata of another disk, a
mount of a source nobody is looking at, an export that lacks a file), a thread
that never ends, or an object destroyed under a thread that still uses it.

This directory holds TLA+ modules of those parts, TLC configurations that check
small instances, and TLAPS proofs of what holds for every instance. Line numbers
are those of the source tree; `PROJECT.json` maps every definition to the lines
it models.

## Inventory

| Component | State | Operations | Hard behaviour | What makes it correct |
|---|---|---|---|---|
| APA scanner, partition catalog (`core/apa.cpp`, `core/partition_catalog.cpp`) | none; a walk along the partition headers | `scan`, `build` | chains with cycles, wrong backward links, headers that cannot be read, sizes past the end | terminates; returns the chain, and a warning or error for every departure from it |
| PFS parser (`core/pfs.cpp`, `core/apa_volume.cpp`) | none; inodes and segment descriptors | `probe`, `read_inode`, `read`, `list_directory`, `resolve` | ranges across zones, extents and descriptors; corrupt inodes | a range is the bytes of the file or an error |
| HDL enrichment (`host/hdl_enrichment.cpp`, `core/hdl.cpp`) | claim and completion counters, a result vector, a progress mutex | `enrich_hdl_catalog`, cancellation | several workers on one counter, a stop at any time | every game once, in LBA order; returns |
| Block-device read path (`read_cache_block_device.hpp`, `read_ahead_block_device.hpp`) | page map, look-ahead window, end of the last request | `read`, `clear_caches` | readers interleave, medium read outside the locks, cuts at the end of the disk | what is read is what the disk holds |
| DriveSession (`host/drive_session.cpp`) | four bounded caches | `browse`, `stat`, `read_file`, `export_to_host`, `clear_caches` | lookups and stores in separate critical sections, evictions, a device that fails for a while | the caches change no answer |
| Mount view, export (`host/mount_view.cpp`, `host/pfs_export.cpp`) | none between calls; within one: the names given in a directory, the directories an export is in, the file being written | `lookup`, `list_directory`, `read_file`, `export_node` | names Windows does not accept or takes for one another, a device that fails while a directory is listed, an error half-way through a tree | a name that was shown leads to its entry; nothing is overwritten, a success is complete, a failure leaves no broken file |
| Dokany controller (`mount/dokany_controller.cpp`) | runtime, worker thread, three atomics | `start`, `request_unmount`, `wait`, callbacks | Dokan's threads, removal from outside, a refusal | the runtime outlives its users |
| Win32 frontend (`gui/windows_main.cpp`) | session, remembered source, controller, timer, menu | open, rescan, mount, unmount, poll, close | message boxes pump messages, the mount's state changes on another thread | mount and window agree; there is always a way on |
| WinUI frontend (`winui/*`) | snapshot, remembered source, three threads, dispatcher queue; the handle and the letter of a helper; the Files page with its list and an export thread | discover, open, refresh, cancel, mount through a helper, browse, export, close | lambdas of old threads run late, also under a folder picker; joins on the UI thread; a process known by its handle and a letter only | the window shows the session it has; a running helper is not lost from sight, its end is noticed; what is exported is what was selected |
| Mount CLI (`mount/dokany_main.cpp`) | one controller, a global pointer for Ctrl+C | mount, unmount | the console handler's thread, the end of the process at any moment | a removal ends the process |
| Launcher (`launcher/windows_launcher.cpp`) | the ready event, the WinUI process | wait for the first of event, end and time-out; fallback | the process ends just before or just after its event, or after the time-out | an early end is answered by the fallback dialog |
| Devices and discovery (`core/file_block_device.cpp`, `platform/windows`) | handles | read, enumerate | I/O errors | an exact read or `false` |
| Command-line tools (`cli/*`) | none | print | none | |
| Presentation (`windows_theme`, `windows_elevation`, XAML) | colours, windows | | none | |

How they interact: a frontend opens a device, wraps it in the two cache layers
and a `DriveSession`, and calls that from several threads (window, export,
enrichment, Dokan's pool); the session calls the parsers, which call the device.
A mount opens the same source again, with a session of its own. The Win32
frontend holds the mount controller in its own process; the WinUI frontend
starts the mount CLI as a hidden, elevated helper, of which it keeps a process
handle and the drive letter. Worker threads of the WinUI frontend
answer by lambdas on the dispatcher queue, discovery in the Win32 frontend by a
posted message, Dokan by callbacks and three atomics which the frontend polls.

The hazards this code is exposed to, each at its line, with the property that
covers it or the reason why none does, are listed under `hazards` in
`PROJECT.json`.

## Modules

| Module | Models | Checked by |
|---|---|---|
| `CatalogRead` | what a metadata read promises (abstract) | `hdl_enrichment`, as a refinement |
| `HdlEnrichment` | the scheduler and the serial reader | `hdl_enrichment` |
| `BlockDevice` | what `BlockDevice::read` promises (abstract) | `read_path`, as a refinement |
| `ReadPath` | page cache over read-ahead over the medium | `read_path` |
| `SessionCache` | the operations and caches of `DriveSession` over the parser | `session_cache` |
| `DokanyController` | the mount controller, its worker, Dokan | with its clients |
| `Win32Mount` | the Win32 window; extends `DokanyController` | `win32_mount`, `win32_close` |
| `NativeSession` | the critical sections of `NativeSessionController` | with `MainWindow` |
| `MainWindow` | the WinUI window, its queue and threads; extends `NativeSession` | `main_window`, `main_window_rescan`, `main_window_cancel` |
| `ApaScan` | the scan of the partition headers and the catalog | with `PfsRead` |
| `PfsRead` | the PFS reader on a partition found; extends `ApaScan` | `on_disk` |
| `MountHelper` | the mount CLI over the controller, with the drive letters; extends `DokanyController` | with `Desktop` |
| `Launcher` | the launcher and the startup of the WinUI process | with `Desktop` |
| `Desktop` | the WinUI window's mounts, composed of `MountHelper` and `Launcher` | `desktop` |
| `HostNames` | the names a PFS tree has on Windows | with `HostView` |
| `MountView` | lookups, listings and reads of the mounted volume | with `HostView` |
| `HostExport` | the export of a file or a tree | with `HostView` |
| `FilesPage` | the Files page and its export thread; extends `HostExport` | with `HostView` |
| `HostView` | the mount's process or the window, over one tree | `host_view`, `mount_names` |
| `OnDiskProofs` | theorems about `ApaScan` and `PfsRead` | TLAPS |
| other `*Proofs` | theorems about the module of that name | TLAPS |
| `MC*` | values of the constants for TLC | |

Operators that start with "Bug variant" in their comment are plausible bugs of
the definition that follows them. No specification uses them; each one, put in
the place of that definition, makes TLC report the property listed with it in
`PROJECT.json` under `mutants`.

### HdlEnrichment

`enrich_hdl_catalog()` sorts the HDL mains by LBA, chooses a width
(`MaxInFlight`) and either reads them on the calling thread (`SerialCheck`,
`SerialRead`, `SerialReturn`: `hdl::read_catalog()`) or starts workers. A worker's
loop is `CheckStop`, `Claim` (the `fetch_add`), `ReadGame`, `Count` (the second
`fetch_add`, before the mutex) and `Notify` (under it); the caller's destructor
of the jthreads and the gathering of the slots are `Join`. `std::sort` may leave
equal keys in any order, so the order is chosen among all sorted ones. A header
read has two outcomes; any read may fail. `calls` and `atStop` are history.

`CatalogRead` is the abstract reader: candidates are taken one after another,
each is resolved or not, and what is returned is a prefix. The refinement maps
its `taken` to the claim counter, cut at the number of candidates.

### ReadPath

One action per critical section: `CacheLookup` and `Return` are the two of the
page cache, `WindowLookup`, `Decide`, `ReadSmall`, `ReadExact` and `ReadGrown`
those of the read-ahead, together with the read of the medium that each of the
last three follows. The window and the sequence end are written in the critical
section after the read; the read itself gives the same bytes at any time, so that
it can be taken with the section behind it. A byte's value is its address:
a wrong slice is a wrong value. `ClearPages` and `ClearWindow` are the two
halves of `DriveSession::clear_caches()`, on any thread.

`BlockDevice` is the promise: an answer is exactly the bytes, and a request fails
only outside the device or for an unreadable byte within reach. "Within reach" is
the honest version of the promise in `block_device.hpp:59`: the page and the
look-ahead around the request. The literal one, `ReadableRangeSucceeds`, does not
hold (see Findings).

### SessionCache

Each section under `cache_mutex_` is one action, each parse one action outside
it. `Resolve`, `Listing` and `Parsed` are what the parser finds without a cache;
the caches are maps bounded by `BoundedStore`, which evicts any entry. `Fault`
and `Heal` let the device fail for a while; a parse made meanwhile may lose any
inode. A path is a sequence of names; a name that contains a separator is split
by `child_path()`, which is modelled (`Parts`). A browse stores all children it
could read in one section (`StoreReadable`, a fold over the entries).
`CachesAgreeWithParser` excepts what
the code does not promise to repair: a probe that failed with the device is
kept (`RetainsValidatedResults`, see Findings).

### DokanyController and Win32Mount

`DokanyController` has the state other threads can see: the runtime and the
atomics `running`, `mounted`, `error`. `run()` is `DokanRefuses` or
`DokanRegisters`, the callbacks, `MainReturns`, and three stores in the order of
the code (`ClearMounted`, `ClearRunning`, `EndRun`). Dokan is external: it
accepts the removal of a registered mount point only.

`Win32Mount` is the window. Its thread runs one handler at a time, but a message
box pumps messages, so `modal` is a stack of boxes whose caller still has
something to do; menu commands are disabled meanwhile, timer and discovery are
not. A handler that joins the worker or reads the atomics twice is split there
(`gui`). `load_device()` is `LoadDevice` and `AnswerYes`/`AnswerNo`, `mount_read_only()`
`MountReadOnly`, `StartMount`, `RefusalRead` and `RefreshMenu`, `poll_mount()`
`PollMount`, `ReasonRead` and `FinishMountController`, `WM_DESTROY` and `~App`
`Destroy` and `WindowClosed`.

### NativeSession and MainWindow

`NativeSession` is one operator per critical section of the controller's mutex:
`Publish` (a new session and its model), `ResetModel`, `Snapshot`, and the
callback of an enrichment (`StillCurrent`, `Applied`). A model has an identity,
which stands for the address a `shared_ptr` keeps alive. `MainWindow` adds the UI
thread, the queue and the three threads. The opener publishes (`OpenPublishes`)
and tells the window later (`OpenPosts`); the window copies the session when that
lambda runs (`HandleFinish`) and starts the next enrichment, for which it waits
for the last one (`ui = "joinReader"`, `JoinedReader`); while it waits, no lambda
runs. The reader captures session and model (`ReaderCaptures`), and for each game
applies the result if the model is still its own (`ReaderReports`) and posts
(`ReaderPosts`). A single drive found by discovery is opened by itself while
nothing is shown, and after a rescan in any case (`OpensDrive`), which is how
the code has it. `Destroy` and `Destroyed` are the destructor and the members it
joins.

### ApaScan and PfsRead

`headers` is what the disk holds, from places to headers, with any link and any
extent in them; a header whose magic or checksum is wrong is not `sound`.
`ReadMbr` and `Visit` are `apa::Reader::scan()`, one iteration a step: `lba`,
`walked` and `expected` are its locals `current_lba`, `visited` and
`expected_prev`, and `mbrValid`, `partitions`, `issues` its result. `Intact` says
without a walk which disks have no fatal fault. `Catalog` is
`build_partition_catalog()`, its loop a fold whose body is `Entered`.

In `PfsRead` the bytes of the disk are their own addresses, so that what a read
returns tells where it was read. `OpenVolume`, `Probe`, `ReadInode` lead to an
inode on any main PFS partition the scan has kept, also one of a disk with errors.
`Read` starts `pfs::Reader::read()`; `LoadSegment` and `TakeBlock` are the
iterations of its first loop (`walk` holds the locals), `CopyPiece` those of the
second one with the loop of `read_zone_bytes()`. `RightAnswer` says what the
answer should be from the zones of the file alone. A metadata record is a whole:
a checksum that holds covers all of it.

The two are checked together because the scan hands the extents to the reader
unchecked, damaged ones included.

### MountHelper, Launcher and Desktop

`MountHelper` is a process: its main thread (`SourceOpened`, `StartSucceeds`,
`PollingOver`, `WaitReturns`, `Returns` are the stretches of `wmain()` between
which something else can happen), the system's thread in `console_handler()`,
which reads `running`, the runtime and the mount point one after another
(`HandlerLooks`, `HandlerRequests`) while the main thread may drop them, and its
end at any moment (`Killed`). Below it `DokanyController` goes on as under the
Win32 window. `drives` is what the rest of the system sees: Dokan's registration
takes a letter, which nothing has kept free since it was chosen. `--unmount`
processes (`Remove`), an eject (`RemovedElsewhere`) and other volumes
(`OtherVolume`) act on the same letters; the volume of a killed process stays
until the driver has noticed (`Reclaim`).

`Launcher` has the wait for two handles and a time-out, where the process wins
over the event if both are signalled (`WaitEnds`), and the startup of the WinUI
process up to its event.

`Desktop` adds the window's mount page: `mount_point_`, the process handle, the
timer and the button. `poll_mount_state()` is `PollMount`, one step of the UI
thread, that sees the volume by the attributes of its root (`Looks`: a root may
answer or not when the volume is another's or an orphan) and gives the mount
point up by the handle only. `start_mount()` is cut where `ShellExecuteExW()`
keeps it until UAC is answered (`Choose`, then `LaunchHelper` or `LaunchFails`),
`request_unmount()` and closing likewise.

### HostNames, MountView, HostExport, FilesPage and HostView

A name is a word with what Windows objects to in it and the numbers appended to
it; a path on the host is a sequence of names without case. `FreeName` is the
suffix loop both `make_entry_aliases()` and `export_node()` have.

In `MountView` every call of Dokan's on a handle is a walk from the top
(`Step`, one component, one browse of the session): a listing is the cached one,
or is made anew, and one made while the device fails may lack any inodes
(`Listings`). Explorer opens what a listing has shown (`Open`) and works on the
handle (`Call`); `want` is history: the node the name stood for when it was
shown. `Create`, `Inform`, `ReadBytes` and `Find` are the callbacks, each with
its failure. `Elsewhere` and `Evict` are what other handles do to the session.

`HostExport` is the recursion of `export_node()`: `stack` has the directories it
is in with the next entry and the names given so far in each, `writing` the file
being copied, `host` what is on the host. `NextEntry` is one iteration of the
loop over a directory with the call for the child (`Visits`: refused, a file
opened, an entry skipped, a directory entered); `Chunk`, `ChunkFails` and
`EndFile` are the loop of a file. An error anywhere ends every call on the way
(`Fails`).

`FilesPage` is what decides what is exported: the list that was filled by one
browse, the path that the next one moves on, the folder picker, during which the
dispatcher runs lambdas (`HandleFinish`), and the thread that takes the session
there is when it begins (`ExportBegins`). `intact` and `from` are history.

`HostView` puts the two programs over one tree. They share nothing, each has its
own session, so that a behaviour is of one of them.

## Runs

| Run | Shows | Instance |
|---|---|---|
| `hdl_enrichment` | every game reported once with the result that is returned; cancelled exactly when something is missing; the call returns; implements `CatalogRead` | 3 games, two at one LBA, widths 1 to 3, every read failing or not |
| `read_path` | the caches mirror the medium; implements `BlockDevice` | 2 readers, 13 bytes in pages of 3, a cache of 1 page, unreadable byte none, 9 or 2 |
| `session_cache` | answers are the parser's; caches agree with the parser and stay within their limits (`TypeOK`) | 2 threads, 2 partitions, 7 inodes, caches of 1 entry |
| `win32_mount` | the runtime outlives Dokan; the mount serves the open source; the menu offers a way on; polling ends | an image and two drives |
| `win32_close` | closing before the mount point is registered hangs (finding) | the same |
| `main_window` | no row of another source; no unasked replacement; the settled window shows its session and has read all it calls ready; no join, no open hangs | a drive and an image with a game at one LBA, an image without games, 2 commands that start a thread |
| `main_window_rescan` | a rescan opens its one drive over the open source (finding) | the same |
| `main_window_cancel` | the last lambda of a stopped enrichment disables Cancel for the next (finding) | the same |
| `on_disk` | the partitions found are those of the chain, none twice; a scan without errors means exactly that the disk is intact; the catalog counts sectors once; a read gives the bytes of the file or fails for a reason; no read leaves its partition | 56 sectors, chains of at most 4 headers, zones of 4 sectors, 3 descriptors to a record |
| `desktop` | a running helper is the one the window shows, holds and polls; the end of one is noticed; an accepted removal ends it; an early end of the frontend is answered by the dialog | one source, 2 letters, 2 helpers one after the other (182,232 states) |
| `host_view` | a name that was shown leads to its entry; an export that is over leaves no broken file; a successful one is complete; what is exported is what was selected; what has been copied stays | 9 nodes with a special file and a link back to the root, five names of which three and two collide on Windows, a device's name, a name that is not UTF-8; one thread of Dokan's; one source opened meanwhile (1,677,381 states) |
| `mount_names` | a name passes to another entry when its own cannot be read (finding) | the same |

The passing runs with their deadlock check on stop nowhere. It is off in
`hdl_enrichment`, where the call returns once and nothing follows, in
`main_window`, where a destroyed window does nothing more, in `on_disk`,
where one scan and one read are made, in `desktop`, where launcher, window and
helpers may all have ended, and in `host_view`, where an export may have taken
the program with it.

### Bounds, and why they are enough

* HDL: a claim involves one worker and one candidate, and a race two workers;
  three workers on three candidates also overshoot the end by every possible
  amount. A width above the number of candidates is among the overrides.
* Read path: 13 bytes in pages of 3 give a cut last page, a page no request
  fills, a request across a page boundary, an empty and an outlying request and
  three requests in sequence, so that the look-ahead is reached and cut at the
  end. The proofs cover every other size.
* Session: caches of one entry make every store evict, which is the case large
  caches hardly reach; two threads are what it takes to come between two
  critical sections; calls hit a file, a directory, a corrupt inode, a partition
  of another kind and the same path in two partitions.
* Win32: three sources so that an image, the open drive and a drive discovery
  finds differ. The message boxes nest as deep as the code lets them.
* WinUI: `MaxCommands` bounds the opens, rescans and refreshes of a history.
  Two commands on top of the first discovery, which opens by itself, give three
  sources in a row, an enrichment still reporting while its source is being
  replaced for the second time. The instance with three commands (2.9 million
  states) passes as well and takes longer than a routine run should. The proofs
  do not depend on the bound.

* On disk: the disk has five headers and the limit is four, so that chains that
  end, close, run off the disk, stop just at the limit and pass it all occur,
  with every assignment of links to four headers and eleven kinds of other
  damage to each. Records hold two descriptors besides their own, so that four
  data descriptors need the inode and one SEGI record and a fifth needs a second
  one; runs are at most two zones, so that merging stops at the limit of the
  count; batches are of two sectors. The requests start and end inside sectors,
  zones, descriptors and records. One read suffices: the reader keeps nothing
  between reads.
* Desktop: two letters are what it takes for another volume to have one and the
  helper the other; the second helper (`MaxProcesses`) starts while what the
  first one left, a volume, a handle, an `--unmount`, is still there. One source
  suffices: a mount of the wrong one is `Win32Mount`'s subject.
* Host view: the tree has every kind of collision: case (`foo`, `FOO`), the
  character that is replaced (`x:`, `x?`, `x_`), a suffix that is in the tree
  already (`foo_2`), and a partition named after a device. Paths of four names
  (`MaxDepth`) reach below the partition's own directories and back to the root
  through the link, and exports meet the link to a directory they are in. The
  limit on nesting (256 in the code) is not reached on this tree; the theorems
  hold for any tree and any limit. One opened source
  (`MaxOpens`) is enough for all a list, a selection and an order can be stale by.
  One thread of Dokan's is stepped through its lookups while `Elsewhere` fills,
  and `Evict` empties, the session's cache at any time: nothing else is shared
  between callbacks.

### Fairness

Threads that can run do run (weak fairness of workers, readers, openers, of
Dokan, and of the UI thread's queue and joins); a joined thread is one of them.
Nobody has to press a key, so no command of a user is fair. In `Win32Mount` the
poll timer gets strong fairness: WM_TIMER has the lowest priority, but a user who
opens a menu, answers a box and so on is not for ever faster than 100 ms. The
only thing Dokan owes is to go on: it registers or refuses, and a removed mount
point ends. `ClosingEnds` fails under all of that.

In `Desktop` the helper's threads, Dokan, the driver's clean-up and the
`--unmount` processes go on, the launcher's wait ends within its fifteen seconds,
and UAC closes by itself; the timer again has strong fairness, because a dialog
may hold the UI thread as often as the user opens one. No kill, no user, no
other volume is fair. `ReadPath`, `SessionCache`, `PfsRead` and `HostView` are
checked without fairness: their properties are safety.

## Findings

Four places where the code does not do what the tree says it does, each with a
run that shows it and the quotation in `PROJECT.json`:

1. `dokany_controller.cpp:551`: closing a window during the start of a mount hangs.
2. `MainWindow.xaml.cpp:430`: a rescan replaces an open source.
3. `MainWindow.xaml.cpp:629`: a running enrichment without Cancel.
4. `mount_view.cpp:78`: a name of the volume passes from one file to another.

Observations without a run. The first two are stated in the modules, and TLC
refutes them when they are put into the configuration:

* `ReadableRangeSucceeds` (`ReadPath`): a readable range fails when the look-ahead
  behind it cannot be read, on every retry (`read_ahead_block_device.hpp:99`); a
  page fill does the same.
* `RetainsValidatedResults` (`SessionCache`): a probe that failed with the device
  is kept (`drive_session.cpp:150`).
* Two entries of one name, or a separator in a name, share a cache key
  (`drive_session.cpp:226`), so that the answer depends on the cache.
* `apa.cpp:174` reports an extent outside the device and keeps the partition, and
  the frontends offer to open such a disk, while `docs/apa-format-notes.md:52` and
  the comment in the code say that no filesystem layer receives it. `OpenVolume`
  follows the code; `BytesOfPartition` and the limits of the device hold for those
  partitions too.
* Ctrl+C between the start of a mount and its registration is handled and
  refused (`dokany_main.cpp:57`), after which nobody asks again, although
  `dokany_main.cpp:154` prints "Press Ctrl+C or run --unmount".
* After the launcher's time-out nobody watches the process: if it dies then, no
  frontend comes up. The comment there says so.
* The letter a helper is started with may have gone to another volume by the
  time UAC is answered; the window then shows that volume as mounted and offers
  to unmount it. `EndedHelperIsNoticed` excepts it.
* `utf8_path()` throws for a name that is not UTF-8 and no thread of an export
  catches it (`Undecodable`); the stream of a copied file is closed by its
  destructor, whose failure nobody sees (`EndFile`).
* An entry selected before the folder picker is exported from the path after it
  (`MainWindow.xaml.cpp:700`): the exceptions in `ExportIsOfSelection` are
  behaviours of the model.

## Proofs

TLAPS proves, with no assumption but those the modules state about their
constants (and `WellNamed` in two theorems about `SessionCache`, below):

* `HdlEnrichmentProofs`: type correctness, `OneReportPerCandidate`,
  `CancelledIffIncomplete`, `LowestLbasFirst`, `StopIsPrompt`, and that
  `HdlEnrichment` implements `CatalogRead`, for every number of games, width and
  order of keys. The inductive invariant needs who may be where (`Roles`), that a
  claimed candidate belongs to one worker until it is reported and that an empty
  slot below the counter has a worker reading it (`Claims`), that reported and
  held candidates and counts are disjoint (`Reports`), and, for the counter not
  to run away, that those who have claimed past the end have left (`Overshoot`).
* `ReadPathProofs`: type correctness, `CachesMirrorMedium`, `PagesWithinBudget`,
  and that `ReadPath` implements `BlockDevice`, for every page, device and
  look-ahead size and any number of readers. The invariant relates each reader's
  request, its stage, what it has passed down and what it was handed
  (`Coherent`), besides pages and window; the lemmas are those of division with
  remainder and of slices of slices.
* `Win32MountProofs`: type correctness, `RuntimeOutlivesDokan`,
  `MountServesOpenSource`, `MenuOffersAWayOn` and the action property
  `DiscoveryNeverReplaces`. The invariant says which stretch of `run()` each
  atomic covers, that boxes and half-done handlers exclude a running mount, what
  the last refresh of the menu is still good for, and where a discovery's box can
  be in the stack.
* `MainWindowProofs`: type correctness (which includes that the model is that of
  the session), `RowsComeFromTheirSource`, `UnaskedOpenReplacesNothing`,
  `OneOpenAtATime`, `SettledWindowShowsSession` and `ReadyMeansRead`, for any
  sources and any number of commands. The invariant adds that a session the
  window has not shown belongs to an open in flight (otherwise a discovery could
  open its drive over it) and that an enrichment that holds the current model was
  started for the current session. The last two properties look at the whole
  queue. What the window shows can differ from the session only while a thread
  or a message has news for it (`ShownInv`). A row can be pending only while an
  enrichment of the current model still has it to read, or is about to be
  started, or has ended with a message that says it was cancelled (`ReadyInv`).
* `SessionCacheProofs`: type correctness with the limits of the caches,
  `AnswersAreTheParsers` and `CachesAgreeWithParser`, for any tree, calls, number
  of threads and limits. The invariant says of each cache that its entries are
  the parser's (`CacheInv`) and of each thread that what it carries from one
  critical section to the next is (`ThreadInv`): what it found, where it will
  store it, and how much a fault may have cost it. `resolve()` stores each
  prefix of a path and `browse()` each child under a key built from names, so that
  a key leads to one inode only if the names of a directory differ and hold no
  separator. That is `WellNamed`, a hypothesis of `AnswersRight` and `CachesRight`.
  The code does not check it, and neither holds without it (see Findings).
  `BrowsesRight` does without: a browse and an export are answered right in any
  tree, because they show their own listing or one that is kept under their own
  path.
* `OnDiskProofs`: for every disk, limit and request,
  - `PartitionsFollowChain` and `OkMeansIntact`. The invariant has two halves
    about errors. `NothingMissed`: a walk without errors has seen only headers
    whose extents lie on the device and ends at a zero link, so what it has
    walked is the chain `Intact` asks for. `NothingMadeUp`: whatever chain makes
    the disk intact, the walk so far is its beginning and the next place its next
    header, so that no error can be raised.
  - type correctness and `BytesOfPartition`. Typed descriptors and runs
    (`ReadInv`) and the arithmetic of pieces of sectors (`PieceFits`,
    `ServedBytes`) suffice: what `read_sectors()` admits lies in its extent.
  - `AnswerIsContent`. `ContentInv`, which stands on the invariant above, says
    that the walk over the descriptors has collected runs that are, zone for zone,
    a part of the file's zones (`WalkAt`) and that what has been copied are the
    bytes from the offset on (`OutRight`). Merging two runs must keep the zones
    and their order, a run must not leave its extent, and the edges of a request
    cut the first and last piece.
  - `CatalogCountsOnce`. The sectors the catalog adds up for a type are the
    members of the set `MainUnits` of all that the mains of the type describe,
    those of the headers of the type are the members of `TypeUnits`, and if each
    sub-partition is listed by one main of its type a bijection leads from one set
    to the other (`SameUnits`).

* `DesktopProofs`: type correctness and `MountIsNeverForgotten`, for any letters
  and any number of helpers. A handle and a letter are cleared in one place; that
  they never come apart rests on what the UI thread is doing, so the invariant
  says that a letter is chosen only while no helper runs (`ChoosingInv`), that a
  window not open yet has started nothing (`StartupInv`), and that only a live
  helper has a console handler (`HelperInv`).
* `HostViewProofs`: type correctness, `NoBrokenFileStays`, `SuccessIsComplete`,
  `CopiesStay`, `ExportIsOfSelection` and `ShownNameLeadsToItsEntry`, for every
  tree, all names, any nesting, and any number of threads and of sources opened. That nothing is overwritten comes from a pigeonhole:
  there are more suffixes than names taken (`FreeNameIsFree`), and what a
  directory on the stack has on the host has one of the names given there
  (`NamesInv`), so that the next place is free (`PlaceIsFree`). That a success is
  complete comes from counting: for each directory, children and warnings
  together are the entries passed, for one that has been left all of them
  (`CountInv`); the count needs that the stack's directories are different ones
  (`StackInv`) and that nothing is on the host without its directory (`TreeInv`).
  The file being written is the only one that is partial (`WritingInv`). For the
  page, list, selection and order agree with the path as long as they call
  themselves intact and of the current session (`ListInv`, `PickedInv`,
  `OrderInv`). For the mount, a way along a path of names is a sequence of nodes
  each of which is listed under its name in the one before. What was shown under
  a path lies at the end of such a way (`LeadsTo`), and a call stands on one
  (`Walked`). Below a directory listed with an unreadable inode, a way may go
  anywhere, because names pass to other entries there (finding 4); where none was,
  there is one way only (`OneWay`), since `make_entry_aliases()` gives no two
  entries names that are one to Windows (`NamesApart`). Type correctness needs
  that the host's names in a directory are fewer than its entries passed
  (`BoundInv`), which bounds the suffixes.

What recursive functions and folds come to (`FreeName`, `resolve()`, the stores of
a browse, the zones of a file, the catalog) is proved by a least counterexample:
of the numbers for which a claim fails take the smallest (`SmallestOf`,
`FirstOf`), and show that the one before it would fail as well. That a fold has a
value at all is a lemma of that kind (`FoldOf`).

Properties the theorems state and no run repeats: `LowestLbasFirst`,
`StopIsPrompt` (`HdlEnrichment`), `PagesWithinBudget` (`ReadPath`),
`DiscoveryNeverReplaces` (`Win32Mount`), `OneOpenAtATime` (`MainWindow`).

Only model-checked: everything under fairness (`CallReturns`, `PollingEnds`,
`WindowReturns`, `OpenIsAnswered`, `EndedHelperIsNoticed`, `RemovalEndsHelper`,
`EarlyEndIsAsked`), since TLAPS does not reason about liveness and `ENABLED`. Every
invariant that a passing run checks is also a theorem.

## Not modelled

* The parsing of directory blocks; the 32-bit limits of sector numbers, which are
  out of reach where the length of the extent is checked as well.
* Two exports at once: a second one started while the first runs is a second
  thread in the code, whose start joins the first on the UI thread; in
  `FilesPage` it waits. Sources opened while an export runs are modelled.
* Several partitions: one stands for all on the Files page and in the mount; a
  change of partition is a new start at a root.
* Of Dokan's callbacks those that answer with a constant (volume information,
  every write). One of Dokan's threads is stepped, the others are `Elsewhere`.
* In `Desktop`, that a source is open: opening one is `MainWindow`'s subject.
* The WinUI window's performance page and themes; of the Win32 window
  navigation, painting and its own export command.
* Exit codes and the wording chosen by them.
* A host that refuses to remove the file an export could not finish:
  `export_node()` ignores what `remove()` says, and in that case the broken file
  would stay. `NoBrokenFileStays` is about a host that lets go of it.
* Message boxes in the WinUI window: every one is followed by a return, so that
  what it pumps finds the state it would find a moment later.
* Devices, discovery and elevation: operating-system I/O. `ReadPath` stands on a
  medium that answers or fails.
* Command-line tools, colours, wording and layout; statistics and telemetry,
  which nothing reads back.
* The bytes of headers: a header is valid, readable or not, as far as a property
  can tell.

## Plan

Done, in this order: `HdlEnrichment` and its proofs, `ReadPath` and its proofs,
`SessionCache` and its proofs, `DokanyController` with `Win32Mount` and its proofs,
`NativeSession` with `MainWindow` and its proofs, `ApaScan` with `PfsRead` and
its proofs, `MountHelper` and `Launcher` with `Desktop` and its proofs,
`HostNames`, `MountView`, `HostExport` and `FilesPage` with `HostView` and its
proofs.

Next:

1. Proofs: `HelperTypeOK` alone as a result about the CLI; the two negative
   results about `WellNamed` as theorems about a tree that breaks it.
2. The parsing of directory blocks (`Reader::list_directory`), with its loops
   over corrupt records, beside `PfsRead`.
3. Concurrent exports, once the frontends say what a second one should do.
