# Verification of libtopfield

libtopfield talks over USB to the Topfield TF5000PVR ("Toppy"), a video recorder
with a request/answer protocol: an application opens the device under a lock,
lists directories, reads and writes files, or uploads firmware to the
bootloader. The library has no threads. What makes it hard is the other end:
answers that come after their read has timed out, packets that were left in the
pipes, transactions that one side believes to be over and the other does not,
and processes that compete for one device.

This directory holds TLA+ modules of that code, TLC configurations that check
them on small instances, and theorems that TLAPS proves for all instances.

    tlc -config TfIo_session.cfg MCTfIo      model-check a run (cfg, module)
    tlapm TfOpenProofs.tla                   check the proofs of a module

`PROJECT.json` says which run uses which module, which lines of the source each
definition stands for, and which mutation of the code each property detects.

## 1. The system

| component | source | state | operations | what is hard | correct if |
|---|---|---|---|---|---|
| command layer | `tf_io.c`, `tf_io.h` | `tf_handle`: `dev`, `error`, `pending`, `timeout`; the position in the running function | `tf_init`, the `tf_cmd_*` functions, `tf_send_success`, `tf_send_fail` | every call is one or more writes and reads, each of which may fail; late answers; the SUCCESS of a get is sent one call ahead (`pending`); three functions retry | request and answer stay in step; device and application agree on what is open; data is complete, in order and of the right file; every call returns and every failure can be recovered from |
| open and close | `tf_open.c`, `tf_open.h` | the lock file `/tmp/puppy` (lock and pid), `lock_fd`, `dev` | `topfield_open` with three kinds of lock, `topfield_close` | many processes, `flock`, SIGHUP to a pid read from a file, death at any time | one locked process at a time uses the device; no lock outlives its handle; the holder can be found |
| USB writes | `usb_io.c`, `tf_send` of `tf_io.c` and of `tf_fwio.c` | offsets of two nested loops | `usb_bulk_write`, `tf_send` | short and failing writes, padding at boundaries | bytes in order, errors noticed, no length the device dislikes |
| USB reads | `usb_io.c` | offset of a loop | `usb_bulk_read` | packets that end at a limit | one packet per read |
| firmware upload | `tf_fwio.c`, `tf_fwio.h` | the request to be answered (`tf_fw_data_t`) | `tf_fw_upload`, `tf_fw_upload_next`, `tf_fw_reboot` | the bootloader leads; leftovers of an abandoned upload | "finished" means that the firmware is in place |
| daemon lock | `daemon.c`, `daemon.h` | the pid file (record lock and pid), descriptors | `daemon_acquire_lock`, `daemon_release_lock`, `daemon_lock_pid` | record locks belong to processes; the file is emptied, then written; bounded waiting | a daemon runs once and its file names it |
| USB device | `usb_io_util.c`, `usbutil.c` | descriptor or libusb handle | `open_usb_dev`, `close_usb_dev` | only one of the two builds resets the bus | a clean pipe after open |
| utilities | `tf_util.c`, `tf_util.h` | a static buffer | `tf_stat`, `tf_makename`, `tf_sort_dirents` | a listing ended early; `..` in paths; comparators that subtract | listing left closed; canonical names; a total order |
| dates | `mjd.c` | none | `tfdt_to_time`, `time_to_tfdt` | floating point at month boundaries | one is the inverse of the other |
| encoding | `tf_bytes.c`, `crc16.c` | none | byte order, swapping, checksum | odd lengths, 16-bit lengths | decoding undoes encoding |

Interaction: the application calls the command layer; that calls the USB layer
through a handle that open filled in; `tf_stat` is a client of the command layer;
the lock file is the only thing that processes share. There are no callbacks.

## 2. The modules

| module | models | of |
|---|---|---|
| `Toppy` | the device and the two pipes, as `tf_io.c` relies on them (external) | |
| `TfIo` | the command layer, the application within the rules of `tf_io.h`, faults | `tf_io.c` |
| `Transfer` | abstract: what listings and gets promise | `tf_io.h` |
| `TfStat` | `tf_stat` as a client of `TfIo`, in the middle of a session | `tf_util.c` |
| `TfOpen` | competing processes and the lock file | `tf_open.c` |
| `UsbOpen` | the search for the device and the steps of opening it, in both builds | `usb_io_util.c`, `usbutil.c` |
| `UsbSend` | from a finished packet to the pipe, by sizes | `usb_io.c`, both `tf_send` |
| `UsbRead` | from the pipe to a reply, by sizes | `usb_io.c`, both `tf_get_response` |
| `FwUpload` | uploads with a bootloader around them | `tf_fwio.c` |
| `DaemonLock` | the pid file | `daemon.c` |
| `PacketCodec` | packets byte by byte: requests, replies, directory entries, checksum | `tf_io.c`, `tf_bytes.c`, `crc16.c` |
| `MakeName`, `DirOrder` | paths; the comparison functions and sorting | `tf_util.c` |
| `Mjd` | days and dates | `mjd.c` |
| `MCTfIo`, `MCTfStat`, `MCUsb`, `MCConversions`, `MCFwUpload` | constants and inputs for TLC | |
| `TfIoProofs`, `TfStatProofs`, `TfOpenProofs`, `UsbProofs`, `FwUploadProofs`, `DaemonLockProofs`, `ConversionProofs` | theorems | |
| `FoldProofs` | lemmas about folds over sequences of any length | |

`TfStat` EXTENDS `TfIo`, which EXTENDS `Toppy` and has `Transfer` as an instance;
`PacketCodec` EXTENDS `Mjd`; `MCUsb` puts the three USB modules next to each
other and `MCConversions` the four modules of pure functions. The rest stand
alone: the lock file, the handle and the sizes of packets are all that the
components share, and each of these modules has its side of it.

### TfIo, Toppy, Transfer

A library function blocks only in reads and writes, so one action is the code
from one of them to the next: `pc` names the point at which the function is,
`op` the function. The first step of a function has its name (`tf_cmd_get`), the
step after a read has `_reply` added, later steps name what they do
(`get_cancel_retry`). `tf_send` and `tf_get_response` are operators with the
result `e` as their parameter, which each caller stores and acts on as the code
does; `tf_cmd_get_next` overwrites `tf->error`, `tf_cmd_size` does not.

`Expect`, `ExpectOrFail` are what a caller makes of a reply. They keep a
difference of the code: only `tf_cmd`, `tf_cmd_put` and `tf_cmd_get` look at FAIL.

The application is the most general one that obeys `tf_io.h`: `txn` is the
transaction that it believes to be open, and `AfterCall` is the documentation's
rules for what each result obliges it to. `Careful` says that it cancels after
every failed call, which `tf_io.h` advises but does not demand everywhere.

`Toppy` answers requests in its turn, may refuse any, may ignore those that are
out of turn ("you may no longer be able to talk to it", `tf_io.h:176-177`) and
always honours CANCEL and RESET. Its FIFO `toHost` is what makes answers late: a
read takes whatever is first.

Faults are budgeted by kind in `Budgets`: a read that times out while its answer
is on its way (`late`), a packet lost in either pipe (`lost`), a short packet or
bad checksum (`corrupt`), a short write of which the device sees all or nothing
(`write`), death of the process at any point (`crash`). Refusals and deafness
need no budget.

`Transfer` says what a listing or a get promises. `TfIo` implements it under the
mapping `T` of `TfIo`: a transfer is active from the call that begins it until
the application is told otherwise.

### TfOpen

One action is one system call of one process, with what the code does about its
result. `owner` is the kernel's `flock`, which goes with the last descriptor or
the process. `Start` lets another program have the pid of one that died.
`Unprivileged` processes may be refused the lock file, those in `DiskFull` may
fail to write their pid, which the code does not check.

### TfStat

`stat` says where `tf_stat` is: within a call, the steps are those of `TfIo`, and
when one of its functions returns (`pc = "idle"`) `tf_stat` goes on. `place` is
the page on which each directory has the name that is looked for. `Hit` compares
the page that came, which is the page of some directory: the code cannot tell
which. Before and after, the application does anything else that it may.

### UsbSend, UsbRead, UsbOpen

A packet is a length. In `UsbSend` a history variable counts the bytes that the
pipe has taken; `usb_bulk_write` is one round of its loop, and each ioctl fails,
takes its piece or falls short. In `UsbRead` the pipe is a queue of packets, of
which the first may be taken in part; an ioctl never takes from two packets, the
loop around it may, and that is the matter. Content does not matter to any
property of either.

`reader` says whose `tf_get_response` reads. Both compare the bytes they have with
the number in the header, which is not the length of the packet: with `tf_io.c`
an odd packet comes with a byte of padding, and with `tf_fwio.c` the number
counts the data, not the header of 8 bytes nor the checksum byte. `FullLength` is
the length that a packet has, and the comparison alone accepts a packet without
its last byte, or its last nine.

In `UsbOpen` a topology is a sequence of busses, each a sequence of devices, and
the search is two folds over both, that of `/proc/bus/usb/devices` and that of
libusb's lists, which have to agree; the other steps each succeed, or
fail with the clean-up that the code does there. `kernel` is the version that the
code looks at. That `TfIo` and `TfOpen` take an open as one step is justified by
`HandleOrNothing`.

### MakeName, DirOrder, Mjd, PacketCodec

Operators, each with a reference definition next to it. A path is a sequence of
tokens; a directory entry has its name as a number, its place in the order of
`strcasecmp`; a packet is a sequence of bytes, and the bits of a checksum are a
set, so that XOR is the symmetric difference. The doubles of `mjd.c` are integers
here: no value that the code cuts to an int is so near to an integer that it
matters (the formulas agree for every day from 15079 to 65535).

### FwUpload

`tf_fw_upload` and `tf_fw_upload_next` end in `tf_wait_for_req_data`; the caller
sends the block that `*fw_data` names. The bootloader (external) numbers its
requests and ignores blocks with another number; `garbled` is a reply that
arrives with another block in it, since `tf_get_response` of `tf_fwio.c` does
not look at its checksum. A reply that lacks up to nine bytes and is accepted is
`garbled` too; one that is noticed is `short`. Only a garbled request can ask for
more than a packet holds, which `tf_fw_upload_next` refuses (`MayAskTooMuch`).

### DaemonLock

`owner` is the record lock of `fcntl()`. `Close` loses it for the process
whichever descriptor is closed, as POSIX has it, and the history variable
`lapsed` remembers a process that closed one and kept another; `Take`, which
locks the file, clears it. The loop of `daemon_acquire_lock` is `SetLock` and
`Sleep`. A write that fails may leave some digits of the pid in the file. In
`ReadPid` the open of the second descriptor may fail; otherwise open and close
are one step: the process has no lock to lose there.

## 3. What is checked

Every property of a passing run is violated by at least one mutation of the code
(the operators marked "Mutant of" in the modules).

**TfIo_session**: two files of two blocks, one lost packet, one bad read, one
crash, with the bus reset of the usbdevfs build. `Lockstep` (nothing to read
between calls but what `pending` announces) is the heart of it: were it false,
every later answer would be that of the request before. `DeviceFree` (no open
transaction in the device when the application has none) excuses only a lost
final SUCCESS, which the protocol does not acknowledge. `PendingOwned`,
`Synchronous`, `KnownGoodState` and `PutStored` are said in the module. The
files are symmetric. Two blocks are the least number at which `pending` is used
by a `get_next` that is neither the first nor the last.

**TfIo_any_fault**: the libusb build, which does not reset the bus, two files of
one block and any one fault of any of the five kinds. `ImplementsTransfer` and
`PutStored` hold, every call returns (`CallReturns`), transfers end
(`TransferEnds`) and failures are recovered from (`Recovers`). One block is
enough here, since with the end of the file there are two answers to be confused,
and the order of more blocks is the matter of the first run.

These bounds are not chosen to hide anything, but they mark a border: with two
late answers, with a late one, a lost one and a short write, or with two crashes
and no bus reset, a put may be reported complete that is not, or a listing be
that of another directory. The protocol has no sequence numbers, and a client
cannot tell.

**TfOpen_session**: three processes, of which one may be refused the lock file
and one may find the disk full. `Exclusive` includes the process that is opening
(which resets the device) and the one that is closing. Three processes let two
compete while a third has read a pid that is no longer right.

**TfStat_session**: two directories of two pages, with a lost packet and a bad
read, or a lost packet and a crash. `StatLeavesDeviceFree` is the reason for the
cancel that `tf_stat` sends when it leaves a listing early. `FoundIsThere` and
`MissingIsNotThere` hold although the pipe may have what a lost packet left
behind; two directories are needed for a page of the wrong one. Late answers
are not in this run: with one, a page or the end of another listing may be taken
for the right one, as in `TfIo`, and both properties fail.

**Usb_all_sizes**: writing, reading and opening in one run, since a behaviour is
of one of them. Lengths to write are around each boundary of the code (64, 0x200,
0x4000, 0x8000), and writes stop anywhere, in pieces of 4096 bytes (the smaller
of the two values of `MAX_WRITE`, with more rounds per packet). Replies are
shorter than a header, the shortest of `tf_fwio.c`, one piece, a byte or two
more, eight pieces and a full buffer, claim a right or a wrong length in either
protocol, and two may be in the pipe. `ReadsWholeReplies` is about a reply that
was sent as its header says (`Honest`) but was cut by an ioctl that failed between
two pieces: it is not accepted, although the number in the header is less than its
length. In `tf_io.c` that holds because pieces are even, so that no cut loses only
the byte of padding; in `tf_fwio.c` for replies of at most a piece. No accepted
reply has bytes of the next packet. Topologies are all
of up to three busses of up to two devices: a Topfield may come before, between
and after other devices, on the same bus or another.

**Conversions**: every input is a state. All pairs of paths of up to five tokens
without empty components (`..` at every place, up to three of them); all
directories of three entries, with `int` of three bits so that stamps that are
too far apart are among them; every day from the first for which the formulas
hold to the last of 16 bits; requests whose names and data have every parity and
lengths around 64; pages of no, one and three entries, with names of no byte, one
byte and as many as fit; and every short request with noise in one byte or a
missing end.

**FwUpload_retries**: three uploads of three blocks with six sequence numbers
(the protocol has 256), so that they wrap, and one fault of each of four kinds.
`Uploaded` holds because a block counts only under the number of the last
request: requests left over from an abandoned upload do no harm. With so few
numbers that one comes again while a packet with it is still under way,
`Uploaded` fails. `FailsForAReason` says that the library's part never causes a
failure. TLC does not check for deadlock here, since the caller may stop when
it has finished.

**DaemonLock_session**: three processes with up to two descriptors each, one
second of waiting, and every system call may fail. A process that locks the file
twice and closes one of its descriptors, or fails in the second call, has lost
the lock. `OnlyOne` and `PidfileNames` are about processes that have not done
this (`lapsed`), and so say that there is no other way for a second daemon to run
or for the file to name another one; without that condition both fail.

Four runs show a disagreement between the code and its documentation, or a defect:

| run | what it shows |
|---|---|
| `TfIo_wrong_file` | After a `tf_cmd_get` that failed because its answer was late, the next get of another file is given the first file's data. `tf_io.h` requires no cancel after a failed `tf_cmd_get`. |
| `TfIo_cancel_mid_get` | `tf_cmd_cancel` "cancels any outstanding request (e.g. put or get)", but not `tf->pending`. |
| `TfOpen_stray_hup` | The SIGHUP goes to whomever the file names when it is read: a former holder, another program with its pid, or the caller. |
| `Usb_multiple_of_64` | A packet of 64k - 1 bytes is padded to 64k, which the padding is there to prevent. |

Others seen while modelling, without a run:

* Command layer. Without a bus reset, `tf_init` takes a SUCCESS that was left in
  the pipe for the answer to its cancel, and returns 0 before the device is in "a
  known, good state" (`tf_io.c:372`). `tf_cmd_get_cancel` sends reason -1 where
  `tf_io.h:283-285` asks for 1 (`tf_io.c:855`). Several functions return an error
  that they do not store in `tf->error` (`tf_io.c:423`; `tf_io.h:114`). A listing
  that returned an error may still be open in the device (`tf_io.c:540`;
  `tf_io.h:201`). `tf_io.h:186` names `TF_ERR_NOFILES`, which does not exist.
* Directory entries. `tf_cmd_put` writes the size of the file in the order of the
  host (`tf_io.c:609`), `unpack_dirent` reads it in network order (509), and reads
  the upper half of the 32-bit attribute (511). What follows the name of a new
  file in its entry is not initialised.
* `tf_stat` returns 1, "not found", on errors too, where `tf_util.h:35` promises a
  negative number; it does not cancel after an error and does not look at the
  result of the cancel.
* Paths and order. `tf_makename` keeps empty components ("//"), and frees its
  static buffer before it reads `dir`, which may be that buffer (`tf_util.c:101`).
  Stamps that are more than 2^31 seconds apart are compared the wrong way
  (`tf_util.c:208`). `tf_util.h:52-65` does not say in which direction sizes and
  times are sorted; `Follows` of `DirOrder` has it from the code, the largest and
  latest first.
* USB. A packet that fills its last piece but not the buffer makes the read go on,
  into the next packet or the timeout (`usb_io.c:141`); whether the device ends
  such packets with one of length zero, the code does not say. With libusb on
  Linux 2.6.0 to 2.6.10 `close_usb_dev` resets the device but does not close the
  handle (`usbutil.c:110`). A full packet to the bootloader is padded by a byte
  that is beyond `tf_packet_t` (`tf_fwio.c:148`).
* Locks and firmware. `topfield_open` returns 1, "already locked", when it cannot
  open the lock file (`tf_open.c:126`; `tf_open.h:78`). `daemon_lock_pid` may
  report the pid of a former holder (`daemon.c:180`). A process that takes a
  daemon lock twice loses it with the first release (`daemon.c:56`). Replies of
  the bootloader are believed without their checksum, and compared with the
  length of their data, which does not count header and checksum: nine bytes may
  be missing (`tf_fwio.c:227`), if the device sends too little or an ioctl fails
  in a reply of more than a piece.

### Fairness

* `WF(Library)`, `WF(StatStep)`, `WF(OpenStep(p))`, `WF(Working(p))`: a call in
  progress goes on. USB reads and writes have a timeout, `flock` is called with
  `LOCK_NB` and `fcntl` with `F_SETLK`, sleeps end.
* `WF(Toppy5000)`, `WF(Bootloader)`: the device handles what it is sent. A silent
  device is covered all the same: deafness is a way of handling a request.
* `KeepsGoing`, `CleansUp` and `WF(tf_fw_upload_next)` are promises of the
  application: it continues a transfer and calls the cancel function that
  `tf_io.h` names. They are needed only for `TransferEnds`, `Recovers` and
  `UploadEnds`. `Recovers` relies on the cancel being answered in the end, and
  that on faults being finite.

### Bounds

| bound | where | why |
|---|---|---|
| `Budgets`, `MaxFaults` | `TfIo`, `FwUpload` | faults are finite; see above |
| `Blocks` | `TfIo`, `FwUpload` | a put ends at `Blocks`, for the same state space as a get |
| `MaxUploads` | `FwUpload` | caps retries |
| `toDev = <<>>` in `tf_fw_reboot` | `FwUpload` | reboot is not answered; keeps it from filling the pipe |
| `MaxFds`, `MaxBlock` | `DaemonLock` | descriptors per process, seconds to wait |
| `MaxQueued` | `UsbRead` | packets in the pipe; one more than lockstep has |
| `IntMax` | `DirOrder` | the width of `int`; 3 in the run, free in the proofs |

## 4. What is proved

TLAPS checks these for every value of the constants within the assumptions that
the modules state, and within the hypotheses that are named here.

### The command layer: `TfIoProofs`

`TypeCorrect`: `Spec => []TypeOK`. `TypeOK` is not inductive: that `timeout` is 1
or 2 needs `PutInv` (it is 2 exactly while a put waits for its answer), that
`attempt` stays within its loop needs `AttemptInv`, which ties it to `pc`.
`PendingIsOwned`: `PendingOwned` for applications that do not end a get with
`tf_cmd_cancel`; the inductive `PendingInv` says where in `tf_cmd_get_next` and
`tf_cmd_get_cancel` the flag may be set.

The other theorems of `TfIoProofs` are about any files, blocks, reasons, damaged
packets and deaths of the process, any refusals and any deafness of the device,
under the hypothesis `Mild`: the bus is reset when the device is opened, the
application ends gets with `tf_cmd_get_cancel`, no answer is late, no write
fails, and at most two packets are lost.

| theorem | property |
|---|---|
| `RequestAndAnswer`, `ResponseReceived` | `Lockstep`, `Synchronous` |
| `InitIsGood` | `KnownGoodState` |
| `PutIsStored` | `PutStored` |
| `GetIsOfTheFile`, `CancelEnds` | `RightFile`, `CancelEndsRequest`, which two runs refute outside `Mild` |
| `DeviceIsFree` | `DeviceFree`, for an application that is `Careful` |
| `TransferImplemented` | `ImplementsTransfer`: initial states map to initial states, every step to a step or a stutter |

The inductive invariant is `SessionInv`. Its heart is `Conversation`: of all that
is in both pipes at most one packet is, or will become, an answer, there is one
only while a function waits for it (`Awaits`), and it is the answer to the
request that was last sent (`Asked`, `NextPart`); everything else on the way to
the device is `Silent`, a FAIL, or the SUCCESS of a `tf_init` that the device
will not take for a request. `Stage` ties the progress of the device (`dPos`,
`dRecv`) to what the application has (`got`, `sent`) at each `pc`; `InitStage` is
how far `tf_init` has cleared the device; `Acknowledged` that a put which was
answered is stored. `DeviceIsFree` adds `Free`, `TransferImplemented` adds
`GotInOrder` and `ClosedInv`.

Each part of `Mild` is needed. `TfIo_wrong_file` has a late answer,
`TfIo_cancel_mid_get` a cancel in the middle of a get; without the reset of the
bus, what a dead process left in the pipe is read by the next. And two is the
most that may be lost: `tf_init` may lose its CANCEL, its CANCEL and its FAIL, and
then its SUCCESS asks for the next page of a listing that a dead process left
open (27 states; TLC finds it when the run's budget has `lost` = 3). `SessionInv`
was checked by TLC before it was proved, with two files, two lost packets, a
damaged one and a crash, for up to two blocks, careful and not (up to 1.3 million
states).

### `tf_stat`: `TfStatProofs`

`FoundIsFound`, `MissingIsMissing` and `StatIsGone` are the three invariants of
`TfStat_session`, under `Mild` and for any directories, pages and places.
`StatInv` says what `tf_stat` knows of the pages it has seen (`Searching`) and
that it still holds when it returns (`HasFound`, `HasMissed`); that the page that
came is the one that was asked for is `SessionInv`, which the steps of the
session around `tf_stat` keep.

### Firmware: `FwUploadProofs`

`TypeCorrect`, `NoFailureByItself` (`FailsForAReason`) without a hypothesis, and
`FinishedIsComplete` (`Uploaded`) for `MaxUploads <= SeqMod`: no number comes round
again while a packet with it may be under way. Outside of that TLC finds an
incomplete upload (two blocks, two numbers, four uploads). For
`FailsForAReason` the inductive `CleanInv` lists the few states of the pipes that
there are before the first fault. For `Uploaded`, `UploadInv` says how old the
number of each request and each block on its way is: they lie in the pipes in the
order in which they were asked for, and none is older than there are uploads
(`InOrder`). So two of them never have one number, and a block under the number
of the last request is the block that the last request named (`Right`); an
upload leaves one request behind at most.

### Locks: `TfOpenProofs`, `DaemonLockProofs`

`ExclusiveAccess`, `LockIsFreed`, `HolderNamed`, `AtMostOneHup`, all from `IInv`: who
holds the lock is exactly who is between `flock` and `close(lock_fd)`
(`HoldersOwn`, `OwnerHolds`); USB handles exist only in between (`UsbIsOpen`); and
the parameter `lock` is still `TF_LOCK_HUP` only as long as no SIGHUP was sent
(`HupPending`).

`RunsOnce` (`OnlyOne`) and `DaemonIsNamed` (`PidfileNames`) of the pid file, for any
processes, any failures, and any number of descriptors in a process. `LockHeld`
says when the record lock is held: while the file is written, and as long as a
process has descriptors and has not lapsed. `FailureReleases` (`NothingLeft`) and
`WaitIsBounded` rest on `CallInv` alone, which does not say that it is held.

### USB: `UsbProofs`

`BytesInSequence`, `SendTellsTruth`, `FirmwareSizes`, for all lengths, all limits
of the kernel and all short writes, from `SendInv`, which says how far both loops
are (`FwProgress`, `IoProgress`). `FirmwareSizes` rests on the lemmas that padding
makes a liked length and that cutting off pieces of 0x4000 keeps it liked.

`OnePacket` and `WholeReplies`, for all lengths, buffers, even sizes of pieces and
whatever else is in the pipe. The inductive `ReadInv` says that all packets behind
the first are untouched (`QueueOK`), and that in the middle of a read that began
at a packet either nothing was taken or the rest of that packet is the first in
the pipe and what was taken are full pieces (`IoctlOK`). That a packet that is not
a multiple of the piece ends in a short piece is the lemma `FullPieces`.
`WholeReplies` adds what a cut reply may be: full pieces (`CheckOK`), so an even
number of bytes (`PiecesEven`) and at least one piece (`PartIsPieces`); neither is
the length of a reply of `tf_io.c` less its padding, and a reply of `tf_fwio.c` of
at most a piece is not cut at all.

`SearchIsRight`: both searches find the device with the index that was asked for,
or none if there are not so many, on any number of busses with any number of
devices. From device to device and from bus to bus, what was counted is the
number of Topfields so far (`IsRight` of `UpToDevice` and `UpToBus`), which the
two loops of each search keep.

`OpensOrNothing` is `HandleOrNothing` for any topology, index and kernel, in both
builds and wherever a step fails. It needs `DescriptorInv`, which says at which
step which descriptor is open, and `FoundInv`, that what is opened is still what
`SearchIsRight` says was found.

### Pure functions: `ConversionProofs`

`CalendarOfDays`: `DayByDay` for every day of the calendar that the formulas are
for (every fourth year is a leap year, as is true until 2099; 16 bits reach to
2038), from the ranges in which the three divisions are (`FormulaRange`);
`DaysAreKept` is `DatesAreDays` of the run.

`DirectoriesAreSorted`: `Sorts` for directories of any length and every width of
`int`, and `OrdersAreKept`, which is `SortOrder` of the run. It says that
`tf_sort_dirents` can succeed (there is an order for `qsort` to find) and that
an order of neighbours is one of all. Both rest on `ComparesByOrder` and
`ComparisonIsOrder`: entries whose stamps are near compare as documented,
antisymmetrically and transitively; without nearness it is false.

`NamesAreResolved`: `tf_makename` gives the canonical name of the place to which the
directory and the file name lead, for paths of any length without empty
components. After each component, what is in the buffer is the name of the
directory that the path has led to so far, with a slash behind it where the code
leaves one; a `..` that goes back to the last slash in the buffer is a step up.
`NamesAreKept` is `ChdirResolves` of the run, that a relative change of directory
leads where the path says.

`MessagesAreUnderstood`: `ReadsBack` for every message of `PacketCodec`: what the
library sends and the device should see, and what the device sends and the
library should return. Names are of any bytes but zero and of up to 29999 of
them, data of up to `MAX_PUT_SIZE` bytes, pages of up to the 574 entries that a
packet has room for, numbers whatever their two, four or eight bytes can say;
names in entries are of any length, since `tf_cmd_put` cuts them. Entries have
any date and clock but all ones, which mean that there is no date. The argument
has three layers. `put` and `get` undo each other (`PutGet`, for any number of
bytes), and so do two swaps (`Swapped`, `Places`). What `tf_req_done` seals is
what `tf_get_response` returns, whatever the parity, and at a multiple of 64 also
whatever the two bytes are that pad it (`SealIsSound`, `WireOf`, `Arrives`). And what
is put into a request stays at its place while more is put behind it (`Stands`,
with the lemmas named after it), so that each kind of message has only to say
what stands where; for pages, `PageTrace` and `EntriesStand` say it of entry after
entry. The constant SUCCESS packet is the one that would be computed, byte by
byte of the checksum (`CrcOfSuccess`).

`DamageNeverPasses`: `Noticed` and `CutNoticed` for all of these messages, any place
behind the length, any bits of the byte there, and up to eight bytes that were
not read. It says of the table of `crc16.c` what a test cannot: that the upper
byte of an entry determines the index (`UpperByteTells`). So two checksums that
differ still differ after the same byte (`StepTells`), and data that differ in one
byte differ in their checksums, however long they are (`OneByteTells`). An end
that is missing leaves at most one byte to the buffer, since `tf_get_response`
counts what it has read, and that is a change of one byte (`CutIsNoticed`).

`MessagesAreKept` and `DamageIsKeptOut` are `WhatIsSentIsRead` and
`CorruptionNoticed` of the run, whose messages are among these (`ShortAreSent`,
`LongAreSound`).

### Folds: `FoldProofs`

The induction theorems of the library take an operator, which no installed prover
can instantiate. What is said here of data of any size is said with a least
counterexample instead (`LeastOf`, from `WFMin`; `UpTo`). `FoldExists` shows that the
recursive function behind `FoldLeft` exists, for a step that is given as a
function, and `FoldGoes` that it takes the elements one after the other. Each
fold of the models has a lemma of its own that gives its step as a function,
again because operators cannot be passed.

### Only model-checked

Liveness (`CallReturns`, `TransferEnds`, `Recovers`, `OpenReturns`, `StatReturns`,
`UploadEnds` and the like) is out of the prover's reach. `TfIo` outside of `Mild`
is checked by `TfIo_any_fault` alone. Every safety property of a passing run is a
theorem, those of `TfIo`, `TfStat` and `FwUpload` under the hypotheses named above. The runs that expect a violation have no theorem, but those that say when the
property does hold: `GetIsOfTheFile`, `CancelEnds`.

## 5. What is not modelled

`tf->nocrc`, tracing, the length of sleeps, memory that cannot be allocated, the
static buffer of `tf_makename`, the time zone (`mktime` and `localtime`), and
`get_u24`, which nothing calls. In `TfIo` the content of packets is reduced to
command, path, block number and reason; the device is assumed to give the reasons
1 to 7 (a FAIL with reason 0 would be returned as success, `tf_io.c:355`) and, in
`PacketCodec`, lengths of at least 4 and names that end with a zero.
`CorruptionNoticed` leaves out noise in the two bytes of the length, which the
checksum does not cover. The tests and build files have no behaviour of their own.

## 6. Plan

Done: every component above, and the theorems of section 4, by which every safety
property of a passing run is proved.

What would come next, in this order:

1. `ImplementsTransfer` and `PutStored` with one late answer, where `Conversation` has
   to allow for an answer to an earlier request, of a kind that is not awaited.
2. The session without the reset of the bus (libusb), which needs an invariant on
   what a dead process may leave in the pipes.
3. Damage of several bytes, and of the length field with them; `CorruptionNoticed`
   is about single bytes.
