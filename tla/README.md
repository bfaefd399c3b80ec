# A verification project for metee

`metee` is a user-space library for talking to the firmware clients of the
Intel CSE/ME (the "TEE" device).  A caller initializes a `TEEHANDLE`, connects
it to one client, exchanges messages with it and disconnects.  There are three
back ends behind the same `include/metee.h`: Linux, on the kernel's mei driver;
Windows, on a driver with overlapped I/O; and UEFI, which has no driver below it
and speaks the HECI bus protocol itself.

The modules here model the back ends as state machines, check them with TLC on
small instances, and prove the main results about the Linux back end, the Windows
back end, the C++ wrapper, the HECI bus messages and the HECI core with TLAPS for all
values of the constants.

## 1. Inventory

| Component | State it keeps | Operations | Interacts with | What is hard | What makes it correct |
|---|---|---|---|---|---|
| Session API, `include/metee.h` | phase of a session, status of the last call | `TeeInit*`, `TeeConnect`, `TeeRead`, `TeeWrite`, `TeeCancelIO`, `TeeDisconnect` | implemented by each back end | the three back ends must agree | a transfer succeeds only when connected; `TEE_DISCONNECTED` leaves a session that can be connected again |
| Linux back end, `src/linux/metee_linux.c` | `struct metee_linux_intl`, cancel pipe, `maxMsgLen`, `protcolVer` | all of the API | libmei by calls, a second thread by the cancel pipe and by freed memory | `TeeCancelIO` and `TeeDisconnect` against a blocked call | no use after free, no descriptor leak, blocked calls end |
| libmei, `src/linux/mei.c` | `struct mei`: descriptor and its owner, `state`, `prot_ver`, `buf_size`, `last_err` | `mei_init*`, `mei_connect`, `mei_recv_msg`, `mei_send_msg`, `mei_deinit` | mei driver by `open`, `ioctl`, `read`, `write` | the errno decides the next state; reconnection after an update | state and status agree; no protocol downgrade |
| UEFI back end, `src/uefi/metee_efi.c` | `State` of each handle | all of the API but cancel | HECI bus messages by calls | two flags for "connected" in two files | the flags agree |
| HECI bus messages, `src/uefi/heci_efi.c` | `gHeciDeviceLibrary`: generation, host client ids, clients; a connection per handle | enumerate, connect, send, receive, uninitialize | handles share one library and one pair of buffers; firmware by messages | replies matched by order alone; stale generations; failures halfway | distinct host client ids; every call reads what it caused; no orphan connections |
| HECI core, `src/uefi/heci_core.c` | the registers and the circular buffers of the device | `HeciSend`, `HeciReceive`, `ResetHeciInterface` | firmware by registers | 8-bit pointers, packets, firmware resets between two accesses | a message arrives whole or not at all |
| PCI access, `src/uefi/pci_utils.c` | none | reads of configuration space | | | |
| Windows back end, `src/Windows/` | `struct METEE_WIN_IMPL`: device handle, three `OVERLAPPED`, state | all of the API | driver by overlapped requests | requests that time out stay pending; reopening; free while a thread waits | each request is over before its memory is used again |
| C++ wrapper, `include/meteepp.h` | one `TEEHANDLE` per object | the API as methods, move | back end by calls | ownership under move | each handle is disconnected once |
| C# binding, samples, tests, build files | | | | | |

The FW status and TRC reads and the driver version (on Linux also the kind) are one
call, `query`, of the session: on Linux it changes nothing, on Windows it may end
the connection.  Logging (`include/helpers.h`) is left out throughout.

### The hazards

`PROJECT.json` lists each at its line.  In short: another thread frees the
session under a read; a cancel outlives what it was meant to cancel; `pipe()` or
`strdup()` fails after the device was opened; a client comes back updated; errno
tables disagree; a call waits for ever (Linux).  A
handle of an old generation frees or uses an id that is now another's; replies
carry no handle; flow control is read too often or not often enough; the
enumeration is cut short; a connection fails after the firmware accepted it; ids
run out; a packet crosses a firmware reset, a pointer that wraps, a time-out, or the
end of the caller's buffer (UEFI).  A request outlives the call that made it; the
device cannot be reopened halfway through a connect; a status query ends a
connection; a cancel waits for events nobody used (Windows).  An object is assigned
to while it has a session; a buffer is sized from a stale length (C++).

## 2. Plan

The order follows what the code does that tests cannot reach.

1. `TeeSession`: the contract.  *Done.*
2. `MeteeLinux` (with libmei), `MCMeteeLinux`, `MeteeLinuxProofs`: two threads on
   one handle, shown to implement `TeeSession`.  *Done.*
3. `HeciBus`, `MCHeciBus`, `HeciBusProofs`, `HeciLockstepProofs`: the UEFI bus
   protocol with several handles.  *Done.*
4. `HeciCore`, `MCHeciCore`, `HeciCoreProofs`, `HeciStreamProofs`: slot arithmetic,
   packets, the reset handshake; a message is received whole, or the call ends with
   `EFI_ABORTED`.  `HeciChannel`, `HeciHistory`, `HeciHistoryProofs`:
   each direction of it implements a channel.  *Done.*
5. `MeteeWin`, `MCMeteeWin`, `MeteeWinProofs`: overlapped requests, time-outs,
   reopening, cancel and disconnect, shown to implement `TeeSession`.  *Done.*
6. `MeteeCpp`, `MCMeteeCpp`, `MeteeCppProofs`: moved and moved-from objects over
   sessions.  *Done.*
7. The table of four devices in `GetHeciLibrary`: one device is modelled.  *Open.*

Every safety property of the passing runs has a theorem.

## 3. The modules

### TeeSession

The contract of `metee.h` for one handle: `phase` (closed, open, connected) and
`ret`, the last call that returned with its status.  It knows nothing of threads
or messages.  Both `MeteeLinux` and `MeteeWin` implement it, with their phase read
off the same two facts: is there a session, and what is its `state`.  What it
forbids: a transfer that succeeds without a connection; a
transfer that says `TEE_DISCONNECTED` on a session that stays connected, which
the caller could not leave other than by closing it; a failed `TeeInit` that
leaves a session.

### MeteeLinux

| Variable | Code |
|---|---|
| `intl` | `handle->handle` points to a live `struct metee_linux_intl` |
| `hdl` | `maxMsgLen` and `protcolVer` of the `TEEHANDLE` |
| `me` | `struct mei`: `state`, `fd` (whose descriptor), `close_on_exit`, `prot_ver`, `buf_size` |
| `fds` | the open descriptors: the caller's, the device, the two ends of the pipe |
| `pipe` | marks in the cancel pipe; nothing reads them |
| `io` | the I/O thread: idle, in `poll()`, past `poll()`; the last result |
| `ctl` | the control thread: in `TeeCancelIO` or at a step of `TeeDisconnect` |
| `driver` | the mei driver's side: link, queued messages, a full write buffer, the version and length it reported |
| `fault` | freed memory was used; the model stops there |

A call that cannot wait is one action.  `TeeRead` and `TeeWrite` are three steps
(checks, `poll()`, transfer) because the other thread may act between them;
`TeeDisconnect` is four (entry, pipe write, `mei_deinit`, free) for the same
reason.  `last_err` is the argument `e` of the two errno tables.  Two usages:
*serial*, where `TeeDisconnect` comes only between calls, and *exception*, where
it may also come while a read is blocked, as the Thread safety section of the
repository's README allows.  `TeeCancelIO` may come at any time in both: that is
what it is for.

The driver is external: it may queue a message, drain its buffer, or lose the
link; it answers each call with success or with any errno the code tells apart,
except `ECANCELED`, which is taken to come from the cancel pipe only.  The queries
open, read and close a file of sysfs; they touch `last_err` only, which nothing
reads before it is set again.

### MeteeWin

| Variable | Code |
|---|---|
| `impl` | `handle->handle` points to a live `struct METEE_WIN_IMPL` |
| `hdl` | `maxMsgLen` and `protcolVer` of the `TEEHANDLE`, as one report |
| `win` | `state`, `handle` (whose, or lost) and `close_on_exit` of the struct |
| `evt` | the three `OVERLAPPED`: unused, pending, asked to cancel, or over with an outcome |
| `files` | the open device handles: the caller's own and the library's |
| `used` | the file objects on which a client was connected |
| `report` | what the client of the last connection reported |
| `io`, `ctl` | the thread that makes calls and the one that cancels and disconnects |
| `fault` | freed memory was used; the model stops there |

A call is split where it waits: in `GetOverlappedResult` of `SendIOCTL` (no
time-out) or in `WaitForSingleObject` of `EndOverlapped`.  A request that
`ReadFile`, `WriteFile` or `DeviceIoControl` refuses at once is one that is over at
once with that error.  `TeeDisconnect` has three steps: `CancelIoEx`, the wait for
the events, and the rest.  `TransferTimesOut` and `TransferWaitFails` return and
leave the request pending; that is the hazard the module is about.

Assumed of Windows and of the driver, which are external: `CloseHandle` on the last
handle of a file object ends its requests; the driver refuses a second connection on
a file object, which is what the comment at `metee_win.c:300` says; and it ends a
request it is asked to cancel, within `CANCEL_TIMEOUT` if `PromptCancel`.  It owes no
other answer and may complete any request at any time.  Usage is *serial* or
*exception*, as on Linux.

### MeteeCpp

| Variable | Code |
|---|---|
| `handle` | the `_handle` of each object that lives: the pointer and `maxMsgLen` |
| `session` | each session the C library may give out: its phase and the length its client reported |
| `ret` | the last member that returned or threw |

The C library is known by what `TeeSession` says, and by two facts of all back ends
the wrapper is built for: `TeeDisconnect` does nothing without a session, and
`TeeConnect` copies the length of the client into the `TEEHANDLE`.  Memory is given
out again after it was freed, so that a pointer kept too long is caught.  A member
that throws leaves the object as it is; the caller may go on with it.  Self-move is
allowed, because nothing in the code prevents it: it ends the session.

### HeciBus

| Variable | Code |
|---|---|
| `lib` | `gHeciDeviceLibrary[].State` of one device: `IsValid`, `ResetGeneration`, the `HostClientIds` in use, the valid `Clients` |
| `handle` | `struct METEE_EFI_IMPL` of each handle: `State`, `connected`, `ResetGeneration`, `HostClientId`, and whether `properties` are filled |
| `call` | the call in progress, where it is, the id it chose, the clients it still has to ask about |
| `ret` | result of the last call, while none is in progress |
| `ring` | the two circular buffers, as queues of messages |
| `conns` | the connections the firmware holds |
| `owed` | in lockstep use, the handle whose answer has not been read |
| `present` | the PCI device is there |

UEFI runs one call at a time; a call is split where it sends or reads a message,
so that the firmware can act in between.  `HeciSend`, `HeciReceive` and
`ResetHeciInterface` are outcomes: done, `EFI_ABORTED` (which `heciSendMsg` and
`heciReadMsg` turn into an invalid library and an unconnected handle, and report
as `EFI_MEDIA_CHANGED`), or `EFI_DEVICE_ERROR`.  The retries after `EFI_TIMEOUT`
in `HeciDeviceEnumerateClients` and `EfiTeeHeciReceiveMessage` are absent
because `HeciReceive` never returns it: line 524 of `heci_core.c` makes it
`EFI_ABORTED`.

The firmware is external: it answers requests in order, may refuse a client or a
connection, may reset silently, may send flow control before or after data on
HECI1, and, with `OddReplies`, may answer with a message of another kind.

How callers share the device is a constant: *any*; *quiesced*, where a connect
that resets the link is made only when no other handle has a host client id; and
*lockstep*, where in addition each answer is read before the next call.

### HeciCore

| Variable | Code |
|---|---|
| `tx`, `rx` | the two circular buffers: slots, write pointer, read pointer |
| `hcsr`, `mecsr` | the Ready and Reset bits of `H_CSR` and `ME_CSR_HA` |
| `call` | the locals of the function in progress: bytes left, words still to copy, `TotalLength`, `PacketBuffer`, what was copied where |
| `ret` | the result of the last call |
| `valid` | `lib->State.IsValid` as far as aborted calls and resets decide it |
| `fw` | the message the firmware takes in and the one it puts out |
| `sent`, `put`, `done` | the messages of the host, of the firmware, and those the firmware got |

The firmware works at the same time, so each wait and each access by which the host
learns or takes something is an action.  In `HeciReceive` these are the Ready bit, the
count that ends the first wait (`HeaderThere`), the read of the header (`ReadHeader`),
the count that ends the second wait (`PacketThere`), the end of the stall after which
that count is used (`StallEnds`), each word, and the Ready bit at the end
(`PacketRead`): a count may be out of date when the slots are read.  Accesses to two
registers share an action in two places.  `WriteHeader` tests the room and writes the
header: the room of a valid buffer only grows until the host writes, and a firmware
reset between the two is the same to the host as one before, its buffer being empty and
its link down in both.  `ResetFinished` sees the firmware's Ready bit and sets the
host's: a firmware that resets between the two leaves what it leaves when it resets
right after.  A time-out is an action that may happen as long as its wait is not over;
where the code looks at the timer before the register (`HeciPacketRead` line 351, both
waits of `ResetHeciInterface`), it may happen even then.  A slot holds a header, or a
word known by its message and place; a slot that is no header may be taken for any
header.  Every address, interrupt bit and GUID is left out; nothing waits for an
interrupt.

The hardware and the firmware are external.  The host's reset clears its Ready bit,
the firmware's, and both buffers (the code says so at line 482); a firmware that
resets itself keeps its Reset bit, which `IsMeReady` looks at first, until the host
has reset too.  Nothing is assumed of the time a firmware reset takes: it may begin and end,
Ready bit up again, between any two accesses.  After the last packet `HeciReceive` looks
at the Ready bit only (line 391), so a reset that is over by then stays unseen and the
call may succeed with junk.  `ReadyAgain` names this state, and it is the one case that
`ReceivedWhole` leaves out; the next call finds the firmware's Reset bit.  Two things
are assumed of the device: packets of a full buffer have a length of 9 bits
(`HeaderAssumption`), and pointers wrap at a multiple of the depth.

Callers: after an aborted call the next `TeeConnect` resets the interface, and
`TeeWrite` and `TeeDisconnect` send nothing before.  `TeeRead` of another handle is
not held back; `OneHandle` says whether there is one.

### HeciChannel and HeciHistory

`HeciChannel` is what one direction of `HeciCore` promises, for a caller who sees
neither slots nor packets: how many messages were `given`, how many of them the reader
has behind it (`passed`), what it got (`taken`), and whether the link is `up`.  `Take`
hands over the next message, `Break` leaves the link out of order, and `Mend` puts it in
order again and loses whatever was given before.  It forbids a message out of turn, one
made of the words of two, one handed over twice, and one lost on a link that is in order.
`GarblingChannel` adds `Garble`: while the link is out of order the reader may also get
something that is no message, which takes none from those on their way.

`HeciHistory` adds to `HeciCore` what the mapping needs and the state does not show:
`received`, for each receive that succeeded the messages its words came from; and
`fwPassed` and `hostPassed`, how far each reader has come.  They only
remember (`HistoryIsCore`), so the runs of `HeciCore` are made with them.  The two
directions are then

| `HeciChannel` | to the firmware (`HostChannel`) | to the host (`FwChannel`) |
|---|---|---|
| `given` | `Len(sent)` | `Len(put)` |
| `passed` | `fwPassed` | `hostPassed` |
| `taken` | the sources of the words in `done` | `received` |
| `up` | `valid` | `InOrder`: `valid`, and the firmware's Reset bit is down |
| | `Channel` | `GarblingChannel` |

`Break` is a call that ends with `EFI_ABORTED`, or a reset that times out on a link that
was in order; `Mend` is `ResetHeciInterface` that succeeds.  To the firmware, a reset that
the firmware begins by itself is no step of the channel: it loses messages, but takes no
other before a call has found out and the host has reset as well, and this is what makes
the property worth stating.  To the host such a reset is a `Break` too, and one receive at
most, which was in progress, can succeed before the host knows: a `Garble`.

### The MC modules

`MCMeteeLinux`, `MCMeteeWin`, `MCMeteeCpp`, `MCHeciBus` and `MCHeciCore` give the
constants finite values and, for `MeteeCpp`, the symmetry of objects and sessions (no
definition names one, and only invariants are checked under it).

## 4. The runs

| Run | Shows | Bounds |
|---|---|---|
| `LinuxSerial` | in serial use: no use after free, descriptors accounted for, the handle mirrors the connection, no protocol downgrade, implements `TeeSession` | versions {1,2}, lengths {4,8}, pipe of 2, 1 queued message |
| `LinuxException` | with the documented exception: blocked calls end, `TeeDisconnect` ends a read | 1 version, 1 length, pipe of 2, 2 queued messages |
| `LinuxDisconnectRace` | **violated**: the exception lets the reader use freed memory | as above |
| `LinuxStaleCancel` | **violated**: a cancel stops transfers that start after it | as above |
| `HeciLockstep` | distinct ids, no id taken without a handle, drained buffers, no orphan connections, a connect that succeeds did connect, reads return the handle's own data, nothing is written on a broken link, every call returns, whatever fails | 2 handles, 1 dynamic and 1 fixed client, 2 ids, 2 resets, HECI1 |
| `HeciAny` | after a reset an old handle writes nothing, in any use; every call returns, also with odd replies | 2 handles, 1 fixed client, 2 resets, odd replies, another device |
| `HeciStaleId` | **violated**: a stale handle's disconnect frees another handle's id | 2 handles, any use |
| `HeciConnectReply` | **violated**: a connect that reads another's answer returns success unconnected | 2 handles, quiesced |
| `HeciPackets` | messages arrive whole in both directions; each direction implements `HeciChannel`: in order, unmixed, and nothing passed over but by the reset that mends a broken link, save what a receive returns that did not see a reset of the firmware; no overflow, a reset leaves nothing, a sent message arrives | depth 3, pointers wrap at 6, host messages of 8 and 11 bytes, firmware messages of 11, buffers of 6 and 12, 2 messages each, 1 firmware reset |
| `HeciTornMessage` | **violated**: another handle takes the rest of an aborted message for a message | as above, no firmware reset, another handle reads after an abort |
| `WinSessions` | requests given up end before their memory goes or another connection begins; device handles accounted for; calls and `TeeDisconnect` end; implements `TeeSession` | 1 session at a time, 3 requests, 2 reports, *exception* use, prompt cancel |
| `CppObjects` | each session owned once, `read()` offers enough room | 3 objects, 3 sessions, 2 lengths |

Why the bounds suffice.  Two versions and two lengths make every reconnection that is
older, equal or newer; a third adds no case because the code only compares two at a
time.  A pipe of two has room, is almost full, and is full.  `Usage` of each run selects
which callers are meant, not which code runs.  Two handles are the fewest that can
confuse each other; two ids make the search for a free id find the first, the second,
and with a stale id none; two resets make old handles of two generations.  A buffer of
two messages holds what one request can produce.  With three slots a packet of the host
has up to two words, so that a wait, a read or a reset fits between them; 8 bytes fill
one packet exactly, 11 need two and end in a part of a word, and the firmware cuts its
11 in every way it may; one buffer is too small by a word and a half, one has room to
spare; two messages make the pointers wrap and let one follow on another's remains.  Two
reports tell a copied one from a stale one; the rest of `MeteeWin` is finite by itself.
Three objects let a session pass through a moved-from object to a third while the first
gets another, and three sessions give each its own.  `HeciAny` has fixed clients only,
because two undisciplined handles with host client ids take TLC past any useful time;
`HeciLockstep` has both kinds.  The `Heci*` runs and `CppObjects` check deadlock: with a
device present something can always happen, and when it has gone every call still
returns.  The Linux runs and `WinSessions` do not, because the program really may stop:
at a fault, in a read that waits for ever, or in a `TeeDisconnect` that waits for room
in a cancel pipe full of old marks (Linux only).

### Fairness

`MeteeLinux`: weak fairness on the steps of a thread inside a call, nothing on
the caller or the driver, and none on a failing `poll()`: an `EINTR` would end
every wait, and nobody promises one.  A thread that is in a library call and can run is
scheduled by the kernel; `poll()` returns when a descriptor is ready or the
timeout is over.  A read without a timeout and without a message may wait for
ever, and the liveness properties do not say otherwise: they speak of a cancel, a
timeout or a lost link.

`MeteeWin`: weak fairness on the steps of both threads inside a call, for the same
reason and again not on a failing wait, and on the driver ending what it was asked to
cancel.  It owes no other answer.

`HeciBus`: weak fairness on the steps of a call.  Every wait of `heci_core.c`
counts down a timeout, so a send or a read ends with success or `EFI_ABORTED`.
Nothing is assumed of the firmware.

`HeciCore`: weak fairness on the steps of a call, for the same reason, and on the
firmware's reading of the host's buffer while the link is up.  The latter is an
assumption about the firmware, without which no sent message need arrive; the
firmware need not answer, nor finish a reset.

## 5. What the violated runs say

* **A disconnect races the read it interrupts** (`metee_linux.c:513`).
  `TeeDisconnect` writes to the pipe, then deinitializes and frees; it does not
  wait for the reader, which may have left `poll()` for another reason.
* **A cancel is for ever** (`metee_linux.c:492`).  Nothing drains the pipe.
* **A stale disconnect releases a live id** (`heci_efi.c:292`).  Disconnecting a
  handle after a link reset clears an entry of the new generation's table.
* **A connect trusts the order of replies** (`heci_efi.c:704`).  A reply of
  another kind ends it with the `EFI_SUCCESS` of the read.
* **An aborted read leaves its message behind** (`heci_core.c:524`).  The comment
  at line 515 asks for a reset; it comes with the next `TeeConnect`, and until then
  a `TeeRead` of another handle reads the rest of the message as packets.

Things seen while modelling that no run judges:

* UEFI: `State` is set by `TeeConnect` and never cleared (`metee_efi.c:397`), so a
  client that lost its link gets "already connected" until `TeeDisconnect` and
  `TeeInit`; on Linux and on Windows, by `ImplementsSession`, it may be connected again.
* UEFI: a reset of the firmware that is over, Ready bit up again, before `HeciPacketRead`
  looks at that bit (`heci_core.c:391`) is not seen, although the stall of a millisecond
  at line 355 leaves it time.  The header, or the words counted before the stall, are then
  read from an empty buffer, and the receive may return `EFI_SUCCESS` with junk.  The
  comment at lines 385 to 388 wants such data discarded and says how a reset is known:
  "If the ME_RDY bit is 0, then an ME reset occurred during the transaction".
  `ReceivedWhole` without `ReadyAgain` fails in a short trace of exactly this kind
  (`AsHeader` takes any word for a header, also one of length 0 that ends a message).
  `IsMeReady` would tell, since the firmware's Reset bit is still set; the next call,
  which asks it, does not go on.  `HeciBus` does not know this case: a receive that
  succeeds there has read a message of the firmware, and its lockstep properties hold
  under that condition.
* Linux: once the cancel pipe is full of marks (64 KiB on a usual kernel), the
  `write` of `TeeCancelIO` and of `TeeDisconnect` blocks (`metee_linux.c:497`);
  `DisconnectEndsRead` is stated for a pipe with room.
* Windows: the documented `TeeDisconnect` during a blocked read frees the session
  under the reader, as on Linux (`TransferFaults`); a read that timed out may still
  complete into the caller's buffer afterwards, until the session is connected again or
  disconnected.
* Windows: a `TeeInitHandle` that fails after the parameters were checked closes the
  caller's own device handle (`metee_win.c:216`); `CallerHandleKept` says that nothing
  else does.
* Windows: without a device handle a query returns Win32's 87, which is no `TEESTATUS`
  (`metee_winhelpers.c:391`).
* Windows: a cancel waits for all three events, of which those never used are not set,
  so it usually takes the whole of `CANCEL_TIMEOUT`; it ends all the same
  (`DisconnectReturns`).
* C++: `read()` on an object that was never connected offers an empty buffer and throws
  `TEE_INVALID_PARAMETER`, not `TEE_DISCONNECTED`; a moved-from object keeps its
  `max_msg_len()`.

## 6. What is proved

`MeteeLinuxProofs` holds machine-checked proofs about `MeteeLinux` for every set
of versions and lengths, every capacity of the pipe, every bound on the queue and,
unless said otherwise, both usages.

| Theorem | Statement | Argument |
|---|---|---|
| `TypeCorrect` | `Spec => []TypeOK` | `TypeOK` is inductive; one lemma per group of actions |
| `SerialUseIsSafe` | in serial use, `Spec => []NoUseAfterFree` | `SessionHeldDuringCalls`: a session exists while a call or a control step is in progress |
| `NoDescriptorLeaks` | `Spec => []DescriptorsAccounted` | `DescriptorsOfSession`: exactly which descriptors are open at each point of a session's life |
| `HandleIsCurrent` | `Spec => []HandleMirrorsConnection` | with `DescriptorsOfSession`, which says that a deinitialized session is not connected |
| `NoVersionDowngrade` | `Spec => VersionNeverDowngrades` | step by step from `TypeOK` and `DescriptorsOfSession` |
| `LinuxImplementsSession` | `Spec => ImplementsSession` | initial states map to initial states, each step to a step of `TeeSession` or a stutter |
| `LinuxDisconnectedMayConnect` | `Spec => []Session!DisconnectedMayConnect` | from the refinement: `TeeSession` keeps `DisconnectedMayConnect` |

`DescriptorsAccounted` alone is not inductive: a session without a descriptor
could close one it does not own, or reopen one it has.  `DescriptorsOfSession`
says whose descriptor is open when, and that `me` is cleared exactly between
`mei_deinit()` and the next `TeeInit`.  The assumptions are those of
`MeteeLinux`: versions and lengths are naturals, the pipe and the queue hold at
least one, and the usage is one of the two.

`MeteeWinProofs` holds proofs about `MeteeWin` for every set of reports and both
usages, and, where not said otherwise, whether or not the driver cancels in time.

| Theorem | Statement | Argument |
|---|---|---|
| `TypeCorrect` | `Spec => []TypeOK` | from `Shape` |
| `HandlesAreAccounted` | `Spec => []HandlesAccounted` | with `Shape` |
| `CallersHandleIsKept` | `Spec => CallerHandleKept` | step by step from `Shape` |
| `RequestsAlwaysHaveWaiters` | `Spec => []RequestsHaveWaiters` | from `Requests` |
| `ConnectionsAreFresh` | `Spec => []ConnectsOnFreshFile` | from `Requests` |
| `RequestsAreOverBeforeFree` | `PromptCancel /\ Spec => RequestsOverBeforeFree` | `RequestsWhileDisconnecting` |
| `HandleAlwaysMirrorsReport` | `Spec => []HandleMirrorsReport` | with `Shape` |
| `WinImplementsSession` | `Spec => ImplementsSession` | step by step from `Shape` |
| `WinDisconnectedMayConnect` | `Spec => []Session!DisconnectedMayConnect` | the same |

`Shape` is `TypeOK` with where the two threads may be (`PlacesOfCalls`) and which device
handle a session has (`FileOfSession`).  `RequestsHaveWaiters` is not inductive: a
request that was given up is harmless because the session is FAILED, and it must be
over when the session is CONNECTED again.  `RequestsOfSession` says why it is:
transfers exist only on a file object that had its connection, and a new connection
needs one that had none, which is a new one with the old requests aborted
(`ConnectsOnFreshFile`); or, on the caller's handle, which is not reopened, the driver
refuses it.  `RequestsAreOverBeforeFree` needs `PromptCancel` and nothing of usage:
during `TeeDisconnect` no call begins a request.

`MeteeCppProofs` holds proofs about `MeteeCpp` for any sets of objects and sessions and
every set of positive lengths.

| Theorem | Statement | Argument |
|---|---|---|
| `TypeCorrect` | `Spec => []TypeOK` | from `Inv` |
| `SessionsOwnedOnce` | `Spec => []OwnedOnce` | from `Inv`; every member is stated as who owns what after it |
| `ReadsAreWhole` | `Spec => []ReadsWhole` | from `Inv`, in which `LengthFollows` says that the length moves with the pointer |

`HeciCoreProofs` holds proofs about `HeciCore` for every depth, every pointer width
above it, every set of message lengths and buffer sizes, and both usages.

| Theorem | Statement | Argument |
|---|---|---|
| `PlacesKept` | `Spec => []Inv` | one lemma per action |
| `TypeCorrect` | `Spec => []TypeOK` | from `PlacesKept` |
| `RoomIsEnough` | `Spec => []HostNeverOverflows` | from `PlacesKept` |
| `ResetsTakePlace` | `Spec => []ResetPlace` | with `Inv`; one lemma per group of actions |
| `ResetsAreClean` | `Spec => ResetLeavesNothing` | from `ResetPlace`: only `ResetFinished` can give a reset its success |

`HostNeverOverflows` is not inductive: room is tested once for a whole packet.
`SendPlace` says that the words still to write fit the free slots, which stays true
because nobody else fills that buffer.  `TypeOK` is not either: the place of a word
is a difference, natural only because the words still to come belong to the message
(`SendPlace`, `FwPlace`) or to the packet (`ReceivePlace`).  `PushAddsOne` and
`PopTakesOne` carry the arithmetic of pointers that wrap.

`ResetPlace` says what the handshake is for.  A reset that waits for the firmware has
seen the host's Ready bit go down; as long as it is down the buffers are empty and the
firmware has forgotten its messages, because the firmware's link is down and the host
sends on a valid link only, which has its Ready bit up.  A read on a link that is not
valid may go on (it only takes slots away), and after a reset that timed out, with the
Ready bit still down, that is all another handle can do.

`HeciStreamProofs` proves, from these, what `HeciCore` says of whole messages, for the
same constants.

| Theorem | Statement | Argument |
|---|---|---|
| `HostBufferInOrder` | `Spec => []HostInOrder`: `TxInv(p)` for some `p` | one lemma per action that writes or reads the buffer or resets a side |
| `HostMessagesAreWhole` | `Spec => []FwGetsWhole` | from `TxInv(p)` |
| `FwBufferInOrder` | `OneHandle` implies `Spec => []FwInOrder`: `RxInv(r)` for some `r` | as for the host's buffer |
| `FwMessagesAreWhole` | `OneHandle` implies `Spec => ReceivedWhole` | `RxKept`: from `RxInv(r)`, a receive that succeeds while the firmware's Reset bit is down returns message `r + 1` |

A reader knows a message by nothing but the order of the slots, so the invariant says what
every filled slot holds.  `Content` lists the slots in the order of reading
(`PushContent`, `PopContent`: a write appends one, a read takes the first, wherever the
pointers wrap).  A `Place` is a point in the messages of one side: between two, between
two packets of one, or before a word of a packet; `Leads` says which slot takes a writer
from one place to the next.  `Chain` is then a walk through the messages along the slots
of the buffer, and the invariant is that one exists from where the reader is to where the
writer is: `TxStream` from what the firmware has taken (`FwHas`) to what the host has
written (`HostAt`), `RxStream` from what the host has copied (`HostHas`) to what the
firmware has put out (`FwAt`).  A write makes the walk a step longer (`ChainWritten`), a
read a step shorter (`ChainRead`), and the cleared buffers of a reset begin a new one
(`ChainBegun`).  That a packet is cut in the right places, up to the part of a word at the
end of a message or of the caller's buffer, is arithmetic that the lemmas before each
invariant carry (`PacketOf`, `CopiedAll`, `SpaceShrinks`).

Between a count and its use the invariant says what the count is still worth: at least one
slot is there when the header is read and all words of the packet when they are copied
(`HostHas`), because nobody else reads the buffer.  A reset of the firmware breaks this,
and sets its Reset bit, which only the next host reset clears.

The walk exists only while the firmware is not in reset, and for the receiver only on a
valid link: an aborted receive leaves the rest of its message in the buffer
(`heci_core.c:524`).  The next `TeeConnect` clears it, and until then one handle alone does
not read (`RxPlace`); with a second one the theorem is false, as `HeciTornMessage` shows,
and `OneHandle` says that there is none.

`HeciHistoryProofs` proves that each direction is a channel, for the same constants.

| Theorem | Statement | Argument |
|---|---|---|
| `HostChannelKept` | `HistorySpec => HostChannel` | `HostChannelStep` from `TxInv(fwPassed)` |
| `FwChannelKept` | `OneHandle` implies `HistorySpec => FwChannel` | `FwChannelStep` from `RxInv(hostPassed)` |

`TxInv` and `RxInv` have a parameter, the number of messages that the reader of the buffer
has behind it, and say that the walk through the buffer begins right there.  `TxKept` and
`RxKept` say of every step what becomes of that number: a message that is handed over is
the next one and makes it one larger, a host reset that succeeds makes it the number of
all messages begun, and nothing else changes it.  The history counts the same, so the
refinement is a step by step comparison, in which `MendedIsFinished` says that a link that
was out of order is mended by a reset that succeeds and by nothing else, and `ComesIntoOrder`
the same of `InOrder`; `ReceivedGrows` is for the `Garble` of a receive that did not see a
reset of the firmware.  `HostBufferInOrder`
and `FwBufferInOrder` only hide the number.

`HeciBusProofs` holds proofs about `HeciBus` for any sets of handles, clients and ids,
every bound on resets, both HECI devices, and, where not said otherwise, every usage
and a firmware that may answer with any message.

| Theorem | Statement | Argument |
|---|---|---|
| `TypeCorrect` | `Spec => []TypeOK` | from `Inv` |
| `StaleHandlesWriteNothing` | `Spec => StaleHandleWritesNothing` | from `CallOK` |
| `IdsAreAccounted` | `Spec => []IdsAccounted` | from `Inv /\ IdsGiven` |
| `HostIdsStayDistinct` | `Usage # "any"` implies `Spec => []HostIdsDistinct` | from `Inv /\ IdsKnown` |

`Inv` is `TypeOK` in parts, with what a call in progress has made sure of (`CallOK`):
its place belongs to its operation, its handle still has a struct, a connect past its
search has an id, and a write goes on only on a valid link and a handle of the present
generation, neither of which can change while a call is in progress.  `HostIdsDistinct`
is not inductive, because a disconnect clears an id in the table:  `IdsKnown` says that
the table knows the id of every handle, of whatever generation, but for the one whose
disconnect has just released it; that no two handles have the same id; that the id a
connect has chosen is still free; and that a connect about to reset the link finds no
handle with an id, which is what the assumption is for.  `IdsAccounted` is its converse
and needs no assumption:  `IdsGiven` says that a connect has no id before it succeeds,
that a disconnect has given its id back before it waits, and that the enumeration after
a reset begins with an empty table; so an id chosen for a connect that fails is not
taken.  `HeciStaleId` shows that without the assumption the property fails.

`HeciLockstepProofs` holds proofs under `Lockstep`: usage *lockstep*, and a firmware that
answers a bus message with the reply it asks for or not at all (it may still refuse,
reset or disappear).  Handles, clients, ids and resets are any.

| Theorem | Statement | Argument |
|---|---|---|
| `NothingLeftOver` | `Spec => []RingDrained` | from `InStep` |
| `ConnectionsHaveHandles` | `Spec => []NoOrphanConnections` | from `InStep` |
| `ConnectsAreReal` | `Spec => []ConnectMeansConnected` | inductive with `InStep`: what a connect reads first is a connect response |
| `ReadsReturnOwnData` | `Spec => ReadsOwnMessages` | from `Roles` and `InStep` |

The code tells replies apart by their order alone, so the invariant has to say what the
buffers hold at each place of each call (`Conversation`): nothing, what the call has sent,
or the answer to it, flow control before or after data on HECI1.  `ConnsKnown` says which
connections the firmware holds: those of the handles, and the one that a connect is about
to read the acceptance of.  Both hold only while the link is in order (`InStep`); after a
failure the library is invalid, and the reset of the next connect empties the buffers.
`Roles` says what a call knows of its own handle, and that one handle at most has an
answer to read.  `HeciConnectReply` shows that `ConnectMeansConnected` fails, without
any odd reply, once answers may be left unread: the discipline makes it true.

Only model-checked: the liveness properties (`BlockedCallEnds`,
`DisconnectEndsRead`, `CancelEndsCalls`, `DisconnectReturns`, `CallsEnd`,
`SentMessageArrives`), which need fairness and `ENABLED`.

## 7. What is not modelled

`HeciBus` uses `heci_core.c` through its outcomes, not through `HeciCore`.  A
message longer than the caller's buffer is cut and reported as a success with its
whole length, which `HeciCore` shows but no property judges (the comment at line 428
of `heci_core.c` names `EFI_BUFFER_TOO_SMALL`).  `NON_BLOCKING` reads have no caller.
The table of four devices is a table of one.  The second `TeeDisconnect` on a UEFI
handle (`metee_efi.c:673`, a hazard without a property) is a use the header gives no
meaning to, and the wrapper that might make it is not built for UEFI.  Packets longer
than 9 bits (`heci_core.c:739`) are excluded by `HeaderAssumption`.

The threads of `MeteeWin` and `MeteeLinux` are two, as the README of the repository
allows; `MeteeCpp` has one, and `cancel_io` is absent from it.  `TeeGetKind` on Windows
(a property of the device node, no request) and on UEFI, `TeeGetDeviceHandle`, the
register reads of UEFI and the setters and getters of one field change no session
state.  The vtag and notification calls of libmei are not used by `metee_linux.c`.
PCI register addresses, logging, the C# binding, the samples and the tests are out of
scope; the tests were read for what they say the library promises.  Memory contents,
GUIDs and message payloads are abstracted to what the properties tell apart.
