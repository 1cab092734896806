# TLA+ models of Affine_IO

Affine_IO is a Windows DLL that games load for their input and output. It talks
to arcade controllers over USB HID and over virtual COM ports, keeps what it
learns in named shared-memory pages, and answers the game's exported calls from
those pages. This directory holds models of its concurrent parts, the TLC
configurations that check them and TLAPS proofs about eight of them.

`PROJECT.json` maps each definition to the lines it models and lists the runs,
the faulty variant each property must reject, the findings, the hazards and the
theorems. Faulty variants are written in the modules, before the definition they
vary, and are used by no specification.

## 1. Inventory

### Components

| component | source | state | operations |
|---|---|---|---|
| mai2 input threads | `affine-mai2` | per player: `Mai2InputPage`, three `*_connected` flags, the `SerialSession` | `hid_thread`, `vendor_command_thread`, `touch_hid_thread`, `device_thread`, `serial_reader_thread` |
| mai2 touch delivery | `affine-mai2` | callback pointer, `touch_enabled`, what the game was told | `touch_callback_thread`, `set_touch_callback`, `set_touch_enabled` |
| mai2 poll and coin | `affine-mai2` | `Mai2PollPage` with the coin latch | `poll`, `get_opbtns`, `get_gamebtns` |
| mai2 LED output | `affine-mai2` | `Mai2OutputPage`, `led_start_latch`, last sequence numbers, `led_output_suspended` | the exported LED functions, the writer in `device_thread` and in `vendor_command_thread` |
| mai2 frames | `affine-mai2` | receive buffer, `TouchHidAssembler` | `try_parse_frame`, `pack_legacy_touch_bits` |
| chuni runtime | `affine-chuni` | state page, control page, callback, locals of the device thread | the device thread, `start`, `stop`, `set_leds`, `set_air_leds_from_colors` |
| mercury runtime | `affine-mercury` | the same without air LEDs | the device thread, `start`, `set_leds` |
| aime reader | `affine-aime` | `Reader` (port, sequence number, initialized, card cache) behind a mutex | `init`, `poll`, the card getters, MIFARE, FeliCa and LED commands, `transact` |
| serial port | `affine-core/serial.rs` | handle, overlapped reads and writes | open, read, write, close |
| shared page | `affine-core/shared_memory.rs` | mapping, named mutex | create, read, write, update |
| slider codec | `affine-core/slider.rs` | parser buffer | `send_slider_frame`, `SliderParser::push` |
| exports, utilities, examples | `src/exports`, `affine-core/util.rs`, `examples` | none | C ABI, logging, ini look-up; two stand-alone programs |

### Interaction

* The game calls exported functions, which read and write pages. Device threads
  read and write the same pages from the other side. Nobody else passes data.
* A page update holds the page's named mutex and is atomic. The connection flags
  are SeqCst atomics outside that mutex: a decision made from several loads is
  not atomic with the update that follows.
* Callbacks run on DLL threads: mai2 copies the pointer and calls without a lock,
  chuni and mercury call with the callback mutex held.
* The DLL is loaded into several processes. Only `Sinmai.exe` runs mai2's device
  threads, but each process polls, and the poll page is common to all.

### What is hard about it, and what makes each part correct

| part | hard behaviour | correct when |
|---|---|---|
| input threads | two sources drop at once, each looking at the other's flag; frames applied after the session closed; flags loaded before and used after | nothing stays held on the page once no source is left; a drop spares fields another source provides |
| touch delivery | pointer and touch read before the call; joining the reader | the game learns a lasting touch and a lasting release; the join always ends |
| poll and coin | latch in shared memory, updated from a page read earlier | one press is one credit, each credit is seen once, the latch is re-armed |
| LED output | failed or half-done writes, power loss, touch-staleness suspension | a channel taken for up to date is, and LEDs converge |
| chuni, mercury | write results ignored, LEDs set while older ones are sent, board lost between page update and call | game and page agree, a lost board releases both, a board that stays is started |
| aime | no deadline, no comparison of sequence numbers, messages left behind by a killed process, a failed write or a failed read, messages that come broken | in step, a call takes its own answer and the cache is what was polled; the cache settles; nothing but the line strands a call; failures are recovered from |
| codecs | resynchronisation after noise and loss, false headers, escapes, lengths | a whole frame is found once and as it was sent, whatever came before it |
| serial port | close against a pending read or write, on handle values that are used again | no request outlives its call, no handle is closed twice or leaked, nobody waits for ever |
| shared page | creation race, a process that dies with the mutex | reads and updates are atomic, a waiter gets the mutex |

The lines at which each of these bites are the `hazards` of `PROJECT.json`.

## 2. Modules

### Mai2Input (`affine-mai2`, input side)

`connected` holds the three flags, `pc` the position of each HID thread, `live`
the two booleans a thread computes in `clear_inputs_on_source_drop`, `frame` the
frame a stream thread is about to apply. `session`, `active`, `dpc`, `rpc` and
`left` are `device_thread`, its `SerialSession` and the reader it spawns; `page`
is `Mai2InputPage`. Each load of a flag, each store and each page update is an
action of its own, so every interleaving the atomics allow is explored:

* `ScanFails`, `Connect`, `Announce`, `Drop`, then `LoadHid`,
  `LoadVendorButtons`, `LoadTouchHid`, `LoadVendorTouch`, `Clear` are a HID
  thread; the short-circuit of `||` is kept, so the second load of a pair happens
  only if the first found nothing.
* `HidReport`, `TouchReport`, `VendorReceive`/`VendorApply` are its input; the
  stream threads load `hid_connected` first and drop the frame's buttons if set.
* The device thread's actions are the loop's guards, opening the port, and
  `disconnect_session` step by step: close, join, three loads, keep or reset.

The game may start on a page that an earlier process has left behind, because
another process that loaded the library keeps the mapping alive:
`SharedPage::create` then writes no default and `DeviceHandle::new` resets
nothing. `Init` takes any page, and the history variable `inherited` holds the
fields nobody has written since. The output, poll, state and control pages of the
other modules start in the same way.

Values of buttons and touch are members of small sets. The page's sequence
number, which nothing reads, and the statistics are left out. What the device
thread does inside an iteration appears as its outcome: session kept or dropped.

### Mai2Touch

Extends Mai2Input with the callback thread (`CallbackRound`, `ReadTouch`,
`CopyCallback`, the call) and the two setters, taken by the game at any time.
`seen` is what the game was last told. The callback is assumed to return.

### Mai2Poll

Each process runs frames: read page 1, read page 2, update the poll page, then
`get_opbtns`. The input pages and the keyboard change at any moment. `presses`,
`credits` and `observed` are history variables. `map_buttons` renames bits one
to one and is left out. `MCMai2Poll` gives the input pages and key sets.

### Mai2Led

The game's side is the exported LED functions, including `led_gs_update`, which
moves the start latch under one lock and publishes the payload under another
(`fade`). The link side is one writer, over serial or over vendor HID (`kind`),
which takes a copy of the output page (`snap`) and sends the changed channels in
order; a write may fail, with or without having reached the board. Over serial
the touch-staleness protection is included: frame counter and time stamp are two
stores (`TouchCount`, `TouchStamp`), the suspension is set and cleared from them,
and a stale stream forces a reconnect. Time is ages, which `Tick` advances up to
the code's thresholds.

### SliderLink (`affine-chuni`, `affine-mercury`)

One device thread; `game` says which of the two runtimes a behaviour is about.
Opening, acting on a changed `active` (reset, start scan, start air), sending
changed LEDs, reading up to `MaxPackets` packets, updating the page, calling the
callback with the mutex held, and losing the port are separate steps. The code
ignores the result of every write, so each frame has two outcomes. A set of
LEDs is identified with the sequence number it was given. A port reopened while
the game is not active is sent no stop frame, as in the code.

### AimeReader

Game threads call, take the mutex, and run `transact`: connect if closed, write,
read the next frame, release. A call that waits for the mutex has done nothing
yet, so calling and getting the mutex are one step. `init` sends its commands in
turn; `poll` renews the card cache from an answer; the getters answer from the
cache; all other commands differ only in the bytes they copy and are one
operation. Calls that return before taking the lock (another `unit_no`, short
buffers) and the HRESULTs are left out.

The board answers commands in order and may be unplugged. An answer may come with
a wrong checksum (`ReadGarbled`), too short for its payload (`ReadShort`), or with
a byte lost or a length that cannot be reached, which leaves `read_frame` reading
(`ReadBroken`); a command may come broken, so that the board answers nothing
(`Ignore`). `SerialPort::read` fails on a board that is gone, but also on one that
is there (`ReadFails`; any `ERROR_OPERATION_ABORTED` closes the port), and then the
answer stays on the wire. Opening a port purges nothing, so what was left behind
survives it, and `Init` may find on the wire what a killed process has left there.

`leftBehind` is a history variable: a command that nobody waits for was put or
left on the wire, which has not been clear since. `doubtful` is its value when the
last poll took its answer; `saw` and `truth` are the card the board has seen.

### AtomicPage and SharedPage (`affine-core/shared_memory.rs`)

`AtomicPage` is what the users of a page rely on: one variable, read and updated
in one step. It also says what they may *not* rely on: the creator writes the
default page at a moment of its own, when another process may already have
updated the page, and a process that dies leaves a mixture of old and new words.

`SharedPage` has the mapping word by word (`mem`), the mutex (`owner`) and each
process's position in `create`, `read`, `write`, `update` and `Drop`. Words are
loaded and stored in any order, because the code copies a struct or runs a
closure on it and leaves the order to the compiler. `Crash` is possible at every
position; the kernel hands an abandoned mutex to the next waiter, and the code
ignores the result of the wait. The refinement is `Abstract == INSTANCE
AtomicPage WITH page <- page, state <- state, ret <- ret`, checked as the
property `Refines`; the mapping (`page`, `state`) takes the page from before the
update as long as an update is being stored; the step that returns from the update is the abstract one. `MCSharedPage` gives a page of
two words, an update that depends on the page and one that does not.

All pages of the repository have an all-zero default, equal to a new mapping's
contents: what the late default write can do is erase an early update.

### SerialPort (`affine-core/serial.rs`)

A player's device thread opens, writes and closes the port, its reader thread
reads. The handle is a number that the process's table maps to a COM port; a
closed number may be given to the other player's open. A session is shared by
`Arc`: the reader has one, the device thread one, which it drops before it joins
the reader or, while a clone of it lives on (`CloneStays`), after that
(`CloneRelease`). `port` is the atomic
handle, `dh` and `rh` the copies the two threads have made of it; `io` has the
overlapped requests, which belong to the kernel until it retires them. `close` is
three steps (swap, cancel, close), a write that times out is cancelled and then
drained, and `Drop` runs on whichever thread gives up the last `Arc` of the
session. The actions named external are the kernel's: submitting, retiring,
cancelling, closing.

### The codecs and Frames

`SliderCodec`, `AimeCodec`, `Mai2Codec` and `TouchHidCodec` are the decoders as
functions of a state and one symbol (`Push`), and the encoder of the other side
(`Wire`; for aime's commands it is the program's own `encode_frame`). `Bytes` has
the checksum and the escaping. `Frames` puts each of them behind a line that
delivers frames symbol by symbol, with noise between frames and frames that lose
a symbol or their tail. The loops of the code are steps of `Frames`: a round of
`try_parse_frame` is `Drain`, and it goes on (`Pending`) until what is left may
be the beginning of a frame; only then does the line deliver another byte. A
frame is on the line unescaped, and its bytes are escaped as they are taken from
it (`Symbol`, `Behind`). So no definition is recursive but the sum in `Bytes`.
`MCFrames` chooses messages at the borders: empty, made
of special bytes and their neighbours, and of every length at which a length
byte, a buffer or an escape changes anything.

## 3. What the runs show

| run | cfg | result |
|---|---|---|
| `input_all` | all four interfaces, 2 button and 2 touch values, 1 frame per chunk | `NoHeldInputWithoutSource`: with every thread scanning and no session open or closing, nothing this process wrote is held. `HeldFieldHasFeeder`: until a serial stream has been opened, a held field has a connected source of its own kind or a thread about to release it |
| `input_clear` | button HID and serial | finding 1, below |
| `touch` | touch HID and serial | `DisconnectTerminates`, `UnplugReleasesTouch`, `HeldTouchDelivered` |
| `poll` | one process, 3 coin presses | `SingleCredit`, `EveryCreditObserved`, `LatchFollowsCoin` |
| `poll_two` | two processes, 2 presses | finding 2, below |
| `led_sync` | 2 changes, 3 ages | `InSync`: a channel whose last sequence number is the page's shows the page's payload, unless the link is broken |
| `led_live` | 1 change | `LedsConverge`: a board that stays and whose touch frames keep coming ends up showing the page |
| `slider` | both games, 2 LED calls, 2 packets a read | `ToldAgrees`: the game was last told what the page holds. `LedsAreShown`: LEDs remembered as sent are shown. `StartedStreams`: a board remembered as started streams. `UnplugReleases`, `ScanStarts`, `LedsReachSlider` |
| `aime` | 2 threads, 2 kinds of card, numbers modulo 2, 2 messages on the wire, one of which may be left behind | `OwnAnswer`: in step, a call takes the answer to its own command. `CardIsWhatWasPolled`: the cache is the card of the last poll that was in step. `OnlyTheLineStrands`: a call waits in vain only for a message that came broken. `HolderReturns`: any other call returns. `Recovers`: after failures, answers are taken again. `CardSettles`: failed polls leave the cache alone, but in step and as long as polls are answered it comes to show the card at the board |
| `shared_page` | 3 processes, 2 words | `Refines`: SharedPage implements AtomicPage. `HolderAlone`, `WaiterServed` |
| `serial_port` | 2 players, 2 handle values | `IoInCall`, `HandlesMatch`, `ForeignReadOnlyWhenClosing`, `DeviceReturns` |
| `frames` | the four codecs with the code's buffer sizes, 2 noise events | `SliderResyncs`, `AimeResyncs`, `Mai2Resyncs`, `RxBufferSuffices`, `TouchHidOnce` |

Most runs check `TypeOK` too.

### Findings

1. **A dropped button HID zeroes live touch** (`input_clear`,
   `ClearSparesLiveSource`). The comment on `clear_inputs_on_source_drop` says it
   zeroes fields "but only when no other live source still provides them". It
   looks at the HID flags only. With the button HID and an open serial session
   the drop of the former zeroes the touch provided by the latter, until the
   next serial frame writes it again.
2. **Two polling processes can turn one press into two credits** (`poll_two`,
   `SingleCredit`). The latch is in the shared page, while the input page is read
   before the update. A process that read the page before the coin clears the
   latch the other has just set, and the next poll finds the coin "rising" again.
   With one process the property is proved.

### Behaviour the properties allow for

* After a restart nothing releases an input page that an earlier process has left
  held: `device_thread` resets it on a vendor board and on a disabled player, but
  with any other board, or none, it stays until a source of that field writes it,
  and the game is told of a touch nobody makes. The input properties except
  `inherited` fields, `UnplugReleases` speaks of a process that has `opened` a
  slider. An inherited control page with `active` set makes chuni start the
  slider before the game calls `start`.
* A new page starts with all LEDs dark. A board still lit by an earlier process
  keeps its LEDs until a channel changes; `led_*` publish nothing when the new
  value is the dark one the page already has. `InSync`, `LedsConverge` and
  `LedsReachSlider` speak of channels set since the page was made.

* `disconnect_session` keeps the page when any HID source is connected, also one
  that feeds only buttons; the touch last written by the serial stream then stays
  until that source drops. `NoHeldInputWithoutSource` speaks of the time when all
  are gone, and `HeldFieldHasFeeder` of the time before a serial stream has
  written to the page (`streamed`).
* The LED suspension is cleared by a new touch frame and by nothing else, so
  `LedsConverge` assumes that frames keep coming (over vendor HID it does not).
  It says little of the steps at which a stale stream suspends the LEDs or forces
  a reconnect: they must end, but in the limit of that assumption they are rare.
* chuni ignores write failures: a lost start frame leaves the slider silent until
  the port is reopened (`lost`), and a board that lost power or a failed LED
  frame stays dark until the next LED change (`dim`), since the LED sequence
  numbers are not reset on reconnect. `ScanStarts`, `StartedStreams`,
  `LedsAreShown` and `LedsReachSlider` hold up to exactly these cases.
* `transact` does not compare sequence numbers. Its answer can be another
  command's when a message was left behind on the wire, by a process killed
  between its write and its answer, by a write reported as failed that reached
  the board, or by a read that failed on a live board. From then on each command
  may take the answer to an earlier one, until the wire has been clear once;
  unplugging the board clears it. `OwnAnswer` and `CardIsWhatWasPolled` hold up to
  that (`leftBehind`, `doubtful`).
* `read_frame` has no deadline either. An answer that has lost a byte, or whose
  length byte is 0 or too large, is never complete (`aime lib.rs:508-511`), and a
  command that came broken is not answered. The call then waits with the mutex
  held, every other call behind it, and only pulling the board out or a read that
  fails ends it: the next command, whose answer would bring a new start byte, waits
  for that same mutex. `HolderReturns` excepts exactly this (`Stranded`), and
  `OnlyTheLineStrands` shows that nothing else leads to it.
* A poll that fails leaves the cached card as it was, so the getters may answer for
  a card that has been taken away, as long as polls fail (`CardSettles`).
* Only three error codes of a failed read count as a lost port
  (`serial.rs:212-218`). The models assume that a board that is gone is reported
  by one of them.
* `SerialPort::read` copies the handle before it uses it. A reader that is
  overtaken by `close`, and by the other player's `open` which is given the same
  value, reads from the other player's port and takes bytes from it. What is
  shown is that this happens only to a session that is being closed, for one
  read.
* A page may lose an update made before its creator writes the default, and may
  be torn by a process that dies; nobody is told of either.
* `try_parse_frame` believes a board-info header without a checksum. After noise
  a false one can swallow 255 bytes and cut the frames around them, so
  `Mai2Resyncs` counts from 259 bytes after the noise. With `FF F0` in the data of
  a frame this can go on for ever, as TLC shows for button bytes `FF F0` followed
  by a status byte of 8; the messages of the run have that pair in headers only.
* The slider parser delivers a packet without looking at its checksum, and the
  touch reports of two frames whose numbers are a whole round apart are joined.
  `Frames` loses symbols and adds noise but changes no byte inside a frame.

### Bounds

* Two values per data set distinguish "held" from "released", which is all the
  code's control looks at. The number of frames in a chunk only repeats the
  reader's apply step; one frame already lands before, between and after the
  steps of `disconnect_session`.
* Three presses cover a press credited, the latch re-armed, and a later press.
* Two LED changes, those on an inherited page included, are what it takes for the
  page to move on while an older copy is being sent. Three age thresholds in the code's order (pause < reconnect <
  grace) suffice because ages are compared with nothing else.
* Two packets per read let a page update follow another in one chunk.
* Two threads are what the mutex is about; two messages on the wire are one left
  behind and the one awaited, and whatever leaves one behind leaves room for one
  more (`RoomForOne`). Numbers modulo 2 wrap at every second command and
  still show a mix-up: the first stale answer that is taken is one command old.
* Three processes are a creator, one that overtakes it, and one that waits while
  another dies; two words are a page that can be torn. For other numbers there
  are the proofs.
* Two players with two handle values are the fewest with which a closed value is
  used again by somebody else.
* Two noise events are a false header and the byte that completes it; each is
  followed by any number of frames. A frame of bytes is broken as the first event
  only. While a mai2 line is not yet trusted the board repeats one message, chosen
  anew after each event; the 259 bytes are nearly tight (255 are
  not enough). Touch frames are numbered modulo 4, and at most two of their
  reports are lost, fewer than a round.

No symmetry is used: the sets that could be symmetric have one or two elements.

### Fairness

* Threads are never stopped by the code, every loop sleeps for milliseconds, and
  each step in a loop is a bounded call. That is weak fairness of each thread.
  Drops and failures are not fair: hardware may do as it likes. `HidLocalStep`
  in Mai2Touch leaves out finding an interface and receiving reports.
* Mai2Led: strong fairness of a successful write, of a heartbeat that succeeds on
  a working link (`~broken /\ ReadOutput`) and of noticing a broken one. The
  writer retries, and a write or a heartbeat that fails each time for ever is a
  broken board, not a behaviour of the code. A single heartbeat may fail on a
  working link, which is then dropped. A reader that counted a frame stamps it.
* AimeReader: strong fairness of connecting, writing and reading, for the same
  reason; weak fairness of the board, which answers a command or ignores it. A
  read is bound to fail when the board is gone, and on one that is there it need
  not. `Recovers` assumes besides that reads come to fail for no other reason.
* SliderLink: weak fairness of the device thread and of `start` finishing.
* SharedPage: weak fairness of a process that has the mutex, strong fairness of
  getting it, since the kernel serves waiters in turn. Nothing makes a process
  call or die.
* SerialPort: weak fairness of both threads, of the end of a read (the session
  sets a read time-out of a millisecond) and of retiring what was cancelled. A
  write that is not cancelled may stay with the driver for ever.

## 4. What is proved

For every value of the constants that satisfies the named assumptions:

| theorem | statement |
|---|---|
| `Mai2InputProofs!TypeCorrect` | `Spec => []TypeOK` |
| `Mai2InputProofs!NoHeldInput` | `Spec => []NoHeldInputWithoutSource` |
| `Mai2InputProofs!HeldHasFeeder` | `Spec => []HeldFieldHasFeeder` |
| `Mai2PollProofs!Mai2PollType` | `Spec => []TypeOK` |
| `Mai2PollProofs!OneCreditPerPress` | with one process, `Spec => []SingleCredit` |
| `Mai2PollProofs!CreditsAreObserved` | with one process, `Spec => []EveryCreditObserved` |
| `Mai2PollProofs!KeyboardCreditsOnce` | with no input page that shows a coin, `Spec => []SingleCredit` |
| `Mai2PollProofs!NoCreditWithoutPress` | `Spec => [](credits > 0 => presses > 0)` |
| `Mai2LedProofs!Mai2LedType` | `Spec => []TypeOK` |
| `Mai2LedProofs!LedsInSync` | `Spec => []InSync` |
| `SliderLinkProofs!SliderLinkType` | `Spec => []TypeOK` |
| `SliderLinkProofs!GameIsTold` | `Spec => []ToldAgrees` |
| `SliderLinkProofs!SentLedsAreShown` | `Spec => []LedsAreShown` |
| `SliderLinkProofs!StartedBoardStreams` | `Spec => []StartedStreams` |
| `AimeReaderProofs!AimeReaderType` | `Spec => []TypeOK` |
| `AimeReaderProofs!CardWasPolled` | `Spec => []CardIsWhatWasPolled` |
| `AimeReaderProofs!AnswersAreOwn` | `Spec => OwnAnswer`, an action property |
| `AimeReaderProofs!StrandedByTheLine` | `Spec => OnlyTheLineStrands`, an action property |
| `SerialPortProofs!RequestsEndInTheirCall` | `Spec => []IoInCall` |
| `SerialPortProofs!HandlesAreMatched` | `Spec => []HandlesMatch` |
| `SerialPortProofs!ForeignReadsOnlyClosing` | `Spec => []ForeignReadOnlyWhenClosing` |
| `SharedPageProofs!HolderIsAlone` | `Spec => []HolderAlone` |
| `SharedPageProofs!SharedPageRefines` | `Spec => Refines`, that is `Abstract!Spec` |
| `FramesProofs!RxBuffer` | `Spec => []RxBufferSuffices` |
| `FramesProofs!TouchFramesOnce` | `Spec => []TouchHidOnce` |
| `FramesProofs!SliderFramesFound` | `Spec => []SliderResyncs` |
| `FramesProofs!AimeFramesFound` | `Spec => []AimeResyncs` |
| `FramesProofs!Mai2FramesFound` | `NoFalseHeaders` implies `Spec => []Mai2Resyncs` |
| `FramesProofs!Mai2Exact` | `Spec => []Mai2CleanLine`: without noise, every mai2 frame comes out once and as it was sent |

**Input threads.** `NoHeldInputWithoutSource` only speaks of quiet states and is
not inductive. `IndInv` adds `FlagsMatch` (a thread's flag is up exactly at the
positions between its announcement and its drop) and `HeldAccounted`: a field
that is held has a raised flag, a serial side not yet torn down, or a thread
still on its way to release it (`Pending`). The crux is the step in which a thread
decides to spare a field: it has just seen a raised flag, so the first disjunct
takes over; and when that flag falls, its owner becomes pending for both fields.
The argument does not depend on the order of loads, only on each being made after
the thread's own flag was lowered. `HeldHasFeeder` refines this per field, which
is possible only while no serial stream has written both. Fields that are still
`inherited` are excepted throughout; a step that takes a field out of that set
writes it, so it is released or has its writer as feeder.

**Poll.** `SingleCredit` is not inductive because a poll works with a page it
read earlier. `CoinInv` adds that a press is still uncredited (`credits <
presses`) in two situations: the latch is down while a source, or the page the
poll has read, shows the coin; and the poll under way read the page without the
coin, which has come since, so that clearing the latch is safe. `ObservedInv`
says that credits are ahead of observations by one exactly between the update
that asserts the pulse and the `get_opbtns` after it.

With several processes `SingleCredit` is false (finding 2), and two theorems say
how far. `KeyboardCreditsOnce`: it stays true where coins come from the keyboard
alone, which is read inside the update of the poll page; so the input page, read
before, is what the finding rests on. `NoCreditWithoutPress`: no number of
processes and no age of the pages they work with makes a credit out of nothing.
Both go by induction over a state in which every copy of a page counts
(`CreditsHavePress`, `KeyInv`) and use `Mai2PollType`.

**LED output.** `InSync` compares what the board shows with the page, but a
write sends the thread's copy. `IndInv` adds `SnapCurrent`: where the copy and
the page agree on a channel's sequence number they agree on its payload. That
rests on `SeqsOrdered`: numbers only grow, so neither the copy nor what is
remembered as sent is ahead of the page, and a change of the page takes it to a
number nobody has. `SeqsOrdered` also says that `updates` counts the changes, so
that the bound on them keeps the numbers in their type.

**chuni and mercury.** `ToldAgrees` needs `ArgIsPage`: what the thread is about
to tell the game is what the page holds. `LedsAreShown` needs the numbers of the
copy and of what is remembered to be at most the page's (`SeqsOrdered`): a call
that sets LEDs then takes the page to a number that is not remembered, and a
frame that is sent under the page's number carries the page's LEDs. A failed frame
and a power loss are recorded in `dim`. `StartedStreams` needs `StreamInv`, for
the step between the two frames with which chuni starts a board: the first one
has worked, or failed, or its board is gone.

**Card reader.** `OwnAnswer` and `CardIsWhatWasPolled` rest on what may be on the
wire. `WireHoldsOwn`: unless something was left behind, the wire is clear, or there
is on it the one command of the thread that waits for an answer, or its answer,
under the number before `seq`, with what the board saw if it was a poll; and the
wire of a board that is gone is clear. `OneInside` is the mutex: whoever is past
taking it holds it, and the port is open before a command is written. The step
that writes needs both (the wire is clear because nobody else can be waiting), the
step that reads takes what `WireHoldsOwn` says is there. A step that takes
something off the wire either takes the one message on it, so that it is clear, or
keeps `leftBehind` (`Tracked`); a read that fails sets it unless the wire is clear.
`OnlyTheLineStrands` goes step by step from the same invariant: of the steps of a
call only its write and a broken answer leave anybody waiting (`NotReading`), a
write and an answer leave something on the wire, and a board that is unplugged is
gone for whoever waits on it, whose port is open.

**Serial port.** The three properties say nothing of who may act on a handle
next. `HandleInPlace`: an open handle is either the port's, while the device
thread is between `open` and `swap`, or that thread's own, while it opens or
closes, never both. `ArcsHeld`: who still holds the session is known from where
the two threads are, and the events exist as long as one of them does; so `Drop`
finds the port closed. `ActiveWhile` is the same for the active flag.
`RequestsWaited`: a live request has its thread waiting for it, and a reader
that has copied the handle has the port's, and reads its own port, as long as the
port is not closed. The lemmas on cancelling and closing handles say that neither
ends a request that lives or moves it to another file.

**Shared page.** The invariant `IndInv` is the type, `HolderAlone` and
`CreatorWrites` (a process doing the default write is the creator). `HolderAlone`
has two parts that need each other: only the owner of the mutex loads or stores,
and therefore what it has loaded is still the page, and a half-stored page is the
old one on the words left to store and the new one on the others. The refinement
goes step by step: opening is Attach, the last step of a store is Update or
Initialise, returning from a read is Read, a crash while storing is Tear with the
words already stored, any other crash is Detach, and everything else leaves
`page` and `state` alone. That `page` is well defined during a store (one process
stores) is again `HolderAlone`.

**Codecs.** The theorems hold for all messages, not only those of `MCFrames`.
While a frame is under way its decoder and the line hold it between them:
`SliderWithin` and `AimeWithin` say that what the parser has stored, followed by
what the line has left once unescaped (`Unescaped`, which knows of an escape byte
that has been taken before the byte behind it), is the frame. A sync byte is
never on the line inside a frame (`SyncHidden`), so the frame's own restarts the
decoder whatever state noise has left it in, and nothing restarts it again before
the end; the length byte says where that is, and the lemmas `SliderStore` and
`AimeStore` that it is the last byte and no other. A packet longer than the
slider's buffer leads to `SliderDropped`. read_frame also needs the checksum it
is sent to agree with the one it takes, which is why sums of any bytes have to
be bytes (`SumType`). `SumBytes` is a recursive function, and that lemma goes by
induction over the number of bytes: not by the library's induction theorems,
which take an operator, but by a smallest counterexample, which the well-founded
order of the naturals gives (`Smallest`).

The touch assembler keeps half a frame under its number. `TouchHidInv` bounds how
old that half may be (`Age`) by the number of reports that have been lost, so the
numbers cannot have come round to it. `RxBufferSuffices` needs that a byte is
looked at only while `try_parse_frame` waits, and that what it waits with is
shorter than the longest frame (`IncompleteIsShort`). For `Mai2CleanLine` the
buffer and the line hold the frame between them as above; the lemmas are that
every beginning of a frame is waited with (`PrefixIncomplete`) and that a whole
one is taken with all of its bytes (`WholeParsed`), for each of the three kinds.

After noise the mai2 line needs more. `Mai2FramesFound` assumes of the messages
that no byte inside a frame, with the next frame behind it, is taken for a header
(`NoFalseHeaders`); frames with neither `28` nor `FF` behind their first byte are
such (`PlainFrames`). TLC evaluates `NoFalseHeaders` for the messages of the run,
and the frame with `FF F0 08` (section 3) violates it. While the board repeats its
frame, `Repeats` gives each byte in the buffer the position in the frame it came
from, 0 when it came before the last noise (`Phases`). A buffer that waits holds
at most 258 bytes, so after 259 it has no noise left in it. It then starts at some
position of the frame, and if it reached into a second repetition,
`try_parse_frame` would not be waiting (`Decided`: what it decides on some bytes it
decides on more of them). So what the buffer holds is only the end of a frame
(`RepeatsLeftover`). That end is skipped byte by byte by the time the next
frame is there (`LeftoverSkipped`), and the frame is taken as on a clean line.

**Assumptions** are only those of the modules: values of "nothing held" belong to
their sets, `None` is none of them, bounds are naturals, interfaces are the four
known ones, the default page is among the input pages; updates of a shared page
give pages, and their names differ from those of reading and of the default
write; ages are compared with thresholds in the code's order; `Nobody` is no
thread, `Invalid` no handle and `Free` no player; sequence numbers of
card reader commands are taken modulo a positive number. Frames assumes of its
messages that they are bytes and of a length that the frame's length byte can
say (`MessagesAssumption`), of noise that it is bytes, and of HID reports that
they come whole (`GarbageAssumption`); the receive buffer holds the longest
frame, and fewer reports are lost than there are sequence numbers
(`SizesAssumption`; with as many, TLC finds two halves of different frames
joined). `KeyboardCreditsOnce`
assumes beyond that what its statement says, which machines without a coin
switch on the board satisfy, and `Mai2FramesFound` assumes `NoFalseHeaders`.

**Model-checked only.** Liveness (`touch`, `led_live`, and the temporal
properties other than `OwnAnswer`, `OnlyTheLineStrands` and `Refines` of `slider`, `poll`, `aime`,
`shared_page` and `serial_port`), since TLAPS does not reason about fairness and
ENABLED. Every invariant of a passing run is proved, `Mai2Resyncs` only for
messages that satisfy `NoFalseHeaders`: without it the invariant is false. With a
touch message of button and status bytes `FF F0 08`, which nothing in the code
rules out, the frames' own bytes make one false board-info header after another,
and TLC shows a line that is never found again. What does not depend on the bytes
is proved for all messages: `RxBufferSuffices`, and `Mai2CleanLine` on a line
without noise. `UnplugReleases` and its like are not reduced to invariants.

## 5. What is not modelled

* `send_slider_frame`, `send_frame` and `send_hid_frame` build frames for boards
  whose parsers are not in the repository. That the slider's frames are not
  escaped would matter to those parsers only.
* Both LED writers at once: the vendor thread may connect while the device thread
  is in its last iteration and still holds an older copy of the page. Then the
  board can be left with the older LEDs until the next change.
* `led_gs_update` from two game threads; chuni callbacks that call back into the
  DLL (they would wait for their own mutex). The games do neither.
* Heartbeat and board information of mai2 other than as reasons to disconnect,
  statistics and logging.
* `find_com_port` and the HID path searches, which look at the device tree and
  keep no state; the time-out values, DCB and event handle values of a port.
* The C ABI wrappers, ini look-up, clock and version resources: no state of their
  own that a protocol depends on. The example programs are not part of the DLL.

## 6. Plan

What is left, in this order:

1. How many credits one press can become at most with several polling processes,
   in terms of the pages they hold.
2. Overlap of the vendor and serial LED writers, in Mai2Led or beside it.

## 7. Running

In this directory, `tlc -config <cfg> <module>` repeats a run, with the module
and configuration named in `PROJECT.json`. The proofs are in `Mai2InputProofs`,
`Mai2PollProofs`, `Mai2LedProofs`, `SliderLinkProofs`, `AimeReaderProofs`,
`SerialPortProofs`, `SharedPageProofs` and `FramesProofs`, and
`tlapm <module>.tla` checks them.
