# A verification project for PinkOS

PinkOS is a small operating system for the IM-Me toys (CC1110, an 8051 with a
250 kbaud radio).  The *dongle* has a serial console, the *handset* a keyboard
and a display; both run the same radio driver and the same shell.  There is no
scheduler and no lock: one main loop, two radio interrupt handlers, on the
dongle one more for the UART, and static buffers that all of them share.

## The system

| part | source | state it keeps | operations | who calls it |
|---|---|---|---|---|
| radio driver | `common/radio.c` | `pktbuf`, `pktbuf_index`, `errflag`, `receiving`, `pkt_complete` | `radio_init`, `radio_tx`, `radio_rx`, `radio_tick`, `rftxrx_isr`, `rf_isr` | main loop, packet layer, the chip |
| packet layer | `common/packet.c` | none: it works in `pktbuf` through `radio_getbuf` | `packet_build`, `packet_send`, `packet_process` | shell commands, `radio_tick` |
| console | `common/console.c` | `linebuf`, `linebuf_tail`, `got_eol`, `linemode`, `pending` | `console_tick`, `console_rx_callback`, `console_rx_ready_callback`, output functions | main loop, `uart0_isr` or `lcdterm_tick` |
| serial port | `common/uart0.c` | UART registers | `uart0_isr`, `uart0_putc` | the UART; console output of the main loop **and** of the handler |
| lcd terminal | `common/lcdterm.c` | cursor, scroll position, caps lock, alt, last key, the screen | `lcdterm_tick`, `lcdterm_putc`, `lcdterm_newline` | main loop, console |
| keyboard | `common/key.c`, `apps/speccan/keys.c` | none; the analyser's `active_key` | `key_get`, `getkey` | `lcdterm_tick`, the analyser's main loop |
| lcd controller | `common/lcd.c`, `apps/speccan/display.c` | page, column, start line and memory of the controller | `lcd_*`, `setCursor`, `txData`, `clear`, `LCDReset`, `LCDPowerSave` | lcd terminal, analyser |
| shell | `pinkos/shell.c` | `argv` (static, kept between commands) | `shell_exec`, one function per command | `console_tick` |
| number parser | `common/parse.c` | none | `parse_number`, `parse_hexdata` | shell |
| main, packet commands | `pinkos/pinkos.c` | none | `main`, `packet_rx_callback` | reset; packet layer |
| interrupt dispatch | `pinkos/isr.c` | `F1` in PSW, `IEN0..2` | one stub per vector | the 8051 |
| clock, watchdog, sleep | `common/clock.c`, `watchdog.c`, `apps/speccan/pm.c` | oscillators, `SLEEP` | `clock_init`, `watchdog_init`, `sleep`, `port1_isr` | every `main` |
| spectrum analyser | `apps/speccan/specan.c` | `width`, band, centre, `chan_table`, max hold, view | `set_center_freq`, `set_width`, `plot`, `poll_keyboard`, `main` | `boot` command |
| shell application | `apps/shellapp` | the console's | its own main loop | `boot` command |
| hardware helpers | `common/spi.c`, `led.c`, `tiles.c` | none | register writes, busy waits | all |
| host tools | `tools/` | | | build host |

How they meet:

* **Radio.** The chip raises RFTXRX for each byte and RF for each frame event;
  `rftxrx_isr` moves one byte between `RFD` and `pktbuf`, `rf_isr` sets flags
  and idles the chip, and `radio_tick` in the main loop looks at the flags,
  gives a complete packet to `packet_process` and starts the receiver again.
  `radio_tx` (from a shell command, or from `packet_autoack` inside
  `radio_tick`) blocks on the flags.  Sender and receiver share the one buffer.
* **Console.** `uart0_isr` (dongle) or `lcdterm_tick` (handset) feeds
  `console_rx_callback`, which edits the line, echoes, and sets `got_eol`;
  `console_tick` executes the line and clears `got_eol`.  On the dongle the echo
  waits for the UART *inside the handler* (`console.c:201` has a FIXME on it),
  and that holds the radio handlers up: the two halves of the system meet here.

* **Network.**  Devices talk in frames with a request bit; `packet_process` prints
  and acts first and acknowledges last, over the packet it answers.  Nothing is repeated.
* **Boot.**  `boot` turns interrupts off, clears requests and enables, sets `F1 = 0` and
  jumps into the application; from then on the stubs of `isr.c` send its interrupts to
  the application's own vectors.  `reset` spins until the watchdog strikes.

What is hard: every flag and buffer is shared by main loop and handlers; the
handlers may be late on the dongle; frames are lost, truncated, overlong,
corrupted, or for somebody else; strobes take time and their waits give up; the
same flags mean "received" and "sent"; a command may build its packet while one
is coming in.  `PROJECT.json` lists each of these under `hazards` at its line.

What makes each part correct:

* radio driver: stores stay inside the buffer; what is delivered is what was
  received, once; OK means sent; whatever happened, the device listens again.
* packet layer: an acknowledgement answers the packet it is for and no other; a
  command's packet is what goes out.
* console: the line given to the shell is the line typed and shown; characters
  typed during execution change neither this line nor the next.
* serial port: a character given to `uart0_putc` is transmitted, once, in order.  This one
  the code keeps in part only; the runs say how far.
* lcd terminal: the cursor stays on the screen, scrolling keeps the lines.
* shell: a command acts on its own arguments; parser: the value is the numeral's.
* interrupt dispatch: PinkOS's handlers run when PinkOS runs, the application's
  when the application does; nothing but the button wakes a sleeping device.
* clock: the oscillator in use runs; the radio is on the crystal.
* keyboard: a key that comes out was pressed, comes out once, and a key held does come out.
* network: an acknowledgement was earned and tells the truth; the air falls silent.
* spectrum analyser: a column shows the frequency under it, of the plan in force; what
  the keys ask for is what is shown, and the band does not change by itself.

## The modules

### RadioChip (external) and Radio

`RadioChip` is the hardware as `radio.c` uses it.  `marc` is MARCSTATE; `rfif`,
`s1con` and `rftxrx` are the interrupt flags; `rfd` with `rfd_full` the data
register; `rxf`, `pos` the frame on the air; `txphase`, `txf` the transmitter.
Its actions are the things the chip does by itself; its strobes are operators
`Radio` uses.  Three history variables (`lastrx`, `fresh`, `sentf`) say which
frame came in last, whether it was handed over, and which went out; they are
cleared when the receiver is started again.

`Radio` is `radio.c`, `packet.c` and the main loop of `pinkos.c`.

| code | model |
|---|---|
| `rftxrx_isr` | `RftxrxIsr` = `SendByte` / `FetchByte` / nothing |
| `rf_isr` | `RfIsr`, one step (`Done`, `Failed`, the SFD part, `RFIF = 0`) |
| `uart0_isr` echoing | `EchoStart`, `EchoEnd`: the radio handlers wait, the chip does not |
| `radio_tx` | `RadioTxIdle`, `RadioTxInit`, `RadioTxStrobe`, `RadioTxWait` |
| `radio_rx` | `RadioRxIdle`, `RadioRxInit`, `RadioRxStrobe` |
| `radio_tick` | `RadioTick`, `TickComplete`, `CheckCrc`, `TickSent` (a flag is read in each) |
| `packet_build`, `packet_send`, payload stores of a command | `ConsoleTick` picks the command, `Build` is one store into `pktbuf` |
| `packet_process` | `PacketHandle`, `PacketAutoack` |

`pc` is where the main loop is, `ret` where `radio_tx` and `radio_rx` return
to, `todo` the stores still to make, `want` (history) the frame meant.

Assumptions about the hardware, all of them from the CC1110's description of
what the registers `radio_init` sets mean:

* a pending enabled interrupt is served before the main loop makes its next
  step, handlers do not nest, RFTXRX is polled before URX0 before RF;
* at 250 kbaud a byte takes 32 us, longer than a radio handler; an echoed
  character at 115200 baud takes 87 us, longer than a byte.  So the chip moves
  on only when no request is pending, or while `uart0_isr` echoes;
* frames carry a length byte of at least 1 and a CRC; the CRC verdict in LQI is
  there from the end of the frame until the receiver is started again; it may
  be right or wrong for any frame;
* the address filter passes the device's address and 0; the two appended status
  bytes raise RFTXRX like any byte, and nobody need read them;
* after a frame, in either direction, the chip is idle (MCSM1 = 0x30); a strobe
  from IDLE takes a while (calibration), and `wait_rfstate` may return before
  (its result is looked at nowhere).

`GenuineDelivery`, `AckFaithful`, `OkMeansSent`, `BufferStable` and `ImplementsLink` are about prompt handlers,
and their runs have no UART; the dongle, where they do fail, has a run of its own.

### Link

`Link` is the abstract specification of one device's driver, frame by frame: `Receive`, `Handle`, then `Answer` or
`Leave`; or a `Command`; `Sent`, and `Listen`.  `ImplementsLink` is that specification under the mapping in `Radio`:

| `phase` | in `Radio` |
|---|---|
| `listen` | the receiver is being started, or is on |
| `complete` | the CRC of a frame that fits has come, right, and `packet_handle` has not run |
| `handled` | between `packet_handle` and the test in `packet_autoack` |
| `send` | from the first store into the buffer until the chip has sent the last byte |
| `delay` | until `radio_rx` is called |

For a packet received `frame` is read off the buffer (`LinkFrame`), not off the history: what is in the buffer when `packet_handle` and
`packet_autoack` look is what was on the air, all of it, and for this device.  What `radio_tx` puts on the air after
`packet_autoack` is the acknowledgement of that frame.  `Link` leaves open what a command sends (see `radio_command`
below) and what answers a frame shorter than the header, for which `packet_autoack` looks at bytes that an earlier
frame left.  Its fairness, `GetsOn`, says that the device comes back to `listen`.

### Console and LineDiscipline

`Console` is `console.c` in line mode on the dongle, with `uart0_isr` for its source of
characters (the handset's console is in `LcdTerm`).  `EndLine`, `Erase`, `Store` are the
cases of `console_rx_callback`; the main loop
is cut at every access to what the handler shares with it: `SetLinemode`, `ClearTail` and
`ClearEol` (`console_set_linemode`, which `main` calls with interrupts enabled), `ConsoleTick` (the
tests), `Terminate`, `ShellExec`, `Reset`, `Prompt`, `Ready`.  `Arrive` puts a
character into `U0DBUF`, over one the handler has not fetched yet; there is no
flow control.  `shown` (history) is what the user sees of the line, until the next prompt; `early`
(history) says that a key came in between the three stores of `console_set_linemode`.

`LineDiscipline` is the abstract specification: type, rub out, enter, execute,
next line; before the console has `started`, what was typed may be forgotten (`Forget`, `Start`).  The property `ImplementsLineDiscipline` of `Console` is that
specification under the mapping `line` = the characters of the buffer (nothing
once the line has been executed), `frozen` = `got_eol`, `executed` = the string
handed to `shell_exec`, `started` = `console_set_linemode` is over; it includes the fairness of the abstract specification,
so a line that was entered is executed.

### Uart0

The transmitter of the dongle's console, with `uart0_putc` cut at its three accesses:
`Write` (U0DBUF), `Poll` (TX_BYTE), `Clear`.  Two callers run it: the main loop, which
prints `Text` characters, and `uart0_isr`, which comes at any point, for each of `Keys` keys, and echoes one to
three.  `shift` is the character being sent, `dbuf` the one waiting behind it; writing
over a `dbuf` that is not sent yet loses it.  `Transmit` is the hardware.  The data sheet's
sentence on TX_BYTE can be read in two ways when another character is waiting: the bit may rise or not, each time.
Two callers without a lock do lose characters, and the main loop may wait for ever; `LossBounded` and `WaitEnds` say
how much at most and when: one character for each key beyond the first, and only a main loop whose
status the handler has cleared (`taken`, history).

### Parse and ParseCheck

`Parse` holds `digit_to_int`, `parse_number` and `parse_hexdata` as operators on sequences
of character codes, 16-bit wrap included; loops are recursive functions.  `ParseCheck` has the
reference definitions (which strings are numerals of which base, what they are worth) and
steps through all strings of an alphabet.  What strings that are no numerals give is left open.

### Shell

`shell_exec` and the commands of `shell.c`.  A word of a line is a record of its text, its
length and its value (what `Parse` is about); `Cut` is what the console keeps of a line,
`Arguments` the splitting with its limit of five.  `argv` holds offsets and, as in the
code, keeps those of earlier lines; `linebuf` says which words still stand where, as a shorter
line overwrites only the beginning of a longer one.  `Number` of an offset where no whole
word stands is any of `Numbers`.  Each command is an action that leaves in `did` what it
did.  `InBounds` (`argv` and the packet) is what justifies `SendsAssumption` of `Radio`.

### LcdTerm

The handset: `lcdterm.c` with the console behind it.  `term` is a record (`x`, `y`, `addr`,
`atBottom`, `screen`), and each drawing function of the source is an operator from `term` to
`term`, so that `lcdterm_putc` calling `lcdterm_newline` calling `lcdterm_plotchar` is
composed as in the code.  Columns are counted in characters of 4 pixels: `cursorx`, a byte,
wraps at twice the width of the display.  The main loop goes round `lcdterm_tick`,
`console_tick` (with the command and its output), `radio_tick` (with a packet's output, or
graphics mode); there is no interrupt that touches this state.  `linebuf` is the sequence of the characters typed
(a letter, a digit, a blank), `linebuf_tail` its length.  `plain` (history) says that since the prompt no packet was printed
into the line and nothing was rubbed out with the cursor at column zero.

### Keyboard

`realkeyscan` row by row (`ReadRow`) on a matrix in which a closed contact joins two lines;
the rows before stay driven, so a contact that closes in the middle of a scan is found in
another key's row.  `KeyGet` is the debouncing loop, `Getkey` the analyser's edge
detection.  `Finger` moves one contact, never before `Hold` rows have been read since the last.  The millisecond before each
scan (`key.c:81`) reads no row and is no step: counted in time, eight rows are a scan and the pause before it.

### System

From power on to the main loop, `reset`, `boot`, the applications, sleep and wake-up: one
step for each register that the interrupts, the clock or the power mode depend on (`At`).
`Serves` is the dispatch of `isr.c`: to PinkOS, to the application's vector, to nobody
(SDCC's `reti`, which takes no request back), or, where the application has no such vector,
"wild".  `Request` raises any request at any point, `Interrupt` serves one whenever the 8051
would, one instruction of the main program between two.  `Press` is the power button: it raises a request if the
falling edge is selected (`edge`, PICTL), which is so from the first `pm.c:38` on.  `clock` is the oscillator in use,
`selected` the one written to CLKCON; `Settle` makes the one follow the other, and `Select` has the write and the wait
as two steps.  The test of SLEEP (`pm_test`) and the instruction that sleeps (`pm_enter`) are two steps as well.

### PinkNet

Several devices: `Command` (what the shell builds), `Overwrite`, `Sent` (heard by any part of those who
listen), `Delay` (10 ms of deafness), `Handle` (`packet_dump`, `packet_handle` and
`packet_rx_callback`) and `Autoack`.  The driver below is reduced
to what `Radio` shows of prompt handlers: what is delivered is what was sent, as far as its length byte says; what is
behind it are bytes left in the buffer, any of them (`Received`).  What is sent is not always what was commanded: the receiver is on from
`packet_build` to `radio_tx`, and `Overwrite` replaces the packet by one of `Overwritten`, of any
length from 0, any type and any source.  Lengths are counted up to a payload of one byte, whose value is
kept as "0 or not"; `tx` may also send none.  Its devices go through the phases of `Link`
(`Listen` after an acknowledgement is part of `Sent`), with records for frames.  The counters and `want` are
history: requests made, handled and acknowledged between two devices, and what the one wants the other's led to be;
`garbled` counts the packets that were sent overwritten.  No device has the broadcast address, see below.

### SpecAn, SpecAnScreen and Lcd

`SpecAn` is the analyser's main loop: `Reset`, `Sweep`, `PollKeyboard` (one action per kind of
key), `Check`, `KeyPower`, `Wake`.  `Tuned` is the choice of band and centre in
`set_center_freq`, `UpperRounds` and `LowerRounds` are its two loops, in closed form.  Of
`chan_table` one entry is followed, that of `Ch`, which is any of the 132: no entry is
computed from another.  Frequencies are in Hz; the float product that turns them into units
of the synthesizer is left out.  `home` and `peak` are history.

`Lcd` is the display controller as a record, and the two drivers as operators from record to
record; `SpecAnScreen` draws with it, by the analyser's driver (`setCursor`, `txData`, `LCDReset`, `LCDPowerSave`; the
terminal's, `lcd_*`, no property uses): `plot` with its byte arithmetic, the rulers, the labels.
The properties read the controller's memory, as the eye does.

### Proof and MC modules

`RadioProofs`, `ConsoleProofs`, `Uart0Proofs`, `ShellProofs` (also about `ParseCheck`), `LcdTermProofs`,
`SystemProofs`, `PinkNetProofs` and `SpecAnProofs` (also about `SpecAnScreen` and `Keyboard`) hold theorems;
`MC*` the instances for TLC.

## The runs

| run | specification | question | states |
|---|---|---|---|
| `radio_handset` | `FairSpec`, no UART | all properties of the driver with prompt handlers: safety, that the device listens again, refinement of `Link` | 211,587 |
| `radio_dongle` | `FairSpec`, UART | with late handlers: is every completed reception dealt with | 97,982 |
| `radio_command` | `Spec`, no UART | *violated*: what a command asks for is what is sent | |
| `console` | `FairSpec` | refinement of the line discipline, echo, from the start of the console on | 340,440 |
| `uart0` | `FairSpec` | how many characters are overwritten, who waits for ever | 200,868 |
| `parse` | `StrSpec`, all strings | the parsers against the values of numerals | 66,430 |
| `shell` | `Spec` | commands act on their own line, `argv` and packets fit | 35,220 |
| `lcdterm` | `Spec` | one cursor, its row, prompt and line before it character by character, no key lost, nothing drawn in graphics mode | 1,152,201 |
| `keys` | `KbSpec`, fair | only keys that were down come out, once; a key held does | 33,956 |
| `system` | `FairSpec` | no wild interrupt, only the button wakes and it does, the clock runs | 1,340 |
| `pinknet` | `Spec`, fair | acknowledgements earned but for one per overwritten packet, and true; silence in the end | 1,305,531 |
| `specan` | `Spec` | the band stays, `<` undoes `>`, each column is tuned to its frequency; bar, dot, ruler and labels show what was measured where | 340,397 |

Bounds.  The packet buffer has 6 bytes instead of 32 (5 on the dongle): room for
a header and one byte of payload, so that a frame that just fits, one that is one
byte too long, one shorter than the header, a broadcast and one for another
device are all short enough to check.  One command has an empty payload, one fills the
buffer.  On the dongle late handlers scramble the buffer in many ways, so there is one frame, of
three bytes, and one command, whose remains behind the frame make the device acknowledge it.
`Junk`, the bytes nobody chose, is one byte or two.  The line buffer has 4
characters instead of 32: enough to be filled, to overflow (bell), and to be cut in
two at a blank.  `uart0` prints five characters and has three keys typed; the handler's echo,
at most three characters each, meets every place of the text, and of what the echo before left behind.  `parse` takes the digits at
the edges of each range, the three prefix letters and a letter above the digits; five decimal
digits overflow 16 bits.  `shell` has the real sizes (32 and 32) and 25 lines: each command with too few,
enough and too many words, a line too long for the buffer, in any order.  `lcdterm` has
3 columns and a line buffer of 3, equal as in the code (32 and 32), so that prompt and
full line fill a row; 2 rows, `addr` wrapping at 8.

`keys` has two fingers on four keys: two that are chained (they join three lines in a row, as
a third key would), two in one row, two in one column, and one in a later row than any phantom.
`Hold = 8` keeps a contact still for one scan of the matrix; the run fails with 4, when it
may open and close within a scan: the code's debouncing relies on that.
`system` has all three devices there are and no other bound.  `pinknet` has three devices, two
of them with a console, and two commands, of any kind; with tx the type `LED`, with payload and without.  A packet may be
overwritten by a false acknowledgement, a false request to set a led, or a request cut off before its type.  `specan` has the
real frequency plan, every band, width and centre; it follows the last column, which only some plans reach, has levels below
and above what a bar can show, and `MAX_VSCROLL = 4` instead of 208 (one step of the tall view, and the
limit).  The theorems lift what is said about one column to all.

`CHECK_DEADLOCK FALSE` is in `Uart0.cfg` only: the text comes to its end, and the main loop may really stop.
Nothing counts without limit except what `Text`, `Keys`, `MaxLen` and `MaxCommands` bound.

Fairness.  `FairSpec` of `Radio`: the chip goes on with a frame it has begun (it
need not begin one), a pending handler runs, an echo ends, and the main loop gets
on although it is interrupted again and again, because bytes and keys arrive far
slower than it runs.  Strong fairness is needed for the main loop and for
`rf_isr` on the dongle: a handler of higher priority may disable them for a
moment, any number of times.  `FairSpec` of `Console`: the same for `uart0_isr`
and the main loop.  `FairSpec` of `Uart0`: the UART sends, and a caller that can go on does.
`RxSync` and `Arrive` have no fairness: nobody need send or type.  `Keyboard`: the processor goes on
scanning.  `System`: the main program, the handlers and the oscillators get on; `PinkNet`: the main
loop of each device.  No command, no press and no arriving frame is ever fair.

### Where the code and its documentation disagree

* `radio_command`.  "build and send a packet to dst" (`README.md:97`): `packet_build` stores
  into the buffer the receiver uses, with the receiver on, and `radio_tx` idles it only later. A frame
  that comes in between overwrites the packet (`packet.c:99`), and its bytes are sent with an "OK".

Met on the way, without a run of their own:

* Late handlers.  The CRC is the chip's verdict on the frame in the air.  When
  `uart0_isr` waits for the UART while a frame begins, RFTXRX for its first byte
  and RF for its sync word are both pending; RFTXRX is served first, and then
  `rf_isr` resets `pktbuf_index` (`radio.c:229`).  The rest of the frame is stored
  from offset 0, and what reaches `packet_rx_callback` after "check CRC"
  (`radio.c:248`) is not what came in: `GenuineDelivery` fails with `UART = TRUE`.
* "read PARTNUM" (`README.md:91`): after reading, `cmd_xdata` drops through and
  writes what `argv[2]` still points to (`shell.c:228`); `SentFromLine` is about the commands that send.
* "0 <= x < 132" (`README.md:117`): from 100 on the line of `gfxplot` has 32 characters and
  31 are kept; the data lose a digit, `parse_hexdata` refuses the odd length, nobody
  looks (`shell.c:152`), and the packet carries eight bytes the buffer held before.
* "move left" (`lcdterm.c:189`): a full line puts the cursor at column 0
  of the next row; a backspace goes from there to pixel 252, off the display, and the character stays where it was
  (`LineShown` excepts the line from then on).
* `pdata` does not count the command out of `argc` (`shell.c:244`): with an address it
  writes, with address and value it does nothing (`CmdPdata`).
* `hb`, with a lower-case b as first digit, is not read as hexadecimal (`parse.c:98`); `ParsesNumerals` excepts it.
* With two callers a call of `uart0_putc` may return before its byte is out, whatever
  `uart0.c:61` says: from the second key typed during a text on characters are overwritten, one for each key at most (`LossBounded`).
  And the main loop may wait for ever: the handler's call clears the status it waits for, if
  TX_BYTE did not rise for its own character (the exception in `WaitEnds`); a further key frees it.
* Interrupts are enabled before `console_init` (`pinkos.c:79`).  What is typed between the stores of `console_set_linemode` is
  echoed and then forgotten, an Enter among it ignored (`console.c:96`).
* Characters that come down the line while a command runs are thrown away (`console.c:170`); a script
  piped into the dongle loses them.
* `tx d 0 4 x` sends a `GFXPLOTLINE` with one byte; at the other end `len -= 2` wraps to 255
  (`pinkos.c:130`).  `tx d 0 2 ` with a blank at the end sends an LED packet without payload; the other end reads
  `*buf` behind the frame (`pinkos.c:115`), and the led becomes whatever an earlier frame left there.  A length byte below 4
  gives `packet_dump` and `packet_handle` a payload of over 250 bytes (`packet.c:64`, `packet.c:127`).  A packet for the
  graphics mode is drawn whether or not `gfxinit` came before.
* A packet overwritten while it is built (`radio_command`) may go out as an acknowledgement nobody earned, or as a request nobody made:
  `AckEarned` counts them, one for each such packet, and `LedAgrees` holds only while there is none.
* `DEVADDR = 0` is the Makefile's default (`Makefile:4`), and `README.md:29` says of 0 that it "is the broadcast address".  A device built so
  hears everything for it as a broadcast and never acknowledges; answers to it are heard, and shown, by everybody.  `PinkNet` is
  about devices with addresses of their own (`BROADCAST \notin Nodes`).
* `teleled` gives all its packets sequence number 0: which of two an acknowledgement is for cannot be
  told.  `LedAgrees` holds nevertheless, by counting.
* `specan.h:27` gives the wide plan 44 MHz and 333 kHz per channel; the spacing is 199.952 kHz.
  `specan.c:166` wants the signal in 80 % of the filter's bandwidth; of the 812.5 kHz of the widest filter
  that is 650, less than the 666.504 kHz of its channels, which take 82 %.  `OnAir` asks for the 80 % in the
  other two plans, and of this one that the channel fits its filter.
* The two key tables have `^` and `KDWN` of row 6 the one and the other way round.
* `isr.c` has no stub for P1INT.  An analyser started by `boot` finds its `port1_isr` never called: a press
  does wake the device, but the request stays pending and the mode bits of `SLEEP` stay set.  `PressWakes` owes its truth to
  that: with a stub, a press between the test of SLEEP (`pm.c:104`) and the sleep instruction would be taken back by `port1_isr`, and the device sleep on.
* The falling edge is selected last (`pm.c:38`): on the way to the first sleep a press before that raises nothing and is lost.
* `lcd.h` declares `lcd_setPos(row, col)`; `lcd.c` defines it with `x, y`.
* `ch > 128` (`lcdterm.c:203`) lets 128 through to a font of 128 bitmaps; what commands and packets print is only "text" in `LcdTerm`.
* `lcdterm_init` leaves `atBottom` as it was; it is called once, so nothing comes of it.

## The theorems

TLC checks the instances above; TLAPS proves, for every value of the constants:

| theorem | says |
|---|---|
| `RadioProofs!TypeCorrect` | `Spec => []TypeOK`, on both boards |
| `RadioProofs!StoresInBounds` | `Spec => []RxInBounds`, on both boards |
| `RadioProofs!DeliversGenuine` | `Spec => []GenuineDelivery` without a UART console |
| `RadioProofs!BufferIsStable` | `Spec => BufferStable` without a UART console |
| `RadioProofs!NeverLeftDeaf` | `Spec => []NeverDeaf`, on both boards |
| `RadioProofs!OkOnlyWhenSent` | `Spec => []OkMeansSent` without a UART console |
| `RadioProofs!AcksAreFaithful` | `Spec => []AckFaithful` without a UART console |
| `RadioProofs!DriverIsLink` | every behaviour of `Radio` is one of `Link` without a UART console, safety part |
| `ConsoleProofs!ConsoleTyped`, `EchoIsLine` | `Spec => []TypeOK`, `Spec => []EchoMatches` |
| `ConsoleProofs!ConsoleIsDisciplined` | every behaviour of `Console` is one of `LineDiscipline`, safety part |
| `Uart0Proofs!UartTyped`, `LossIsBounded` | `Spec => []TypeOK`, `Spec => []LossBounded`, for any number of keys |
| `ShellProofs!ShellTyped`, `PacketsAreTyped` | `Spec => []TypeOK`, `Spec => []SentFromLine` |
| `ShellProofs!PacketsFit` | `Spec => []InBounds`, the packet buffer being as large as the line buffer |
| `ShellProofs!NumeralsAreParsed`, `PairsAreDecoded` | `StrSpec => []ParsesNumerals`, `StrSpec => []DecodesPairs`: strings of every length |
| `LcdTermProofs!TermTyped`, `CursorIsAlone`, `RowIsBottom`, `LineIsShown`, `KeysAreTaken` | `TypeOK`, `OneCursor`, `BottomRow`, `LineShown`, `EveryKeyTaken` always hold |
| `LcdTermProofs!TextStaysSuspended` | `Spec => TextSuspended` |
| `SystemProofs!SystemTyped`, `DispatchIsSafe`, `ButtonAlone`, `ClockNeverStops` | `TypeOK`, `NoWildJump`, `OnlyButtonWakes`, `ClockRuns` always hold |
| `PinkNetProofs!NetTyped` | `Spec => []TypeOK` |
| `PinkNetProofs!AcksAreEarned`, `LedsAgree` | `AckEarned`, `LedAgrees` always hold, unless acknowledgements are typed |
| `SpecAnProofs!AnTyped`, `WidthKeepsBand`, `UpThenDown`, `ChannelsOnAir`, `MaximaAreFresh` | `TypeOK`, `BandKept`, `StepBackUndoes`, `OnAir`, `HoldIsFresh` always hold |
| `SpecAnProofs!BarIsExact`, `NoBarIsLeft` | `BarExact` always holds, and the first part of `PictureTrue` (`NoStaleBar`), in every column |
| `SpecAnProofs!PictureIsTrue` | `Spec => []PictureTrue`: bars, rulers and labels, for every band, width and centre |
| `SpecAnProofs!KeysAreGenuine` | `KbSpec => KeysGenuine`, for any keys, contacts staying for a scan |

Assumptions are those the modules state of their constants, which TLC evaluates in the runs: buffers of 5 to 255 bytes,
frames that are a length byte and the bytes it counts, commands that fit the buffer (`SendsAssumption`),
a line buffer of any size (of at most a row, in `LcdTerm`, on a display of at least two rows), an analyser on a handset only, devices with
addresses of their own, any channel, levels that are bytes.  Some theorems name
one more as their premise:

* `AcksAreEarned` and `LedsAgree`, `"ACK" \notin TxTypes`: somebody who types `tx d 0 0 x` forges an acknowledgement.
* `PacketsFit`, `LINEBUF_MAX <= PKTBUF_MAX` and `15 <= PKTBUF_MAX`: both are 32 (`Makefile:7`, `radio.c:37`), and nothing but
  this equality keeps `tx` inside the packet; a `gfxplot` of eight bytes needs 15.
* `KeysAreGenuine`, `Hold >= 8`: a contact stays as it is while the eight rows are read.

*Radio, types.*  `TypeOK` needs one more conjunct to be inductive, `BuildPending`: while
a packet is being built a store is left to make.

*Radio, bounds.*  `RxInBounds` speaks of the state RX.  `BoundsInv` adds that the chip gets there
from FS_RX, that FS_RX is entered by `radio_rx` only, and that between `radio_rx`'s SIDLE and
SRX the chip is idle with nothing pending (`Peace`), so the index it was given is still 0.

*Radio, delivery.*  `GenuineDelivery` is far from inductive.  `Reception` says, for each
state of the chip, how much of the frame is in the buffer: `AtSync`
(rf_isr is due), `AtByte` (a byte is in RFD), `Between`, `AtStatus`, `Ended`.  It holds
while the buffer belongs to the receiver (`Owned`); a command or an acknowledgement takes it
away, and `radio_rx`, which starts in peace, gives it back.  `Way` says which flags the
main loop has seen on its way to a place.  Each lemma treats one actor: the chip
(`ReceptionChip`), the two handlers (`ReceptionByte`, `ReceptionEvent`), the main loop
(`ReceptionMain`, `WayMain`).  Where it breaks on the dongle is visible: `AtByte` needs
that no frame event is pending.

*Radio, listening.*  `Heard`: from the moment `radio_rx` strobes SRX the chip listens, or a flag is
set, or the event from which `rf_isr` will set one is pending.  It needs no prompt handlers, only that nothing is
pending when the flags are cleared (`Peace`).

*Radio, sending.*  `Transmission` says for each state of the chip how much of the frame in the buffer has left it:
nothing before the sync word (`Starting`), `txf` between two bytes (`Ready`) and when the chip waits for one (`Asked`),
all of it at the end (`SentAll`).  With a UART console `Asked` breaks: a late `rftxrx_isr` lets the chip underflow.

*Radio, acknowledging.*  `Answer` gives the five stores of `packet_autoack` for `lastrx`, those made in the buffer and those
left in `todo`.  What must not happen is a store of `rftxrx_isr` among them, while the receiver is still on: `Past` says
it is at the end of its frame, and for that `AtAutoack` takes `Reception` over from the proofs of delivery.

*Radio, frame by frame.*  `LinkInv` adds to what delivery, listening and answering need: a frame is let through only if it is for this
device (`Addressed`); the transmitter is on in `radio_tx` only and meets no error (`OnlyHere`); `radio_tick` finds a device that does not
receive only after a transmission (`After`); `radio_rx` forgets the frame before, and one that came in ends the reception (`Restarted`).
`Arrived` then says that a packet that is complete, however far the handlers are with the status bytes and the frame event, is in the buffer, and
nothing they still do moves it.  The steps follow the actors: of the chip only a right CRC and the end of a transmission
are seen in `Link` (`LinkChip`), of the handlers nothing (`LinkIsr`), of the main loop `packet_handle`, `packet_autoack`, a command and `radio_rx`
(`LinkTick`, `LinkProcess`, `LinkRadio`).

*Console.*  The handler edits the line between any two steps of the main loop.  `ConsoleInv` says why this does no harm:
the line is frozen as long as `console_tick` is at it, and empty when it is given up (`Frozen`); what it holds are characters,
and a terminator when the shell gets it (`Kept`); the stores of `console_set_linemode` change something only if a key came in
between (`Fresh`); no interrupt finds a console without a mode (`Modes`); and `EchoMatches` itself is inductive with these: what is shown
is what is held, and stays on the screen from Enter until the shell has it.  From it every step of `Console` is a step of `LineDiscipline`
under the mapping, or leaves its variables alone; `ClearTail` is `Forget`, `ClearEol` is `Start`.

*Uart0.*  `Ahead` is by how much the callers are ahead of the line: characters in the UART and a status bit they may return on,
less the calls that wait.  A key can raise it by one, if it meets the main loop between `Poll` and `Clear`, and a character is lost
when it falls by one; hence `Paid`: `Ahead` and the characters lost are never more than the keys typed.  `Queued` and `Polled` say
when `U0DBUF` may be taken and that a status polled is there.  When one is lost the
UART is full, so `Ahead` is 1 at least: the characters lost are fewer than the keys.

*Shell.*  `ArgvInv`: while a command runs, `argv` holds the beginnings of this line's words (`Pointing`), and `linebuf` has these
words there, so each `Number` or text a command takes is that of its own line.  Four lemmas lead there, as the line does: `StartsIncrease` (words do not overlap),
`CutIs` (what fits the buffer is kept whole), `ArgumentsIs` (the splitting takes at most five), `OverIs` (of an older, longer
line only what lies behind the new one is left).

*Parse.*  The loops are recursive functions; that they exist is proved by well-founded induction for the function at hand (`AfterExist`,
`SumsExist`), and what they compute by taking the shortest prefix that would contradict (`Least`).  `PrefixIs` says what base a
prefix leaves, `DigitStep` that a digit is accepted, `DigitAdded` that cutting to 16 bits at each digit or at the end is the same.

*LcdTerm.*  The drawing operators get a lemma each (`PlotDraws`, `CursorDraws`, `NewlineGoesOn`, `PutcDraws`, `RuboutDraws`): from a
terminal with one cursor, at the next character, in the lowest row, to another such.  For the line, `CharDraws` says what a character adds
to its row, the one that fills it and sends the cursor to the next included, and `RuboutDraws` what a backspace leaves; `Behind` says that
prompt and line stand in the row of the cursor, or in the one above when they fill it, and `Margin` that a prompt comes at the beginning of a row; `Wrapped` and `StepY` are the two
counts, of rows and of display lines, that wrap at different places.

*System.*  `NoWildJump` needs to know what is enabled where: `Dispatch` says that PinkOS enables what it has
stubs for, all of it only after `F1`, and an application what it has vectors for; `Programs`, whose steps are whose;
`Button`, that sleep's steps have taken the other enables away; `ClockInv`, which oscillator each phase has selected, that it is in use
from the wait for CLKCON on, and that both are powered as long as the two differ.

*PinkNet.*  A device has one buffer, so it holds at most one request or acknowledgement (`Places`): `Going` and `Coming` count those on their way,
and `Counted` says that asked, answered and acknowledged differ by at least these, but for `garbled`.  `Made`: each packet that was
sent overwritten was commanded, so no counter reaches its cap (`Small`).  For the led, as long as nothing was overwritten (`LedInv`), `LedPair` says that as
long as `b`'s led is not what `a` wants, or is about to be set otherwise (`Outdated`), one request of `a` is missing from the count,
lost or the `Good` one still on its way; `Stray` counts those on their way that ask for something else.

*SpecAn.*  `Planned`: the channels in force are those of the centre shown, and that centre is one its band allows.
`Calibrated`: so is the entry of `Ch`, whichever it is.  `Asked`: between the key and the correction at the end of the loop, what is
shown is where `set_center_freq` led from `home`.  The lemmas do the arithmetic of the three bands and widths: limits are
multiples of the step, a step beyond a limit leads to the neighbour, the loops of the plan stay inside the band and the display.

*SpecAnScreen.*  `plot` fills a column page by page; `Stage` is the controller after `n` pages, written down, and `RoundIs` that one round leads
from each to the next, so `Stage` is the recursive function of the loop (`PlotIs`).  `ByteIs` and `LitIs` then say which bit
of which byte is set.  `NoStaleBar` is inductive by itself: a bar comes with a sweep of the plan, and what moves the plan clears the display.

*The scale.*  `Blank` and `Waking` take the controller through the commands of `LCDReset` and `LCDPowerSave`, `DataIs` says what a run of data
bytes leaves in a page, `ClearIs` that `LCDClear` leaves nothing.  The rulers: channels stand so close that around a round frequency one is
nearest (`Close`), and `draw_ruler` puts the long mark there (`MarksRound`, one lemma for each width: the spacing differs from the
unit of the ruler by 240 to 2440 Hz, which over 132 channels never adds up to a channel).  The labels: `Place` says where the cursor
stands after so many of them; `LabelStep` and `GapStep` put down a number and a gap behind what is there (`Picture`), `NarrowScale`, `WideScale`
and `UltrawideScale` repeat them as often as the width does, `LabelsAre` reads them off.

*Keyboard.*  `KEY` differs between any two rows (`RowsDiffer`) and columns, so a name that comes out tells which lines were low.  `Fresh`: at
most one contact changes during a scan.  `Pending`: a scan that named a wrong key met a contact closing under it (`Phantom`), and
the next one, `still` counting, does not name it again.  `Steady`: when nothing moves, every scan gives the same, so a key
held comes out of `getkey` once.  None of this counts fingers: two are the bound of the run, not of the proof.

Only model-checked:

* Liveness (`ListensAgain`, `CompleteHandled`, `WaitEnds`, `HeldIsActive`, `PressWakes`, `GoesQuiet`) and the fairness in the
  refinements of `LineDiscipline` and `Link`, which are out of the prover's reach.

Every safety property that a passing run checks is stated by a theorem; so are the types of the modules whose run does not repeat them.

## Not modelled

* The text of messages and the formatting of numbers; bitmaps and fonts.
* RF register values beyond those that decide how the chip behaves; the float
  product that gives the synthesizer its units, and calibration values, in the analyser.
* Busy waits and delays for their length; the SPI, which sends a byte and waits.
* The DMA workaround around the sleep instruction; DEBUG output of `radio.c`, off in the source.
* A frame with length byte 0: the chip has no address to filter it by.
* An event raised between the tests of `rf_isr` and its `RFIF = 0`: the window is a few instructions.
* `console_key_poll` and key mode, which nothing in the sources calls.
* The shell application's own `shell_exec`, which prints the line it is given.
* The host tools (`tools/`): a terminal that passes bytes between serial line and standard streams, and a font converter.

## What is left

A mapping from the devices of `PinkNet` to `Link`: frames as records against frames as bytes.  With `DriverIsLink` it would make "what is
delivered is what was sent" a theorem there instead of the way `Sent` is written.  `Console` covers the dongle only; the
handset's console is checked as part of `LcdTerm`, without a mapping to `LineDiscipline` of its own.
