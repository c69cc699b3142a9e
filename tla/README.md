# A TLA+ model of SpinAPI

SpinAPI is the C library that programs SpinCore's pulse generators
(PulseBlaster, PulseBlasterDDS, RadioProcessor) over PCI and USB.  It is
sequential: there are no threads, and a call of the API runs to its end.  What
makes it hard to get right is of another kind.

- All boards share the library's state: one selected board, one instruction
  counter, one register counter, one list of shape periods, one USB device that
  register accesses go to.
- Everything below it may fail or answer late: libusb, the transfers, the
  `/proc` file the PCI cards are counted from, a card's controller.
- Boards are named by a number that is translated again at every use, while
  devices are plugged and pulled.
- Most errors leave a call half done: a session started, a table filled, a
  byte sent.

The models therefore take a call of the API, with every driver call it makes,
as one action, let the environment answer each driver call as it may, and ask
what holds after any sequence of calls.  Below the API, where the library polls
a board that runs on its own, a step is one access to the board.

## Inventory

| Component (source) | State | Operations | Interacts with | Makes it correct |
|---|---|---|---|---|
| Board registry, `spinapi.c` | `num_pci_boards`, `num_usb_devices`, `cur_board`, `board[]` | `pb_count_boards`, `pb_select_board`, `pb_init`, `pb_close`, `pb_core_clock` | both drivers, `get_caps`, `usb_set_device` | an initialised board stays usable until it is closed; what is recorded of it is its own |
| USB sessions, `driver-usb-linux.c` | `handles[]`, `devices[]`, enumeration flag, `num_sessions` | `os_usb_count_devices`, `os_usb_init`, `os_usb_close` | libusb | sessions, handles and references balance; an index keeps its device |
| PCI access, `driver-direct-linux.c`, `utils_linux.c` | `num_cards`, base addresses | `os_count_boards`, `os_init`, port I/O | `/proc`, `iopl` | a card that was initialised can be addressed |
| Capabilities, `caps.c` | one `BOARD_INFO` per board | `get_caps` | register reads of the selected device | the record is the board's, or the call fails |
| Programming, `spinapi.c` | `num_instructions`, `cur_device`, `cur_device_addr`, `cur_dds` | `pb_start_programming`, `pb_inst*`, `pb_set_freq`, `pb_set_phase`, `pb_stop_programming`, `pb_start`, `pb_stop`, `pb_reset`, `pb_select_dds` | `pb_outp`/`pb_outw`, `usb.c` | what is acknowledged is in the board, at the address answered |
| Instruction encoding, `spinapi.c`, `if.c`, `util.c` | none | `pb_inst_pbonly64`, `pb_inst_dds2`, `pb_4C_*`, rounding | programming | an accepted instruction has the requested length and operands |
| USB transfers, `usb.c` | `cur_dev`, the chip's address mode and double buffers | `usb_write_address`, `usb_write_data`, `usb_read_reg`, `usb_read_ram`, ... | libusb bulk transfers | a read answers the register asked for; an error does not poison the next call |
| AMCC handshake, `util.c` | the toggle and counter of the PCI controller | `do_amcc_outp`, `do_amcc_outp_old`, `do_amcc_inp` | port I/O | ends; success means the byte arrived |
| Shape-period registers, `if.c` | `shape_list*`, offsets, `shape_period_array` | `pb_inst_radio_shape`, `pb_inst_dds2_shape`, `pb_set_shape_defaults` | programming, the FIR registers | a register named in an instruction holds the period asked for |
| RadioProcessor configuration, `if.c` | control registers of the board | `pb_setup`, `pb_scan_count`, `pb_overflow`, `pb_get_data`, ... | `reg_read`/`reg_write` | a read-modify-write changes the bits it means to |
| Log, `debug.c` | log file, last error | `debug`, `pb_get_last_error` | all | |
| Interpreter, `interpreter.cpp` | token list, labels, loop stack | parse, program | the API | addresses in branches are those the API answered |

`PROJECT.json` lists every component with its status and every hazard found in
the code at the line where it bites; what is left out, and why, is under "Not
modelled" below.

## Modules

| Module | What it is |
|---|---|
| `UsbSession` | `driver-usb-linux.c`: each driver function as operators from a driver state and libusb's answers to a new state and a result, and the driver on its own as a specification `UsbSpec` |
| `BoardSession` | the registry on top of `UsbSession` and of the PCI driver's outcomes; one action per API call |
| `ProgramStore` | abstract: what programming a board promises |
| `Programming` | programming in detail, for four families of boards; shown to implement `ProgramStore` |
| `Instruction` | what an instruction call sends to each kind of board: capabilities, flag word, delay, count |
| `PortCall` | a call that accesses a board, the part that the two ways of access share |
| `AmccHandshake`, `UsbTransfer` | the two ways: the handshakes of `util.c` and the transfers of `usb.c`, access by access |
| `BytePort` | abstract: what `pb_outp` promises |
| `BoardPort` | the two composed, with the board as a process of its own; shown to implement `BytePort` |
| `ShapeRegs` | the shape periods that all boards share |
| `RadioRegs` | the settings of RadioProcessors that share registers |
| `Interpreter` | `interpreter.cpp`: from tokens to program lines to a loaded board |
| `MC_*` | the instances of each for TLC |
| `*_proofs` | theorems about `UsbSession`, `BoardSession`, `Programming` (with `ProgramStore`), `Instruction`, `BoardPort` (with `BytePort`), `ShapeRegs`, `RadioRegs` and `Interpreter` |

### UsbSession and BoardSession

`usb` is one record with the driver's static variables and `refs`, the
references libusb counts on our behalf.  `CountState`, `InitState` and
`CloseState` are the three functions; `InitResult` and `CountResult` what they
return.  They are operators rather than actions so that `PbInit`, which counts
and then opens, can compose them in one step the way `pb_init` does.  `bus` is
the set of devices plugged in; it changes at any time (`HotPlug`).  libusb may
list the devices of the bus in any order, and each of its calls may fail.

`BoardSession` translates board numbers as the code does: PCI cards first, USB
devices after them, with the counts of the last count.  `board[b]` keeps
`did_init`, whether the clock was set, and where the capabilities came from
(`caps`): the contents of `BOARD_INFO` matter to the properties only by whose
they are.  `cur_dev` is the device `usb.c` accesses; `num_cards` the cards the
PCI driver accepts.  Once an index past `board[]` is selected the code's
behaviour is undefined and the model takes no further step with it (`InTable`).

### Programming

Four families of boards differ in how a word gets to the board, and the model
has the transfers of each:

- `oldpb`: byte by byte through port 6, after writes that reset the board,
  set the word size and the device and clear the board's counter.  Any write may
  fail, with or without having reached the board; the call then returns early.
  `BPW` transfers make a word, and `part` counts those of an incomplete one, so
  that a retry after a failure is out of step exactly as on the board.
- `extreg`: instructions like `oldpb`; frequencies and phases through extended
  registers to the register that `cur_device_addr` names.  Starting to program
  registers sends nothing, and nobody sees a register write fail (`Extended`).
- `pcie`: to an address made of `num_instructions`.
- `usb2` (`usb_method` 2): `usb_write_address` makes three transfers and stops
  at the first failure, which may leave the board's address register enabled
  (`amode`); `usb_write_data` makes one.  The callers look at no result.  These
  are the PulseBlasterDDS boards, firmware `0xE01` to `0xE03`.

The families `extreg` and `usb2` are the boards with DDSs.  Firmware `0xC13`, a
RadioProcessor with `usb_method` 2, and the USB boards `0xC1AA` and `0xC1AB`, which
have no frequency or phase registers, are left out.

`pb_select_dds` knows three kinds of board.  On `usb2` it takes a number from 0 to
`number_of_dds`, which is one too many, and answers 0 also when it ignores the
number; on a RadioProcessor (`extreg`) it sets `cur_dds`, which all boards share,
to 0; the other two refuse.  The DDS too many has no registers: starting to program
them sets the board to address 0, which is no file's (`Nowhere`), and every write of
one is refused.

`hw[b]` is the board: its files, its position, `part` and `amode`.  It is
external, modelled by what the library's transfers assume of it.  File 0 is
the instruction memory; each DDS has a file of frequency registers and one of TX
phase registers.  `pb_set_freq` and `pb_set_phase` are two uses of one operator
and differ in the limit they check (`Limit`): phases are refused unless they are
being programmed, frequencies are not.  A file's
contents are tracked from a successful `pb_start_programming` on, together with
the number of words acknowledged since, and become `Unknown` when nothing can be
promised any more:

- a word was sent to a board that was not being programmed with words of that
  kind, or `pb_start_programming` failed: always;
- `interleaved`: another board was programmed while this one was;
- `lost`: a `usb2` transfer or an extended register write failed;
- `overfull`: more instructions than the memory has.

The last three are members of the constant `Voids`.  With all of them the
promise holds (run `programming`); the runs `program_switch` and `program_lost`
each take one away and find what the documentation says violated.

`ProgramStore` is the promise: a store is begun, things are added to its end and
answered with their address, it may become unknown, and an addition is
acknowledged for nothing only when the store concerned is unknown.  `Implements`
is `ProgramStore`'s specification under the mapping in `Programming`.

### Instruction

Every function that encodes an instruction, as an operator from its arguments to
what is sent and answered: `PbInstRadio` dispatches to `PbInstRadioShape`,
`PbInstRadioShapeCyclops`, `PbInstRpg`, `PbInstDds2` as the code does, and they
end in `PbInstPbonly64` or `PbInstDirect`.  A flag word and an operand are the
sets of their one bits, so that a shift moves a set (`Shift`) and a mask cuts it
(`Slice`).  `Caps` has one record for each way of packing that `get_caps`
distinguishes; limits are numbers of bits.  Delays are in half clock cycles, the
fraction that rounding can tell, and keep the width of the conversion
(`RoundUint`, modulo `DelayRange`, which stands for 2^32).  `pb_bypass_FF_fix` changes the one piece
of state, `has_FF_fix`.

The properties speak of an instruction that was not refused.  Each exception the
code makes is a member of `Voids` with a definition that says when it applies:
fields narrower than the board's registers (`Narrow`), operands
`pb_inst_radio_shape` does not check (`Unchecked`), a function for another
partition (`WrongCall`), estimated limits (`Overrun`), lengths and counts beyond
their words (`length`, `data`), RPG boards, whose delays are sent uncorrected
(`rpg_counter`), and `pb_inst_dds2` on a board without a second DDS, which
answers 0 and sends nothing (`unsupported`).

### PortCall, AmccHandshake, UsbTransfer, BoardPort

One call is in progress at a time (`call`), and `at` is the next access of its
code.  `AmccHandshake` has the three loops of `util.c` poll by poll, with their
counters: `do_amcc_outp` sends the address and then the data, waits for the
toggle after each, and goes on after an address that was never acknowledged;
`do_amcc_inp` waits for a byte and then for its release; `do_amcc_outp_old`
resynchronises, then sends nibbles by a counter the board advances.  The board
is a process (`ChipNext`) that takes, toggles, releases and counts when it
likes, or never.  `UsbTransfer` has the register and RAM protocols: the chip
prepares the next block before it is asked for (`dev.fifo`), so that a register
is read three times and a RAM read discards two blocks.  Any transfer may fail.

`BoardPort` composes them.  `Implements` is `BytePort`, the promise of
`pb_outp`: an acknowledged byte came out at its port, once and in order, a
failed one came out at most once, possibly late.  It is void where the code
itself goes on without knowing (`late`), where a result is ignored (`ignored`),
and for RAM reads of less than a block (`short`), which copy what the chip had
prepared for somebody else.

### ShapeRegs

`shape_list` has the lengths that have a register, per DDS, for all boards
together.  `Take` is the search and the allocation in the three functions that
use shapes; `SetShapePeriod` writes a RadioProcessor's register at once and puts
a DDS board's word into `shape_period_array`, which `pb_stop_programming` flushes
for the board selected then (`Flushed`).  `made` and `program` remember what each
program's instructions selected.  A program is excused from `ShapesFit` if, since
it was begun, another board used the list, the clock changed, a write was lost,
the list was cleared, or programming stopped with another device; each is a
member of `Voids` and a hazard of the code.

### RadioRegs

Each setting of a RadioProcessor is one `reg_read` and one or more `reg_write`s of
a register that other settings share.  A board has a `family`, which decides how
its registers are accessed and where its settings are, and a size of CIC filter
(`cic`).  `asked` is what the calls that were answered with success should have
set, `Unknown` once a hazard of `Voids` came in between:

- `lost`: a USB transfer failed; nobody sees it, and `reg_read` returns what was
  in its variable;
- `amp`: `pb_set_amp` pulses `FORCE_AVG`;
- `memory`: `pb_get_data` returns without switching `PCI_READ` off;
- `direct`: `pb_set_radio_control(RAM_DIRECT)` on an `rpg` board answers 0 and
  changes nothing (`Ignored`), and so does `pb_unset_radio_control`;
- `ored`: a number is ORed into the old one;
- `shared`: an offset bit that `pb_overflow` pulses;
- `first`: `pb_overflow` uses the register address of board 0;
- `partial`: `pb_setup_filters` fails after the bypass was switched;
- `cut`: a decimation above 64K on a board that does not get its high part.

`pb_setup_cic` splits a decimation (`Cic`).  `REG_CIC_CONTROL` has room for 16 bits
of it (`Low`); the rest (`High`) goes to `REG_CIC_CONTROL2` by a second write,
which is made for five firmwares.  A `narrow` board takes 16 bits, a `wide` one 20
and is one of the five (`0xC0F`, `0xC10`, `0xA16`, `0xF02`, `0xF03`), and a `cut`
one takes 20 bits and is not (`0xA17`, `0xF04`, `0xC12`).  On the last kind
`pb_setup_filters` answers a decimation that the board has not got, without a
failure: that is what `cut` excuses.  Registers start at zero, and
`DecimationAsAnswered` compares the answer with what the two registers of the CIC
filter and that of the FIR filter say (`Decimates`).  Nothing is promised of the
decimation while a caller has the filters bypassed by `RAM_DIRECT`.  An `rpg` board
keeps its decimation in one register of 20 bits; `pb_setup_cic` first writes
`REG_CIC_CONTROL` on it too, which is none of the registers here.

### Interpreter

The reader is a state machine over tokens (`phase`), and every token the grammar
distinguishes may come next, so all short files are covered without a file being
chosen in advance.  Loading is one step per line.  Variables stand for whatever
words were assigned to them, of whichever type.  The library is seen through its
promises (`Programming`): an instruction is answered with the counter, or
refused.  `past` excuses a jump to a label behind the last line, and `start` a
load whose `pb_start_programming` failed, which the code ignores.

## Runs

| Run | Shows |
|---|---|
| `board_session` | Every sequence of API calls on one PCI card and two USB boards of different products, all failures and hot-plugging included: sessions are backed by handles (`SessionsBacked`), nothing is open without a session (`NoHandleWithoutSession`), references balance (`NoReferenceLeak`), indices and handles are not confused (`HandleIsEnumerated`, `IndexStable`), an initialised board keeps its device and a session (`InitializedIsOpen`, `SessionPerBoard`), its capabilities are its own (`CapsOfOwnDevice`) and its card can be addressed (`CardsReachable`) |
| `board_reopen` | violation: a board closed while another USB board is open cannot be initialised again |
| `board_table` | violation: a count that fails leaves counts behind that let `pb_select_board` accept an index past `board[]` |
| `programming` | Two boards of different families, all calls in any order, failures and lost transfers: `Positioned` and the refinement `Implements` |
| `program_switch` | violation: addresses are wrong once another board was programmed in between |
| `program_lost` | violation: a failed USB transfer is acknowledged |
| `instructions` | On every kind of board: operands and flags reach their places and no others (`OperandsCarried`, `FlagsCarried`), delays are those asked for (`DelayHonest`) and safe for the core counter (`CounterSafe`), counts are those asked for (`CountHonest`), and an answer is an address exactly when something was sent (`AnsweredIsSent`) |
| `instruction_narrow` | violation: firmware 10-19 has 8 TX phases and a field of two bits for them |
| `board_port` | Writes, reads and RAM accesses against a board that answers, is late, or never answers: `Implements` (`BytePort`), a status answered held during the call (`ReadIsFresh`), RAM is what was acknowledged (`RamHonest`), every call returns (`EveryCallReturns`) |
| `shapes` | A finished program's shape registers hold what its instructions asked for (`ShapesFit`), lengths do not share registers (`OneLengthOneRegister`), and "no more registers" is only said when they are used up (`RefusedOnlyWhenFull`) |
| `interpreter` | A program reported as loaded is in the board line by line (`LoadedWhole`), its jumps go to the lines of their labels (`JumpsLand`) and its loop ends to their loops (`LoopsMatch`) |
| `radio_regs` | Control bits, segments, offset and decimation of each board stay as they were set (`FlagsAsAsked`, `SegmentsAsAsked`, `OffsetAsAsked`, `DecimationAsAnswered`), and a counter that was reset is zero (`ZeroedAreZero`) |

Bounds.

- `BoardSession.cfg`: one PCI card, two devices, tables of two (`MAX_USB`), two
  sessions.  Two USB boards are what it takes for one to disturb the other, and a
  third board number makes the index shift by the PCI card visible;
  `MAX_SESSIONS` must only not be smaller than the tables, as in the code
  (`UINT_MAX` against 128).  `PciMayFail` is `FALSE`: if the PCI file can be
  unreadable at one count, all numbers shift and `SessionPerBoard` fails, which is
  listed as a hazard.  `BoardTable.cfg` has `board[]` smaller than the boards
  present.
- `Programming.cfg`: an `oldpb`, `extreg` or `usb2` board next to a `pcie` one,
  programs of two words, one register of a kind, words of two transfers, at most
  three instructions (`MaxInstructions`, which bounds `num_instructions`): enough
  for an order, for a full file, for a word cut in half and for a counter that is
  off by one.  The `pcie` board depends most on the counters, and the other board
  of a pair sees them changed by it.  `Devices` limits which register file is
  started on which family (frequencies on `oldpb`, TX phases on the others), while
  both `pb_set_freq` and `pb_set_phase` are called on all.  `pb_select_dds` is
  called with every number from one below the smallest to one above the largest it
  takes.  Data are interchangeable, hence the symmetry.  An `extreg` board next to a
  `usb2` one, where selecting a DDS on the first resets that of the second, is too
  large to run with the transfers of both; the theorems cover it.
- `Instruction.cfg`: words of 6 bits for delays and 3 for counts, and an `FF` of
  3 ones, so that lengths of 0 to 75 cycles wrap, end in `FF` and round in both
  directions.  Operands are tried one bit at a time, with all bits, and all fields
  together: the packing is a union over bits, so an overlap or a cut shows on a
  single one.
- `BoardPort.cfg`: two calls, three of the old handshake (one that fails, one that
  repairs, one after), with limits of 2 polls (`MaxRecv`), 3 resynchronisations and
  2 polls of a nibble, where the code has hundreds: what matters is that each limit
  can be reached and just not be reached.  RAM blocks of three lines and ranges of
  less than one, one, more than one and two partial blocks.
- `ShapeRegs.cfg`: two boards of each pair of kinds, two registers and three
  lengths (one too many), two clocks, nine calls.
- `Interpreter.cfg`: three lines, two labels, two names, one variable, two files
  one after the other: a loop in a loop needs three lines, a counter left behind a
  second file.  Two loops that are both closed in one program need four; the
  theorem `LoopsAreMatched` covers those, of any depth.
- `RadioRegs.cfg`: an `rpg` board next to another, a `cut` or `wide` PCI board or a
  `wide` USB board, four calls: one to set, one to disturb, one to select another
  board and one to set again.  Of the decimations 100, 65536 and 65636, the first
  and the last have the same low half, so that a high half that was not written or
  is left from before shows, and 65536 fits the low register (as 65535) but not the
  limit of a `narrow` board.

Deadlock is checked where the system goes on for ever (boards, programming,
instructions).  It is not in `BoardPort`, `ShapeRegs`, `Interpreter` and
`RadioRegs`, whose behaviours end when the bounded number of calls or files has
been used up.

Fairness.  `BoardPort` assumes `WF_vars(Step)`: the one thread that is inside a
library call takes its next step, which is what a running program does; no lock
or callback can hold it.  Nothing is assumed of the board, which may stay silent
for ever, and nothing of the caller, who need not call.  Under this every call
returns because each loop counts down a limit of its own, also
`do_amcc_outp_old`, whose limits are reset by what the board does.  The other
modules take a whole call as one step, and nothing in them waits.

Hazards that are excused.  Where the code itself goes wrong in a case, a run with
that case would end at it.  Such a case is a member of `Voids`, its hazard in
`PROJECT.json` has a note instead of properties, and the properties say what holds
besides: a retry after a word was cut in half, the list of shape periods after a
switch of boards or of clocks, the late answer of the newer AMCC controller,
`reg_read` after a lost transfer, numbers ORed into old ones, the address of
`pb_overflow` taken from board 0, a start of programming that the interpreter does
not look at, and the high half of a decimation that is not written.

## Proofs

Each theorem module extends the module it is about.  All theorems hold for any
values of the constants that satisfy the modules' assumptions; no number of
boards, devices, lines, registers or calls is fixed.  The runs had checked the
properties before on small instances.  A theorem that depends on hazards being
excused says so as an assumption (`"x" \in Voids`), and names only the hazards its
proof uses: what the runs check with all members of `Voids` together is proved
hazard by hazard.

`UsbSession_proofs`.  `UsbInv` is an invariant of `UsbSpec`, and from it follow
the four invariants and the action property of the driver.  The properties are
not inductive one by one: that an init which fails at its last step leaves things
balanced needs that an open handle lies inside the enumerated table
(`HandleIsEnumerated`), that the table names no device twice, so that a release
gives back what was taken (`Held`), and that sessions do not outnumber handles.
`IInv(u)` is their conjunction as a predicate of a driver state; each driver
function preserves it (`CountPreserves`, `StartPreserves`, `OpenPreserves`,
`ClosePreserves`, `InitPreserves`).

`BoardSession_proofs` reuses these lemmas, since `pb_init` composes the same
functions.  `RegistryTypeOK` and `DriverUnderRegistry` carry types and driver
invariants over to the registry.  `BoardsStayOpen` and `SessionsPerBoard` say
that an initialised USB board keeps a claimed handle, and that each one has a
session; both need that the split between PCI and USB numbers has not moved since
a board was initialised (`SplitKnown`).  `CapsAreOwn` and `CardsAccepted` add
`CapsInv`: a driver with a session does not enumerate again, so the device that
`pb_init` opens is the one whose capabilities are recorded, if `cur_dev` was set
to the selected board (`SelectionTold`).  All four assume `~PciMayFail`: when the
PCI file cannot be read at one count they are false.

`Programming_proofs`.  `Inv` is the types and, for each board, `Agree`: what the
library's counters and the board have in common.  A file whose contents are known
has as many acknowledged words as the library counted; a board that takes words
one after the other stands there with no part of a word, in that file, with its
address register closed; an address register that was left enabled has voided
everything (`amode`), and only on `usb2`.  The transfers of a call are
described by what each chain of them does (`Takes`, `WrittenFacts`, `DataTakes`),
and each call by one lemma per outcome (`WordStep`, `BrokenStep`, `StartedStep`).
From `Inv` follow `Positioned` (`BoardsPositioned`) and two action properties.
`AcknowledgedStored` and `AddressIsReturned` are the sentences of the
documentation that the runs `program_lost` and `program_switch` find violated:
with all three hazards excused they hold, so those hazards are the only reasons.
`ProgrammingImplementsStore` is the refinement of `ProgramStore`, in which each
action is mapped to `Begin`, `Add`, `Forget` or a stutter.

`BoardPort_proofs` says, for each point of the code between two accesses, what it
knows of the board there.  `TypeInv` are the types, which step belongs to which
call, and the limits; `PortTypes` needs no more.  The rest compares code and
board.  Over USB (`UsbSync`), `k` transfers of the step's list have arrived, and
the chip is where they took it: each of the three reads of a register brings one
more value of this call into the chip's buffers, which is why `usb_read_reg` reads
three times.  On the newer AMCC boards (`AmccSync`) the code and the controller are in
one of the positions of the handshake that a word, an acknowledgement, a byte or a
release leads to; this holds until a wait is given up.  On the older boards
(`OldSync`) the number of nibbles that were sent, the controller's counter and the
tag of the nibble it waits for agree, and give-ups need no excuse: the next call
resynchronises.  `StatusIsFresh` and `BytesDelivered` assume `"late" \in Voids`.
Without it both are false: `do_amcc_outp` and `do_amcc_inp` leave an unanswered
word in the mailbox, and nothing in the code tells a late answer to it from the
answer to the next one.  The hypothesis takes nothing away from USB and
`amcc_old`, whose steps never withdraw trust for that reason.  For the refinement
each step is shown to begin a call, to deliver the byte, to leave a failed one to
come out later, to answer, or to stutter (`NextPromise`).

`RamSync` adds the memory.  While `k` transfers of `usb_write_ram` have arrived,
the RAM is what it should be with the first `k` blocks of the data laid over it
(`Overlaid`), and the chip's line stands behind them.  While `m` reads of
`usb_read_ram` have come, the chip's two buffers and `inbuf` hold consecutive
blocks from the start address on (`Fetching`), `inbuf` two blocks behind and
everything one line behind: hence the two blocks and the one line that the code
skips.  `CopiedIsWanted` is the arithmetic of what is left of them, for any size of
block.  `RamIsHonest` excuses an ignored failure of a setup and a read of less than
a block (`"ignored"`, `"short"`), without which it is false, and takes ranges to lie
in the RAM (`\A r \in Ranges : r.start + r.length <= Lines`): the code does not
look, and what a board does with lines it does not have is not known.

`ShapeRegs_proofs`.  `ListInv`: an entry of the list stands for a length that was
made, in its place, and the words in `shape_period_array` and in registers were
made for them.  `RefusedOnlyWhenFull` needs `"refused"`, since a refused
instruction uses up a register.  `SelectInv` adds that what an open program
selects is still in the list: the list only grows (`Later`) unless it is cleared,
hence `"cleared"` for `OneLengthOneRegister`.  `FitInv` adds where the words are
while a program is open and afterwards; `ShapesFit` needs all five hazards.

`RadioRegs_proofs`.  A call is a chain of accesses; `Leaves(T, r, z)` says that
every outcome of the chain `T` that lost no access leaves the registers `r` and
has reset the counters `z`.  `Inv` compares registers with `asked`, each part under
the hazards it needs: `lost` for all of them, `amp`, `memory`, `direct` and
`partial` for flags and decimation, `cut` for the decimation as well, `ored` for
segments and offset, `shared` for the offset, `first` for the counters.  The
decimation is put together again from the two halves that `Cic` writes
(`CicLeaves`), for any decimation in the board's range.

`Interpreter_proofs`.  `TypeInv` follows the reader through its phases.  `Marks`
ties each label to the line it stands on, `Jumps` each BRANCH sent to a label of
its name, `Addresses` each answer to its line.  `Loops` is the part that needs an
idea: `Depth` counts how many more LOOPs than END_LOOPs lie between two
instructions.  `OpenLoops` says that the stack holds exactly the loops that are
still open, each at the depth of what lies above it, and `ClosedLoops` that a
closed loop has negative depth relative to it.  Hence the top of the stack is the
nearest LOOP with depth 0, which is what "its loop" means in `LoopsMatch`.
Three of the theorems need `"start"`; jumps need `"past"` as well.

`Instruction_proofs` goes through the functions bottom up: `CountSent` and
`DirectRight` for what reaches the board, `Converted` and `Corrected` for the
rounding and the FF fix, then a lemma for each function of the API
(`Pbonly64Right` to `Core4StopRight`), collected in `ResultEncoded`.  `Inv`
remembers that `sent` is the encoding of `call`.  Each theorem needs one hazard:
`unsupported` for addresses, `length` for delays, `rpg_counter` for the counter,
`data` for counts, `narrow` for flags.  `OperandsAreCarried` rests on two facts
about each of eleven partitions: no two slices share a bit (`Sliced`), and an operand
that the board's limits accept has a place for each of its bits (`Room`).  `RadioFits`
and `DdsFits` say which board has which partition and limits.  On the three boards
whose limits exceed their words the property is excused (`NarrowBoardsAre`), on the
rf boards, whose limits are estimates, operands must fit (`TworfCarried`), and the
others refuse.  The theorem takes enabling operands to be 0 or 1 and shapes to be one
of 8 (`Encodable`), as the headers ask; all operands the run tries are such.

The assumptions are those of the modules, which TLC evaluates in the runs:
finitely many devices, product ids that are not 0, tables that are not empty, a
session limit not below the table size, PCI cards that fit `board[]`
(`BoardSession`); memories and words that are not empty, at least one DDS, an
`Unknown` that is neither a datum nor a memory's contents (`Programming`); at
least one register and one clock (`ShapeRegs`); boards that `Caps` describes, words
that hold something (`Instruction`); a poll at least (`MaxRecv`), limits that are
numbers, blocks of at least one line and ranges of lines (`BoardPort`).

Some definitions were changed so that they could be reasoned about, or because a
proof did not go through.  `FileOf` of `Programming` had two overlapping arms of a
CASE, so that TLC's choice was one of two the definition allowed; it is an IF now.
`Marked` of `Interpreter` takes the last label by `SelectLastInSeq`, like the
loop in `program`.  The widths of words in `Instruction` are ranges, since the
provers know nothing about powers of two.  `TypeOK` of `BoardPort` bounds each wait
by its own limit instead of by a number that fits the instance.  `Copied` says line
by line what `usb_read_ram` copies; it concatenated the blocks before, and a fold
over a sequence is induction over data.

Model-checked only: `EveryCallReturns` of `BoardPort`, which is liveness under
fairness and out of the provers' reach, and the violations.  All invariants, action
properties and refinements that the passing runs check are theorems.

## Not modelled

- `pb_set_phase` for the other channels, RPG boards in `Programming`,
  `pb_set_pulse_regs`, the interrupt masks and `pb_set_isr`: single register
  writes without state in the library.
- Table loading (`pb_dds_load`, `pb_load_coef_file`, `pb_dds_set_envelope_freq`),
  `pb_set_num_points`, `pb_fft` and the file writers: numerics and output.
- `os_usb_reset_pipes` and `usb_reset_gpif`: what clearing a halted pipe does is up
  to the chip.
- `set_pts` and the PTS devices (`spinapi.c` from line 2016): one message to
  another device over another driver, without state in between.
- In `UsbTransfer` and `AmccHandshake`: the `char` that `pb_inp` returns, in which a
  status byte from 0x80 on is negative and looks like an error (a status is one of
  two values there), and the error of `usb_read_ram` and `usb_write_ram` for a
  length that is not a multiple of the line size, which comes before any transfer.
- `debug.c`; the Windows and stub drivers, which implement the same interface for
  another system; the interpreter's command line and GUI (`gui.cpp`); examples.
- Vendored headers (`winddk.h`, `ntstatus.h`, `libusb.h`, `ftd2xx.h`) and the
  headers' tables make up about half of the repository's lines.  They contain
  declarations and nothing that changes state, which is why the share of all lines
  that the modules cover stays small although the library's own logic is covered.

## Plan

Done: all modules above and their proofs.  Left: nothing of what the runs check
but liveness.
