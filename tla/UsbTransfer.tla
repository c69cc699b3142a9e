------------------------------- MODULE UsbTransfer -------------------------------
(***************************************************************************)
(* The registers and memories of a USB board are reached by transfers over *)
(* three pipes (usb.c): control bytes, data out, data in.  Any transfer    *)
(* may fail, and may have arrived all the same.  The chip on the board is  *)
(* external: the address register is written while it is enabled, other    *)
(* data go to where it points, and what is read was fetched two reads ago, *)
(* "because the chip is double buffered".                                  *)
(***************************************************************************)
EXTENDS PortCall

CONSTANTS
    Block,        \* lines of the data RAM in a transfer: xfer_size / line_size
    Lines,        \* lines of the data RAM
    Ranges        \* the ranges of it that are read and written: start and length

ASSUME UsbAssumption ==
    Block \in Nat \ {0} /\ Lines \in Nat /\ Ranges \subseteq [start : Nat, length : Nat]

VARIABLES
    dev,          \* the chip, its registers and its memory
    pending,      \* the transfers that are left in this step of the call
    result,       \* what the function that makes them returns: 0 or -1
    inbuf,        \* what its reads brought
    ram,          \* what the data RAM should hold
    buffer        \* what usb_read_ram returned

usbVars == <<dev, pending, result, inbuf, ram, buffer>>

Control == 0      \* REG_CONTROL, here the register whose contents are the status
Core == 1         \* REG_PBCORE
RamAddress == 2   \* register 0x12
DataRam == 3      \* BANK_DATARAM
Junk == 0         \* the line before the first of a RAM read

-----------------------------------------------------------------------------
(* Single transfers and what they do to the chip.                          *)

ControlByte(enable) == [pipe |-> "EP1OUT", enable |-> enable, data |-> <<>>]
Out(data) == [pipe |-> "EP2OUT", enable |-> FALSE, data |-> data]
In == [pipe |-> "EP6IN", enable |-> FALSE, data |-> <<>>]

\* The word of REG_PBCORE: data, port, and the load flag.
CoreWord(port, byte, load) == byte + 4 * port + 8 * load
LoadFlag(word) == word \div 8 % 2

Stored(data) ==
    CASE dev.addr = Core -> [dev EXCEPT !.core = data[1]]
      [] dev.addr = RamAddress -> [dev EXCEPT !.line = data[1], !.lead = TRUE]
      [] dev.addr = DataRam ->
            [dev EXCEPT !.ram = [l \in 0 .. Lines - 1 |->
                                   IF l \in dev.line .. dev.line + Len(data) - 1
                                   THEN data[l - dev.line + 1] ELSE @[l]],
                        !.line = @ + Len(data)]
      [] OTHER -> dev

\* A block of the data RAM starts where the last one ended, the first one with
\* a line too many.
NextBlock ==
    LET count == IF dev.lead THEN Block - 1 ELSE Block
        lines == [i \in 1 .. count |->
                    IF dev.line + i - 1 < Lines THEN dev.ram[dev.line + i - 1] ELSE Junk]
    IN  IF dev.lead THEN <<Junk>> \o lines ELSE lines

Fetched ==
    IF dev.addr # DataRam THEN [dev EXCEPT !.fifo = Append(Tail(@), <<status>>)]
    ELSE [dev EXCEPT !.fifo = Append(Tail(@), NextBlock), !.lead = FALSE,
                     !.line = @ + (IF dev.lead THEN Block - 1 ELSE Block)]

\* The chip after a transfer.
Arrived(x) ==
    CASE x.pipe = "EP1OUT" -> [dev EXCEPT !.enabled = x.enable]
      [] x.pipe = "EP2OUT" -> IF dev.enabled THEN [dev EXCEPT !.addr = x.data[1]]
                                             ELSE Stored(x.data)
      [] x.pipe = "EP6IN" -> Fetched

\* A byte comes out when the load flag of REG_PBCORE is set.
Loads(x) ==
    /\ x.pipe = "EP2OUT" /\ ~dev.enabled /\ dev.addr = Core
    /\ LoadFlag(dev.core) = 0 /\ LoadFlag(x.data[1]) = 1

Arrives(x) ==
    /\ dev' = Arrived(x)
    /\ IF Loads(x)
       THEN Delivered([port |-> x.data[1] \div 4 % 2, data |-> x.data[1] % 4], at = "load")
       ELSE UNCHANGED <<got, log>>

InTransfer == UNCHANGED <<board, call, at, calls, ret, status, seen, failed, trust, ram, buffer>>

OsUsbTransfer ==
    /\ pending # <<>>
    /\ Arrives(Head(pending))
    /\ inbuf' = IF Head(pending) = In THEN Append(inbuf, Head(dev.fifo)) ELSE inbuf
    /\ pending' = Tail(pending)
    /\ result' = 0
    /\ InTransfer

\* The first transfer that fails ends the function that makes them.
OsUsbTransferFails ==
    /\ pending # <<>>
    /\ Arrives(Head(pending)) \/ UNCHANGED <<dev, got, log>>
    /\ pending' = <<>>
    /\ result' = -1
    /\ UNCHANGED inbuf
    /\ InTransfer

SetupXfer(addr) == <<ControlByte(TRUE), Out(<<addr>>), ControlByte(FALSE)>>
WriteReg(addr, word) == SetupXfer(addr) \o <<Out(<<word>>)>>
ReadOnce(addr) == SetupXfer(addr) \o <<In>>
Repeat(k, xs) == [i \in 1 .. k * Len(xs) |-> xs[((i - 1) % Len(xs)) + 1]]

\* usb_read_reg reads three times.
ReadRegTwice(addr) == Repeat(2, ReadOnce(addr))
ReadReg(addr) == Repeat(3, ReadOnce(addr))

-----------------------------------------------------------------------------
(* The steps of the calls: the functions they call one after the other.    *)

Starts(xs) == pending' = xs /\ result' = 0 /\ inbuf' = <<>>
Over(l) == at = l /\ pending = <<>>
Keep == UNCHANGED <<dev, ram, got, log>>
Then(l, xs) == Goto(l) /\ Starts(xs) /\ Keep /\ UNCHANGED <<buffer, trust>>
Answers(value) == Return(value) /\ Starts(<<>>) /\ Keep /\ UNCHANGED <<buffer, trust>>

CallUsb(fn, port, data, first, xs) ==
    /\ board = "usb"
    /\ Begin(fn, port, data, first)
    /\ Starts(xs)
    /\ buffer' = <<>>
    /\ UNCHANGED <<dev, ram>>

\* usb_do_outp: the word of REG_PBCORE without and with the load flag.
UsbOutp ==
    \E p \in Port, b \in Byte :
        CallUsb("pb_outp", p, <<b>>, "word", WriteReg(Core, CoreWord(p, b, 0)))

\* The load flag is not cleared before.
LoadCore ==
    /\ Over("word") /\ result = 0
    /\ Then("load", WriteReg(Core, CoreWord(call.port, call.data[1], 1)))

UsbOutpReturns ==
    /\ Over("load") \/ (Over("word") /\ result < 0)
    /\ Answers(result)

UsbReadReg == CallUsb("usb_read_reg", 0, <<>>, "read", ReadReg(Control))

UsbReadRegReturns ==
    /\ Over("read")
    /\ Answers(IF result < 0 THEN result ELSE inbuf[Len(inbuf)][1])

\* Lines that are not those of the call before.
Pattern(length) == [k \in 1 .. length |-> 1 + ((calls + k) % 2)]

\* usb_write_ram and usb_read_ram: what is transferred goes where the first two
\* functions have set it up to go, but nobody looks whether they did.
UsbWriteRam ==
    \E r \in Ranges :
        CallUsb("usb_write_ram", r.start, Pattern(r.length), "address",
                WriteReg(RamAddress, r.start))

UsbReadRam ==
    \E r \in Ranges :
        CallUsb("usb_read_ram", r.start, <<r.length>>, "address", WriteReg(RamAddress, r.start))

Ignoring(l, xs) ==
    /\ Goto(l) /\ Starts(xs) /\ Keep /\ UNCHANGED buffer
    /\ IF result < 0 THEN Distrusted("ignored") ELSE UNCHANGED trust

SetupRam == Over("address") /\ Ignoring("setup", SetupXfer(DataRam))

\* Whole blocks, and what is left over.
Pieces(data) ==
    [i \in 1 .. (Len(data) + Block - 1) \div Block |->
        Out(SubSeq(data, (i - 1) * Block + 1,
                   IF i * Block < Len(data) THEN i * Block ELSE Len(data)))]

WriteBlocks ==
    /\ Over("setup") /\ call.fn = "usb_write_ram"
    /\ Ignoring("write", Pieces(call.data))

WriteRamReturns ==
    /\ Over("write")
    /\ Return(result)
    /\ ram' = IF result < 0 THEN dev.ram
              ELSE [l \in 0 .. Lines - 1 |->
                      IF l \in call.port .. call.port + Len(call.data) - 1
                      THEN call.data[l - call.port + 1] ELSE ram[l]]
    /\ Starts(<<>>)
    /\ UNCHANGED <<dev, got, log, trust, buffer>>

\* num_xfers and excess_xfer count the line that comes first.
NumXfers == (call.data[1] + 1) \div Block
Excess == (call.data[1] + 1) % Block

\* Two blocks to skip, the blocks, the rest, and two to clear the buffers.
ReadBlocks ==
    /\ Over("setup") /\ call.fn = "usb_read_ram"
    /\ Ignoring("blocks",
                Repeat(NumXfers + 2 + (IF Excess = 0 THEN 0 ELSE 1), <<ControlByte(FALSE), In>>)
                \o <<In, In>>)

\* Line j of block i, where the transfer brought that many.
Line(i, j) == IF j <= Len(inbuf[i]) THEN inbuf[i][j] ELSE Junk

\* One block after the other, from the block after those that are skipped on.
\* The first line of the first whole block is skipped as well.
CopiedAfter(skipped) ==
    IF NumXfers = 0 THEN [k \in 1 .. Excess |-> Line(skipped + 1, k)]
    ELSE [k \in 1 .. NumXfers * Block + Excess - 1 |->
             Line(skipped + 1 + k \div Block, (k % Block) + 1)]

\* Only one block is skipped.
CopiedEarly == CopiedAfter(1)
Copied == CopiedAfter(2)

\* reg_read (REG_CONTROL) follows twice, and its result is ignored.
FlushReads ==
    /\ Over("blocks") /\ result = 0
    /\ buffer' = Copied
    /\ Goto("flush") /\ Starts(ReadReg(Control)) /\ Keep
    /\ IF NumXfers = 0 THEN Distrusted("short") ELSE UNCHANGED trust

FlushAgain == Over("flush") /\ Then("flush again", ReadReg(Control))

ReadRamReturns ==
    \/ Over("blocks") /\ result < 0 /\ Answers(-1)
    \/ Over("flush again") /\ Answers(0)

UsbCall == UsbOutp \/ UsbReadReg \/ UsbWriteRam \/ UsbReadRam
UsbStep ==
    \/ OsUsbTransfer \/ OsUsbTransferFails
    \/ LoadCore \/ UsbOutpReturns \/ UsbReadRegReturns
    \/ SetupRam \/ WriteBlocks \/ WriteRamReturns
    \/ ReadBlocks \/ FlushReads \/ FlushAgain \/ ReadRamReturns

\* What is in the two buffers is left from before; the RAM is blank.
UsbInit ==
    /\ ram = [l \in 0 .. Lines - 1 |-> Junk]
    /\ buffer = <<>> /\ pending = <<>> /\ result = 0 /\ inbuf = <<>>
    /\ dev = [enabled |-> FALSE, addr |-> Control, core |-> 0, line |-> 0, lead |-> FALSE,
              ram |-> ram, fifo |-> <<<<Junk>>, <<Junk>>>>]

=============================================================================
