----------------------------- MODULE Registers -----------------------------
(***************************************************************************)
(* How enc28j60.cpp reaches the chip's registers.  They lie in four banks; *)
(* the driver remembers in Enc28j60Bank which one it selected last, while  *)
(* soft resets and plain writes of ECON1 change the chip's own choice      *)
(* behind its back, and a restart of the board resets the one, not the     *)
(* other.  Every call of the library is a sequence of accesses, and the    *)
(* chip, or a watchdog reset, may come between any two of them.            *)
(*                                                                         *)
(* Of the registers' contents only the bits some loop or later call looks  *)
(* at are kept: `bits' is the set of those that are 1.                     *)
(***************************************************************************)
EXTENDS Naturals, Sequences

CONSTANT MaxReboots \* a bound
ASSUME RebootsAssumption == MaxReboots \in Nat

VARIABLES
  Enc28j60Bank,      \* the bank the driver believes to be selected
  bsel,              \* ECON1's BSEL1 and BSEL0: the bank that is
  bits,              \* the bits that are 1
  hung,              \* the transmission under way will not end by itself
  broadcast_enabled, \* the sketch wants broadcasts, not only DHCP
  window,            \* history: DHCP has broadcasts enabled for a time,
  overruled,         \* and the sketch has disabled them since
  multicast,         \* history: the sketch wants multicasts
  call, todo,        \* the call last made and the accesses it still has to make
  up,                \* initialize() was the last to reset the chip
  reboots            \* counts up to MaxReboots
asked == <<broadcast_enabled, window, overruled, multicast>>
driver == <<Enc28j60Bank, asked, call, todo, up, reboots>>
regVars == <<driver, bsel, bits, hung>>

AllBanks == {"EIE", "EIR", "ESTAT", "ECON2", "ECON1"}
\* The bank bits of a register's address; those of AllBanks are 0.
BankOf(r) ==
  CASE r \in {"EHT0", "EPMM0", "EPMCS", "ERXFCON", "EPKTCNT"} -> 1
    [] r \in {"MACON1", "MACON2", "MACON3", "MABBIPG", "MAIPG", "MAMXFL",
              "MICMD", "MIREGADR", "MIWR", "MIRD"} -> 2
    [] r \in {"MAADR", "EBSTSD", "EBSTCON", "EBSTCS", "MISTAT", "EREVID"} -> 3
    [] OTHER -> 0
AfterReset == {"UCEN", "CRCEN", "BCEN", "CLKRDY"}

----------------------------------------------------------------------------
(* Accesses.  Through SetBank (banked) or with readOp and writeOp alone;   *)
(* they set some bits, clear some, or repeat while some bit is 1.          *)

Access(r, banked, on, off, while) ==
  [kind |-> "access", reg |-> r, banked |-> banked, on |-> on, off |-> off, while |-> while]
Reg(r)        == Access(r, TRUE, {}, {}, {})    \* readRegByte, writeReg, SetBank
RegSet(r, b)  == Access(r, TRUE, {b}, {}, {})   \* a read and a write of the rest
RegClr(r, b)  == Access(r, TRUE, {}, {b}, {})
While(r, b)   == Access(r, TRUE, {}, {}, {b})
OpSet(r, b)   == Access(r, FALSE, {b}, {}, {})
OpClr(r, b)   == Access(r, FALSE, {}, {b}, {})
OpWhile(r, b) == Access(r, FALSE, {}, {}, {b})
OpOn(r)       == Access(r, FALSE, {}, {}, {})
Special(kind, r) == [Reg(r) EXCEPT !.kind = kind]

enableBroadcast == <<Reg("ERXFCON"), RegSet("ERXFCON", "BCEN")>>
disableBroadcast == <<Reg("ERXFCON"), RegClr("ERXFCON", "BCEN")>>

readPhyByte == <<Reg("MIREGADR"), RegSet("MICMD", "BUSY"), While("MISTAT", "BUSY"), Reg("MICMD"), Reg("MIRD")>>
writePhy == <<Reg("MIREGADR"), RegSet("MIWR", "BUSY"), While("MISTAT", "BUSY")>>

SoftReset == <<Special("reset", "ECON1"), Special("clock", "ESTAT")>>

\* Mutant: the filter first.
initialize_FilterFirst ==
  SoftReset \o enableBroadcast
  \o <<Reg("ERXST"), Reg("EPMM0"), Reg("MACON1")>> \o writePhy \o <<OpSet("ECON1", "RXEN")>>
initialize ==
  SoftReset
  \o <<Reg("ERXST"), Reg("ERXRDPT"), Reg("ERXND"), Reg("ETXST"), Reg("ETXND")>>
  \o enableBroadcast
  \o <<Reg("EPMM0"), Reg("EPMCS"), Reg("MACON1"), Reg("MACON2"), OpOn("MACON3"), Reg("MAIPG"),
       Reg("MABBIPG"), Reg("MAMXFL"), Reg("MAADR")>>
  \o writePhy
  \o <<Reg("ECON1"), OpOn("EIE"), OpSet("ECON1", "RXEN"), Reg("EREVID")>>

packetSend == <<Special("idle", "ECON1"), Reg("EWRPT"), Reg("ETXND"), OpSet("ECON1", "TXRTS")>>
packetReceive == <<Reg("EPKTCNT"), Reg("ERDPT"), Reg("ERXRDPT"), Special("dec", "ECON2")>>

\* Mutant: reception goes on while the driver waits for its end.
powerDown_StillListens ==
  <<While("ESTAT", "RXBUSY"), While("ECON1", "TXRTS"), OpClr("ECON1", "RXEN"),
    OpOn("ECON2"), OpSet("ECON2", "PWRSV")>>
powerDown ==
  <<OpClr("ECON1", "RXEN"), While("ESTAT", "RXBUSY"), While("ECON1", "TXRTS"),
    OpOn("ECON2"), OpSet("ECON2", "PWRSV")>>
powerUp == <<OpClr("ECON2", "PWRSV"), Special("clock", "ESTAT"), OpSet("ECON1", "RXEN")>>

\* One of the two memory tests: fill, wait, checksum, compare.
Fill == Access("EBSTCON", TRUE, {"TME", "BISTST"}, {}, {})
Test ==
  <<Fill, OpWhile("EBSTCON", "BISTST"),
    OpClr("EBSTCON", "TME"), OpSet("ECON1", "DMAST"), Reg("EDMACS"), OpWhile("ECON1", "DMAST"),
    Reg("EDMACS"), Reg("EBSTCS")>>
\* The first test with what comes before it; if it fails, doBIST returns.
FirstTest == SoftReset \o <<Special("zero", "ECON1"), Reg("EDMAST"), Reg("EDMAND"), Reg("ERXND")>> \o Test
doBIST == FirstTest \o <<OpClr("EBSTCON", "TME"), Reg("EBSTSD")>> \o Test

Calls == [
  initialize |-> initialize, packetSend |-> packetSend, packetReceive |-> packetReceive,
  packetReceive_None |-> <<Reg("EPKTCNT")>>, isLinkUp |-> readPhyByte,
  copyout |-> <<Reg("EWRPT")>>, copyin |-> <<Reg("ERDPT")>>, peekin |-> <<Reg("ERDPT")>>,
  powerDown |-> powerDown, powerUp |-> powerUp,
  enableBroadcast |-> enableBroadcast, enableBroadcast_temporary |-> enableBroadcast,
  disableBroadcast |-> disableBroadcast, disableBroadcast_temporary |-> disableBroadcast,
  enableMulticast |-> <<Reg("ERXFCON"), RegSet("ERXFCON", "MCEN")>>,
  disableMulticast |-> <<Reg("ERXFCON"), RegClr("ERXFCON", "MCEN")>>,
  doBIST |-> doBIST, doBIST_fails |-> FirstTest ]

\* Power-on; begin() calls initialize(), whose enableBroadcast() is for good.
RegInit ==
  /\ Enc28j60Bank = 0 /\ bsel = 0 /\ bits = AfterReset /\ hung = FALSE
  /\ broadcast_enabled = TRUE /\ window = FALSE /\ overruled = FALSE /\ multicast = FALSE
  /\ call = "initialize" /\ todo = initialize /\ up = FALSE /\ reboots = 0

----------------------------------------------------------------------------
(* Making the accesses.                                                    *)

op == Head(todo)

\* Two writes to ECON1 unless the bank is believed to be selected.
SetBank(r) ==
  IF BankOf(r) = Enc28j60Bank THEN UNCHANGED <<bsel, Enc28j60Bank>>
  ELSE bsel' = BankOf(r) /\ Enc28j60Bank' = BankOf(r)
NoSetBank == UNCHANGED <<bsel, Enc28j60Bank>>

Done == todo' = Tail(todo) /\ up' = (up \/ (call = "initialize" /\ Len(todo) = 1))
Again == UNCHANGED <<todo, up>>
Rest == UNCHANGED <<asked, call, reboots>>

\* A register is read or written, or its bits tested once more.
Reach ==
  /\ todo # <<>> /\ op.kind = "access"
  /\ IF op.banked THEN SetBank(op.reg) ELSE NoSetBank
  /\ IF op.while \cap bits = {} THEN Done ELSE Again
  /\ bits' = ((bits \ op.off) \cup op.on)
             \ IF "PWRSV" \in op.on THEN {"CLKRDY"} ELSE {}
  /\ UNCHANGED hung /\ Rest

\* The reset, and the 2 ms in which the clock starts (external).
Resets ==
  /\ todo # <<>> /\ op.kind = "reset"
  /\ bsel' = 0 /\ UNCHANGED Enc28j60Bank
  /\ bits' = AfterReset /\ hung' = FALSE
  /\ Done /\ Rest

\* `!x & ESTAT_CLKRDY' is (!x) & 1: the loop ends with any bit of ESTAT.
\* powerUp reads it through SetBank, a reset without.
AwaitsClock ==
  /\ todo # <<>> /\ op.kind = "clock"
  /\ IF call = "powerUp" THEN SetBank("ESTAT") ELSE NoSetBank
  /\ IF bits \cap {"CLKRDY", "RXBUSY", "INT"} # {} THEN Done ELSE Again
  /\ UNCHANGED <<bits, hung>> /\ Rest

\* Mutant: as powerDown, without a look at the error flag.
AwaitsIdle_NoReset ==
  /\ todo # <<>> /\ op.kind = "idle"
  /\ IF "TXRTS" \notin bits THEN Done ELSE Again
  /\ NoSetBank /\ UNCHANGED <<bits, hung>> /\ Rest
\* packetSend's loop: TXRTS without a bank, TXERIF with one; TXRST ends the
\* transmission and leaves TXERIF as it is.
AwaitsIdle ==
  /\ todo # <<>> /\ op.kind = "idle"
  /\ IF "TXRTS" \notin bits THEN Done /\ NoSetBank /\ UNCHANGED <<bits, hung>>
     ELSE /\ Again /\ SetBank("EIR")
          /\ IF "TXERIF" \in bits THEN bits' = bits \ {"TXRTS"} /\ hung' = FALSE
             ELSE UNCHANGED <<bits, hung>>
  /\ Rest

\* PKTDEC: INT stays while there are more frames.
Decrements ==
  /\ todo # <<>> /\ op.kind = "dec"
  /\ bits' \in {bits, bits \ {"INT"}}
  /\ NoSetBank /\ Done /\ UNCHANGED hung /\ Rest

\* writeRegByte(ECON1, 0): SetBank, and then BSEL is 0 as well.
Zeroes ==
  /\ todo # <<>> /\ op.kind = "zero"
  /\ bsel' = 0 /\ Enc28j60Bank' = 0
  /\ bits' = bits \ {"RXEN", "TXRTS", "DMAST"}
  /\ Done /\ UNCHANGED hung /\ Rest

Execute == Reach \/ Resets \/ AwaitsClock \/ AwaitsIdle \/ Decrements \/ Zeroes

----------------------------------------------------------------------------
(* The sketch and its resets.                                              *)

\* What a sketch may ask for: after doBIST, initialize; of a sleeping chip,
\* to wake it.
MayCall(c) ==
  IF c \in {"initialize", "doBIST", "doBIST_fails"} THEN TRUE
  ELSE /\ up
       /\ ("PWRSV" \in bits) = (c = "powerUp")
       /\ c = "packetReceive" => "INT" \in bits

\* Mutant: the end of DHCP's turn takes the sketch's broadcasts away.
Accesses_Always(c) == Calls[c]
\* disableBroadcast leaves the filter alone while the sketch wants broadcasts.
Accesses(c) ==
  IF c = "disableBroadcast_temporary" /\ broadcast_enabled THEN <<>> ELSE Calls[c]

Call(c) ==
  /\ todo = <<>> /\ MayCall(c)
  /\ call' = c /\ todo' = Accesses(c)
  /\ broadcast_enabled' = CASE c \in {"initialize", "enableBroadcast"} -> TRUE
                            [] c = "disableBroadcast" -> FALSE
                            [] OTHER -> broadcast_enabled
  /\ window' = CASE c = "enableBroadcast_temporary" -> TRUE
                 [] c = "disableBroadcast_temporary" -> FALSE
                 [] OTHER -> window
  /\ overruled' = (c = "disableBroadcast" \/ (overruled /\ c # "enableBroadcast_temporary"))
  /\ multicast' = (c = "enableMulticast" \/ (multicast /\ c \notin {"initialize", "disableMulticast"}))
  /\ up' = (up /\ c \notin {"initialize", "doBIST", "doBIST_fails"})
  /\ UNCHANGED <<Enc28j60Bank, bsel, bits, hung, reboots>>

\* The board restarts, the chip does not: begin() is called again.
Reboot ==
  /\ reboots < MaxReboots /\ reboots' = reboots + 1
  /\ Enc28j60Bank' = 0 /\ broadcast_enabled' = TRUE
  /\ window' = FALSE /\ overruled' = FALSE /\ multicast' = FALSE
  /\ call' = "initialize" /\ todo' = initialize /\ up' = FALSE
  /\ UNCHANGED <<bsel, bits, hung>>

----------------------------------------------------------------------------
(* The chip (external).                                                    *)

RxBegins == "RXEN" \in bits /\ bits' = bits \cup {"RXBUSY"} /\ UNCHANGED hung
RxEnds == "RXBUSY" \in bits /\ bits' \in {bits \ {"RXBUSY"}, (bits \ {"RXBUSY"}) \cup {"INT"}} /\ UNCHANGED hung
TransmitEnds ==
  /\ "TXRTS" \in bits /\ ~hung
  /\ \/ bits' \in {bits \ {"TXRTS"}, (bits \ {"TXRTS"}) \cup {"TXERIF"}} /\ UNCHANGED hung
     \/ bits' = bits \cup {"TXERIF"} /\ hung' = TRUE
Ends(b) == b \in bits /\ bits' = bits \ {b} /\ UNCHANGED hung
ClockStarts == "PWRSV" \notin bits /\ "CLKRDY" \notin bits /\ bits' = bits \cup {"CLKRDY"} /\ UNCHANGED hung

Runs(A) == A /\ UNCHANGED <<bsel, driver>>
Timed == {"BUSY", "BISTST", "DMAST"}

RegNext ==
  \/ Execute \/ Reboot
  \/ \E c \in DOMAIN Calls : Call(c)
  \/ Runs(RxBegins) \/ Runs(RxEnds) \/ Runs(TransmitEnds) \/ Runs(ClockStarts)
  \/ \E b \in Timed : Runs(Ends(b))

\* The program runs on, and the chip ends what it began.
RegSpec ==
  /\ RegInit /\ [][RegNext]_regVars /\ WF_regVars(Execute)
  /\ WF_regVars(Runs(RxEnds)) /\ WF_regVars(Runs(TransmitEnds)) /\ WF_regVars(Runs(ClockStarts))
  /\ \A b \in Timed : WF_regVars(Runs(Ends(b)))

----------------------------------------------------------------------------
Bits == AfterReset \cup Timed \cup {"RXEN", "TXRTS", "TXERIF", "TME", "PWRSV", "RXBUSY", "INT", "MCEN"}

\* Types; a transmission hangs only with its error flag set.
RegTypeOK ==
  /\ {Enc28j60Bank, bsel} \subseteq 0 .. 3 /\ bits \subseteq Bits
  /\ {hung, broadcast_enabled, window, overruled, multicast, up} \subseteq BOOLEAN
  /\ call \in DOMAIN Calls /\ reboots \in 0 .. MaxReboots
  /\ \E n \in 0 .. Len(Calls[call]) : todo = SubSeq(Calls[call], n + 1, Len(Calls[call]))
  /\ hung => {"TXRTS", "TXERIF"} \subseteq bits

\* Every access reaches the register it names, through all the resets of the
\* chip and of the board: the bank selected is the register's, also where the
\* code uses readOp and writeOp on the strength of an earlier SetBank.
ReachesRegister ==
  [][Reach /\ op.reg \notin AllBanks => bsel' = BankOf(op.reg)]_regVars

\* Between calls the receive filter is what was asked for: frames for the
\* board always, multicasts as the sketch said last, broadcasts while the
\* sketch or DHCP wants them, in whatever order they ask.  There is one
\* exception, and it is the code's: the sketch's own disableBroadcast() also
\* ends what DHCP has asked for and still waits for (enc28j60.cpp:512-516),
\* until DHCP asks again.
FilterKept ==
  /\ RegTypeOK
  /\ up /\ todo = <<>> =>
       /\ {"UCEN", "CRCEN"} \subseteq bits
       /\ "MCEN" \in bits <=> multicast
       /\ "BCEN" \in bits <=> broadcast_enabled \/ (window /\ ~overruled)

\* The chip is put to sleep only when it neither receives nor sends, and
\* nothing new can begin.
SleepsQuiet ==
  [][ "PWRSV" \in bits' /\ "PWRSV" \notin bits => bits \cap {"RXEN", "RXBUSY", "TXRTS"} = {} ]_regVars

\* Every call returns, unless powerDown() meets a transmission that hangs: it
\* waits for TXRTS without the look at TXERIF that packetSend() takes.
Stuck == call = "powerDown" /\ hung
CallsEnd == todo # <<>> ~> todo = <<>> \/ Stuck
=============================================================================
