------------------------------- MODULE Eeprom -------------------------------
(***************************************************************************)
(* rw_helpers.ino: seven bytes of EEPROM (state, the four bytes of         *)
(* target_ip, a CRC-16), rewritten in place, byte by byte and only where   *)
(* they change, with nothing but the CRC to tell a save that was cut short *)
(* by a power loss.  (The watchdog cannot cut it: its interrupt is held    *)
(* off by cli().)  A byte is assumed to be written entirely or not at all. *)
(***************************************************************************)
EXTENDS Naturals

CONSTANTS
  crc_calc(_), \* the CRC of a sequence of bytes
  States,   \* values of the byte state
  Ips,      \* values of target_ip, four bytes each
  Default,  \* [state |-> 0, ip |-> allOnes], taken when the CRC fails
  MaxTorn   \* bound on the saves cut short in a row, before one is completed: a
            \* second can complete again what there was before the first

ASSUME DataAssumption ==
  /\ States \subseteq 0..255
  /\ Ips \subseteq [1..4 -> 0..255]
  /\ Default \in [state : States, ip : Ips]
  /\ MaxTorn \in 0..1

Data == [state : States, ip : Ips]
SIZE == 7
Memory == [1..SIZE -> 0..255]

VARIABLES
  image,    \* the EEPROM
  ram,      \* state and target_ip
  pc,       \* "off", "run", or "write" inside saveStateToEeprom
  next,     \* the byte the writing loop looks at
  new,      \* eeprom_new
  kept,     \* the data of the last load, or of the last save since that ended
  mayLoad,  \* what a restart may find: kept or, while a save is under way or
            \* when it was cut short, its data or Default as well
  torn      \* how many saves were cut short since the image was last intact
eepromVars == <<image, ram, pc, next, new, kept, mayLoad, torn>>

----------------------------------------------------------------------------
(* The bytes saved, and what a tear can leave of them.                     *)

\* crc_write: the low byte first, so that the CRC of all seven bytes is 0.
crc_write(bytes) ==
  LET crc == crc_calc(bytes)
  IN [k \in 1..SIZE |-> IF k <= 5 THEN bytes[k]
                        ELSE IF k = 6 THEN crc % 256 ELSE crc \div 256]

Bytes(d) == [k \in 1..5 |-> IF k = 1 THEN d.state ELSE d.ip[k - 1]]
Image(d) == crc_write(Bytes(d))

Blank == [k \in 1..SIZE |-> 255]     \* a factory-new EEPROM

DataOf(bytes) == [state |-> bytes[1], ip |-> [k \in 1..4 |-> bytes[k + 1]]]
Load(bytes) == IF crc_calc(bytes) # 0 THEN Default ELSE DataOf(bytes)

\* The first k bytes of d's image written over others.
Over(bytes, d, k) == [j \in 1..SIZE |-> IF j <= k THEN Image(d)[j] ELSE bytes[j]]
Intact == {Image(d) : d \in Data} \cup {Blank}

\* What the code relies on the CRC for: what crc_write made passes, and what a
\* tear leaves passes only if it is all of one save.
ASSUME BlankAssumption == Load(Blank) = Default
ASSUME CrcAssumption ==
  \A d \in Data :
    /\ crc_calc(Bytes(d)) \in Nat /\ crc_calc(Bytes(d)) \div 256 \in 0..255   \* uint16_t
    /\ crc_calc(Image(d)) = 0
ASSUME TearAssumption ==
  \A bytes \in Intact, d \in Data, k \in 0..SIZE :
    crc_calc(Over(bytes, d, k)) = 0 =>
      /\ Over(bytes, d, k) \in Intact
      /\ DataOf(Over(bytes, d, k)) \in {Load(bytes), d, Default}

----------------------------------------------------------------------------
EepromInit ==
  /\ image = Blank
  /\ ram = Default /\ pc = "off" /\ next = 1 /\ new = Blank
  /\ kept = Default /\ mayLoad = {Default} /\ torn = 0

\* Mutant: the CRC is not looked at.
ReadStateFromEeprom_NoCheck ==
  /\ pc = "off"
  /\ ram' = DataOf(image)
  /\ pc' = "run" /\ next' = 1 /\ new' = Blank
  /\ kept' = ram' /\ mayLoad' = {ram'}
  /\ torn' = IF crc_calc(image) # 0 THEN torn ELSE 0
  /\ UNCHANGED image

ReadStateFromEeprom ==
  /\ pc = "off"
  /\ ram' = Load(image)
  /\ pc' = "run" /\ next' = 1 /\ new' = Blank
  /\ kept' = ram' /\ mayLoad' = {ram'}
  /\ torn' = IF crc_calc(image) # 0 THEN torn ELSE 0
  /\ UNCHANGED image

\* The program changes state or target_ip and calls saveStateToEeprom, which
\* prepares eeprom_new and reads the bytes that are there.
SaveStateToEeprom(d) ==
  /\ pc = "run"
  /\ ram' = d
  /\ pc' = "write" /\ next' = 1 /\ new' = Image(d)
  /\ mayLoad' = {kept, d, Default}
  /\ UNCHANGED <<image, kept, torn>>

\* One turn of the writing loop.
WriteByte ==
  /\ pc = "write" /\ next <= SIZE
  /\ image' = [image EXCEPT ![next] = new[next]]
  /\ next' = next + 1
  /\ UNCHANGED <<ram, pc, new, kept, mayLoad, torn>>

\* Mutant: one byte early.
SaveEnds_ByOne ==
  /\ pc = "write" /\ next > SIZE - 1
  /\ pc' = "run" /\ next' = 1 /\ new' = Blank
  /\ kept' = ram /\ mayLoad' = {ram} /\ torn' = 0
  /\ UNCHANGED <<image, ram>>
SaveEnds ==
  /\ pc = "write" /\ next > SIZE
  /\ pc' = "run" /\ next' = 1 /\ new' = Blank
  /\ kept' = ram /\ mayLoad' = {ram} /\ torn' = 0
  /\ UNCHANGED <<image, ram>>

\* Power is lost, at any point.
PowerLoss ==
  /\ pc = "run" \/ (pc = "write" /\ torn < MaxTorn)
  /\ torn' = IF pc = "write" THEN torn + 1 ELSE torn
  /\ pc' = "off" /\ ram' = Default /\ next' = 1 /\ new' = Blank
  /\ UNCHANGED <<image, kept, mayLoad>>

EepromNext ==
  \/ ReadStateFromEeprom
  \/ \E d \in Data : SaveStateToEeprom(d)
  \/ WriteByte \/ SaveEnds
  \/ PowerLoss

EepromSpec == EepromInit /\ [][EepromNext]_eepromVars

----------------------------------------------------------------------------
\* The types; seven bytes that are bytes, and a program that only ever holds
\* data it could have saved.
EepromTypeOK ==
  /\ image \in Memory /\ new \in Memory
  /\ ram \in Data /\ kept \in Data /\ mayLoad \in SUBSET Data
  /\ pc \in {"off", "run", "write"} /\ next \in 1..(SIZE + 1)
  /\ torn \in 0..MaxTorn

\* A torn save is never taken for data: a start finds what was saved last,
\* what was being saved, or nothing, never the state of one save with the
\* target of another; and what a completed save wrote, it finds
\* (rw_helpers.ino:88-110, 127-139).
NoTornLoad ==
  [][pc = "off" /\ pc' = "run" => ram' \in mayLoad]_eepromVars
=============================================================================
