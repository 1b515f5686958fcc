------------------------------- MODULE SdCard -------------------------------
(***************************************************************************)
(* The SD protocol of sd_driver.c: sd_init, which finds out what card is in *)
(* the slot, and sd_read_sector, which addresses it accordingly.           *)
(*                                                                         *)
(* One step is one command with its answer.  sd_cmd polls a few bytes for  *)
(* an R1 and gives 0xFF when none comes: here the answer of a command in   *)
(* Losable may be lost, whether or not the card has obeyed the command.    *)
(* An empty slot answers nothing.  The card itself is external.            *)
(***************************************************************************)
EXTENDS Naturals

CONSTANTS Kinds,          \* the cards that may be in the slot
          LastSector,     \* the medium has the sectors 0 .. LastSector
          Requests,       \* the sectors the FAT reader may ask for
          SECTOR_SIZE,    \* 512 on the board
          ADDR_MOD,       \* 2^32: the width of a command's argument
          INIT_RETRY,     \* attempts at ACMD41, 2000 on the board
          Losable,        \* the commands whose answer may be lost
          NoSector, Failed

Sectors == 0 .. LastSector

ASSUME CardAssumption ==
    /\ Kinds \subseteq {"none", "v1", "v2", "hc"}
    /\ LastSector \in Nat
    /\ SECTOR_SIZE \in Nat \ {0}
    /\ INIT_RETRY \in Nat \ {0}
    /\ Requests \subseteq Nat
    /\ NoSector \notin Requests /\ Failed \notin Requests

\* A FAT volume on a byte-addressed card lies within the 32 bits of an address.
ASSUME AddressAssumption ==
    /\ ADDR_MOD \in Nat
    /\ \A s \in Requests : s * SECTOR_SIZE < ADDR_MOD

SDCARD_V1 == 1
SDCARD_V2 == 2
SDCARD_V2HC == 3

\* R1 bytes: no answer; ready; idle; idle and illegal command; bad address.
R1_NONE == 255
R1_READY == 0
SD_R1_IDLE == 1
R1_REFUSED == 5
R1_ADDRESS == 32

VARIABLES card,           \* its kind, its state, whether CMD55 came last
          pc, g_card_type,
          version,        \* the branch of sd_init: SD v1 or v2
          retry,
          initialised,    \* what sd_init returned
          wanted,         \* the sector sd_read_sector was called for
          pending,        \* the sector whose block the card is about to send
          sector          \* the sector whose contents are in the buffer, or Failed

vars == <<card, pc, g_card_type, version, retry, initialised, wanted, pending, sector>>

readVars == <<wanted, pending, sector>>

Init ==
    /\ card \in [kind : Kinds, state : {"idle", "ready"}, app : {FALSE}]
    /\ pc = "cmd0"
    /\ g_card_type = 0 /\ version = "v1" /\ retry = 0
    /\ initialised = FALSE
    /\ wanted = NoSector /\ pending = NoSector /\ sector = Failed

-----------------------------------------------------------------------------
(* The card. *)

BlockAddressed == card.kind = "hc"

\* The sector an address means to the card.
Located(addr) == IF BlockAddressed THEN addr ELSE addr \div SECTOR_SIZE

Readable(addr) ==
    /\ BlockAddressed \/ addr % SECTOR_SIZE = 0
    /\ Located(addr) \in Sectors

\* The card in another state.
Card(state, app) == [kind |-> card.kind, state |-> state, app |-> app]

Answer(r1, state) == [r1 |-> r1, card |-> Card(state, FALSE)]

\* What a card that has received a command answers, and its state after it.
Reset == {Answer(SD_R1_IDLE, "idle")}

Interface == {Answer(IF card.kind = "v1" THEN R1_REFUSED ELSE SD_R1_IDLE, card.state)}

Application == {[r1 |-> SD_R1_IDLE, card |-> Card(card.state, TRUE)]}

\* Initialisation takes several attempts; an SDHC card ends it only for a host
\* that knows SDHC.
Operate(hcs) ==
    IF ~ card.app THEN {Answer(R1_REFUSED, card.state)}
    ELSE {Answer(SD_R1_IDLE, card.state)}
         \cup (IF hcs \/ ~ BlockAddressed THEN {Answer(R1_READY, "ready")} ELSE {})

Accept == {Answer(R1_READY, card.state)}

ReadBlock(addr) ==
    {Answer(IF card.state = "idle" THEN R1_REFUSED
            ELSE IF Readable(addr) THEN R1_READY ELSE R1_ADDRESS,
            card.state)}

\* sd_cmd: the answer, or 0xFF after the last poll.
sd_cmd(cmd, answers) ==
    LET received == IF card.kind = "none" THEN {} ELSE answers
        cards == {card} \cup {a.card : a \in received}
    IN  received \cup (IF card.kind = "none" \/ cmd \in Losable
                       THEN {[r1 |-> R1_NONE, card |-> c] : c \in cards}
                       ELSE {})

\* The test of bit 2 of an R1 byte.
Illegal(r1) == (r1 \div 4) % 2 = 1

-----------------------------------------------------------------------------
(* sd_init *)

\* Reset to SPI mode.
Cmd0 ==
    /\ pc = "cmd0"
    /\ \E a \in sd_cmd("CMD0", Reset) :
          /\ card' = a.card
          /\ pc' = IF a.r1 = SD_R1_IDLE THEN "cmd8" ELSE "idle"
    /\ UNCHANGED <<g_card_type, version, retry, initialised, readVars>>

\* An answer with the illegal bit set, 0xFF too, means an SD v1 card.  The check
\* pattern that follows a v2 card's answer may come back damaged where answers to
\* CMD8 get lost: sd_init gives up.
Cmd8 ==
    /\ pc = "cmd8"
    /\ \E a \in sd_cmd("CMD8", Interface) :
          /\ card' = a.card
          /\ \/ /\ version' = IF Illegal(a.r1) THEN "v1" ELSE "v2"
                /\ retry' = 0
                /\ pc' = "cmd55"
             \/ /\ "CMD8" \in Losable /\ ~ Illegal(a.r1)
                /\ pc' = "idle"
                /\ UNCHANGED <<version, retry>>
    /\ UNCHANGED <<g_card_type, initialised, readVars>>

\* The answer to CMD55 is not looked at.
Cmd55 ==
    /\ pc = "cmd55"
    /\ \E a \in sd_cmd("CMD55", Application) : card' = a.card
    /\ pc' = "acmd41"
    /\ UNCHANGED <<g_card_type, version, retry, initialised, readVars>>

\* Mutant: every card is told that the host knows SDHC.
HcsAlways == TRUE

\* Only an SD v2 card is told that the host knows SDHC.
Hcs == version = "v2"

\* Mutant: the attempts are not counted.
AttemptUncounted == UNCHANGED retry /\ pc' = "cmd55"

\* Mutant: one attempt too many.
AttemptOnceMore == retry' = retry + 1 /\ pc' = IF retry' <= INIT_RETRY THEN "cmd55" ELSE "idle"

\* The card is not ready: the next attempt, or none is left.
Attempt == retry' = retry + 1 /\ pc' = IF retry' < INIT_RETRY THEN "cmd55" ELSE "idle"

Acmd41 ==
    /\ pc = "acmd41"
    /\ \E a \in sd_cmd("ACMD41", Operate(Hcs)) :
          /\ card' = a.card
          /\ \/ /\ a.r1 = R1_READY
                /\ pc' = IF version = "v2" THEN "cmd58" ELSE "cmd16"
                /\ UNCHANGED retry
             \/ a.r1 # R1_READY /\ Attempt
    /\ UNCHANGED <<g_card_type, version, initialised, readVars>>

\* The capacity bit of the OCR.  R1 is not looked at: when the card does not answer,
\* the four bytes of the OCR are read as 0xFF.
Cmd58 ==
    /\ pc = "cmd58"
    /\ \E a \in sd_cmd("CMD58", Accept) :
          /\ card' = a.card
          /\ g_card_type' = IF a.r1 = R1_NONE \/ BlockAddressed THEN SDCARD_V2HC ELSE SDCARD_V2
    /\ initialised' = TRUE
    /\ pc' = "idle"
    /\ UNCHANGED <<version, retry, readVars>>

\* The block length of an SD v1 card; R1 is not looked at.
Cmd16 ==
    /\ pc = "cmd16"
    /\ \E a \in sd_cmd("CMD16", Accept) : card' = a.card
    /\ g_card_type' = SDCARD_V1
    /\ initialised' = TRUE
    /\ pc' = "idle"
    /\ UNCHANGED <<version, retry, readVars>>

sd_init == Cmd0 \/ Cmd8 \/ Cmd55 \/ Acmd41 \/ Cmd58 \/ Cmd16

-----------------------------------------------------------------------------
(* sd_read_sector.  main calls sd_init once and goes on when it fails. *)

Call(s) ==
    /\ pc = "idle"
    /\ wanted' = s
    /\ pc' = "cmd17"
    /\ UNCHANGED <<card, g_card_type, version, retry, initialised, pending, sector>>

\* Mutant: sector numbers are sent to every card as they are.
AddressOfBlock(s) == s

Address(s) ==
    IF g_card_type = SDCARD_V2HC THEN s ELSE (s * SECTOR_SIZE) % ADDR_MOD

Returns(result) ==
    /\ sector' = result
    /\ wanted' = NoSector
    /\ pending' = NoSector
    /\ pc' = "idle"

\* Mutant: any answer to CMD17 is taken for a good one.
GoodIfAny(r1) == r1 # R1_NONE

Good(r1) == r1 = R1_READY

Cmd17 ==
    /\ pc = "cmd17"
    /\ \E a \in sd_cmd("CMD17", ReadBlock(Address(wanted))) :
          /\ card' = a.card
          /\ \/ /\ Good(a.r1)
                /\ pending' = Located(Address(wanted))
                /\ pc' = "token"
                /\ UNCHANGED <<wanted, sector>>
             \/ ~ Good(a.r1) /\ Returns(Failed)
    /\ UNCHANGED <<g_card_type, version, retry, initialised>>

\* sd_wait_token, and the block behind it: the start token comes in time and the
\* block is read (its CRC is not verified), or an error token or no token comes.
Token ==
    /\ pc = "token"
    /\ Returns(pending) \/ Returns(Failed)
    /\ UNCHANGED <<card, g_card_type, version, retry, initialised>>

sd_read_sector == Cmd17 \/ Token

-----------------------------------------------------------------------------
Driver == sd_init \/ sd_read_sector

Next == Driver \/ \E s \in Requests : Call(s)

Spec == Init /\ [][Next]_vars

\* The driver never blocks: it polls, a bounded number of times.
FairSpec == Spec /\ WF_vars(Driver)

-----------------------------------------------------------------------------
TypeOK ==
    /\ card \in [kind : Kinds, state : {"idle", "ready"}, app : BOOLEAN]
    /\ pc \in {"cmd0", "cmd8", "cmd55", "acmd41", "cmd58", "cmd16", "idle", "cmd17", "token"}
    /\ g_card_type \in {0, SDCARD_V1, SDCARD_V2, SDCARD_V2HC}
    /\ version \in {"v1", "v2"}
    /\ retry \in 0 .. INIT_RETRY
    /\ initialised \in BOOLEAN
    /\ wanted \in Requests \cup {NoSector}
    /\ pending \in Sectors \cup {NoSector}
    /\ sector \in Requests \cup {Failed}

\* When sd_init returns 1 the driver addresses the card the way the card counts:
\* by blocks if and only if it is an SDHC card.
Addressing == initialised => ((g_card_type = SDCARD_V2HC) <=> BlockAddressed)

\* "Consultas de tabela falharao" (main.c): after sd_init has returned 0 no sector
\* is ever read, although main goes on and the queries do call sd_read_sector.
NothingReadUninitialised == sector # Failed => initialised

\* sd_read_sector gives the sector it was asked for, or an error.
Device == INSTANCE BlockDevice WITH
    Sectors <- Requests, request <- wanted, answer <- sector

ImplementsDevice == Device!Spec

\* sd_init and sd_read_sector return, whatever card is in the slot or none: every
\* wait of the driver is bounded.
EveryCallReturns == (pc # "idle") ~> (pc = "idle")
=============================================================================
