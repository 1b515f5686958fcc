---------------------------- MODULE SdCard_proofs ----------------------------
(***************************************************************************)
(* sd_read_sector gives the sector it was asked for or an error, for every  *)
(* medium, sector size and number of attempts, as long as the answers to    *)
(* CMD0, ACMD41 and CMD58 are not lost.  Each of the three is needed:       *)
(* MCWarmRestart (also with MCLosableReady) and MCOcrLost show it.         *)
(***************************************************************************)
EXTENDS SdCard, TLAPS

\* The commands of sd_init whose answers decide how the card is addressed arrive.
Answered == Losable \cap {"CMD0", "ACMD41", "CMD58"} = {}

Cards == [kind : Kinds, state : {"idle", "ready"}, app : BOOLEAN]

Initialising == {"cmd0", "cmd8", "cmd55", "acmd41", "cmd58", "cmd16"}

Ready == {"cmd58", "cmd16"}

\* What sd_init has found out about the card when it is about to return 1.
Identified ==
    /\ pc \in Initialising => ~ initialised
    /\ pc \in Ready => card.kind # "none"
    /\ pc = "cmd16" => ~ BlockAddressed
    /\ pc \in {"cmd55", "acmd41"} => retry < INIT_RETRY

\* A card that sd_init has given up, or not yet brought up, refuses to read.
Refuses == ~ initialised /\ pc # "cmd0" /\ pc \notin Ready
               => card.kind = "none" \/ card.state = "idle"

\* The request of a call: the block the card is about to send is the one asked for.
Calls ==
    /\ pc \in {"cmd17", "token"} => wanted \in Requests
    /\ pc \notin {"cmd17", "token"} => wanted = NoSector
    /\ pc = "token" => pending = wanted /\ pending \in Sectors /\ initialised

IndInv == TypeOK /\ Identified /\ Refuses /\ Calls /\ Addressing /\ NothingReadUninitialised

-----------------------------------------------------------------------------
\* The address of a sector that fits in a command's argument is that sector again
\* when the card divides it by the sector size.
LEMMA AddressOfSector ==
    ASSUME NEW s \in Nat, NEW z \in Nat \ {0}, NEW m \in Nat, s * z < m
    PROVE  ((s * z) % m) \div z = s
<1>1. s * z \in Nat
    BY SMT
<1>2. (s * z) % m = s * z
    BY <1>1
<1>3. (s * z) \div z = s
    BY SMT
<1> QED BY <1>2, <1>3

\* A card that is read is the card sd_init has brought up, and the address it is
\* sent means the sector asked for.
LEMMA RightSector ==
    ASSUME IndInv, pc = "cmd17", initialised
    PROVE  Located(Address(wanted)) = wanted
<1>1. wanted \in Requests /\ wanted \in Nat
    BY CardAssumption DEF IndInv, Calls
<1>2. CASE BlockAddressed
    BY <1>2 DEF IndInv, Addressing, Address, Located
<1>3. CASE ~ BlockAddressed
  <2>1. wanted * SECTOR_SIZE < ADDR_MOD
    BY <1>1, AddressAssumption
  <2>2. ((wanted * SECTOR_SIZE) % ADDR_MOD) \div SECTOR_SIZE = wanted
    BY <1>1, <2>1, CardAssumption, AddressAssumption, AddressOfSector
  <2> QED BY <1>3, <2>2 DEF IndInv, Addressing, Address, Located
<1> QED BY <1>2, <1>3

\* An empty slot answers nothing.
LEMMA EmptySlot ==
    ASSUME NEW cmd, NEW answers, NEW a \in sd_cmd(cmd, answers), card.kind = "none"
    PROVE  a.r1 = R1_NONE /\ a.card = card
<1>1. sd_cmd(cmd, answers) = {[r1 |-> R1_NONE, card |-> card]}
    BY DEF sd_cmd
<1> QED BY <1>1

\* A card's answer is received or, if it may be, lost.
LEMMA CardAnswers ==
    ASSUME NEW cmd, NEW answers, NEW a \in sd_cmd(cmd, answers), card.kind # "none"
    PROVE  \/ a \in answers
           \/ /\ cmd \in Losable /\ a.r1 = R1_NONE
              /\ a.card = card \/ \E b \in answers : a.card = b.card
<1>1. CASE cmd \notin Losable
    BY <1>1 DEF sd_cmd
<1>2. CASE cmd \in Losable
  <2>1. sd_cmd(cmd, answers) =
          answers \cup {[r1 |-> R1_NONE, card |-> c] : c \in {card} \cup {b.card : b \in answers}}
    BY <1>2 DEF sd_cmd
  <2>2. SUFFICES ASSUME a \notin answers
                 PROVE  a.r1 = R1_NONE /\ (a.card = card \/ \E b \in answers : a.card = b.card)
    BY <1>2
  <2>3. PICK c \in {card} \cup {b.card : b \in answers} : a = [r1 |-> R1_NONE, card |-> c]
    BY <2>1, <2>2
  <2> QED BY <2>3
<1> QED BY <1>1, <1>2

\* The same for a command with only one answer.
LEMMA OneAnswer ==
    ASSUME NEW cmd, NEW b, NEW a \in sd_cmd(cmd, {b})
    PROVE  \/ card.kind = "none" /\ a.r1 = R1_NONE /\ a.card = card
           \/ card.kind # "none" /\ a = b
           \/ card.kind # "none" /\ cmd \in Losable /\ a.r1 = R1_NONE /\ a.card \in {card, b.card}
<1>1. CASE card.kind = "none"
    BY <1>1, EmptySlot
<1>2. CASE card.kind # "none"
  <2>1. \/ a \in {b}
        \/ /\ cmd \in Losable /\ a.r1 = R1_NONE
           /\ a.card = card \/ \E x \in {b} : a.card = x.card
    BY <1>2, CardAnswers
  <2> QED BY <1>2, <2>1
<1> QED BY <1>1, <1>2

\* Before sd_init the driver knows nothing of the card and nothing has been read.
LEMMA InitIndInv == Init => IndInv
<1> SUFFICES ASSUME Init PROVE IndInv
    OBVIOUS
<1>1. TypeOK
  <2>1. card \in [kind : Kinds, state : {"idle", "ready"}, app : BOOLEAN]
    BY DEF Init
  <2>2. retry \in 0 .. INIT_RETRY
    BY CardAssumption DEF Init
  <2> QED BY <2>1, <2>2 DEF Init, TypeOK
<1>2. Identified /\ Refuses /\ Calls /\ Addressing /\ NothingReadUninitialised
    BY CardAssumption
       DEF Init, Identified, Refuses, Calls, Addressing, NothingReadUninitialised, Initialising, Ready
<1> QED BY <1>1, <1>2 DEF IndInv

-----------------------------------------------------------------------------
(* What the commands do to the card. *)

\* The two parts of an answer.
LEMMA AnswerParts ==
    ASSUME NEW r1, NEW state
    PROVE  Answer(r1, state).r1 = r1 /\ Answer(r1, state).card = Card(state, FALSE)
  BY DEF Answer

\* CMD0 brings any card back to the idle state.
LEMMA Cmd0Card ==
    ASSUME Answered, Cmd0
    PROVE  \/ card.kind = "none" /\ card' = card
           \/ card' = Card("idle", FALSE)
<1> DEFINE b == Answer(SD_R1_IDLE, "idle")
<1>1. PICK a \in sd_cmd("CMD0", {b}) : card' = a.card
    BY DEF Cmd0, Reset
<1>2. "CMD0" \notin Losable
    BY DEF Answered
<1>3. b.card = Card("idle", FALSE)
    BY AnswerParts
<1> HIDE DEF b
<1> QED BY <1>1, <1>2, <1>3, OneAnswer

\* CMD8 leaves the card as it is, whether its answer is lost or not.
LEMMA Cmd8Card ==
    ASSUME Cmd8
    PROVE  card' = card \/ card' = Card(card.state, FALSE)
<1> DEFINE b == Answer(IF card.kind = "v1" THEN R1_REFUSED ELSE SD_R1_IDLE, card.state)
<1>1. PICK a \in sd_cmd("CMD8", {b}) : card' = a.card
    BY DEF Cmd8, Interface
<1>2. b.card = Card(card.state, FALSE)
    BY AnswerParts
<1> HIDE DEF b
<1> QED BY <1>1, <1>2, OneAnswer

\* CMD55 announces an application command and changes nothing else.
LEMMA Cmd55Card ==
    ASSUME Cmd55
    PROVE  card' = card \/ card' = Card(card.state, TRUE)
<1> DEFINE b == [r1 |-> SD_R1_IDLE, card |-> Card(card.state, TRUE)]
<1>1. PICK a \in sd_cmd("CMD55", {b}) : card' = a.card
    BY DEF Cmd55, Application
<1>2. b.card = Card(card.state, TRUE)
    OBVIOUS
<1> HIDE DEF b
<1> QED BY <1>1, <1>2, OneAnswer

\* The OCR of a card that answers tells its capacity.
LEMMA Cmd58Card ==
    ASSUME Answered, Cmd58, card.kind # "none"
    PROVE  /\ card' = Card(card.state, FALSE)
           /\ g_card_type' = IF BlockAddressed THEN SDCARD_V2HC ELSE SDCARD_V2
<1>1. PICK a \in sd_cmd("CMD58", {Answer(R1_READY, card.state)}) :
        /\ card' = a.card
        /\ g_card_type' = IF a.r1 = R1_NONE \/ BlockAddressed THEN SDCARD_V2HC ELSE SDCARD_V2
    BY DEF Cmd58, Accept
<1>2. "CMD58" \notin Losable
    BY DEF Answered
<1>3. a = Answer(R1_READY, card.state)
    BY <1>2, OneAnswer
<1>4. a.card = Card(card.state, FALSE) /\ a.r1 = R1_READY
    BY <1>3, AnswerParts
<1> QED BY <1>1, <1>4 DEF R1_READY, R1_NONE

\* CMD16 leaves the card as it is, whether its answer is lost or not.
LEMMA Cmd16Card ==
    ASSUME Cmd16
    PROVE  card' = card \/ card' = Card(card.state, FALSE)
<1> DEFINE b == Answer(R1_READY, card.state)
<1>1. PICK a \in sd_cmd("CMD16", {b}) : card' = a.card
    BY DEF Cmd16, Accept
<1>2. b.card = Card(card.state, FALSE)
    BY AnswerParts
<1> HIDE DEF b
<1> QED BY <1>1, <1>2, OneAnswer

\* ACMD41: the card is ready, which an SDHC card is only for a host that knows SDHC,
\* or the attempt has failed.
LEMMA Acmd41Card ==
    ASSUME Answered, Acmd41
    PROVE  \/ /\ card.kind # "none" /\ (version = "v2" \/ ~ BlockAddressed)
              /\ card' = Card("ready", FALSE)
              /\ pc' = IF version = "v2" THEN "cmd58" ELSE "cmd16"
              /\ UNCHANGED retry
           \/ /\ card' = card \/ card' = Card(card.state, FALSE)
              /\ Attempt
<1>1. PICK a \in sd_cmd("ACMD41", Operate(Hcs)) :
        /\ card' = a.card
        /\ \/ /\ a.r1 = R1_READY
              /\ pc' = IF version = "v2" THEN "cmd58" ELSE "cmd16"
              /\ UNCHANGED retry
           \/ a.r1 # R1_READY /\ Attempt
    BY DEF Acmd41
<1>2. "ACMD41" \notin Losable
    BY DEF Answered
<1>3. CASE card.kind = "none"
  <2>1. a.r1 = R1_NONE /\ a.card = card
    BY <1>3, EmptySlot
  <2> QED BY <1>1, <2>1 DEF R1_NONE, R1_READY
<1>4. CASE card.kind # "none"
  <2>1. a \in Operate(Hcs)
    BY <1>2, <1>4, CardAnswers
  <2>2. \/ a = Answer(R1_REFUSED, card.state)
        \/ a = Answer(SD_R1_IDLE, card.state)
        \/ a = Answer(R1_READY, "ready") /\ (Hcs \/ ~ BlockAddressed)
    BY <2>1 DEF Operate
  <2>3. CASE a = Answer(R1_READY, "ready") /\ (Hcs \/ ~ BlockAddressed)
    BY <1>1, <1>4, <2>3, AnswerParts DEF Hcs
  <2>4. CASE a \in {Answer(R1_REFUSED, card.state), Answer(SD_R1_IDLE, card.state)}
    <3>1. a.r1 \in {R1_REFUSED, SD_R1_IDLE} /\ a.card = Card(card.state, FALSE)
      BY <2>4, AnswerParts
    <3>2. a.r1 # R1_READY
      BY <3>1 DEF R1_READY, R1_REFUSED, SD_R1_IDLE
    <3> QED BY <1>1, <3>1, <3>2
  <2> QED BY <2>2, <2>3, <2>4
<1> QED BY <1>3, <1>4

-----------------------------------------------------------------------------
\* A card in another state is still that card.
LEMMA CardParts ==
    ASSUME card \in Cards, NEW state \in {"idle", "ready"}, NEW app \in BOOLEAN
    PROVE  /\ Card(state, app) \in Cards
           /\ Card(state, app).kind = card.kind /\ Card(state, app).state = state
  BY DEF Card, Cards

\* The steps of sd_init keep the invariant.
LEMMA InitStepKeeps == ASSUME IndInv, Answered, sd_init PROVE IndInv'
<1>0. card \in Cards /\ card.state \in {"idle", "ready"}
    BY DEF IndInv, TypeOK, Cards
<1>1. CASE Cmd0
  <2>1. /\ card' \in Cards /\ card'.kind = card.kind
        /\ card.kind = "none" \/ card'.state = "idle"
    BY <1>0, <1>1, Cmd0Card, CardParts
  <2>2. TypeOK'
    BY <1>1, <2>1 DEF IndInv, TypeOK, Cards, Cmd0, readVars
  <2>3. pc' \in {"cmd8", "idle"} /\ ~ initialised' /\ wanted' = NoSector /\ sector' = Failed
    BY <1>1 DEF IndInv, Identified, Calls, NothingReadUninitialised, Initialising, Cmd0, readVars
  <2> QED BY <2>1, <2>2, <2>3
          DEF IndInv, Identified, Refuses, Calls, Addressing, NothingReadUninitialised,
              Initialising, Ready, BlockAddressed
<1>2. CASE Cmd8
  <2>1. card' \in Cards /\ card'.kind = card.kind /\ card'.state = card.state
    BY <1>0, <1>2, Cmd8Card, CardParts
  <2>2. TypeOK'
    BY <1>2, <2>1, CardAssumption DEF IndInv, TypeOK, Cards, Cmd8, readVars
  <2> QED BY <1>2, <2>1, <2>2, CardAssumption
          DEF IndInv, Identified, Refuses, Calls, Addressing, NothingReadUninitialised,
              Initialising, Ready, BlockAddressed, Cmd8, readVars
<1>3. CASE Cmd55
  <2>1. card' \in Cards /\ card'.kind = card.kind /\ card'.state = card.state
    BY <1>0, <1>3, Cmd55Card, CardParts
  <2>2. TypeOK'
    BY <1>3, <2>1 DEF IndInv, TypeOK, Cards, Cmd55, readVars
  <2> QED BY <1>3, <2>1, <2>2
          DEF IndInv, Identified, Refuses, Calls, Addressing, NothingReadUninitialised,
              Initialising, Ready, BlockAddressed, Cmd55, readVars
<1>4. CASE Acmd41
  <2>1. /\ card' \in Cards /\ card'.kind = card.kind
        /\ \/ /\ card.kind # "none" /\ (version = "v2" \/ ~ BlockAddressed)
              /\ pc' = IF version = "v2" THEN "cmd58" ELSE "cmd16"
              /\ UNCHANGED retry
           \/ card'.state = card.state /\ Attempt
    BY <1>0, <1>4, Acmd41Card, CardParts
  <2>2. TypeOK'
    BY <1>4, <2>1, CardAssumption
       DEF IndInv, Identified, TypeOK, Cards, Acmd41, Attempt, readVars
  <2> QED BY <1>4, <2>1, <2>2, CardAssumption
          DEF IndInv, Identified, Refuses, Calls, Addressing, NothingReadUninitialised,
              Initialising, Ready, BlockAddressed, Acmd41, Attempt, readVars
<1>5. CASE Cmd58
  <2>1. /\ card' \in Cards /\ card'.kind = card.kind
        /\ g_card_type' = IF BlockAddressed THEN SDCARD_V2HC ELSE SDCARD_V2
    BY <1>0, <1>5, Cmd58Card, CardParts DEF IndInv, Identified, Ready, Cmd58
  <2>2. TypeOK'
    BY <1>5, <2>1 DEF IndInv, TypeOK, Cards, Cmd58, readVars
  <2> QED BY <1>5, <2>1, <2>2
          DEF IndInv, Identified, Refuses, Calls, Addressing, NothingReadUninitialised,
              Initialising, Ready, BlockAddressed, Cmd58, readVars, SDCARD_V2, SDCARD_V2HC
<1>6. CASE Cmd16
  <2>1. card' \in Cards /\ card'.kind = card.kind
    BY <1>0, <1>6, Cmd16Card, CardParts
  <2>2. TypeOK'
    BY <1>6, <2>1 DEF IndInv, TypeOK, Cards, Cmd16, readVars
  <2> QED BY <1>6, <2>1, <2>2
          DEF IndInv, Identified, Refuses, Calls, Addressing, NothingReadUninitialised,
              Initialising, Ready, BlockAddressed, Cmd16, readVars, SDCARD_V1, SDCARD_V2HC
<1> QED BY <1>1, <1>2, <1>3, <1>4, <1>5, <1>6 DEF sd_init

-----------------------------------------------------------------------------
\* CMD17 is accepted only by a card that sd_init has brought up, and for an address
\* on the medium.
LEMMA Cmd17Card ==
    ASSUME Cmd17
    PROVE  /\ card' = card \/ card' = Card(card.state, FALSE)
           /\ \/ /\ card.kind # "none" /\ card.state # "idle"
                 /\ Located(Address(wanted)) \in Sectors
                 /\ pending' = Located(Address(wanted))
                 /\ pc' = "token" /\ UNCHANGED <<wanted, sector>>
              \/ Returns(Failed)
<1> DEFINE r == IF card.state = "idle" THEN R1_REFUSED
                ELSE IF Readable(Address(wanted)) THEN R1_READY ELSE R1_ADDRESS
           b == Answer(r, card.state)
<1>1. PICK a \in sd_cmd("CMD17", {b}) :
        /\ card' = a.card
        /\ \/ /\ Good(a.r1)
              /\ pending' = Located(Address(wanted))
              /\ pc' = "token"
              /\ UNCHANGED <<wanted, sector>>
           \/ ~ Good(a.r1) /\ Returns(Failed)
    BY DEF Cmd17, ReadBlock
<1>2. b.card = Card(card.state, FALSE) /\ b.r1 = r
    BY AnswerParts
<1>3. r = R1_READY => card.state # "idle" /\ Readable(Address(wanted))
    BY DEF R1_READY, R1_REFUSED, R1_ADDRESS
<1> HIDE DEF b, r
<1>4. card' = card \/ card' = Card(card.state, FALSE)
    BY <1>1, <1>2, OneAnswer
<1>5. ASSUME a.r1 = R1_READY
      PROVE  card.kind # "none" /\ card.state # "idle" /\ Readable(Address(wanted))
  <2>1. a.r1 # R1_NONE
    BY <1>5 DEF R1_READY, R1_NONE
  <2>2. card.kind # "none" /\ a = b
    BY <2>1, OneAnswer
  <2> QED BY <1>2, <1>3, <1>5, <2>2
<1> QED BY <1>1, <1>4, <1>5 DEF Good, Readable

\* The steps of sd_read_sector, and its call, keep the invariant.
LEMMA ReadStepKeeps == ASSUME IndInv, sd_read_sector \/ \E s \in Requests : Call(s) PROVE IndInv'
<1>0. card \in Cards /\ card.state \in {"idle", "ready"}
    BY DEF IndInv, TypeOK, Cards
<1>1. CASE Cmd17
  <2>1. card' \in Cards /\ card'.kind = card.kind /\ card'.state = card.state
    BY <1>0, <1>1, Cmd17Card, CardParts
  <2>2. CASE Returns(Failed)
    <3>1. TypeOK'
      BY <1>1, <2>1, <2>2 DEF IndInv, TypeOK, Cards, Cmd17, Returns
    <3> QED BY <1>1, <2>1, <2>2, <3>1
            DEF IndInv, Identified, Refuses, Calls, Addressing, NothingReadUninitialised,
                Initialising, Ready, BlockAddressed, Cmd17, Returns
  <2>3. CASE /\ card.kind # "none" /\ card.state # "idle"
             /\ Located(Address(wanted)) \in Sectors
             /\ pending' = Located(Address(wanted))
             /\ pc' = "token" /\ UNCHANGED <<wanted, sector>>
    <3>1. pc = "cmd17" /\ UNCHANGED <<g_card_type, version, retry, initialised>>
      BY <1>1 DEF Cmd17
    <3>2. initialised
      BY <2>3, <3>1 DEF IndInv, TypeOK, Refuses, Ready
    <3>3. pending' = wanted /\ wanted \in Sectors /\ wanted \in Requests
      BY <2>3, <3>1, <3>2, RightSector DEF IndInv, Calls
    <3>4. TypeOK'
      BY <2>1, <2>3, <3>1, <3>3 DEF IndInv, TypeOK, Cards
    <3> QED BY <2>1, <2>3, <3>1, <3>2, <3>3, <3>4
            DEF IndInv, Identified, Refuses, Calls, Addressing, NothingReadUninitialised,
                Initialising, Ready, BlockAddressed
  <2> QED BY <1>1, <2>2, <2>3, Cmd17Card
<1>2. CASE Token
  <2>1. pc = "token" /\ UNCHANGED <<card, g_card_type, version, retry, initialised>>
    BY <1>2 DEF Token
  <2>2. sector' \in {wanted, Failed} /\ wanted' = NoSector /\ pending' = NoSector /\ pc' = "idle"
    BY <1>2 DEF IndInv, Calls, Token, Returns
  <2>3. TypeOK'
    BY <2>1, <2>2 DEF IndInv, TypeOK, Calls
  <2> QED BY <2>1, <2>2, <2>3
          DEF IndInv, Identified, Refuses, Calls, Addressing, NothingReadUninitialised,
              Initialising, Ready, BlockAddressed
<1>3. CASE \E s \in Requests : Call(s)
  <2>1. PICK s \in Requests : Call(s)
    BY <1>3
  <2>2. TypeOK'
    BY <2>1 DEF IndInv, TypeOK, Call
  <2> QED BY <2>1, <2>2
          DEF IndInv, Identified, Refuses, Calls, Addressing, NothingReadUninitialised,
              Initialising, Ready, BlockAddressed, Call
<1> QED BY <1>1, <1>2, <1>3 DEF sd_read_sector

\* Every step keeps the invariant.
LEMMA Keeps == ASSUME IndInv, Answered, [Next]_vars PROVE IndInv'
<1>1. CASE Next
    BY <1>1, InitStepKeeps, ReadStepKeeps DEF Next, Driver
<1>2. CASE UNCHANGED vars
    BY <1>2 DEF vars, IndInv, TypeOK, Identified, Refuses, Calls, Addressing,
                NothingReadUninitialised, BlockAddressed
<1> QED BY <1>1, <1>2

-----------------------------------------------------------------------------
\* The invariant of the driver and the card.
THEOREM Invariant == Answered /\ Spec => []IndInv
<1>1. Answered /\ Init => Answered /\ IndInv
    BY InitIndInv
<1>2. Answered /\ IndInv /\ [Next]_vars => Answered' /\ IndInv'
    BY Keeps DEF Answered
<1> QED BY <1>1, <1>2, PTL DEF Spec

\* The driver's variables keep their types; in particular no more than INIT_RETRY
\* attempts are made at ACMD41, and the block that is read is on the medium.
THEOREM TypeCorrect == Answered /\ Spec => []TypeOK
<1>1. IndInv => TypeOK
    BY DEF IndInv
<1> QED BY <1>1, Invariant, PTL

\* After sd_init has returned 1 the driver counts as the card does: g_card_type is
\* SDCARD_V2HC exactly for an SDHC card.
THEOREM AddressingHolds == Answered /\ Spec => []Addressing
<1>1. IndInv => Addressing
    BY DEF IndInv
<1> QED BY <1>1, Invariant, PTL

\* After sd_init has returned 0 every sd_read_sector fails.
THEOREM NothingReadHolds == Answered /\ Spec => []NothingReadUninitialised
<1>1. IndInv => NothingReadUninitialised
    BY DEF IndInv
<1> QED BY <1>1, Invariant, PTL

\* A step of the driver is a step of the block device, or none.
LEMMA StepImplements == ASSUME IndInv, [Next]_vars PROVE [Device!Next]_(Device!vars)
<1> USE DEF Device!vars
<1>1. CASE sd_init
    BY <1>1 DEF sd_init, Cmd0, Cmd8, Cmd55, Acmd41, Cmd58, Cmd16, readVars
<1>2. CASE Cmd17
  <2>1. wanted # NoSector
    BY <1>2, CardAssumption DEF IndInv, Calls, Cmd17
  <2>2. UNCHANGED <<wanted, sector>> \/ Returns(Failed)
    BY <1>2, Cmd17Card
  <2> QED BY <2>1, <2>2 DEF Returns, Device!Next, Device!Answer
<1>3. CASE Token
  <2>1. wanted # NoSector
    BY <1>3, CardAssumption DEF IndInv, Calls, Token
  <2>2. sector' \in {wanted, Failed} /\ wanted' = NoSector
    BY <1>3 DEF IndInv, Calls, Token, Returns
  <2> QED BY <2>1, <2>2 DEF Device!Next, Device!Answer
<1>4. CASE \E s \in Requests : Call(s)
    BY <1>4 DEF IndInv, Calls, Call, Device!Next, Device!Ask
<1>5. CASE UNCHANGED vars
    BY <1>5 DEF vars
<1> QED BY <1>1, <1>2, <1>3, <1>4, <1>5 DEF Next, Driver, sd_read_sector

\* sd_read_sector, on any card that answers sd_init, is the block device the FAT reader
\* takes it for: the sector asked for or an error, never another sector.
THEOREM Refinement == Answered /\ Spec => ImplementsDevice
<1>1. Init => Device!Init
    BY DEF Init, Device!Init
<1>2. IndInv /\ [Next]_vars => [Device!Next]_(Device!vars)
    BY StepImplements
<1> QED BY <1>1, <1>2, Invariant, PTL DEF Spec, ImplementsDevice, Device!Spec
=============================================================================
