------------------------- MODULE FlashConfigProofs -------------------------
(***************************************************************************)
(* Proofs about FlashConfig, for any word size, any number of marks and    *)
(* tail words and any set of records and values.                           *)
(***************************************************************************)
EXTENDS FlashConfig, TLAPS

Writing == pc \in {"scan", "program"}

(* What STMFLASH_Write has in hand: a record with all its marks, whose      *)
(* content came from the host or from the record itself, and of which       *)
(* nothing is promised until it is complete.                                *)
WriteInv ==
  /\ Writing =>
       /\ \A i \in 1..MarkWords : buf[i] = Mark
       /\ ~Copies => buf[ContentWord] \in asked[rec]
       /\ rec \notin mixed => buf[ContentWord] \in asked[rec] \cup {Blank}
       /\ ~kept[rec].given
  /\ pc = "scan" => pos = 1 /\ ~dirty
  /\ pc = "program" /\ dirty => rec \in mixed

(* The content word is accounted for even when the marks are incomplete:    *)
(* a later COMM_CMD_IP puts marks in front of whatever it finds.            *)
ContentKnown ==
  \A r \in Records \ mixed : flash[r][ContentWord] \in asked[r] \cup {Blank}

(* Marks without content are accounted for.                                 *)
EmptyKnown ==
  \A r \in Records \ mixed : Modified(r) /\ flash[r][ContentWord] = Blank =>
    Blank \in asked[r] \/ r \in empty \/ BeforeContent(r)

(* DurableUntilErase in terms of words.                                     *)
KeptHolds ==
  \A r \in Records : kept[r].given =>
    Modified(r) /\ flash[r][ContentWord] = kept[r].word

(* The inductive invariant.                                                 *)
IInv == TypeOK /\ ProgramsErased /\ ContentKnown /\ EmptyKnown /\ WriteInv /\ KeptHolds

-----------------------------------------------------------------------------
LEMMA SlotFacts ==
  /\ RecWords \in Nat /\ ContentWord \in Slots /\ 1 \in Slots /\ RecWords \in Slots
  /\ 1..MarkWords \subseteq Slots
  /\ \A i \in 1..MarkWords : i # ContentWord
  /\ 1 \in 1..MarkWords /\ ContentWord # 1 /\ ContentWord \in Nat
BY SizeAssumption DEF RecWords, ContentWord, Slots

LEMMA WordFacts ==
  /\ Mark \in SUBSET Bits /\ Blank \in SUBSET Bits /\ Mark # Blank
  /\ BlankRecord \in [Slots -> SUBSET Bits]
  /\ \A i \in Slots : BlankRecord[i] = Blank
  /\ Default \in Setting /\ ~Default.given
  /\ \A w \in SUBSET Bits : Given(w) \in Setting /\ Given(w).given /\ Given(w).word = w
  /\ \A w \in SUBSET Bits : Blank \cap w = w
BY MarkAssumption DEF Blank, BlankRecord, Default, Given, Setting

(* A mark is not an erased word.                                            *)
LEMMA BlankNotModified ==
  ASSUME NEW r, NEW i \in 1..MarkWords, flash[r][i] = Blank
  PROVE  ~Modified(r)
BY WordFacts DEF Modified

(* A record the boot accepts is booted with its content.                    *)
LEMMA BootValueFacts ==
  ASSUME TypeOK, NEW r \in Records
  PROVE  /\ BootValue(r) \in Setting
         /\ BootValue(r).given <=> Modified(r)
         /\ Modified(r) => BootValue(r).word = flash[r][ContentWord]
         /\ \A w \in SUBSET Bits :
              BootValue(r) = Given(w) <=> Modified(r) /\ flash[r][ContentWord] = w
<1>1. flash[r][ContentWord] \in SUBSET Bits
  BY SlotFacts DEF TypeOK
<1>2. CASE Modified(r)
  BY <1>1, <1>2, WordFacts DEF BootValue
<1>3. CASE ~Modified(r)
  BY <1>1, <1>3, WordFacts DEF BootValue
<1> QED BY <1>2, <1>3

LEMMA InitIInv == Init => IInv
<1> SUFFICES ASSUME Init PROVE IInv
  OBVIOUS
<1>1. TypeOK
  BY SlotFacts, WordFacts DEF Init, TypeOK
<1>2. ProgramsErased /\ WriteInv
  BY DEF Init, ProgramsErased, WriteInv, Writing
<1>3. ContentKnown
  BY SlotFacts, WordFacts DEF Init, ContentKnown
<1>4. KeptHolds
  BY WordFacts DEF Init, KeptHolds
<1>5. EmptyKnown
  BY SlotFacts, WordFacts, BlankNotModified DEF Init, EmptyKnown
<1> QED BY <1>1, <1>2, <1>3, <1>4, <1>5 DEF IInv

-----------------------------------------------------------------------------
(* One lemma per kind of step.                                              *)

LEMMA StepBoot ==
  ASSUME IInv, Boot \/ OverTemperature
  PROVE  IInv'
<1> USE DEF IInv
<1>1. \A r \in Records : BootValue(r) \in Setting
  BY BootValueFacts
<1>2. TypeOK'
  BY <1>1, WordFacts DEF TypeOK, Boot, OverTemperature, write
<1>3. UNCHANGED <<flash, write, mixed, asked, kept, empty>> /\ pc' = "up" /\ pc # "program"
  BY DEF Boot, OverTemperature
<1>4. ProgramsErased' /\ WriteInv'
  BY <1>3 DEF ProgramsErased, WriteInv, Writing, write
<1>5. ContentKnown' /\ KeptHolds'
  BY <1>3 DEF ContentKnown, KeptHolds, Modified
<1>6. EmptyKnown'
  BY <1>3 DEF EmptyKnown, Modified, BeforeContent
<1> QED BY <1>2, <1>4, <1>5, <1>6

(* A write begins with a record w that carries all marks and known content. *)
LEMMA StepBegin ==
  ASSUME IInv, NEW r \in Records, NEW w \in [Slots -> SUBSET Bits],
         BeginWrite(r, w),
         asked' \in [Records -> SUBSET Values], \A q \in Records : asked[q] \subseteq asked'[q],
         moved' \in Setting,
         \A i \in 1..MarkWords : w[i] = Mark,
         ~Copies' => w[ContentWord] \in asked'[r],
         r \notin mixed => w[ContentWord] \in asked'[r] \cup {Blank}
  PROVE  IInv'
<1> USE DEF IInv
<1>1. TypeOK'
  BY SlotFacts, WordFacts DEF TypeOK, BeginWrite
<1>2. ProgramsErased'
  BY DEF ProgramsErased, BeginWrite
<1>3. ContentKnown'
  BY DEF ContentKnown, BeginWrite
<1>4. WriteInv'
  BY WordFacts DEF WriteInv, Writing, BeginWrite, TypeOK
<1>5. KeptHolds'
  BY WordFacts DEF KeptHolds, BeginWrite, Modified, TypeOK
<1>6. EmptyKnown'
  BY DEF EmptyKnown, BeginWrite, Modified, BeforeContent
<1> QED BY <1>1, <1>2, <1>3, <1>4, <1>5, <1>6

LEMMA StepInfModify ==
  ASSUME IInv, NEW r \in Records, NEW v \in Values, InfModify(r, v)
  PROVE  IInv'
<1> DEFINE w == RecordOf(v)
<1>1. v \in SUBSET Bits
  BY ValuesAssumption
<1>2. /\ w \in [Slots -> SUBSET Bits]
      /\ \A i \in 1..MarkWords : w[i] = Mark
      /\ w[ContentWord] = v
  BY <1>1, SlotFacts, WordFacts, SizeAssumption DEF RecordOf, ContentWord
<1>3. /\ asked' \in [Records -> SUBSET Values]
      /\ \A q \in Records : asked[q] \subseteq asked'[q]
      /\ v \in asked'[r]
  BY DEF InfModify, IInv, TypeOK
<1>4. moved' \in Setting
  BY WordFacts DEF InfModify, IInv, TypeOK
<1>5. BeginWrite(r, w)
  BY DEF InfModify
<1> HIDE DEF w
<1> QED BY <1>2, <1>3, <1>4, <1>5, StepBegin

LEMMA StepIpCommand ==
  ASSUME IInv, NEW v \in Values, IpCommand(v)
  PROVE  IInv'
<1> DEFINE w == [i \in Slots |-> IF i <= MarkWords THEN Mark ELSE flash["ip"][i]]
<1>1. "ip" \in Records /\ BeginWrite("ip", w) /\ asked' = asked
  BY DEF IpCommand
<1>2. moved' \in Setting
  BY WordFacts, ValuesAssumption DEF IpCommand
<1>3. /\ w \in [Slots -> SUBSET Bits]
      /\ \A i \in 1..MarkWords : w[i] = Mark
      /\ w[ContentWord] = flash["ip"][ContentWord]
  <2>1. /\ 1..MarkWords \subseteq Slots /\ ContentWord \in Slots
        /\ ~(ContentWord <= MarkWords) /\ \A i \in 1..MarkWords : i <= MarkWords
    BY SlotFacts, SizeAssumption DEF ContentWord
  <2>2. Mark \in SUBSET Bits /\ flash["ip"] \in [Slots -> SUBSET Bits]
    BY <1>1, WordFacts DEF IInv, TypeOK
  <2> QED BY <2>1, <2>2
<1>4. asked' \in [Records -> SUBSET Values] /\ \A q \in Records : asked[q] \subseteq asked'[q]
  BY <1>1 DEF IInv, TypeOK
<1>5. "ip" \notin mixed => w[ContentWord] \in asked'["ip"] \cup {Blank}
  BY <1>1, <1>3 DEF IInv, ContentKnown
<1>6. Copies'
  BY WordFacts, ValuesAssumption DEF Copies, IpCommand, BeginWrite
<1> HIDE DEF w
<1> QED BY <1>1, <1>2, <1>3, <1>4, <1>5, <1>6, StepBegin

(* Leaving the write without touching the sector.                           *)
LEMMA StepLeave ==
  ASSUME IInv, EndWrite, pc' \in {"up", "off"}, UNCHANGED <<flash, mixed, asked, kept, moved>>,
         empty' = CutShort, ram' \in [Records -> Setting], gError' \in {0, 1}
  PROVE  IInv'
<1> USE DEF IInv
<1>1. TypeOK'
  BY SlotFacts, WordFacts DEF TypeOK, EndWrite, CutShort
<1>2. ProgramsErased' /\ WriteInv'
  BY DEF ProgramsErased, WriteInv, Writing
<1>3. ContentKnown' /\ KeptHolds'
  BY DEF ContentKnown, KeptHolds, Modified
<1>4. EmptyKnown'
  <2>1. \A r \in Records : r \in empty \/ BeforeContent(r) => r \in empty'
    BY DEF CutShort
  <2> QED BY <2>1 DEF EmptyKnown, Modified
<1> QED BY <1>1, <1>2, <1>3, <1>4

LEMMA StepScanClean ==
  ASSUME IInv, ScanClean
  PROVE  IInv'
<1> USE DEF IInv
<1>1. TypeOK'
  BY DEF TypeOK, ScanClean, write
<1>2. ProgramsErased'
  BY DEF ProgramsErased, ScanClean, write, WriteInv, NeedsErase, Slots
<1>3. WriteInv'
  BY DEF WriteInv, Writing, ScanClean, write, Copies
<1>4. ContentKnown' /\ KeptHolds'
  BY DEF ContentKnown, KeptHolds, Modified, ScanClean
<1>5. EmptyKnown'
  BY DEF EmptyKnown, Modified, ScanClean, BeforeContent
<1> QED BY <1>1, <1>2, <1>3, <1>4, <1>5

(* The sector after an erase, complete or cut: every word is old or blank,  *)
(* and nothing is promised any more.                                        *)
LEMMA StepErase ==
  ASSUME IInv, EraseSector \/ EraseCut
  PROVE  IInv'
<1> USE DEF IInv
<1>1. /\ flash' \in [Records -> [Slots -> SUBSET Bits]]
      /\ \A r \in Records, i \in Slots : flash'[r][i] \in {flash[r][i], Blank}
  <2>1. CASE EraseSector
    BY <2>1, WordFacts DEF EraseSector, TypeOK
  <2>2. CASE EraseCut
    BY <2>2, WordFacts DEF EraseCut, TypeOK
  <2> QED BY <2>1, <2>2
<1>2. /\ kept' = [r \in Records |-> Default] /\ UNCHANGED <<asked, moved>>
      /\ mixed' \subseteq mixed /\ empty' \subseteq Records
      /\ pc = "scan" /\ pc' # "program"
  BY DEF EraseSector, EraseCut
<1>3. TypeOK'
  <2>1. CASE EraseSector
    BY <1>1, <1>2, <2>1, WordFacts DEF EraseSector, TypeOK, write
  <2>2. CASE EraseCut
    <3>1. /\ pc' = "off" /\ ram' = [r \in Records |-> Default] /\ gError' = 0
          /\ buf' = BlankRecord /\ pos' = 1 /\ dirty' = FALSE /\ rec' = rec
      BY <2>2 DEF EraseCut, EndWrite
    <3> QED BY <1>1, <1>2, <3>1, WordFacts, SlotFacts DEF TypeOK
  <2> QED BY <2>1, <2>2
<1>4. ContentKnown' /\ KeptHolds' /\ EmptyKnown'
  <2>1. CASE EraseSector
    <3>1. \A r \in Records, i \in Slots : flash'[r][i] = Blank
      BY <2>1, WordFacts DEF EraseSector
    <3>2. \A r \in Records : ~Modified(r)'
      BY <3>1, SlotFacts, WordFacts DEF Modified
    <3>3. \A r \in Records : flash'[r][ContentWord] = Blank
      BY <3>1, SlotFacts
    <3>4. KeptHolds'
      BY <1>2, WordFacts DEF KeptHolds
    <3> QED BY <3>2, <3>3, <3>4 DEF ContentKnown, EmptyKnown
  <2>2. CASE EraseCut
    <3>1. mixed' = mixed
      BY <2>2 DEF EraseCut
    <3>2. ContentKnown' /\ KeptHolds'
      BY <1>1, <1>2, <3>1, SlotFacts, WordFacts DEF ContentKnown, KeptHolds
    <3>3. ASSUME NEW r \in Records \ mixed, Modified(r)', flash'[r][ContentWord] = Blank
          PROVE  Blank \in asked[r] \/ r \in empty'
      <4>1. PICK done \in SUBSET {w \in Records \X Slots : flash[w[1]][w[2]] # Blank} :
              /\ flash' = [q \in Records |-> [i \in Slots |->
                             IF <<q, i>> \in done THEN Blank ELSE flash[q][i]]]
              /\ empty' = {q \in Records :
                             /\ Modified(q) /\ \A i \in 1..MarkWords : <<q, i>> \notin done
                             /\ q \in empty \/ <<q, ContentWord>> \in done}
        BY <2>2 DEF EraseCut
      <4>2. \A i \in 1..MarkWords : flash'[r][i] = Mark
        BY <3>3 DEF Modified
      <4>3. \A i \in 1..MarkWords : <<r, i>> \notin done /\ flash[r][i] = Mark
        BY <4>1, <4>2, SlotFacts, WordFacts
      <4>4. Modified(r)
        BY <4>3 DEF Modified
      <4>5. <<r, ContentWord>> \in done \/ flash[r][ContentWord] = Blank
        BY <3>3, <4>1, SlotFacts
      <4>6. CASE <<r, ContentWord>> \in done
        BY <4>1, <4>3, <4>4, <4>6
      <4>7. CASE flash[r][ContentWord] = Blank
        <5>1. Blank \in asked[r] \/ r \in empty
          BY <1>2, <4>4, <4>7 DEF EmptyKnown, BeforeContent
        <5> QED BY <4>1, <4>3, <4>4, <5>1
      <4> QED BY <4>5, <4>6, <4>7
    <3> QED BY <1>2, <3>1, <3>2, <3>3 DEF EmptyKnown
  <2> QED BY <2>1, <2>2
<1>5. ProgramsErased' /\ WriteInv'
  <2>1. ProgramsErased'
    BY <1>2 DEF ProgramsErased
  <2>2. CASE EraseSector
    <3>1. /\ UNCHANGED <<pc, rec, buf, pos, dirty, asked, moved>>
          /\ mixed' = IF Copies THEN mixed \cap {rec} ELSE {}
      BY <2>2 DEF EraseSector, write
    <3>2. (Copies' <=> Copies) /\ ~kept'[rec].given
      BY <1>2, <3>1, WordFacts DEF Copies, TypeOK
    <3>3. /\ pc = "scan" /\ \A i \in 1..MarkWords : buf[i] = Mark
          /\ (~Copies => buf[ContentWord] \in asked[rec])
          /\ (rec \notin mixed => buf[ContentWord] \in asked[rec] \cup {Blank})
          /\ pos = 1 /\ ~dirty
      BY <1>2 DEF WriteInv, Writing
    <3>4. rec \notin mixed' => buf[ContentWord] \in asked[rec] \cup {Blank}
      BY <3>1, <3>3
    <3> QED BY <2>1, <3>1, <3>2, <3>3, <3>4 DEF WriteInv, Writing
  <2>3. CASE EraseCut
    <3>1. pc' = "off"
      BY <2>3 DEF EraseCut
    <3> QED BY <2>1, <3>1 DEF WriteInv, Writing
  <2> QED BY <2>1, <2>2, <2>3
<1> QED BY <1>3, <1>4, <1>5

LEMMA StepEraseFails ==
  ASSUME IInv, EraseFails
  PROVE  IInv'
<1>1. CASE pc' = "up"
  <2>1. /\ EndWrite /\ UNCHANGED <<flash, ram, gError, mixed, asked, kept, moved>>
        /\ empty' = CutShort
    BY <1>1 DEF EraseFails, CutShort, BeforeContent
  <2> QED BY <1>1, <2>1, StepLeave DEF IInv, TypeOK
<1>2. CASE pc' = "program"
  <2> USE <1>2 DEF IInv
  <2>1. /\ dirty' /\ mixed' = mixed \cup {rec}
        /\ UNCHANGED <<flash, rec, buf, pos, ram, gError, asked, kept, empty, moved>>
        /\ dirty' \in BOOLEAN /\ pc = "scan"
    BY DEF EraseFails
  <2>2. TypeOK'
    BY <2>1 DEF TypeOK
  <2>3. ProgramsErased'
    BY <2>1 DEF ProgramsErased
  <2>4. WriteInv'
    BY <2>1 DEF WriteInv, Writing, EraseFails, Copies
  <2>5. ContentKnown' /\ KeptHolds'
    BY <2>1 DEF ContentKnown, KeptHolds, Modified
  <2>6. EmptyKnown'
    BY <2>1 DEF EmptyKnown, Modified, BeforeContent
  <2> QED BY <2>2, <2>3, <2>4, <2>5, <2>6
<1> QED BY <1>1, <1>2 DEF EraseFails

(* The program loop.  With a clean sector a word takes exactly its new      *)
(* value, so that behind the last word the record is the one asked for.     *)
LEMMA StepProgram ==
  ASSUME IInv, Program
  PROVE  IInv'
<1> USE DEF IInv
<1> DEFINE new == flash[rec][pos] \cap buf[pos]
<1>1. /\ new \in SUBSET Bits
      /\ flash' = [flash EXCEPT ![rec][pos] = new]
      /\ UNCHANGED <<ram, gError, mixed, asked, moved, rec>>
      /\ pc = "program" /\ empty' = Filled
  BY DEF Program, ProgramWord, EndWrite, TypeOK
<1>2. ~dirty => new = buf[pos]
  BY WordFacts DEF ProgramsErased, Program, TypeOK, Slots
<1> HIDE DEF new
<1>3. /\ flash' \in [Records -> [Slots -> SUBSET Bits]]
      /\ \A r \in Records, i \in Slots :
           flash'[r][i] = IF r = rec /\ i = pos THEN new ELSE flash[r][i]
  BY <1>1 DEF TypeOK
<1>4. ContentKnown'
  <2> SUFFICES ASSUME NEW r \in Records \ mixed
               PROVE  flash'[r][ContentWord] \in asked[r] \cup {Blank}
    BY <1>1 DEF ContentKnown
  <2>1. CASE r = rec /\ ContentWord = pos
    BY <1>1, <1>2, <1>3, <2>1, SlotFacts DEF WriteInv, Writing
  <2>2. CASE ~(r = rec /\ ContentWord = pos)
    BY <1>3, <2>2, SlotFacts DEF ContentKnown
  <2> QED BY <2>1, <2>2
<1>5. \A r \in Records \ {rec} : Modified(r)' = Modified(r) /\ flash'[r] = flash[r]
  BY <1>1, <1>3, SlotFacts DEF Modified, TypeOK
<1>6. empty' \subseteq Records
  BY <1>1 DEF Filled, TypeOK
<1>7. EmptyKnown'
  <2> SUFFICES ASSUME NEW r \in Records \ mixed, Modified(r)', flash'[r][ContentWord] = Blank
               PROVE  Blank \in asked[r] \/ r \in empty' \/ BeforeContent(r)'
    BY <1>1 DEF EmptyKnown
  <2>1. CASE r # rec
    <3>1. Modified(r) /\ flash[r][ContentWord] = Blank /\ ~BeforeContent(r)
      BY <1>5, <2>1 DEF BeforeContent
    <3>2. Blank \in asked[r] \/ r \in empty
      BY <3>1 DEF EmptyKnown
    <3> QED BY <1>1, <2>1, <3>2 DEF Filled
  <2>2. CASE r = rec /\ pos = ContentWord
    <3>1. ~dirty
      BY <1>1, <2>2 DEF WriteInv
    <3>2. buf[ContentWord] = Blank
      BY <1>2, <1>3, <2>2, <3>1, SlotFacts
    <3>3. Blank \in asked[rec] \/ Copies
      BY <1>1, <3>2 DEF WriteInv, Writing
    <3> QED BY <1>1, <2>2, <3>2, <3>3 DEF Filled
  <2>3. CASE r = rec /\ pos # ContentWord
    <3>1. ~dirty /\ pos \in 1..RecWords
      BY <1>1, <2>3 DEF WriteInv, TypeOK, Slots
    <3>2. CASE pos + 1 = ContentWord
      <4>1. pos < RecWords
        BY <3>1, <3>2, SizeAssumption DEF ContentWord, RecWords
      <4>2. pos' = pos + 1 /\ pc' = pc
        BY <4>1 DEF Program
      <4> QED BY <1>1, <2>3, <3>2, <4>2 DEF BeforeContent
    <3>3. CASE pos + 1 < ContentWord
      <4>1. pos + 1 \in 1..MarkWords /\ pos + 1 \in Slots /\ pos + 1 # pos
        BY <3>1, <3>3, SizeAssumption DEF ContentWord, Slots, RecWords
      <4>2. flash'[rec][pos + 1] = flash[rec][pos + 1]
        BY <1>3, <4>1 DEF TypeOK
      <4>3. flash[rec][pos + 1] = Blank
        BY <1>1, <3>1, <4>1 DEF ProgramsErased
      <4>4. flash'[rec][pos + 1] = Mark
        BY <2>3, <4>1 DEF Modified
      <4> QED BY <4>2, <4>3, <4>4, WordFacts
    <3>4. CASE pos > ContentWord
      <4>2. Modified(rec) /\ flash[rec][ContentWord] = Blank
        <5>1. \A i \in 1..MarkWords : i \in Slots /\ i # pos
          BY <3>1, <3>4, SlotFacts, SizeAssumption DEF ContentWord
        <5>2. \A i \in 1..MarkWords : flash'[rec][i] = flash[rec][i]
          BY <1>3, <5>1 DEF TypeOK
        <5>3. Modified(rec)
          BY <2>3, <5>2 DEF Modified
        <5> QED BY <1>3, <2>3, <5>3, SlotFacts
      <4>3. Blank \in asked[rec] \/ rec \in empty
        BY <2>3, <4>2 DEF EmptyKnown, BeforeContent
      <4> QED BY <1>1, <2>3, <4>3 DEF Filled
    <3> QED BY <2>3, <3>1, <3>2, <3>3, <3>4, SlotFacts
  <2> QED BY <2>1, <2>2, <2>3
<1>8. CASE pos < RecWords
  <2> USE <1>8
  <2>1. pos' = pos + 1 /\ UNCHANGED <<pc, rec, buf, dirty, kept>>
    BY DEF Program
  <2>2. TypeOK'
    BY <1>1, <1>3, <1>6, <2>1, SlotFacts DEF TypeOK, Slots
  <2>3. ProgramsErased'
    <3> SUFFICES ASSUME ~dirty, NEW i \in Slots
                 PROVE  flash'[rec][i] = IF i < pos + 1 THEN buf[i] ELSE Blank
      BY <1>1, <2>1 DEF ProgramsErased
    <3>1. flash[rec][i] = IF i < pos THEN buf[i] ELSE Blank
      BY <1>1 DEF ProgramsErased
    <3>2. flash'[rec][i] = IF i = pos THEN buf[pos] ELSE flash[rec][i]
      BY <1>2, <1>3 DEF TypeOK
    <3> QED BY <3>1, <3>2 DEF TypeOK, Slots
  <2>4. WriteInv'
    BY <1>1, <2>1 DEF WriteInv, Writing, Copies
  <2>5. KeptHolds'
    BY <1>1, <1>5, <2>1 DEF KeptHolds, WriteInv, Writing
  <2> QED BY <1>4, <1>7, <2>2, <2>3, <2>4, <2>5
<1>9. CASE ~(pos < RecWords)
  <2> USE <1>9
  <2>1. /\ pc' = "up" /\ EndWrite
        /\ kept' = IF dirty THEN kept ELSE [kept EXCEPT ![rec] = Given(buf[ContentWord])]
    BY DEF Program
  <2>2. TypeOK'
    BY <1>1, <1>3, <1>6, <2>1, SlotFacts, WordFacts DEF TypeOK, EndWrite
  <2>3. ProgramsErased' /\ WriteInv'
    BY <2>1 DEF ProgramsErased, WriteInv, Writing
  <2>4. ~dirty => \A i \in Slots : flash'[rec][i] = buf[i]
    BY <1>1, <1>2, <1>3, SlotFacts DEF ProgramsErased, TypeOK, Slots
  <2>5. KeptHolds'
    <3> SUFFICES ASSUME NEW r \in Records, kept'[r].given
                 PROVE  Modified(r)' /\ flash'[r][ContentWord] = kept'[r].word
      BY DEF KeptHolds
    <3>1. CASE r # rec
      BY <1>5, <2>1, <3>1 DEF KeptHolds, TypeOK
    <3>2. CASE r = rec
      <4>1. ~dirty
        BY <1>1, <2>1, <3>2 DEF WriteInv, Writing
      <4>2. kept'[r].word = buf[ContentWord]
        BY <2>1, <3>2, <4>1, SlotFacts, WordFacts DEF TypeOK
      <4>3. \A i \in 1..MarkWords : flash'[r][i] = Mark
        BY <1>1, <2>4, <3>2, <4>1, SlotFacts DEF WriteInv, Writing
      <4> QED BY <2>4, <3>2, <4>1, <4>2, <4>3, SlotFacts DEF Modified
    <3> QED BY <3>1, <3>2
  <2> QED BY <1>4, <1>7, <2>2, <2>3, <2>5
<1> QED BY <1>8, <1>9

LEMMA StutterIInv ==
  ASSUME IInv, UNCHANGED vars
  PROVE  IInv'
BY DEF IInv, TypeOK, ProgramsErased, ContentKnown, WriteInv, Writing, KeptHolds, Modified,
       EmptyKnown, BeforeContent, Copies, vars, write

LEMMA NextIInv ==
  ASSUME IInv, [Next]_vars
  PROVE  IInv'
<1>1. CASE Boot \/ OverTemperature
  BY <1>1, StepBoot
<1>2. CASE \E r \in Records, v \in Values : InfModify(r, v)
  BY <1>2, StepInfModify
<1>3. CASE \E v \in Values : IpCommand(v)
  BY <1>3, StepIpCommand
<1>4. CASE ScanClean
  BY <1>4, StepScanClean
<1>5. CASE EraseSector \/ EraseCut
  BY <1>5, StepErase
<1>6. CASE EraseFails
  BY <1>6, StepEraseFails
<1>7. CASE Program
  BY <1>7, StepProgram
<1>8. CASE ProgramFails
  <2>1. /\ EndWrite /\ pc' = "up" /\ UNCHANGED <<flash, mixed, asked, kept, moved>>
        /\ empty' = CutShort /\ UNCHANGED <<ram, gError>>
    BY <1>8 DEF ProgramFails
  <2> QED BY <2>1, StepLeave DEF IInv, TypeOK
<1>9. CASE PowerOff
  <2>1. /\ EndWrite /\ pc' = "off" /\ UNCHANGED <<flash, mixed, asked, kept, moved>>
        /\ empty' = CutShort /\ ram' = [r \in Records |-> Default] /\ gError' = 0
    BY <1>9 DEF PowerOff
  <2> QED BY <2>1, WordFacts, StepLeave
<1>10. CASE UNCHANGED vars
  BY <1>10, StutterIInv
<1> QED BY <1>1, <1>2, <1>3, <1>4, <1>5, <1>6, <1>7, <1>8, <1>9, <1>10 DEF Next

LEMMA SpecIInv == Spec => []IInv
<1>1. IInv /\ [Next]_vars => IInv'
  BY NextIInv
<1> QED BY InitIInv, <1>1, PTL DEF Spec

-----------------------------------------------------------------------------
(* The variables keep their types; the cursor stays within the record.      *)
THEOREM FlashTypeOK == Spec => []TypeOK
<1>1. IInv => TypeOK
  BY DEF IInv
<1> QED BY <1>1, SpecIInv, PTL

(* STMFLASH_Write only programs erased words, whatever the sector held.     *)
THEOREM WritesOnErasedFlash == Spec => []ProgramsErased
<1>1. IInv => ProgramsErased
  BY DEF IInv
<1> QED BY <1>1, SpecIInv, PTL

(* IpModifiedCheck and CanModifiedCheck accept only words the host sent for *)
(* that record; an erased word only where a write or an erase was cut, or   *)
(* COMM_CMD_IP ran, on a record without content.                            *)
THEOREM BootTakesKnownValues == Spec => []NextBootKnown
<1>1. IInv => NextBootKnown
  BY BootValueFacts DEF IInv, ContentKnown, EmptyKnown, NextBootKnown
<1> QED BY <1>1, SpecIInv, PTL

(* A completed setting is what the next boot takes until InfModify or       *)
(* COMM_CMD_IP erases the sector.                                           *)
THEOREM SettingsDurable == Spec => []DurableUntilErase
<1>1. IInv => DurableUntilErase
  <2> SUFFICES ASSUME IInv, NEW r \in Records, kept[r].given
               PROVE  BootValue(r) = kept[r]
    BY DEF DurableUntilErase
  <2>1. Modified(r) /\ flash[r][ContentWord] = kept[r].word
    BY DEF IInv, KeptHolds
  <2>2. kept[r] \in Setting /\ kept[r].word \in SUBSET Bits
    BY DEF IInv, TypeOK, Setting
  <2>3. kept[r] = Given(kept[r].word)
    BY <2>2 DEF Setting, Given
  <2> QED BY <2>1, <2>2, <2>3, BootValueFacts DEF IInv
<1> QED BY <1>1, SpecIInv, PTL
=============================================================================
