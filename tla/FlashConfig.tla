---------------------------- MODULE FlashConfig ----------------------------
(***************************************************************************)
(* The settings the unit keeps in flash: its IP address, the CAN           *)
(* identifiers of the two ends and the work mode, one record each, all in  *)
(* the same sector.  A record is a run of marks (0x55AA), the content word *)
(* and words nobody reads.  Commands 0x13, 0x15, 0x17 and 0x19 rewrite a   *)
(* record from the host's bytes, COMM_CMD_IP and the multicast packet      *)
(* rewrite the address record; the boot code takes a record whose marks    *)
(* are complete and otherwise keeps the built-in default.                  *)
(*                                                                         *)
(* All writers run in tcpip_thread, so there is one write at a time.  Power *)
(* may fail between any two words and in the middle of an erase.           *)
(*                                                                         *)
(* A flash word is the set of its 1 bits: erasing makes it Bits (all ones), *)
(* programming can only clear bits, and so intersects.                     *)
(***************************************************************************)
EXTENDS Integers

CONSTANTS
  Records,    \* the records in use, among "ip", "can", "can_r" and "wm"
  Bits,       \* the bit positions of a word
  Mark,       \* the word 0x55AA55AA
  MarkWords,  \* the marks in front of the content, 12 in the code
  TailWords,  \* the words behind the content, 3 in the code
  Values      \* the words the host sends

ASSUME RecordsAssumption == Records \subseteq {"ip", "can", "can_r", "wm"}
ASSUME MarkAssumption    == Mark \subseteq Bits /\ Mark # Bits
ASSUME SizeAssumption    == MarkWords \in Nat \ {0} /\ TailWords \in Nat
ASSUME ValuesAssumption  == Values \subseteq SUBSET Bits

VARIABLES
  flash,   \* the sector: per record its words
  pc,      \* "off", "up", or in STMFLASH_Write at "scan" or "program"
  rec,     \* the record that is written
  buf,     \* tmp_flash, its new words
  pos,     \* the next word to program
  ram,     \* the settings in use, as the last boot found them
  gError,  \* g_Error
  dirty,   \* history: this write goes on after a failed erase
  mixed,   \* history: the records programmed after a failed erase, until the
           \* sector is erased
  asked,   \* history: per record the words the host ever sent for it
  kept,    \* history: per record what its last complete write stored, until
           \* the sector is erased or the record is written again
  empty,   \* history: the records that may have got marks and no content
  moved    \* history: the address of the last COMM_CMD_IP or multicast packet,
           \* until command 0x15 sets another

write == <<rec, buf, pos, dirty>>
vars  == <<flash, pc, write, ram, gError, mixed, asked, kept, empty, moved>>

Blank       == Bits
RecWords    == MarkWords + 1 + TailWords
ContentWord == MarkWords + 1
Slots       == 1..RecWords
BlankRecord == [i \in Slots |-> Blank]
Setting     == [given : BOOLEAN, word : SUBSET Bits]
Default     == [given |-> FALSE, word |-> {}]
Given(w)    == [given |-> TRUE, word |-> w]

(* Outside STMFLASH_Write its variables mean nothing.                       *)
EndWrite ==
  /\ buf' = BlankRecord
  /\ pos' = 1
  /\ dirty' = FALSE
  /\ UNCHANGED rec

(* A new unit: the sector is erased, nothing has been booted.               *)
Init ==
  /\ flash = [r \in Records |-> BlankRecord]
  /\ pc = "off"
  /\ rec \in Records
  /\ buf = BlankRecord
  /\ pos = 1
  /\ ram = [r \in Records |-> Default]
  /\ gError = 0
  /\ dirty = FALSE
  /\ mixed = {}
  /\ asked = [r \in Records |-> {}]
  /\ kept = [r \in Records |-> Default]
  /\ empty = {}
  /\ moved = Default

-----------------------------------------------------------------------------
(* g_IpAllModified and g_CanAllModified: every mark is in place.            *)
Modified(r) == \A i \in 1..MarkWords : flash[r][i] = Mark

(* What IpModifiedCheck and CanModifiedCheck take from record r.            *)
BootValue(r) == IF Modified(r) THEN Given(flash[r][ContentWord]) ELSE Default

(* The boot code reads every record but the work mode.                      *)
Boot ==
  /\ pc = "off"
  /\ pc' = "up"
  /\ ram' = [r \in Records |-> IF r = "wm" THEN Default ELSE BootValue(r)]
  /\ gError' = 0
  /\ UNCHANGED <<flash, write, mixed, asked, kept, empty, moved>>

(* The led task finds the unit too hot.                                     *)
OverTemperature ==
  /\ pc = "up" /\ gError = 0
  /\ gError' = 1
  /\ UNCHANGED <<flash, pc, write, ram, mixed, asked, kept, empty, moved>>

-----------------------------------------------------------------------------
(* The head of a write: tmp_flash is complete, STMFLASH_Write begins.       *)
BeginWrite(r, words) ==
  /\ pc = "up"
  /\ pc' = "scan"
  /\ rec' = r
  /\ buf' = words
  /\ pos' = 1
  /\ dirty' = FALSE
  /\ kept' = [kept EXCEPT ![r] = Default]
  /\ UNCHANGED <<flash, ram, gError, mixed, empty>>

(* InfModify: the marks, the host's four bytes, zeros.                      *)
RecordOf(v) == [i \in Slots |-> IF i <= MarkWords THEN Mark
                                ELSE IF i = ContentWord THEN v ELSE {}]

(* Commands 0x13, 0x15, 0x17 and 0x19.                                      *)
InfModify(r, v) ==
  /\ gError = 0
  /\ BeginWrite(r, RecordOf(v))
  /\ asked' = [asked EXCEPT ![r] = @ \cup {v}]
  /\ moved' = IF r = "ip" THEN Default ELSE moved

(* COMM_CMD_IP and the multicast packet put the marks in front of what the  *)
(* address record holds.  The new address goes to tmp_flash[64..79], behind *)
(* the 64 bytes of the array that are written: it never reaches the flash.  *)
IpCommand(v) ==
  /\ "ip" \in Records
  /\ moved' = Given(v)
  /\ BeginWrite("ip", [i \in Slots |-> IF i <= MarkWords THEN Mark ELSE flash["ip"][i]])
  /\ UNCHANGED asked

(* The write in hand is one that keeps the content of the record.           *)
Copies == rec = "ip" /\ moved.given

-----------------------------------------------------------------------------
(* Slip: only the marks are looked at before programming.                  *)
NeedsErase_MarksOnly == \E i \in 1..MarkWords : flash[rec][i] # Blank

(* Slip: only the first word is looked at before programming.              *)
NeedsErase_FirstWord == flash[rec][1] # Blank

(* The first loop of STMFLASH_Write looks for a word that is not blank.     *)
NeedsErase == \E i \in Slots : flash[rec][i] # Blank

ScanClean ==
  /\ pc = "scan" /\ ~NeedsErase
  /\ pc' = "program"
  /\ UNCHANGED <<flash, write, ram, gError, mixed, asked, kept, empty, moved>>

(* HAL_FLASHEx_Erase clears the whole sector; the loop goes on.             *)
EraseSector ==
  /\ pc = "scan" /\ NeedsErase
  /\ flash' = [r \in Records |-> BlankRecord]
  /\ kept' = [r \in Records |-> Default]
  /\ empty' = {}
  /\ mixed' = IF Copies THEN mixed \cap {rec} ELSE {}
  /\ UNCHANGED <<pc, write, ram, gError, asked, moved>>

(* The erase fails and the loop ends.  The error flags are cleared by then, *)
(* so that FLASH_WaitForLastOperation reports success and the words are     *)
(* programmed over the old ones; only when the flash is still busy is the   *)
(* write given up.                                                         *)
EraseFails ==
  /\ pc = "scan" /\ NeedsErase
  /\ \/ /\ pc' = "program"
        /\ dirty' = TRUE
        /\ mixed' = mixed \cup {rec}
        /\ UNCHANGED <<rec, buf, pos>>
     \/ /\ pc' = "up"
        /\ EndWrite
        /\ UNCHANGED mixed
  /\ UNCHANGED <<flash, ram, gError, asked, kept, empty, moved>>

(* The marks are programmed and the content is next.                        *)
BeforeContent(r) == pc = "program" /\ rec = r /\ pos = ContentWord

(* The write ends here: has the record marks and no content now?            *)
CutShort == empty \cup {r \in Records : BeforeContent(r)}

(* History: with its content word a record is complete, unless COMM_CMD_IP  *)
(* had found no content to keep.                                            *)
Filled ==
  IF pos # ContentWord THEN empty
  ELSE IF Copies /\ buf[ContentWord] = Blank THEN empty \cup {rec}
  ELSE empty \ {rec}

(* Programming clears bits and sets none.                                  *)
ProgramWord(r, i, w) == flash' = [flash EXCEPT ![r][i] = @ \cap w]

(* Slip: the loop ends behind the marks.                                   *)
Program_EarlyEnd ==
  /\ pc = "program"
  /\ ProgramWord(rec, pos, buf[pos])
  /\ IF pos < MarkWords
     THEN pos' = pos + 1 /\ UNCHANGED <<pc, rec, buf, dirty, kept>>
     ELSE /\ pc' = "up"
          /\ kept' = IF dirty THEN kept ELSE [kept EXCEPT ![rec] = Given(buf[ContentWord])]
          /\ EndWrite
  /\ empty' = Filled
  /\ UNCHANGED <<ram, gError, mixed, asked, moved>>

(* Slip: the loop runs one word too far.                                   *)
Program_OneTooFar ==
  /\ pc = "program"
  /\ ProgramWord(rec, pos, buf[pos])
  /\ IF pos <= RecWords
     THEN pos' = pos + 1 /\ UNCHANGED <<pc, rec, buf, dirty, kept>>
     ELSE /\ pc' = "up"
          /\ kept' = IF dirty THEN kept ELSE [kept EXCEPT ![rec] = Given(buf[ContentWord])]
          /\ EndWrite
  /\ empty' = Filled
  /\ UNCHANGED <<ram, gError, mixed, asked, moved>>

(* The second loop programs word by word.                                   *)
Program ==
  /\ pc = "program"
  /\ ProgramWord(rec, pos, buf[pos])
  /\ IF pos < RecWords
     THEN pos' = pos + 1 /\ UNCHANGED <<pc, rec, buf, dirty, kept>>
     ELSE /\ pc' = "up"
          /\ kept' = IF dirty THEN kept ELSE [kept EXCEPT ![rec] = Given(buf[ContentWord])]
          /\ EndWrite
  /\ empty' = Filled
  /\ UNCHANGED <<ram, gError, mixed, asked, moved>>

(* HAL_FLASH_Program fails: the loop ends, the host is told of success.     *)
ProgramFails ==
  /\ pc = "program"
  /\ pc' = "up"
  /\ EndWrite
  /\ empty' = CutShort
  /\ UNCHANGED <<flash, ram, gError, mixed, asked, kept, moved>>

-----------------------------------------------------------------------------
(* Power is lost, or command 0x1C or COMM_CMD_SFRST restarts the unit.      *)
PowerOff ==
  /\ pc # "off"
  /\ pc' = "off"
  /\ ram' = [r \in Records |-> Default]
  /\ gError' = 0
  /\ EndWrite
  /\ empty' = CutShort
  /\ UNCHANGED <<flash, mixed, asked, kept, moved>>

(* Power is lost during an erase: any word may be erased already.  A record *)
(* whose marks survive its content is empty.                                *)
EraseCut ==
  /\ pc = "scan" /\ NeedsErase
  /\ \E done \in SUBSET {w \in Records \X Slots : flash[w[1]][w[2]] # Blank} :
       /\ flash' = [r \in Records |-> [i \in Slots |->
                      IF <<r, i>> \in done THEN Blank ELSE flash[r][i]]]
       /\ empty' = {r \in Records :
                      /\ Modified(r) /\ \A i \in 1..MarkWords : <<r, i>> \notin done
                      /\ r \in empty \/ <<r, ContentWord>> \in done}
  /\ pc' = "off"
  /\ ram' = [r \in Records |-> Default]
  /\ gError' = 0
  /\ kept' = [r \in Records |-> Default]
  /\ EndWrite
  /\ UNCHANGED <<mixed, asked, moved>>

Next ==
  \/ Boot
  \/ OverTemperature
  \/ \E r \in Records, v \in Values : InfModify(r, v)
  \/ \E v \in Values : IpCommand(v)
  \/ ScanClean
  \/ EraseSector
  \/ EraseFails
  \/ Program
  \/ ProgramFails
  \/ PowerOff
  \/ EraseCut

Spec == Init /\ [][Next]_vars

-----------------------------------------------------------------------------
TypeOK ==
  /\ flash \in [Records -> [Slots -> SUBSET Bits]]
  /\ pc \in {"off", "up", "scan", "program"}
  /\ rec \in Records
  /\ buf \in [Slots -> SUBSET Bits]
  /\ pos \in Slots
  /\ ram \in [Records -> Setting]
  /\ gError \in {0, 1}
  /\ dirty \in BOOLEAN
  /\ mixed \subseteq Records
  /\ asked \in [Records -> SUBSET Values]
  /\ kept \in [Records -> Setting]
  /\ empty \subseteq Records
  /\ moved \in Setting

(* STMFLASH_Write never programs over old data: unless the erase failed,    *)
(* the words in front of the cursor read back as they were meant and every  *)
(* word from the cursor on is erased, whatever a power cut during an        *)
(* earlier write or erase has left in the sector.                           *)
ProgramsErased ==
  pc = "program" /\ ~dirty =>
    \A i \in Slots : flash[rec][i] = IF i < pos THEN buf[i] ELSE Blank

(* A record that the next boot accepts holds a word the host sent for this  *)
(* very record.  Records never take each other's content, and no power cut  *)
(* lets the boot read a mixture of two settings; only a failed erase does,  *)
(* until the sector is erased or for good if COMM_CMD_IP copies the mixture. *)
(* The boot takes an erased word for a setting only where                   *)
(*   - a write stands, was cut or failed between the marks and the content, *)
(*   - an erase was cut after the content word and before the marks, or     *)
(*   - COMM_CMD_IP or the multicast packet put marks on a record without    *)
(*     content: a completed write that gives the unit no address.           *)
NextBootKnown ==
  \A r \in Records \ mixed : BootValue(r).given =>
    \/ BootValue(r).word \in asked[r]
    \/ BootValue(r).word = Blank /\ (r \in empty \/ BeforeContent(r))

(* A setting whose write was completed survives power cuts, restarts and    *)
(* failed or cut writes of other records, until the sector is erased.       *)
DurableUntilErase ==
  \A r \in Records : kept[r].given => BootValue(r) = kept[r]

(* COMM_CMD_IP changes the address the unit boots with.                     *)
AddressChanged ==
  "ip" \in Records /\ moved.given /\ kept["ip"].given => kept["ip"] = moved
=============================================================================
