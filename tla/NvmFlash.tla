------------------------------- MODULE NvmFlash -------------------------------
(***************************************************************************)
(* The NVM of the ICH and PCH adapters (ich8lan.c, nvm.c): two banks of    *)
(* flash, one of them marked valid by its signature word, and a shadow RAM *)
(* in the driver that holds the words written since. An update programs    *)
(* the other bank, marks it valid and then invalidates the old one. The    *)
(* power may fail, and the flash may report an error, at any step; another *)
(* thread reads meanwhile, kept out by nvm_mutex.                          *)
(*                                                                         *)
(* Of every word two bits are kept, the two that hold the signature in     *)
(* word Sig; sums are modulo 4 accordingly.                                *)
(***************************************************************************)
EXTENDS Integers, FiniteSets

CONSTANTS
  W,         \* words of a bank in use (E1000_ICH8_SHADOW_RAM_WORDS)
  Sig,       \* E1000_ICH_NVM_SIG_WORD
  Csum,      \* NVM_CHECKSUM_REG
  Fix,       \* the word with the bit that says the checksum was calculated
  Macs,      \* the adapters of a run: "ich9" (and ich8), "pch", "spt" (and cnp)
  Sectors,   \* hardware sectors per bank, as HSFSTS.BERASE tells
  Repeat,    \* ICH_FLASH_CYCLE_REPEAT_COUNT
  UserWords, Data, \* what a user writes with ethtool -E, and where
  Faults     \* what may fail: "read", "write", "erase" (no answer, or an error that
             \*   lasts), "stuck" (an erase refused Repeat times), "detect" (the
             \*   read of a signature)

Words == 0..(W - 1)
Banks == {0, 1}
Value == 0..3
Erased == 3      \* all ones
ValidSig == 2    \* E1000_ICH_NVM_SIG_VALUE
NvmSum == 2      \* NVM_SUM

ASSUME NvmAssumption ==
  /\ W \in Nat \ {0} /\ Macs \subseteq {"ich9", "pch", "spt"}
  /\ Sig \in Words /\ Csum \in Words /\ Fix \in Words \ {Sig} /\ Sig < Csum
  /\ "spt" \in Macs => W % 2 = 0 /\ Sig % 2 = 1
  /\ Sectors \in 1..W /\ Repeat \in Nat \ {0}
  /\ UserWords \subseteq Words /\ Data \subseteq Value
  /\ Faults \subseteq {"read", "write", "erase", "stuck", "detect"}

VARIABLES
  mac,       \* hw->mac.type
  flash,     \* both banks
  shadow,    \* shadow_ram: the modified words and their values
  eecd,      \* the bank that EECD tells (ich8, ich9), as of the last reload
  mutex,     \* nvm_mutex: "free", "user" or "reader"
  pc, op,    \* the updating thread: program point; "set" or "probe"
  tries,     \* e1000_probe: attempts at validation
  bank,      \* e1000_update_nvm_checksum_*: the bank found valid
  i,         \*   next word to be copied
  j, addr, count, \* e1000_erase_flash_bank_ich8lan
  rpc, rword, rbank, rval  \* the reading thread

user   == <<op, tries, bank, i, j, addr, count>>
reader == <<rpc, rword, rbank, rval>>
chip   == <<mac, eecd>>
vars   == <<chip, flash, shadow, mutex, pc, user, reader>>

\* How many words a flash access holds.
Stride == IF mac = "spt" THEN 2 ELSE 1

Overlay(f, g) ==
  [w \in DOMAIN f \cup DOMAIN g |-> IF w \in DOMAIN f THEN f[w] ELSE g[w]]

NoWords == [w \in {} |-> 0]

\* Programming flash turns ones into zeros only.
And(a, b) == 2 * ((a \div 2) * (b \div 2)) + (a % 2) * (b % 2)

\* The sum of some words of an image.
Total(img, S) == 2 * Cardinality({w \in S : img[w] \div 2 = 1})
                   + Cardinality({w \in S : img[w] % 2 = 1})

Calculated(v) == v % 2 = 1

\* Outside an update its local variables mean nothing.
NoLocals == bank' = 0 /\ i' = 0 /\ j' = 0 /\ addr' = 0 /\ count' = 0

-----------------------------------------------------------------------------
(* Finding the valid bank, and reading.                                    *)

\* The bank with a valid signature, bank 0 if both have one or none has (on an error
\* the callers take bank 0).
SignedBank ==
  IF flash[0][Sig] # ValidSig /\ flash[1][Sig] = ValidSig THEN 1 ELSE 0

\* e1000_valid_nvm_bank_detect_ich8lan
Detected == IF mac = "ich9" THEN eecd ELSE SignedBank

\* ... and what its callers take for it.
Detections == {Detected} \cup (IF "detect" \in Faults THEN {0} ELSE {})

\* e1000_read_nvm_ich8lan, e1000_read_nvm_spt
Read(w, b) == IF w \in DOMAIN shadow THEN shadow[w] ELSE flash[b][w]

Image(b) == [w \in Words |-> Read(w, b)]

\* A bank as the OEM leaves it, perhaps without a checksum.
Shipped(img) ==
  /\ img[Sig] = ValidSig
  /\ Calculated(img[Fix]) => Total(img, 0..Csum) % 4 = NvmSum

\* The other bank is erased, or an older image made invalid.
Init ==
  /\ mac \in Macs
  /\ \E b \in Banks, img \in [Words -> Data \cup {ValidSig}] :
       /\ Shipped(img)
       /\ flash \in {[c \in Banks |-> IF c = b THEN img ELSE old] :
            old \in {[w \in Words |-> Erased], [w \in Words |-> 0]}}
       /\ eecd = b
  /\ shadow = NoWords
  /\ mutex = "free" /\ pc = "probe"
  /\ op = "probe" /\ tries = 0
  /\ bank = 0 /\ i = 0 /\ j = 0 /\ addr = 0 /\ count = 0
  /\ rpc = "idle" /\ rword = 0 /\ rbank = 0 /\ rval = 0

-----------------------------------------------------------------------------
(* Who asks for an update.                                                 *)

\* e1000_validate_nvm_checksum_ich8lan, called by e1000_probe: an image without a
\* checksum gets one. (The validation proper returns 0 whatever the image.)
Validate ==
  /\ pc = "probe" /\ mutex = "free"
  /\ \E b \in Detections :
       LET v == Read(Fix, b) IN
         IF Calculated(v)
           THEN pc' = "idle" /\ UNCHANGED shadow
           ELSE /\ shadow' = Overlay([w \in {Fix} |-> v + 1], shadow)
                /\ pc' = "sum"
  /\ op' = (IF pc' = "idle" THEN "none" ELSE "probe")
  /\ UNCHANGED <<flash, chip, mutex, tries, bank, i, j, addr, count, reader>>

ValidateFails ==
  /\ pc = "probe" /\ "read" \in Faults
  /\ pc' = "failed"
  /\ UNCHANGED <<flash, shadow, chip, mutex, user, reader>>

\* e1000_set_eeprom: the words go to the shadow RAM; the update is made if the first
\* of them is not past the checksum.
SetEeprom(first, last) ==
  /\ pc = "idle" /\ mutex = "free"
  /\ first..last \subseteq UserWords
  /\ \E new \in [first..last -> Data] : shadow' = Overlay(new, shadow)
  /\ op' = "set"
  /\ pc' = (IF first <= Csum THEN "sum" ELSE "written")
  /\ UNCHANGED <<flash, chip, mutex, tries, bank, i, j, addr, count, reader>>

\* e1000_set_eeprom or e1000_probe goes on; e1000_probe tries three times.
Return ==
  /\ pc \in {"written", "updated", "failed"}
  /\ IF op = "probe" /\ pc = "failed"
       THEN /\ pc' = (IF tries = 2 THEN "dead" ELSE "probe")
            /\ tries' = (tries + 1) % 3 /\ UNCHANGED op
       ELSE pc' = "idle" /\ op' = "none" /\ tries' = 0
  /\ NoLocals
  /\ UNCHANGED <<flash, shadow, chip, mutex, reader>>

-----------------------------------------------------------------------------
(* e1000_update_nvm_checksum_ich8lan, e1000_update_nvm_checksum_spt.       *)

BadSummed == 0..(Csum - 2)

\* The words that the checksum covers.
Summed == 0..(Csum - 1)

\* e1000e_update_nvm_checksum_generic: every word is read, nvm_mutex taken and given
\* back each time (no other thread writes meanwhile).
UpdateChecksum ==
  /\ pc = "sum" /\ mutex = "free"
  /\ \E b \in Detections :
       LET sum == (NvmSum - Total(Image(b), Summed)) % 4
       IN  shadow' = Overlay([w \in {Csum} |-> sum], shadow)
  /\ pc' = "acquire"
  /\ UNCHANGED <<flash, chip, mutex, user, reader>>

ChecksumFails ==
  /\ pc = "sum" /\ "read" \in Faults
  /\ pc' = "failed"
  /\ UNCHANGED <<flash, shadow, chip, mutex, user, reader>>

\* nvm.ops.acquire, and which bank is in use.
AcquireNvm ==
  /\ pc = "acquire" /\ mutex = "free"
  /\ mutex' = "user"
  /\ bank' \in Detections
  /\ i' = 0 /\ j' = 0 /\ addr' = 0 /\ count' = 0
  /\ pc' = "erase"
  /\ UNCHANGED <<flash, shadow, chip, op, tries, reader>>

BadOther == bank

\* "We're writing to the opposite bank".
Other == 1 - bank

\* Word w of bank b is in the hardware sector n, counted from the start of bank 0.
InSector(b, w, n) ==
  LET k == n - b * Sectors
  IN  k \in 0..(Sectors - 1) /\ k * W <= w * Sectors /\ w * Sectors < (k + 1) * W

EraseSector(n) ==
  [b \in Banks |-> [w \in Words |->
     IF InSector(b, w, n) THEN Erased ELSE flash[b][w]]]

ErasedAll(n) == n = Sectors

NextSector ==
  /\ j' = j + 1
  /\ pc' = (IF ErasedAll(j + 1) THEN "copy" ELSE "erase")

\* The one that the next cycle erases.
Sector == Other * Sectors + addr + j

\* One erase cycle of e1000_erase_flash_bank_ich8lan: flash_linear_addr moves on by
\* j sectors, at every attempt. A sector past the region of the adapter is refused.
EraseCycle ==
  /\ pc = "erase"
  /\ addr' = addr + j
  /\ \/ /\ Sector < 2 * Sectors
        /\ flash' = EraseSector(Sector)
        /\ NextSector
        /\ UNCHANGED count
     \/ /\ Sector >= 2 * Sectors \/ "stuck" \in Faults \/ count + 1 < Repeat
        /\ count' = count + 1
        /\ IF count + 1 < Repeat THEN UNCHANGED <<j, pc>> ELSE NextSector
        /\ UNCHANGED flash
  /\ UNCHANGED <<shadow, chip, mutex, op, tries, bank, i, reader>>

BadGiveUp ==
  /\ pc' = "failed"
  /\ UNCHANGED <<shadow, chip, mutex, user, reader>>

\* The label release, with an error: the shadow RAM keeps what it has.
GiveUp ==
  /\ mutex' = "free"
  /\ pc' = "failed"
  /\ UNCHANGED <<shadow, chip, user, reader>>

\* No answer in time; the cycle may be completed all the same.
EraseFails ==
  /\ pc = "erase" /\ "erase" \in Faults
  /\ UNCHANGED flash \/ (Sector < 2 * Sectors /\ flash' = EraseSector(Sector))
  /\ GiveUp

Program(b, img) ==
  flash' = [flash EXCEPT ![b] = [w \in Words |->
              IF w \in DOMAIN img THEN And(flash[b][w], img[w]) ELSE flash[b][w]]]

BadCopied(w) == Read(w, bank)

\* The signature stays 11b until all is copied.
Copied(w) == IF w = Sig THEN 3 ELSE Read(w, bank)

Chunk == [w \in i..(i + Stride - 1) |-> Copied(w)]

CopyWords ==
  /\ pc = "copy"
  /\ Program(Other, Chunk)
  /\ i' = i + Stride
  /\ pc' = (IF i + Stride >= W THEN "validate" ELSE "copy")
  /\ UNCHANGED <<shadow, chip, mutex, op, tries, bank, j, addr, count, reader>>

\* A word that is not modified is read from the old bank (from SPT on any is), and
\* what was programmed may have taken effect.
CopyFails ==
  /\ pc = "copy"
  /\ \/ "read" \in Faults /\ (Stride = 2 \/ i \notin DOMAIN shadow) /\ UNCHANGED flash
     \/ "write" \in Faults /\ (UNCHANGED flash \/ Program(Other, Chunk))
  /\ GiveUp

\* Bit 14 of the new signature goes to 0: the new bank is valid.
MarkValid ==
  /\ pc = "validate"
  /\ Program(Other, [w \in {Sig} |-> 2])
  /\ pc' = "invalidate"
  /\ UNCHANGED <<shadow, chip, mutex, user, reader>>

MarkFails ==
  /\ pc = "validate"
  /\ \/ "read" \in Faults /\ UNCHANGED flash
     \/ "write" \in Faults /\ (UNCHANGED flash \/ Program(Other, [w \in {Sig} |-> 2]))
  /\ GiveUp

\* The high byte of the old signature goes to 0 (SPT reads the word first).
InvalidateOld ==
  /\ pc = "invalidate"
  /\ Program(bank, [w \in {Sig} |-> 0])
  /\ pc' = "clear"
  /\ UNCHANGED <<shadow, chip, mutex, user, reader>>

InvalidateFails ==
  /\ pc = "invalidate"
  /\ \/ "read" \in Faults /\ Stride = 2 /\ UNCHANGED flash
     \/ "write" \in Faults /\ (UNCHANGED flash \/ Program(bank, [w \in {Sig} |-> 0]))
  /\ GiveUp

\* The shadow RAM is emptied and nvm_mutex given back.
ClearShadow ==
  /\ pc = "clear"
  /\ shadow' = NoWords
  /\ mutex' = "free"
  /\ pc' = "reload"
  /\ UNCHANGED <<flash, chip, user, reader>>

\* e1000e_reload_nvm_generic, after nvm_mutex was given back.
Reload ==
  /\ pc = "reload"
  /\ eecd' = SignedBank
  /\ pc' = "updated"
  /\ UNCHANGED <<mac, flash, shadow, mutex, user, reader>>

-----------------------------------------------------------------------------
(* A thread that reads a word, e.g. e1000_get_eeprom or, in a reset,       *)
(* e1000_valid_led_default_ich8lan. There is none before the device is     *)
(* registered.                                                             *)

ReadWant ==
  /\ rpc = "idle" /\ op # "probe"
  /\ rpc' = "want"
  /\ UNCHANGED <<flash, shadow, chip, mutex, pc, user, rword, rbank, rval>>

BadReadAcquire ==
  /\ rpc = "want"
  /\ rbank' \in Detections
  /\ rpc' = "read"
  /\ UNCHANGED <<flash, shadow, chip, mutex, pc, user, rword, rval>>

ReadAcquire ==
  /\ rpc = "want" /\ mutex = "free"
  /\ mutex' = "reader"
  /\ rbank' \in Detections
  /\ rpc' = "read"
  /\ UNCHANGED <<flash, shadow, chip, pc, user, rword, rval>>

ReadFetch(w) ==
  /\ rpc = "read"
  /\ rword' = w /\ rval' = Read(w, rbank)
  /\ rpc' = "got"
  /\ UNCHANGED <<flash, shadow, chip, mutex, pc, user, rbank>>

ReadRelease ==
  /\ rpc = "got" \/ (rpc = "read" /\ "read" \in Faults)
  /\ mutex' = "free"
  /\ rpc' = "idle" /\ rword' = 0 /\ rbank' = 0 /\ rval' = 0
  /\ UNCHANGED <<flash, shadow, chip, pc, user>>

-----------------------------------------------------------------------------
\* The power fails, or the machine is restarted; the driver is loaded again.
PowerLoss ==
  /\ shadow' = NoWords /\ eecd' = SignedBank
  /\ mutex' = "free" /\ pc' = "probe"
  /\ op' = "probe" /\ tries' = 0
  /\ NoLocals
  /\ rpc' = "idle" /\ rword' = 0 /\ rbank' = 0 /\ rval' = 0
  /\ UNCHANGED <<mac, flash>>

Update ==
  \/ Validate \/ ValidateFails \/ Return \/ UpdateChecksum \/ ChecksumFails
  \/ AcquireNvm \/ EraseCycle \/ EraseFails \/ CopyWords \/ CopyFails
  \/ MarkValid \/ MarkFails \/ InvalidateOld \/ InvalidateFails
  \/ ClearShadow \/ Reload

ReadStep == ReadAcquire \/ (\E w \in Words : ReadFetch(w)) \/ ReadRelease

Next ==
  \/ \E first, last \in Words : first <= last /\ SetEeprom(first, last)
  \/ Update
  \/ ReadWant \/ ReadStep
  \/ PowerLoss

Spec == Init /\ [][Next]_vars

\* A thread that runs goes on, and a mutex is handed over in turn.
FairSpec == Spec /\ WF_vars(Update) /\ SF_vars(ReadStep)

-----------------------------------------------------------------------------
(* Properties.                                                             *)

TypeOK ==
  /\ mac \in Macs
  /\ flash \in [Banks -> [Words -> Value]]
  /\ DOMAIN shadow \subseteq Words /\ \A w \in DOMAIN shadow : shadow[w] \in Value
  /\ eecd \in Banks /\ bank \in Banks /\ rbank \in Banks
  /\ mutex \in {"free", "user", "reader"}
  /\ pc \in {"probe", "idle", "sum", "acquire", "erase", "copy", "validate",
             "invalidate", "clear", "reload", "written", "updated", "failed", "dead"}
  /\ op \in {"none", "set", "probe"} /\ tries \in 0..2
  /\ i \in 0..W /\ j \in 0..Sectors
  /\ addr \in Nat /\ count \in 0..(Repeat + Sectors)
  /\ rpc \in {"idle", "want", "read", "got"} /\ rword \in Words /\ rval \in Value

\* The words whose value the driver leaves to the user.
Kept == Words \ {Sig}

Updating == {"erase", "copy", "validate", "invalidate", "clear", "reload"}

View == [w \in Kept |-> Read(w, Detected)]

Durable == [w \in Kept |-> flash[SignedBank][w]]

State == IF pc \in Updating THEN "busy" ELSE IF pc = "updated" THEN "done" ELSE "open"

Store == INSTANCE NvmStore WITH
           Words <- Kept, view <- View, durable <- Durable, state <- State

\* "After a successful commit, the shadow ram is cleared and is ready for future
\* writes" (e1000_update_nvm_checksum_ich8lan). Whatever fails, and wherever the power
\* does, the words read back are the ones written last, and after a power loss all of
\* a committed image, the old or the new; an update reported as made is committed.
ImplementsStore == Store!Spec

\* "We want to do this after the write has completed so that we don't mark the segment
\* valid while the write is still in progress" (e1000_update_nvm_checksum_ich8lan):
\* at no moment is the adapter left without a bank that its hardware would load.
SomeBankValid == \E b \in Banks : flash[b][Sig] = ValidSig

\* The image that survives a power loss adds up to NVM_SUM, if it claims to: word,
\* checksum and signature are committed together.
ChecksumDurable ==
  LET img == flash[SignedBank]
  IN  Calculated(img[Fix]) => Total(img, 0..Csum) % 4 = NvmSum

\* No image is ever committed without its checksum, however words wrap and whatever fails.
ImageDurable == TypeOK /\ ChecksumDurable

\* A reader never gets a word from a bank that is being erased or that was replaced
\* after it was found valid ("Mutex used while performing NVM operations").
ReadsAreCurrent == rpc = "got" => rval = Read(rword, Detected)

\* Every path of an update, the failing ones too, gives nvm_mutex back.
ReadersProceed == rpc = "want" ~> rpc # "want"

-----------------------------------------------------------------------------
(* What the code says of itself and does not keep to.                      *)

\* "Hw sector size 256 bytes, hence we need to erase 16 consecutive sectors" at
\* "bank * 4096 + n * 256" (e1000_erase_flash_bank_ich8lan): a bank said to be erased
\* is. Violated with Sectors >= 3, and with "stuck".
EraseCoversBank ==
  pc = "copy" /\ i = 0 => \A w \in Words : flash[Other][w] = Erased

\* "Update the checksum over the first part of the EEPROM if needed and flush shadow
\* RAM for applicable controllers" (e1000_set_eeprom): what was written is flushed.
\* Violated by a write to words past the checksum alone.
SetEepromFlushes ==
  pc \in {"written", "updated"} => DOMAIN shadow = {}
=============================================================================
