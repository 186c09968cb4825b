--------------------------- MODULE NvmFlashProofs ---------------------------
(***************************************************************************)
(* NvmFlash implements NvmStore, for banks of any size, any user's words   *)
(* and any failing reads, writes and erasures, on adapters whose bank is   *)
(* one hardware sector and is found by its signature; and the image found  *)
(* always has its checksum.                                                *)
(***************************************************************************)
EXTENDS NvmFlash, FiniteSetTheorems, TLAPS

\* What the theorems assume: see the properties at the end of NvmFlash for what
\* happens without.
Plain ==
  /\ Sectors = 1
  /\ "detect" \notin Faults /\ "stuck" \notin Faults
  /\ "ich9" \notin Macs

Labels == {"probe", "idle", "sum", "acquire", "erase", "copy", "validate",
           "invalidate", "clear", "reload", "written", "updated", "failed", "dead"}

Types ==
  /\ mac \in Macs
  /\ flash \in [Banks -> [Words -> Value]]
  /\ DOMAIN shadow \subseteq Words /\ \A w \in DOMAIN shadow : shadow[w] \in Value
  /\ bank \in Banks /\ i \in Nat /\ pc \in Labels

\* From the erasure to the emptying of the shadow RAM nvm_mutex is held; a reader
\* holds it too, and what it found stays true.
Exclusion ==
  /\ pc \in {"erase", "copy", "validate", "invalidate", "clear"} => mutex = "user"
  /\ rpc \in {"read", "got"} => mutex = "reader" /\ rbank = SignedBank
  /\ rpc = "got" => rword \in Words /\ rval = Read(rword, SignedBank)

\* How far the new bank has come. Until its signature is there, the old bank is the one
\* found; once it is, either will do.
Progress ==
  /\ pc \in {"erase", "copy", "validate"} => bank = SignedBank
  /\ pc \in {"erase", "copy", "validate", "invalidate"} => flash[bank][Sig] = ValidSig
  /\ pc = "erase" => i = 0 /\ j = 0 /\ addr = 0
  /\ pc = "copy" =>
       \A w \in Words : flash[Other][w] = IF w < i THEN Copied(w) ELSE Erased
  /\ pc = "validate" => \A w \in Words : flash[Other][w] = Copied(w)
  /\ pc \in {"invalidate", "clear"} =>
       /\ \A w \in Kept : flash[Other][w] = Read(w, bank)
       /\ flash[Other][Sig] = ValidSig
  /\ pc = "clear" => flash[bank][Sig] # ValidSig
  /\ pc \in {"reload", "updated"} => DOMAIN shadow = {}

IInv == Types /\ Exclusion /\ Progress /\ SomeBankValid

-----------------------------------------------------------------------------
LEMMA AndFacts ==
  ASSUME NEW x \in Value, NEW y \in Value
  PROVE  And(x, y) \in Value /\ And(Erased, y) = y /\ And(x, 0) = 0 /\ And(3, 2) = 2
<1>1. x \in {0, 1, 2, 3} /\ y \in {0, 1, 2, 3}
  BY DEF Value
<1>2. /\ 0 \div 2 = 0 /\ 1 \div 2 = 0 /\ 2 \div 2 = 1 /\ 3 \div 2 = 1
      /\ 0 % 2 = 0 /\ 1 % 2 = 1 /\ 2 % 2 = 0 /\ 3 % 2 = 1
  OBVIOUS
<1> QED BY <1>1, <1>2 DEF And, Erased, Value

\* The sum that completes an image is a word.
LEMMA SumIsWord ==
  ASSUME NEW img, NEW S \in SUBSET Words
  PROVE  (NvmSum - Total(img, S)) % 4 \in Value
<1>1. IsFiniteSet(Words)
  BY NvmAssumption, FS_Interval DEF Words
<1>2. \A T \in SUBSET Words : Cardinality(T) \in Nat
  BY <1>1, FS_Subset, FS_CardinalityType
<1>3. Total(img, S) \in Nat
  BY <1>2 DEF Total
<1> QED BY <1>3 DEF NvmSum, Value

\* Erasing the only sector of a bank erases the bank and nothing else.
LEMMA EraseWhole ==
  ASSUME Plain, Types, NEW b \in Banks
  PROVE  EraseSector(b) = [c \in Banks |-> [w \in Words |->
                             IF c = b THEN Erased ELSE flash[c][w]]]
<1>1. \A c \in Banks, w \in Words : InSector(c, w, b) <=> c = b
  BY NvmAssumption DEF Plain, InSector, Banks, Words
<1> QED BY <1>1 DEF EraseSector

-----------------------------------------------------------------------------
\* Which bank is found, and what is read from it.
LEMMA Finding ==
  ASSUME Plain, Types
  PROVE  /\ SignedBank \in Banks /\ Detected = SignedBank /\ Detections = {SignedBank}
         /\ \A w \in Words, b \in Banks : Read(w, b) \in Value
         /\ View \in [Kept -> Value]
<1>1. SignedBank \in Banks /\ Detected = SignedBank /\ Detections = {SignedBank}
  BY DEF Plain, Types, SignedBank, Detected, Detections, Banks
<1>2. \A w \in Words, b \in Banks : Read(w, b) \in Value
  BY DEF Types, Read
<1> QED BY <1>1, <1>2 DEF View, Kept

\* A step that leaves the data alone leaves alone what is read.
LEMMA DataKept ==
  ASSUME Plain, Types, UNCHANGED <<mac, flash, shadow>>
  PROVE  /\ SignedBank' = SignedBank /\ View' = View /\ Durable' = Durable
         /\ \A w, b : Read(w, b)' = Read(w, b)
<1>1. SignedBank' = SignedBank /\ Detected' = Detected
  BY DEF Plain, Types, SignedBank, Detected
<1>2. \A w, b : Read(w, b)' = Read(w, b)
  BY DEF Read
<1> QED BY <1>1, <1>2 DEF View, Durable

\* Programming a bank.
LEMMA Programming ==
  ASSUME Types, NEW b \in Banks, NEW img, Program(b, img),
         \A w \in Words \cap DOMAIN img : img[w] \in Value
  PROVE  /\ flash' \in [Banks -> [Words -> Value]]
         /\ flash'[1 - b] = flash[1 - b]
         /\ \A w \in Words : flash'[b][w] = IF w \in DOMAIN img
                                           THEN And(flash[b][w], img[w])
                                           ELSE flash[b][w]
<1>1. \A w \in Words \cap DOMAIN img : And(flash[b][w], img[w]) \in Value
  BY AndFacts DEF Types
<1>2. flash' = [flash EXCEPT ![b] = [w \in Words |->
                  IF w \in DOMAIN img THEN And(flash[b][w], img[w]) ELSE flash[b][w]]]
  BY DEF Program
<1>3. flash \in [Banks -> [Words -> Value]] /\ 1 - b \in Banks /\ 1 - b # b
  BY DEF Types, Banks
<1> QED BY <1>1, <1>2, <1>3

LEMMA InitIInv == ASSUME Plain, Init PROVE IInv /\ Store!Init
<1>1. PICK b \in Banks, img \in [Words -> Data \cup {ValidSig}] :
        /\ Shipped(img)
        /\ flash \in {[c \in Banks |-> IF c = b THEN img ELSE old] :
              old \in {[w \in Words |-> Erased], [w \in Words |-> 0]}}
  BY DEF Init
<1>2. Data \cup {ValidSig} \subseteq Value /\ Erased \in Value /\ 0 \in Value
  BY NvmAssumption DEF Value, ValidSig, Erased
<1>3. flash \in [Banks -> [Words -> Value]] /\ flash[b][Sig] = ValidSig
  BY <1>1, <1>2, NvmAssumption DEF Shipped
<1>4. Types
  BY <1>3 DEF Init, Types, NoWords, Banks, Labels
<1>5. SomeBankValid
  BY <1>3 DEF SomeBankValid
<1>6. IInv
  BY <1>4, <1>5 DEF Init, IInv, Exclusion, Progress
<1>7. View \in [Kept -> Value]
  BY <1>4, Finding
<1>8. View = Durable
  BY <1>4, Finding DEF View, Durable, Read, Init, NoWords
<1>9. State = "open"
  BY DEF Init, State, Updating
<1> QED BY <1>6, <1>7, <1>8, <1>9 DEF Store!Init

-----------------------------------------------------------------------------
(* One lemma per kind of step: the invariant holds after it, and NvmStore  *)
(* makes a step or none.                                                   *)

\* What a user, or the driver, writes goes to the shadow RAM.
LEMMA ShadowSteps ==
  ASSUME Plain, IInv,
         Validate \/ UpdateChecksum \/ \E first, last \in Words : SetEeprom(first, last)
  PROVE  IInv' /\ [Store!Next]_Store!vars
<1>1. /\ UNCHANGED <<flash, mac, mutex, bank, i, j, addr, rpc, rbank, rword, rval>>
      /\ pc \in {"probe", "sum", "idle"} /\ mutex = "free"
      /\ pc' \in {"idle", "sum", "acquire", "written"}
  <2>1. CASE Validate
    BY <2>1 DEF Validate, chip, reader
  <2>2. CASE UpdateChecksum
    BY <2>2 DEF UpdateChecksum, chip, reader, user
  <2>3. CASE \E first, last \in Words : SetEeprom(first, last)
    BY <2>3 DEF SetEeprom, chip, reader
  <2> QED BY <2>1, <2>2, <2>3
<1>2. DOMAIN shadow' \subseteq Words /\ \A w \in DOMAIN shadow' : shadow'[w] \in Value
  <2>1. \A f, g : /\ DOMAIN Overlay(f, g) = DOMAIN f \cup DOMAIN g
                  /\ \A w \in DOMAIN f : Overlay(f, g)[w] = f[w]
    BY DEF Overlay
  <2>2. DOMAIN shadow \subseteq Words /\ \A w \in DOMAIN shadow : shadow[w] \in Value
    BY DEF IInv, Types
  <2>3. CASE UNCHANGED shadow
    BY <2>2, <2>3
  <2>4. CASE \E f : /\ DOMAIN f \subseteq Words /\ \A w \in DOMAIN f : f[w] \in Value
                   /\ shadow' = Overlay(f, shadow)
    <3>1. PICK f : /\ DOMAIN f \subseteq Words /\ \A w \in DOMAIN f : f[w] \in Value
                   /\ shadow' = Overlay(f, shadow)
      BY <2>4
    <3>2. DOMAIN shadow' = DOMAIN f \cup DOMAIN shadow
      BY <3>1, <2>1
    <3>3. ASSUME NEW w \in DOMAIN shadow' PROVE shadow'[w] \in Value
      <4>1. CASE w \in DOMAIN f
        <5>1. Overlay(f, shadow)[w] = f[w]
          BY <4>1, <2>1
        <5> QED BY <5>1, <3>1, <4>1
      <4>2. CASE w \in DOMAIN shadow \ DOMAIN f
        <5>1. Overlay(f, shadow)[w] = shadow[w]
          BY <4>2 DEF Overlay
        <5> QED BY <5>1, <3>1, <4>2, <2>2
      <4> QED BY <3>2, <4>1, <4>2
    <3> QED BY <3>1, <3>2, <3>3, <2>2
  <2>5. CASE Validate
    <3>1. PICK b \in Detections :
            UNCHANGED shadow \/ ( /\ ~Calculated(Read(Fix, b))
                                 /\ shadow' = Overlay([w \in {Fix} |-> Read(Fix, b) + 1], shadow))
      BY <2>5 DEF Validate
    <3>2. Read(Fix, b) \in Value /\ Fix \in Words
      BY Finding, NvmAssumption DEF IInv
    <3>3. ~Calculated(Read(Fix, b)) => Read(Fix, b) + 1 \in Value
      BY <3>2 DEF Calculated, Value
    <3> QED BY <3>1, <3>2, <3>3, <2>3, <2>4
  <2>6. CASE UpdateChecksum
    <3>1. PICK b \in Detections :
            shadow' = Overlay([w \in {Csum} |-> (NvmSum - Total(Image(b), Summed)) % 4], shadow)
      BY <2>6 DEF UpdateChecksum
    <3>2. Summed \in SUBSET Words /\ Csum \in Words
      BY NvmAssumption DEF Summed, Words
    <3> QED BY <3>1, <3>2, SumIsWord, <2>4
  <2>7. CASE \E first, last \in Words : SetEeprom(first, last)
    <3>1. PICK first \in Words, last \in Words : SetEeprom(first, last)
      BY <2>7
    <3>2. PICK new \in [first..last -> Data] : shadow' = Overlay(new, shadow)
      BY <3>1 DEF SetEeprom
    <3>3. first..last \subseteq Words /\ Data \subseteq Value
      BY <3>1, NvmAssumption DEF SetEeprom
    <3> QED BY <3>2, <3>3, <2>4
  <2> QED BY <2>5, <2>6, <2>7
<1>3. Types'
  BY <1>1, <1>2 DEF IInv, Types, Labels
<1>4. SignedBank' = SignedBank
  BY <1>1 DEF SignedBank
<1>5. IInv'
  BY <1>1, <1>3 DEF IInv, Exclusion, Progress, SomeBankValid
<1>6. View' \in [Kept -> Value]
  <2>1. Detected' \in Banks
    BY <1>1, <1>4, Finding DEF IInv, Detected, Plain, Types
  <2>2. \A w \in Kept : Read(w, Detected)' \in Value
    BY <2>1, <1>3 DEF Read, Types, Kept
  <2> QED BY <2>2 DEF View
<1>7. Durable' = Durable /\ State = "open" /\ State' = "open"
  BY <1>1, <1>4 DEF Durable, State, Updating
<1> QED BY <1>5, <1>6, <1>7 DEF Store!Next, Store!Write

\* The steps that leave flash and shadow RAM alone.
LEMMA QuietSteps ==
  ASSUME Plain, IInv,
         \/ ValidateFails \/ Return \/ ChecksumFails \/ AcquireNvm
         \/ Reload \/ ReadWant \/ ReadAcquire \/ (\E w \in Words : ReadFetch(w)) \/ ReadRelease
  PROVE  IInv' /\ [Store!Next]_Store!vars
<1>1. UNCHANGED <<mac, flash, shadow>>
  BY DEF ValidateFails, Return, ChecksumFails, AcquireNvm, Reload,
         ReadWant, ReadAcquire, ReadFetch, ReadRelease, chip
<1>2. /\ SignedBank' = SignedBank /\ View' = View /\ Durable' = Durable
      /\ \A w, b : Read(w, b)' = Read(w, b)
  BY <1>1, DataKept DEF IInv
<1>3. SignedBank \in Banks /\ Detections = {SignedBank}
  BY Finding DEF IInv
<1>4. SomeBankValid'
  BY <1>1 DEF IInv, SomeBankValid
<1>5. CASE ValidateFails \/ ChecksumFails
  <2>1. /\ UNCHANGED <<mutex, user, reader>> /\ pc' = "failed" /\ pc \in {"probe", "sum"}
    BY <1>5 DEF ValidateFails, ChecksumFails
  <2>2. IInv'
    BY <1>1, <1>2, <1>4, <2>1 DEF IInv, Types, Labels, Exclusion, Progress, user, reader
  <2> QED BY <1>2, <2>1, <2>2 DEF Store!vars, State, Updating
<1>6. CASE Return
  <2>1. /\ UNCHANGED <<mutex, reader>> /\ pc' \in {"idle", "probe", "dead"} /\ NoLocals
        /\ pc \in {"written", "updated", "failed"}
    BY <1>6 DEF Return
  <2>2. IInv'
    BY <1>1, <1>2, <1>4, <2>1
    DEF IInv, Types, Labels, Banks, NoLocals, Exclusion, Progress, reader
  <2>3. State' = "open" /\ State \in {"open", "done"}
    BY <2>1 DEF State, Updating
  <2> QED BY <1>2, <2>2, <2>3 DEF Store!vars, Store!Next, Store!Return
<1>7. CASE AcquireNvm
  <2>1. /\ UNCHANGED reader /\ pc' = "erase" /\ pc = "acquire" /\ mutex = "free"
        /\ mutex' = "user" /\ bank' = SignedBank /\ i' = 0 /\ j' = 0 /\ addr' = 0
    BY <1>7, <1>3 DEF AcquireNvm
  <2>2. flash[SignedBank][Sig] = ValidSig
    BY DEF IInv, SomeBankValid, SignedBank, Banks
  <2>3. IInv'
    BY <1>1, <1>2, <1>3, <1>4, <2>1, <2>2
    DEF IInv, Types, Labels, Exclusion, Progress, reader
  <2> QED BY <1>2, <2>1, <2>3 DEF Store!Next, Store!Start, State, Updating
<1>8. CASE Reload
  <2>1. UNCHANGED <<mutex, user, reader>> /\ pc' = "updated" /\ pc = "reload"
    BY <1>8 DEF Reload
  <2>2. IInv'
    BY <1>1, <1>2, <1>4, <2>1 DEF IInv, Types, Labels, Exclusion, Progress, user, reader
  <2>3. Durable = View
    BY <2>1, Finding DEF IInv, Progress, Durable, View, Read
  <2> QED BY <1>2, <2>1, <2>2, <2>3 DEF Store!Next, Store!Finish, State, Updating
<1>9. CASE ReadWant \/ ReadAcquire \/ (\E w \in Words : ReadFetch(w)) \/ ReadRelease
  <2>1. UNCHANGED <<pc, user>>
    BY <1>9 DEF ReadWant, ReadAcquire, ReadFetch, ReadRelease
  <2>2. Types' /\ Progress'
    BY <1>1, <1>2, <2>1 DEF IInv, Types, Progress, user, Other, Copied
  <2>3. Exclusion'
    <3>1. CASE ReadWant
      BY <3>1, <2>1, <1>2 DEF ReadWant, IInv, Exclusion
    <3>2. CASE ReadAcquire
      BY <3>2, <2>1, <1>2, <1>3 DEF ReadAcquire, IInv, Exclusion
    <3>3. CASE \E w \in Words : ReadFetch(w)
      BY <3>3, <2>1, <1>2 DEF ReadFetch, IInv, Exclusion
    <3>4. CASE ReadRelease
      BY <3>4, <2>1, <1>2 DEF ReadRelease, IInv, Exclusion
    <3> QED BY <1>9, <3>1, <3>2, <3>3, <3>4
  <2> QED BY <1>2, <1>4, <2>1, <2>2, <2>3 DEF IInv, Store!vars, State
<1> QED BY <1>5, <1>6, <1>7, <1>8, <1>9

\* Erasing and copying: the bank found valid is not touched, and the other one does
\* not look valid yet.
LEMMA CopySteps ==
  ASSUME Plain, IInv, EraseCycle \/ EraseFails \/ CopyWords \/ CopyFails
  PROVE  /\ IInv' /\ [Store!Next]_Store!vars
         /\ bank = SignedBank /\ SignedBank' = bank /\ Banks = {bank, Other}
         /\ flash'[bank] = flash[bank]
         /\ flash'[Other][Sig] # ValidSig \/ flash' = flash
<1>1. /\ UNCHANGED <<mac, shadow, bank, rpc, rword, rbank, rval>>
      /\ pc \in {"erase", "copy"} /\ pc' \in {"erase", "copy", "validate", "failed"}
      /\ rpc \notin {"read", "got"}
      /\ mutex' = (IF pc' = "failed" THEN "free" ELSE "user")
  <2>1. CASE EraseCycle
    BY <2>1 DEF EraseCycle, NextSector, chip, reader, IInv, Exclusion
  <2>2. CASE CopyWords
    BY <2>2 DEF CopyWords, chip, reader, IInv, Exclusion
  <2>3. CASE CopyFails
    BY <2>3 DEF CopyFails, GiveUp, chip, reader, user, IInv, Exclusion
  <2>4. CASE EraseFails
    BY <2>4 DEF EraseFails, GiveUp, chip, reader, user, IInv, Exclusion
  <2> QED BY <2>1, <2>2, <2>3, <2>4
<1>2. /\ bank \in Banks /\ Other \in Banks /\ Other # bank /\ bank = SignedBank
      /\ flash[bank][Sig] = ValidSig /\ i \in Nat
  BY <1>1 DEF IInv, Types, Progress, Banks, Other
<1>3. ASSUME NEW w \in Words
      PROVE  Copied(w) \in Value /\ And(Erased, Copied(w)) = Copied(w)
  <2>1. Copied(w) \in Value
    BY <1>2, Finding DEF IInv, Copied, Value
  <2> QED BY <2>1, AndFacts
<1>4. /\ flash' \in [Banks -> [Words -> Value]] /\ flash'[bank] = flash[bank]
      /\ flash'[Other][Sig] # ValidSig \/ flash' = flash
      /\ i' \in Nat
      /\ pc' = "erase" => UNCHANGED <<flash, i, j, addr>> /\ pc = "erase"
      /\ pc' \in {"copy", "validate"} =>
           \A w \in Words : flash'[Other][w] =
             IF pc' = "copy" => w < i' THEN Copied(w) ELSE Erased
  <2>1. CASE EraseCycle \/ EraseFails
    <3>1. /\ pc = "erase" /\ i = 0 /\ j = 0 /\ addr = 0 /\ i' = i
          /\ Sector = Other /\ Other < 2 * Sectors
      BY <2>1, <1>2 DEF EraseCycle, EraseFails, GiveUp, user, IInv, Progress, Sector, Plain, Banks
    <3>2. CASE UNCHANGED <<flash, j, pc>> /\ addr' = addr + j
      BY <3>1, <3>2, <1>2 DEF IInv, Types
    <3>3. CASE flash' = EraseSector(Other) /\ pc' \in {"copy", "failed"}
      <4>1. flash' = [c \in Banks |-> [w \in Words |->
                        IF c = Other THEN Erased ELSE flash[c][w]]]
        BY <3>3, <1>2, EraseWhole DEF IInv
      <4>2. Sig \in Words /\ Erased \in Value /\ Erased # ValidSig
        BY NvmAssumption DEF Value, Erased, ValidSig
      <4>3. flash'[bank] = flash[bank]
        BY <4>1, <1>2 DEF IInv, Types
      <4>4. \A w \in Words : ~(w < i')
        BY <3>1 DEF Words
      <4> QED BY <4>1, <4>2, <4>3, <4>4, <3>1, <3>3, <1>2 DEF IInv, Types
    <3>4. CASE UNCHANGED flash /\ pc' = "failed"
      BY <3>1, <3>4, <1>2 DEF IInv, Types
    <3>5. CASE EraseCycle
      <4>1. \/ flash' = EraseSector(Sector) /\ NextSector
            \/ /\ Sector >= 2 * Sectors \/ "stuck" \in Faults \/ count + 1 < Repeat
               /\ IF count + 1 < Repeat THEN UNCHANGED <<j, pc>> ELSE NextSector
               /\ UNCHANGED flash
        BY <3>5 DEF EraseCycle
      <4>2. ~(Sector >= 2 * Sectors) /\ "stuck" \notin Faults
        BY <3>1, <1>2 DEF Plain, Banks
      <4>3. NextSector => pc' = "copy"
        BY <3>1 DEF NextSector, ErasedAll, Plain
      <4>4. addr' = addr + j
        BY <3>5 DEF EraseCycle
      <4> QED BY <3>1, <3>2, <3>3, <4>1, <4>2, <4>3, <4>4
    <3>6. CASE EraseFails
      BY <3>1, <3>3, <3>4, <3>6 DEF EraseFails, GiveUp
    <3> QED BY <2>1, <3>5, <3>6
  <2>2. ASSUME Program(Other, Chunk), pc = "copy"
        PROVE  /\ flash' \in [Banks -> [Words -> Value]] /\ flash'[bank] = flash[bank]
               /\ \A w \in Words : flash'[Other][w] =
                    IF w < i + Stride THEN Copied(w) ELSE Erased
               /\ flash'[Other][Sig] # ValidSig
    <3>1. \A w \in Words : flash[Other][w] = IF w < i THEN Copied(w) ELSE Erased
      BY <2>2 DEF IInv, Progress
    <3>2. DOMAIN Chunk = i..(i + Stride - 1) /\ Stride \in {1, 2}
          /\ \A w \in DOMAIN Chunk : Chunk[w] = Copied(w)
      BY DEF Chunk, Stride
    <3>3. \A w \in Words \cap DOMAIN Chunk : Chunk[w] \in Value
      BY <3>2, <1>3
    <3>4. /\ flash' \in [Banks -> [Words -> Value]]
          /\ flash'[1 - Other] = flash[1 - Other]
          /\ \A w \in Words : flash'[Other][w] = IF w \in DOMAIN Chunk
                                               THEN And(flash[Other][w], Chunk[w])
                                               ELSE flash[Other][w]
      BY <2>2, <1>2, <3>3, Programming DEF IInv
    <3>5. 1 - Other = bank
      BY <1>2 DEF Other, Banks
    <3>6. ASSUME NEW w \in Words
          PROVE  flash'[Other][w] = IF w < i + Stride THEN Copied(w) ELSE Erased
      <4>1. w \in Int /\ i \in Nat /\ (w \in i..(i + Stride - 1) <=> i <= w /\ w < i + Stride)
        BY <1>2, <3>2 DEF Words
      <4>2. CASE w < i
        BY <4>1, <4>2, <3>1, <3>2, <3>4
      <4>3. CASE i <= w /\ w < i + Stride
        BY <4>1, <4>3, <3>1, <3>2, <3>4, <1>3
      <4>4. CASE i + Stride <= w
        BY <4>1, <4>4, <3>1, <3>2, <3>4
      <4> QED BY <4>1, <4>2, <4>3, <4>4, <3>2
    <3>7. Sig \in Words /\ Copied(Sig) # ValidSig /\ Erased # ValidSig
      BY NvmAssumption DEF Copied, ValidSig, Erased
    <3> QED BY <3>4, <3>5, <3>6, <3>7
  <2>3. Stride \in {1, 2} /\ Words = 0..(W - 1) /\ W \in Nat
    BY NvmAssumption DEF Stride, Words
  <2>4. CASE CopyWords
    <3>1. \A w \in Words : i + Stride >= W => w < i + Stride
      BY <2>3, <1>2
    <3> QED BY <2>2, <2>3, <2>4, <3>1, <1>2 DEF CopyWords
  <2>5. CASE CopyFails
    BY <2>2, <2>5, <1>2 DEF CopyFails, GiveUp, user, IInv, Types
  <2> QED BY <2>1, <2>4, <2>5
<1>5. SignedBank' = SignedBank
  BY <1>2, <1>4 DEF SignedBank, Banks, Other
<1>6. View' = View /\ Durable' = Durable
  <2>1. Detected' = SignedBank /\ Detected = SignedBank
    BY <1>1, <1>5, Finding DEF IInv, Detected, Plain, Types
  <2> QED BY <1>1, <1>2, <1>4, <1>5, <2>1 DEF View, Durable, Read
<1>7. IInv'
  <2>1. Types'
    BY <1>1, <1>4 DEF IInv, Types, Labels
  <2>2. Exclusion'
    BY <1>1 DEF Exclusion
  <2>3. \A w : Copied(w)' = Copied(w)
    BY <1>1, <1>4 DEF Copied, Read
  <2>4. Progress'
    BY <1>1, <1>2, <1>4, <1>5, <2>3 DEF IInv, Progress, Other
  <2>5. SomeBankValid'
    BY <1>2, <1>4 DEF SomeBankValid
  <2> QED BY <2>1, <2>2, <2>4, <2>5 DEF IInv
<1>8. [Store!Next]_Store!vars
  BY <1>1, <1>6 DEF Store!vars, Store!Next, Store!Fail, State, Updating
<1>9. Banks = {bank, Other}
  BY <1>2 DEF Banks, Other
<1> QED BY <1>2, <1>4, <1>5, <1>7, <1>8, <1>9

\* Both banks hold the same words when a signature changes: the one step that can make
\* them durable.
LEMMA Switching ==
  ASSUME Plain, IInv, UNCHANGED <<mac, shadow, bank>>, pc \in {"validate", "invalidate"},
         \A b \in Banks, w \in Kept : flash'[b][w] = flash[b][w],
         SignedBank' = bank => SignedBank = bank
  PROVE  View' = View /\ Durable' \in {Durable, View}
<1>1. /\ bank \in Banks /\ Other \in Banks /\ Banks = {bank, Other}
      /\ SignedBank \in Banks /\ SignedBank' \in Banks
      /\ Detected = SignedBank /\ Detected' = SignedBank'
  BY Finding DEF IInv, Types, Banks, Other, SignedBank, Detected, Plain
<1>2. ASSUME NEW w \in Kept
      PROVE  /\ flash[Other][w] = Read(w, bank)
             /\ \A b \in Banks : Read(w, b) = Read(w, bank) /\ Read(w, b)' = Read(w, bank)
  <2>1. flash[Other][w] = Read(w, bank)
    BY DEF IInv, Progress, Copied, Kept
  <2> QED BY <2>1, <1>1 DEF Read
<1>3. View' = View
  BY <1>1, <1>2 DEF View
<1>4. CASE SignedBank' = Other
  <2>1. \A w \in Kept : flash'[Other][w] = Read(w, Detected)
    BY <1>1, <1>2
  <2> QED BY <1>3, <1>4, <2>1 DEF View, Durable
<1>5. CASE SignedBank' = bank
  BY <1>1, <1>3, <1>5 DEF Durable
<1> QED BY <1>1, <1>3, <1>4, <1>5

\* The signature of the new bank is completed, that of the old one destroyed; either may
\* be reported as an error and have happened.
LEMMA SignatureSteps ==
  ASSUME Plain, IInv, MarkValid \/ MarkFails \/ InvalidateOld \/ InvalidateFails
  PROVE  /\ IInv' /\ [Store!Next]_Store!vars
         /\ Banks = {bank, Other}
         /\ pc = "validate" => bank = SignedBank
         /\ flash'[bank][Sig] # ValidSig \/ flash'[bank] = flash[bank]
         /\ \/ flash'[Other] = flash[Other]
            \/ /\ pc = "validate" /\ flash'[Other][Sig] = ValidSig
               /\ \A w \in Kept : flash'[Other][w] = Read(w, bank)
<1> DEFINE Marked == Program(Other, [w \in {Sig} |-> 2])
           Invalidated == Program(bank, [w \in {Sig} |-> 0])
<1>1. /\ UNCHANGED <<mac, shadow, bank, i, j, addr, rpc, rword, rbank, rval>>
      /\ rpc \notin {"read", "got"}
      /\ \/ pc = "validate" /\ ((Marked /\ pc' = "invalidate") \/ pc' = "failed")
         \/ pc = "invalidate" /\ ((Invalidated /\ pc' = "clear") \/ pc' = "failed")
      /\ UNCHANGED flash \/ (pc = "validate" /\ Marked) \/ (pc = "invalidate" /\ Invalidated)
      /\ mutex' = (IF pc' = "failed" THEN "free" ELSE "user")
  <2>1. CASE MarkValid
    BY <2>1 DEF MarkValid, chip, reader, user, IInv, Exclusion
  <2>2. CASE MarkFails
    BY <2>2 DEF MarkFails, GiveUp, chip, reader, user, IInv, Exclusion
  <2>3. CASE InvalidateOld
    BY <2>3 DEF InvalidateOld, chip, reader, user, IInv, Exclusion
  <2>4. CASE InvalidateFails
    BY <2>4 DEF InvalidateFails, GiveUp, chip, reader, user, IInv, Exclusion
  <2> QED BY <2>1, <2>2, <2>3, <2>4
<1> HIDE DEF Marked, Invalidated
<1>2. /\ bank \in Banks /\ Other \in Banks /\ Other # bank /\ Banks = {bank, Other}
      /\ flash[bank][Sig] = ValidSig /\ 1 - bank = Other /\ 1 - Other = bank
      /\ Sig \in Words /\ flash \in [Banks -> [Words -> Value]]
      /\ pc = "validate" => bank = SignedBank /\ flash[Other][Sig] = 3
      /\ pc = "invalidate" => flash[Other][Sig] = ValidSig
  BY <1>1, NvmAssumption DEF IInv, Types, Progress, Banks, Other, Copied
<1>3. Marked /\ pc = "validate" =>
        /\ flash' \in [Banks -> [Words -> Value]] /\ flash'[bank] = flash[bank]
        /\ flash'[Other][Sig] = ValidSig
        /\ \A w \in Kept : flash'[Other][w] = flash[Other][w]
  <2>1. SUFFICES ASSUME Marked, pc = "validate"
        PROVE  /\ flash' \in [Banks -> [Words -> Value]] /\ flash'[bank] = flash[bank]
               /\ flash'[Other][Sig] = ValidSig
               /\ \A w \in Kept : flash'[Other][w] = flash[Other][w]
    OBVIOUS
  <2>2. And(3, 2) = 2 /\ 2 \in Value
    BY AndFacts DEF Value
  <2>3. /\ flash' \in [Banks -> [Words -> Value]] /\ flash'[1 - Other] = flash[1 - Other]
        /\ \A w \in Words : flash'[Other][w] = IF w \in DOMAIN [x \in {Sig} |-> 2]
               THEN And(flash[Other][w], [x \in {Sig} |-> 2][w]) ELSE flash[Other][w]
    BY <1>2, <2>1, <2>2, Programming DEF Marked, IInv
  <2> QED BY <1>2, <2>1, <2>2, <2>3 DEF Kept, ValidSig
<1>4. Invalidated =>
        /\ flash' \in [Banks -> [Words -> Value]] /\ flash'[Other] = flash[Other]
        /\ flash'[bank][Sig] = 0
        /\ \A w \in Kept : flash'[bank][w] = flash[bank][w]
  <2>1. SUFFICES ASSUME Invalidated
        PROVE  /\ flash' \in [Banks -> [Words -> Value]] /\ flash'[Other] = flash[Other]
               /\ flash'[bank][Sig] = 0
               /\ \A w \in Kept : flash'[bank][w] = flash[bank][w]
    OBVIOUS
  <2>2. And(flash[bank][Sig], 0) = 0 /\ 0 \in Value
    BY AndFacts, <1>2 DEF Value
  <2>3. /\ flash' \in [Banks -> [Words -> Value]] /\ flash'[1 - bank] = flash[1 - bank]
        /\ \A w \in Words : flash'[bank][w] = IF w \in DOMAIN [x \in {Sig} |-> 0]
               THEN And(flash[bank][w], [x \in {Sig} |-> 0][w]) ELSE flash[bank][w]
    BY <1>2, <2>1, <2>2, Programming DEF Invalidated, IInv
  <2> QED BY <1>2, <2>1, <2>2, <2>3 DEF Kept
<1>5. \A b \in Banks, w \in Kept : flash'[b][w] = flash[b][w]
  BY <1>1, <1>2, <1>3, <1>4
<1>6. SignedBank' = bank => SignedBank = bank
  BY <1>1, <1>2, <1>3, <1>4 DEF SignedBank, Banks, Other, ValidSig
<1>7. View' = View /\ Durable' \in {Durable, View}
  BY <1>1, <1>5, <1>6, Switching
<1>8. IInv'
  <2>1. Types'
    BY <1>1, <1>3, <1>4 DEF IInv, Types, Labels
  <2>2. Exclusion'
    BY <1>1 DEF Exclusion
  <2>3. SomeBankValid'
    BY <1>1, <1>2, <1>3, <1>4 DEF IInv, SomeBankValid
  <2>4. Progress'
    <3>1. \A w \in Kept : flash[Other][w] = Read(w, bank)
      BY <1>1 DEF IInv, Progress, Copied, Kept
    <3>2. \A w \in Kept : flash'[Other][w] = Read(w, bank)'
      BY <1>1, <1>2, <1>5, <3>1 DEF Read
    <3>3. CASE pc' = "invalidate"
      BY <1>1, <1>2, <1>3, <3>2, <3>3 DEF Progress, Other
    <3>4. CASE pc' = "clear"
      BY <1>1, <1>2, <1>4, <3>2, <3>4 DEF Progress, Other, ValidSig
    <3>5. CASE pc' = "failed"
      BY <3>5 DEF Progress
    <3> QED BY <1>1, <3>3, <3>4, <3>5
  <2> QED BY <2>1, <2>2, <2>3, <2>4 DEF IInv
<1>9. State = "busy" /\ (State' = "busy" \/ State' = "open")
  BY <1>1 DEF State, Updating
<1>10. [Store!Next]_Store!vars
  BY <1>7, <1>9 DEF Store!vars, Store!Next, Store!Commit, Store!Fail
<1>11. \A w \in Kept : pc = "validate" => flash[Other][w] = Read(w, bank)
  BY DEF IInv, Progress, Copied, Kept
<1>12. flash'[bank][Sig] # ValidSig \/ flash'[bank] = flash[bank]
  BY <1>1, <1>2, <1>3, <1>4 DEF ValidSig
<1>13. \/ flash'[Other] = flash[Other]
       \/ /\ pc = "validate" /\ flash'[Other][Sig] = ValidSig
          /\ \A w \in Kept : flash'[Other][w] = Read(w, bank)
  BY <1>1, <1>3, <1>4, <1>11
<1> QED BY <1>2, <1>8, <1>10, <1>12, <1>13

\* The shadow RAM is emptied once every word of it is in the new bank.
LEMMA ClearStep == ASSUME Plain, IInv, ClearShadow PROVE IInv' /\ [Store!Next]_Store!vars
<1>1. /\ UNCHANGED <<mac, flash, bank, i, rpc, rword, rbank, rval>> /\ shadow' = NoWords
      /\ pc = "clear" /\ pc' = "reload" /\ mutex' = "free" /\ rpc \notin {"read", "got"}
  BY DEF ClearShadow, chip, reader, user, IInv, Exclusion
<1>2. /\ bank \in Banks /\ Other \in Banks /\ Other # bank /\ Banks = {bank, Other}
      /\ flash[bank][Sig] # ValidSig /\ flash[Other][Sig] = ValidSig
      /\ \A w \in Kept : flash[Other][w] = Read(w, bank)
  BY <1>1 DEF IInv, Types, Progress, Banks, Other
<1>3. SignedBank = Other /\ SignedBank' = Other /\ Detected = Other /\ Detected' = Other
  BY <1>1, <1>2 DEF SignedBank, Banks, Detected, Plain, IInv, Types
<1>4. \A w \in Kept : Read(w, Other) = flash[Other][w]
  BY <1>2 DEF Read
<1>5. \A w \in Kept : Read(w, Detected)' = Read(w, Detected)
  BY <1>1, <1>3, <1>4 DEF Read, NoWords
<1>6. View' = View /\ Durable' = Durable
  BY <1>1, <1>3, <1>5 DEF View, Durable
<1>7. IInv'
  <2>1. Types'
    BY <1>1 DEF IInv, Types, Labels, NoWords
  <2>2. Exclusion' /\ Progress' /\ SomeBankValid'
    BY <1>1, <1>2 DEF Exclusion, Progress, SomeBankValid, NoWords
  <2> QED BY <2>1, <2>2 DEF IInv
<1> QED BY <1>1, <1>6, <1>7 DEF Store!vars, State, Updating

LEMMA PowerLossStep == ASSUME Plain, IInv, PowerLoss PROVE IInv' /\ [Store!Next]_Store!vars
<1>1. /\ UNCHANGED <<mac, flash>> /\ shadow' = NoWords /\ pc' = "probe" /\ mutex' = "free"
      /\ bank' = 0 /\ i' = 0 /\ rpc' = "idle"
  BY DEF PowerLoss, NoLocals
<1>2. SignedBank' = SignedBank /\ Detected' = SignedBank
  BY <1>1 DEF SignedBank, Detected, Plain, IInv, Types
<1>3. View' = Durable /\ Durable' = Durable
  BY <1>1, <1>2 DEF View, Durable, Read, NoWords
<1>4. IInv'
  <2>1. Types'
    BY <1>1 DEF IInv, Types, Labels, NoWords, Banks
  <2>2. Exclusion' /\ Progress' /\ SomeBankValid'
    BY <1>1 DEF IInv, Exclusion, Progress, SomeBankValid
  <2> QED BY <2>1, <2>2 DEF IInv
<1> QED BY <1>1, <1>3, <1>4 DEF Store!Next, Store!PowerLoss, State, Updating

\* Every step.
LEMMA Step == ASSUME Plain, IInv, [Next]_vars PROVE IInv' /\ [Store!Next]_Store!vars
<1>1. CASE UNCHANGED vars
  <2>1. UNCHANGED <<mac, flash, shadow, mutex, pc, bank, i, j, addr, rpc, rword, rbank, rval>>
    BY <1>1 DEF vars, chip, user, reader
  <2>2. /\ SignedBank' = SignedBank /\ View' = View /\ Durable' = Durable
        /\ \A w, b : Read(w, b)' = Read(w, b)
    BY <2>1, DataKept DEF IInv
  <2>3. IInv'
    BY <2>1, <2>2 DEF IInv, Types, Exclusion, Progress, SomeBankValid, Other, Copied
  <2> QED BY <2>1, <2>2, <2>3 DEF Store!vars, State
<1>2. CASE Next
  BY <1>2, ShadowSteps, QuietSteps, CopySteps, SignatureSteps, ClearStep, PowerLossStep
  DEF Next, Update, ReadStep
<1> QED BY <1>1, <1>2

-----------------------------------------------------------------------------
\* Whatever reads, writes and erasures fail, and whenever the power does, the NVM keeps
\* the promise of NvmStore: what is read is what was written last, an update happens
\* whole or not at all, and one that is reported as made is.
THEOREM UpdateIsAtomic == ASSUME Plain PROVE Spec => ImplementsStore
<1>1. Init => IInv /\ Store!Init
  BY InitIInv
<1>2. IInv /\ [Next]_vars => IInv' /\ [Store!Next]_Store!vars
  BY Step
<1> QED BY <1>1, <1>2, PTL DEF Spec, ImplementsStore, Store!Spec

\* At no moment of an update, completed, failed or cut short, are both banks without a
\* valid signature.
THEOREM BankStaysValid == ASSUME Plain PROVE Spec => []SomeBankValid
<1>1. Init => IInv
  BY InitIInv
<1>2. IInv /\ [Next]_vars => IInv'
  BY Step
<1>3. IInv => SomeBankValid
  BY DEF IInv
<1> QED BY <1>1, <1>2, <1>3, PTL DEF Spec

\* No reader gets a word from a bank while it is erased or after it was replaced.
THEOREM ReadersSeeCurrentBank == ASSUME Plain PROVE Spec => []ReadsAreCurrent
<1>1. Init => IInv
  BY InitIInv
<1>2. IInv /\ [Next]_vars => IInv'
  BY Step
<1>3. IInv => ReadsAreCurrent
  BY Finding DEF IInv, Exclusion, ReadsAreCurrent
<1> QED BY <1>1, <1>2, <1>3, PTL DEF Spec
-----------------------------------------------------------------------------
(* The types.                                                              *)

\* Where the loops stand: the retries of an erasure are at most those allowed and one
\* for every sector given up, and SPT copies in pairs of words.
LoopInv ==
  /\ pc = "erase" => j < Sectors /\ i = 0
  /\ pc = "copy" => i < W
  /\ mac = "spt" => i % 2 = 0
  /\ count <= Repeat - 1 + j

\* Whichever bank is found, and whatever is read or to be copied, has its type.
LEMMA TypedReads ==
  ASSUME TypeOK
  PROVE  /\ Types /\ SignedBank \in Banks /\ Detections \subseteq Banks /\ Other \in Banks
         /\ \A w \in Words, b \in Banks : Read(w, b) \in Value
         /\ \A w \in Words : Copied(w) \in Value
         /\ 0 \in Words /\ 0 \in Value /\ Stride \in {1, 2}
<1>1. Types
  BY NvmAssumption DEF TypeOK, Types, Labels
<1>2. SignedBank \in Banks /\ Detections \subseteq Banks /\ Other \in Banks
  BY DEF TypeOK, SignedBank, Detections, Detected, Banks, Other
<1>3. \A w \in Words, b \in Banks : Read(w, b) \in Value
  BY DEF TypeOK, Read
<1>4. \A w \in Words : Copied(w) \in Value
  BY <1>3 DEF TypeOK, Copied, Value
<1>5. 0 \in Words /\ 0 \in Value /\ Stride \in {1, 2}
  BY NvmAssumption DEF Words, Value, Stride
<1> QED BY <1>1, <1>2, <1>3, <1>4, <1>5

\* What is written to the shadow RAM.
LEMMA ShadowTyped ==
  ASSUME NEW f, DOMAIN f \subseteq Words, \A w \in DOMAIN f : f[w] \in Value, TypeOK
  PROVE  LET o == Overlay(f, shadow) IN
         /\ DOMAIN o = DOMAIN f \cup DOMAIN shadow
         /\ DOMAIN o \subseteq Words /\ \A w \in DOMAIN o : o[w] \in Value
<1> DEFINE o == Overlay(f, shadow)
<1>1. o = [w \in DOMAIN f \cup DOMAIN shadow |-> IF w \in DOMAIN f THEN f[w] ELSE shadow[w]]
  BY DEF Overlay
<1>2. DOMAIN o = DOMAIN f \cup DOMAIN shadow
  BY <1>1
<1>3. \A w \in DOMAIN o : o[w] = IF w \in DOMAIN f THEN f[w] ELSE shadow[w]
  BY <1>1
<1> HIDE DEF o
<1>4. \A w \in DOMAIN o : o[w] \in Value
  BY <1>2, <1>3 DEF TypeOK
<1>5. DOMAIN o \subseteq Words
  BY <1>2 DEF TypeOK
<1>6. /\ DOMAIN o = DOMAIN f \cup DOMAIN shadow
      /\ DOMAIN o \subseteq Words /\ \A w \in DOMAIN o : o[w] \in Value
  BY <1>2, <1>4, <1>5
<1> QED BY <1>6 DEF o

\* The steps that write the shadow RAM, and of which words.
LEMMA ShadowWrites ==
  ASSUME TypeOK,
         \/ Validate \/ UpdateChecksum
         \/ \E first, last \in Words : SetEeprom(first, last)
  PROVE  /\ DOMAIN shadow' \subseteq Words /\ \A w \in DOMAIN shadow' : shadow'[w] \in Value
         /\ DOMAIN shadow' \subseteq DOMAIN shadow \cup {Fix, Csum} \cup UserWords
<1>1. CASE Validate
  <2>1. PICK b \in Detections :
          UNCHANGED shadow \/ ( /\ ~Calculated(Read(Fix, b))
                               /\ shadow' = Overlay([w \in {Fix} |-> Read(Fix, b) + 1], shadow))
    BY <1>1 DEF Validate
  <2>2. Read(Fix, b) \in Value /\ Fix \in Words
    BY TypedReads, NvmAssumption
  <2>3. ~Calculated(Read(Fix, b)) => Read(Fix, b) + 1 \in Value
    BY <2>2 DEF Calculated, Value
  <2>4. CASE UNCHANGED shadow
    BY <2>4 DEF TypeOK
  <2>5. CASE /\ ~Calculated(Read(Fix, b))
             /\ shadow' = Overlay([w \in {Fix} |-> Read(Fix, b) + 1], shadow)
    <3> DEFINE f == [w \in {Fix} |-> Read(Fix, b) + 1]
    <3>1. DOMAIN f = {Fix} /\ DOMAIN f \subseteq Words /\ \A w \in DOMAIN f : f[w] \in Value
      BY <2>2, <2>3, <2>5
    <3>2. shadow' = Overlay(f, shadow)
      BY <2>5
    <3> HIDE DEF f
    <3> QED BY <3>1, <3>2, ShadowTyped
  <2> QED BY <2>1, <2>4, <2>5
<1>2. CASE UpdateChecksum
  <2>1. PICK b \in Detections :
          shadow' = Overlay([w \in {Csum} |-> (NvmSum - Total(Image(b), Summed)) % 4], shadow)
    BY <1>2 DEF UpdateChecksum
  <2>2. Summed \in SUBSET Words /\ Csum \in Words
    BY NvmAssumption DEF Summed, Words
  <2> DEFINE f == [w \in {Csum} |-> (NvmSum - Total(Image(b), Summed)) % 4]
  <2>3. DOMAIN f = {Csum} /\ DOMAIN f \subseteq Words /\ \A w \in DOMAIN f : f[w] \in Value
    BY <2>2, SumIsWord
  <2>4. shadow' = Overlay(f, shadow)
    BY <2>1
  <2> HIDE DEF f
  <2> QED BY <2>3, <2>4, ShadowTyped
<1>3. CASE \E first, last \in Words : SetEeprom(first, last)
  <2>1. PICK first \in Words, last \in Words : SetEeprom(first, last)
    BY <1>3
  <2>2. PICK new \in [first..last -> Data] : shadow' = Overlay(new, shadow)
    BY <2>1 DEF SetEeprom
  <2>3. first..last \subseteq UserWords /\ UserWords \subseteq Words /\ Data \subseteq Value
    BY <2>1, NvmAssumption DEF SetEeprom
  <2> QED BY <2>2, <2>3, ShadowTyped
<1> QED BY <1>1, <1>2, <1>3

\* The flash keeps its type through every cycle that may be made.
LEMMA FlashTyped ==
  ASSUME TypeOK,
         \/ UNCHANGED flash \/ (\E n : flash' = EraseSector(n))
         \/ Program(Other, Chunk)
         \/ Program(Other, [w \in {Sig} |-> 2]) \/ Program(bank, [w \in {Sig} |-> 0])
  PROVE  flash' \in [Banks -> [Words -> Value]]
<1>1. CASE UNCHANGED flash
  BY <1>1 DEF TypeOK
<1>2. CASE \E n : flash' = EraseSector(n)
  BY <1>2 DEF EraseSector, TypeOK, Erased, Value
<1>3. CASE Program(Other, Chunk)
  <2>1. \A w \in Words \cap DOMAIN Chunk : Chunk[w] \in Value
    BY TypedReads DEF Chunk
  <2> QED BY <1>3, <2>1, TypedReads, Programming
<1>4. CASE Program(Other, [w \in {Sig} |-> 2])
  <2>1. \A w \in Words \cap DOMAIN [x \in {Sig} |-> 2] : [x \in {Sig} |-> 2][w] \in Value
    BY DEF Value
  <2> QED BY <1>4, <2>1, TypedReads, Programming
<1>5. CASE Program(bank, [w \in {Sig} |-> 0])
  <2>1. \A w \in Words \cap DOMAIN [x \in {Sig} |-> 0] : [x \in {Sig} |-> 0][w] \in Value
    BY DEF Value
  <2>2. bank \in Banks
    BY DEF TypeOK
  <2> QED BY <1>5, <2>1, <2>2, TypedReads, Programming
<1> QED BY <1>1, <1>2, <1>3, <1>4, <1>5

\* The loops of the erasure and of the copy.
LEMMA LoopsKept ==
  ASSUME TypeOK, LoopInv, EraseCycle \/ CopyWords
  PROVE  /\ i' \in 0..W /\ j' \in 0..Sectors /\ addr' \in Nat
         /\ count' \in 0..(Repeat + Sectors) /\ LoopInv'
<1>1. CASE EraseCycle
  <2>1. pc = "erase" /\ i' = i /\ mac' = mac /\ addr' = addr + j
    BY <1>1 DEF EraseCycle, chip
  <2>2. \/ NextSector /\ count' = count
        \/ /\ count' = count + 1
           /\ IF count + 1 < Repeat THEN UNCHANGED <<j, pc>> ELSE NextSector
    BY <1>1 DEF EraseCycle
  <2>3. W \in Nat \ {0} /\ Sectors \in Nat /\ Repeat \in Nat \ {0}
    BY NvmAssumption
  <2>4. /\ j < Sectors /\ j \in Nat /\ count \in Nat /\ count <= Repeat - 1 + j
        /\ i = 0 /\ addr \in Nat
    BY <2>1 DEF TypeOK, LoopInv
  <2>5. NextSector => j' = j + 1 /\ pc' = (IF j + 1 = Sectors THEN "copy" ELSE "erase")
    BY DEF NextSector, ErasedAll
  <2>6. /\ j' \in 0..Sectors /\ count' \in Nat /\ count' <= Repeat - 1 + j'
        /\ pc' \in {"erase", "copy"} /\ (pc' = "erase" => j' < Sectors)
    BY <2>1, <2>2, <2>3, <2>4, <2>5
  <2>7. addr' \in Nat /\ i' = 0 /\ 0 % 2 = 0 /\ 0 < W
    BY <2>1, <2>3, <2>4
  <2>8. LoopInv'
    BY <2>6, <2>7 DEF LoopInv
  <2>9. \A x, y : /\ x \in Nat /\ y \in 0..Sectors /\ x <= Repeat - 1 + y
                  => x \in 0..(Repeat + Sectors)
    BY <2>3
  <2>10. 0 \in 0..W
    BY <2>3
  <2> QED BY <2>6, <2>7, <2>8, <2>9, <2>10
<1>2. CASE CopyWords
  <2>1. /\ pc = "copy" /\ i' = i + Stride /\ j' = j /\ addr' = addr /\ count' = count
        /\ mac' = mac /\ pc' = (IF i + Stride >= W THEN "validate" ELSE "copy")
    BY <1>2 DEF CopyWords, chip
  <2>2. W \in Nat /\ i \in Nat /\ i < W /\ (mac = "spt" => i % 2 = 0 /\ W % 2 = 0)
    BY <2>1, NvmAssumption DEF TypeOK, LoopInv
  <2>3. Stride = IF mac = "spt" THEN 2 ELSE 1
    BY DEF Stride
  <2>4. i + Stride <= W /\ (mac = "spt" => (i + Stride) % 2 = 0)
    BY <2>2, <2>3
  <2> QED BY <2>1, <2>2, <2>3, <2>4 DEF LoopInv, TypeOK
<1> QED BY <1>1, <1>2

\* Every step keeps the types, whichever adapter, however many sectors and whatever fails.
LEMMA TypeStep == ASSUME TypeOK, LoopInv, Next PROVE TypeOK' /\ LoopInv'
<1>1. CASE \/ Validate \/ UpdateChecksum
           \/ \E first, last \in Words : SetEeprom(first, last)
  <2>1. /\ UNCHANGED <<mac, flash, eecd, mutex, tries, bank, i, j, addr, count, reader>>
        /\ pc' \in {"idle", "sum", "acquire", "written"} /\ op' \in {"none", "set", "probe"}
    <3>1. CASE Validate
      BY <3>1 DEF Validate, chip, TypeOK
    <3>2. CASE UpdateChecksum
      BY <3>2 DEF UpdateChecksum, chip, user, TypeOK
    <3>3. CASE \E first, last \in Words : SetEeprom(first, last)
      BY <3>3 DEF SetEeprom, chip
    <3> QED BY <1>1, <3>1, <3>2, <3>3
  <2>2. DOMAIN shadow' \subseteq Words /\ \A w \in DOMAIN shadow' : shadow'[w] \in Value
    BY <1>1, ShadowWrites
  <2> QED BY <2>1, <2>2 DEF TypeOK, LoopInv, reader
<1>2. CASE ValidateFails \/ ChecksumFails \/ ClearShadow \/ Reload
  <2>1. /\ UNCHANGED <<mac, flash, user, reader>> /\ eecd' \in {eecd, SignedBank}
        /\ shadow' \in {shadow, NoWords} /\ mutex' \in {mutex, "free"}
        /\ pc' \in {"failed", "reload", "updated"}
    BY <1>2 DEF ValidateFails, ChecksumFails, ClearShadow, Reload, chip
  <2> QED BY <2>1, TypedReads DEF TypeOK, LoopInv, NoWords, user, reader
<1>3. CASE Return
  <2>1. /\ UNCHANGED <<mac, flash, shadow, eecd, mutex, reader>> /\ NoLocals
        /\ pc' \in {"idle", "probe", "dead"} /\ op' \in {op, "none"} /\ tries' \in 0..2
    BY <1>3 DEF Return, chip, TypeOK
  <2> QED BY <2>1, NvmAssumption DEF TypeOK, LoopInv, NoLocals, Banks, reader
<1>4. CASE AcquireNvm
  <2>1. /\ UNCHANGED <<mac, flash, shadow, eecd, op, tries, reader>> /\ mutex' = "user"
        /\ bank' \in Detections /\ i' = 0 /\ j' = 0 /\ addr' = 0 /\ count' = 0
        /\ pc' = "erase"
    BY <1>4 DEF AcquireNvm, chip
  <2> QED BY <2>1, TypedReads, NvmAssumption DEF TypeOK, LoopInv, Banks, reader
<1>5. CASE EraseCycle \/ CopyWords
  <2>1. /\ UNCHANGED <<mac, shadow, eecd, mutex, op, tries, bank, reader>>
        /\ pc' \in {"erase", "copy", "validate"}
        /\ UNCHANGED flash \/ (\E n : flash' = EraseSector(n)) \/ Program(Other, Chunk)
    BY <1>5 DEF EraseCycle, CopyWords, NextSector, chip
  <2>2. flash' \in [Banks -> [Words -> Value]]
    BY <2>1, FlashTyped
  <2> QED BY <1>5, <2>1, <2>2, LoopsKept DEF TypeOK, reader
<1>6. CASE \/ EraseFails \/ CopyFails \/ MarkValid \/ MarkFails
           \/ InvalidateOld \/ InvalidateFails
  <2>1. /\ UNCHANGED <<mac, shadow, eecd, user, reader>> /\ mutex' \in {mutex, "free"}
        /\ pc' \in {"failed", "invalidate", "clear"}
        /\ \/ UNCHANGED flash \/ (\E n : flash' = EraseSector(n)) \/ Program(Other, Chunk)
           \/ Program(Other, [w \in {Sig} |-> 2]) \/ Program(bank, [w \in {Sig} |-> 0])
    <3>1. CASE EraseFails
      BY <3>1 DEF EraseFails, GiveUp, chip
    <3>2. CASE CopyFails
      BY <3>2 DEF CopyFails, GiveUp, chip
    <3>3. CASE MarkValid \/ MarkFails
      BY <3>3 DEF MarkValid, MarkFails, GiveUp, chip
    <3>4. CASE InvalidateOld \/ InvalidateFails
      BY <3>4 DEF InvalidateOld, InvalidateFails, GiveUp, chip
    <3> QED BY <1>6, <3>1, <3>2, <3>3, <3>4
  <2>2. flash' \in [Banks -> [Words -> Value]]
    BY <2>1, FlashTyped
  <2> QED BY <2>1, <2>2 DEF TypeOK, LoopInv, user, reader
<1>7. CASE ReadWant \/ ReadStep
  <2>1. /\ UNCHANGED <<mac, flash, shadow, eecd, pc, user>> /\ mutex' \in {mutex, "free", "reader"}
        /\ rpc' \in {"idle", "want", "read", "got"} /\ rbank' \in Banks
        /\ rword' \in Words /\ rval' \in Value
    <3>1. CASE ReadWant \/ ReadRelease
      BY <3>1, TypedReads DEF ReadWant, ReadRelease, chip, Banks, TypeOK
    <3>2. CASE ReadAcquire
      BY <3>2, TypedReads DEF ReadAcquire, chip, TypeOK
    <3>3. CASE \E w \in Words : ReadFetch(w)
      <4>1. rbank \in Banks
        BY DEF TypeOK
      <4> QED BY <3>3, <4>1, TypedReads DEF ReadFetch, chip, TypeOK
    <3> QED BY <1>7, <3>1, <3>2, <3>3 DEF ReadStep
  <2> QED BY <2>1 DEF TypeOK, LoopInv, user
<1>8. CASE PowerLoss
  <2>1. /\ UNCHANGED <<mac, flash>> /\ eecd' = SignedBank /\ shadow' = NoWords
        /\ mutex' = "free" /\ pc' = "probe" /\ op' = "probe" /\ tries' = 0 /\ NoLocals
        /\ rpc' = "idle" /\ rword' = 0 /\ rbank' = 0 /\ rval' = 0
    BY <1>8 DEF PowerLoss
  <2> QED BY <2>1, TypedReads, NvmAssumption DEF TypeOK, LoopInv, NoLocals, NoWords, Banks
<1> QED BY <1>1, <1>2, <1>3, <1>4, <1>5, <1>6, <1>7, <1>8 DEF Next, Update

\* The types hold for any adapter, any number of sectors and any failures.
LEMMA TypesAlways == Spec => [](TypeOK /\ LoopInv)
<1>1. ASSUME Init PROVE TypeOK /\ LoopInv
  <2>1. PICK b \in Banks, img \in [Words -> Data \cup {ValidSig}] :
          flash \in {[c \in Banks |-> IF c = b THEN img ELSE old] :
                old \in {[w \in Words |-> Erased], [w \in Words |-> 0]}}
    BY <1>1 DEF Init
  <2>2. Data \cup {ValidSig} \subseteq Value /\ Erased \in Value /\ 0 \in Value
    BY NvmAssumption DEF Value, ValidSig, Erased
  <2>3. flash \in [Banks -> [Words -> Value]]
    BY <2>1, <2>2
  <2>4. 0 \in Words /\ 0 \in 0..W /\ 0 \in 0..Sectors /\ 0 \in 0..(Repeat + Sectors)
        /\ 0 <= Repeat - 1 + 0
    BY NvmAssumption DEF Words
  <2> QED BY <1>1, <2>2, <2>3, <2>4 DEF Init, TypeOK, LoopInv, NoWords, Banks
<1>2. ASSUME TypeOK, LoopInv, [Next]_vars PROVE (TypeOK /\ LoopInv)'
  <2>1. CASE Next
    BY <1>2, <2>1, TypeStep
  <2>2. CASE UNCHANGED vars
    BY <1>2, <2>2 DEF vars, chip, user, reader, TypeOK, LoopInv
  <2> QED BY <1>2, <2>1, <2>2
<1> QED BY <1>1, <1>2, PTL DEF Spec

-----------------------------------------------------------------------------
(* The checksum.                                                           *)

\* A sum depends on the words it covers alone.
LEMMA SameTotal ==
  ASSUME NEW f, NEW g, NEW S, \A w \in S : f[w] = g[w]
  PROVE  Total(f, S) = Total(g, S)
<1>1. {w \in S : f[w] \div 2 = 1} = {w \in S : g[w] \div 2 = 1}
  OBVIOUS
<1>2. {w \in S : f[w] % 2 = 1} = {w \in S : g[w] % 2 = 1}
  OBVIOUS
<1> QED BY <1>1, <1>2 DEF Total

\* The word that e1000e_update_nvm_checksum_generic computes completes the image.
LEMMA SumCompletes ==
  ASSUME NEW img, \A w \in Words : img[w] \in Value,
         img[Csum] = (NvmSum - Total(img, Summed)) % 4
  PROVE  Total(img, 0..Csum) % 4 = NvmSum
<1> DEFINE v == img[Csum]
           High(S) == {w \in S : img[w] \div 2 = 1}
           Low(S) == {w \in S : img[w] % 2 = 1}
<1>1. /\ Csum \in Nat /\ Csum \in Words /\ Summed \subseteq Words /\ Csum \notin Summed
      /\ 0..Csum = Summed \cup {Csum}
  BY NvmAssumption DEF Words, Summed
<1>2. IsFiniteSet(Summed)
  BY <1>1, FS_Interval DEF Summed
<1>3. /\ IsFiniteSet(High(Summed)) /\ IsFiniteSet(Low(Summed))
  BY <1>2, FS_Subset
<1>4. Cardinality(High(Summed)) \in Nat /\ Cardinality(Low(Summed)) \in Nat
  BY <1>3, FS_CardinalityType
<1>5. Cardinality(High(0..Csum)) = Cardinality(High(Summed)) + (IF v \div 2 = 1 THEN 1 ELSE 0)
  <2>1. CASE v \div 2 = 1
    <3>1. High(0..Csum) = High(Summed) \cup {Csum} /\ Csum \notin High(Summed)
      BY <1>1, <2>1
    <3>2. Cardinality(High(Summed) \cup {Csum}) = Cardinality(High(Summed)) + 1
      BY <1>3, <3>1, FS_AddElement
    <3> QED BY <2>1, <3>1, <3>2
  <2>2. CASE v \div 2 # 1
    <3>1. High(0..Csum) = High(Summed)
      BY <1>1, <2>2
    <3>2. Cardinality(High(0..Csum)) = Cardinality(High(Summed))
      BY <3>1
    <3> HIDE DEF High, Low
    <3> QED BY <1>4, <2>2, <3>2
  <2> QED BY <2>1, <2>2
<1>6. Cardinality(Low(0..Csum)) = Cardinality(Low(Summed)) + (IF v % 2 = 1 THEN 1 ELSE 0)
  <2>1. CASE v % 2 = 1
    <3>1. Low(0..Csum) = Low(Summed) \cup {Csum} /\ Csum \notin Low(Summed)
      BY <1>1, <2>1
    <3>2. Cardinality(Low(Summed) \cup {Csum}) = Cardinality(Low(Summed)) + 1
      BY <1>3, <3>1, FS_AddElement
    <3> QED BY <2>1, <3>1, <3>2
  <2>2. CASE v % 2 # 1
    <3>1. Low(0..Csum) = Low(Summed)
      BY <1>1, <2>2
    <3>2. Cardinality(Low(0..Csum)) = Cardinality(Low(Summed))
      BY <3>1
    <3> HIDE DEF High, Low
    <3> QED BY <1>4, <2>2, <3>2
  <2> QED BY <2>1, <2>2
<1>7. /\ Total(img, Summed) = 2 * Cardinality(High(Summed)) + Cardinality(Low(Summed))
      /\ Total(img, 0..Csum) = 2 * Cardinality(High(0..Csum)) + Cardinality(Low(0..Csum))
  BY DEF Total
<1> HIDE DEF High, Low
<1>8. v \in {0, 1, 2, 3}
  BY <1>1 DEF Value
<1>9. /\ 0 \div 2 = 0 /\ 1 \div 2 = 0 /\ 2 \div 2 = 1 /\ 3 \div 2 = 1
      /\ 0 % 2 = 0 /\ 1 % 2 = 1 /\ 2 % 2 = 0 /\ 3 % 2 = 1
  OBVIOUS
<1>10. Total(img, 0..Csum) = Total(img, Summed) + v /\ Total(img, Summed) \in Nat
  BY <1>4, <1>5, <1>6, <1>7, <1>8, <1>9
<1>11. v = (2 - Total(img, Summed)) % 4
  BY DEF NvmSum
<1> HIDE DEF v
<1> QED BY <1>8, <1>10, <1>11 DEF NvmSum

\* Whoever claims a checksum has it right.
Sums(img) == Calculated(img[Fix]) => Total(img, 0..Csum) % 4 = NvmSum

\* Every bank that the hardware might load adds up, and so does the image that an update
\* sets out to write; the signature is never in the shadow RAM.
SumInv ==
  /\ \A b \in Banks : flash[b][Sig] = ValidSig => Sums(flash[b])
  /\ Sig \notin DOMAIN shadow
  /\ pc \in {"acquire", "erase", "copy", "validate"} =>
       Total(Image(SignedBank), 0..Csum) % 4 = NvmSum

\* The steps that leave the flash alone.
LEMMA SumKeptQuiet ==
  ASSUME Plain, IInv, TypeOK, SumInv, Sig \notin UserWords,
         UNCHANGED <<mac, flash>>,
         DOMAIN shadow' \subseteq DOMAIN shadow \cup {Fix, Csum} \cup UserWords,
         pc' \in {"acquire", "erase", "copy", "validate"} =>
           pc \in {"acquire", "erase", "copy", "validate"} /\ UNCHANGED shadow
  PROVE  SumInv'
<1>1. Sig # Fix /\ Sig # Csum
  BY NvmAssumption DEF Words
<1>2. Sig \notin DOMAIN shadow'
  BY <1>1 DEF SumInv
<1>3. \A b \in Banks : flash'[b][Sig] = ValidSig => Sums(flash'[b])
  BY DEF SumInv
<1>4. SignedBank' = SignedBank
  BY DEF SignedBank
<1>5. ASSUME pc' \in {"acquire", "erase", "copy", "validate"}
      PROVE  Total(Image(SignedBank), 0..Csum)' % 4 = NvmSum
  <2>1. Image(SignedBank)' = Image(SignedBank)
    BY <1>4, <1>5 DEF Image, Read
  <2> QED BY <1>5, <2>1 DEF SumInv, Total
<1> QED BY <1>2, <1>3, <1>5 DEF SumInv, Sums, Total

\* The checksum is computed over the bank that is found, which is the one it is written for.
LEMMA SumComputed ==
  ASSUME Plain, IInv, TypeOK, SumInv, UpdateChecksum
  PROVE  SumInv'
<1>1. /\ UNCHANGED <<mac, flash>> /\ Detections = {SignedBank} /\ SignedBank \in Banks
      /\ SignedBank' = SignedBank
  BY Finding DEF IInv, UpdateChecksum, chip, SignedBank
<1>2. shadow' = Overlay([w \in {Csum} |-> (NvmSum - Total(Image(SignedBank), Summed)) % 4],
                        shadow)
  BY <1>1 DEF UpdateChecksum
<1> DEFINE img == [w \in Words |-> Read(w, SignedBank)']
           sum == (NvmSum - Total(Image(SignedBank), Summed)) % 4
<1>3. /\ DOMAIN shadow' = {Csum} \cup DOMAIN shadow /\ shadow'[Csum] = sum
      /\ \A w \in DOMAIN shadow \ {Csum} : shadow'[w] = shadow[w]
  BY <1>2 DEF Overlay
<1>4. Csum \in Words /\ Csum # Sig /\ Summed \subseteq Words \ {Csum}
  BY NvmAssumption DEF Words, Summed
<1>5. \A w \in Words \ {Csum} : img[w] = Image(SignedBank)[w]
  BY <1>1, <1>3 DEF Read, Image
<1>6. Total(img, Summed) = Total(Image(SignedBank), Summed)
  <2>1. \A w \in Summed : img[w] = Image(SignedBank)[w]
    BY <1>4, <1>5
  <2> HIDE DEF img
  <2> QED BY <2>1, SameTotal
<1>7. img[Csum] = sum
  BY <1>3, <1>4 DEF Read
<1>8. \A w \in Words : img[w] \in Value
  <2>1. sum \in Value
    BY <1>4, SumIsWord
  <2>2. \A w \in Words : Image(SignedBank)[w] \in Value
    BY <1>1, TypedReads DEF Image
  <2> HIDE DEF sum, img
  <2> QED BY <1>5, <1>7, <2>1, <2>2
<1>9. Image(SignedBank)' = img
  BY DEF Image
<1>10. Total(img, 0..Csum) % 4 = NvmSum
  <2>1. img[Csum] = (NvmSum - Total(img, Summed)) % 4
    BY <1>6, <1>7
  <2> HIDE DEF img, sum
  <2> QED BY <1>8, <2>1, SumCompletes
<1>11. Total(Image(SignedBank), 0..Csum)' % 4 = NvmSum
  BY <1>9, <1>10 DEF Total
<1>12. Sig \notin DOMAIN shadow'
  BY <1>3, <1>4 DEF SumInv
<1>13. \A b \in Banks : flash'[b][Sig] = ValidSig => Sums(flash'[b])
  BY <1>1 DEF SumInv
<1> QED BY <1>11, <1>12, <1>13 DEF SumInv, Sums, Total

\* What is erased or being copied is not valid; what is marked valid is the image.
LEMMA SumKeptFlash ==
  ASSUME Plain, IInv, TypeOK, SumInv,
         \/ EraseCycle \/ EraseFails \/ CopyWords \/ CopyFails
         \/ MarkValid \/ MarkFails \/ InvalidateOld \/ InvalidateFails
  PROVE  SumInv'
<1>1. UNCHANGED <<mac, shadow, bank>>
  BY DEF EraseCycle, EraseFails, CopyWords, CopyFails, MarkValid, MarkFails,
         InvalidateOld, InvalidateFails, GiveUp, chip, user
<1>2. CASE EraseCycle \/ EraseFails \/ CopyWords \/ CopyFails
  <2>1. /\ bank = SignedBank /\ SignedBank' = bank /\ Banks = {bank, Other}
        /\ flash'[bank] = flash[bank]
        /\ flash'[Other][Sig] # ValidSig \/ flash' = flash
    BY <1>2, CopySteps
  <2>2. pc \in {"erase", "copy"}
    BY <1>2 DEF EraseCycle, EraseFails, CopyWords, CopyFails
  <2>3. \A b \in Banks : flash'[b][Sig] = ValidSig => Sums(flash'[b])
    BY <2>1 DEF SumInv
  <2>4. Image(SignedBank)' = Image(SignedBank)
    BY <1>1, <2>1 DEF Image, Read
  <2> QED BY <1>1, <2>2, <2>3, <2>4 DEF SumInv, Sums, Total
<1>3. CASE MarkValid \/ MarkFails \/ InvalidateOld \/ InvalidateFails
  <2>1. /\ Banks = {bank, Other}
        /\ pc = "validate" => bank = SignedBank
        /\ flash'[bank][Sig] # ValidSig \/ flash'[bank] = flash[bank]
        /\ \/ flash'[Other] = flash[Other]
           \/ /\ pc = "validate" /\ flash'[Other][Sig] = ValidSig
              /\ \A w \in Kept : flash'[Other][w] = Read(w, bank)
    BY <1>3, SignatureSteps
  <2>2. pc' \notin {"acquire", "erase", "copy", "validate"}
    BY <1>3 DEF MarkValid, MarkFails, InvalidateOld, InvalidateFails, GiveUp
  <2>3. ASSUME pc = "validate", flash'[Other][Sig] = ValidSig,
               \A w \in Kept : flash'[Other][w] = Read(w, bank)
        PROVE  Sums(flash'[Other])
    <3>1. flash[bank][Sig] = ValidSig
      BY <2>3 DEF IInv, Progress
    <3>2. Read(Sig, bank) = ValidSig
      BY <3>1 DEF Read, SumInv
    <3>3. \A w \in Words : flash'[Other][w] = Image(SignedBank)[w]
      BY <2>1, <2>3, <3>2 DEF Image, Kept
    <3>4. 0..Csum \subseteq Words
      BY NvmAssumption DEF Words
    <3>5. Total(flash'[Other], 0..Csum) = Total(Image(SignedBank), 0..Csum)
      BY <3>3, <3>4, SameTotal
    <3>6. Total(Image(SignedBank), 0..Csum) % 4 = NvmSum
      BY <2>3 DEF SumInv
    <3> QED BY <3>5, <3>6 DEF Sums
  <2>4. \A b \in Banks : flash'[b][Sig] = ValidSig => Sums(flash'[b])
    BY <2>1, <2>3 DEF SumInv
  <2> QED BY <1>1, <2>2, <2>4 DEF SumInv, Sums, Total
<1> QED BY <1>2, <1>3

\* Every step.
LEMMA SumStep ==
  ASSUME Plain, IInv, TypeOK, SumInv, Sig \notin UserWords, Next
  PROVE  SumInv'
<1>1. CASE UpdateChecksum
  BY <1>1, SumComputed
<1>2. CASE \/ EraseCycle \/ EraseFails \/ CopyWords \/ CopyFails
           \/ MarkValid \/ MarkFails \/ InvalidateOld \/ InvalidateFails
  BY <1>2, SumKeptFlash
<1>3. CASE Validate \/ \E first, last \in Words : SetEeprom(first, last)
  <2>1. UNCHANGED <<mac, flash>> /\ pc' \notin {"acquire", "erase", "copy", "validate"}
    BY <1>3 DEF Validate, SetEeprom, chip
  <2>2. DOMAIN shadow' \subseteq DOMAIN shadow \cup {Fix, Csum} \cup UserWords
    BY <1>3, ShadowWrites
  <2> QED BY <2>1, <2>2, SumKeptQuiet
<1>4. CASE \/ ValidateFails \/ Return \/ ChecksumFails \/ AcquireNvm
           \/ ReadWant \/ ReadStep
  <2>1. UNCHANGED <<mac, flash, shadow>>
    BY <1>4 DEF ValidateFails, Return, ChecksumFails, AcquireNvm, ReadWant, ReadStep,
                ReadAcquire, ReadFetch, ReadRelease, chip
  <2>2. pc' \in {"acquire", "erase", "copy", "validate"} =>
          pc \in {"acquire", "erase", "copy", "validate"}
    BY <1>4 DEF ValidateFails, Return, ChecksumFails, AcquireNvm, ReadWant, ReadStep,
                ReadAcquire, ReadFetch, ReadRelease
  <2> QED BY <2>1, <2>2, SumKeptQuiet
<1>5. CASE ClearShadow \/ Reload \/ PowerLoss
  <2>1. /\ UNCHANGED <<mac, flash>> /\ shadow' \in {shadow, NoWords}
        /\ pc' \notin {"acquire", "erase", "copy", "validate"}
    BY <1>5 DEF ClearShadow, Reload, PowerLoss, chip
  <2>2. DOMAIN shadow' \subseteq DOMAIN shadow
    BY <2>1 DEF NoWords
  <2> QED BY <2>1, <2>2, SumKeptQuiet
<1> QED BY <1>1, <1>2, <1>3, <1>4, <1>5 DEF Next, Update

\* An image leaves the OEM with its checksum, if it claims to have one.
LEMMA SumInit == ASSUME Init PROVE SumInv
<1>1. PICK b \in Banks, img \in [Words -> Data \cup {ValidSig}] :
        /\ Shipped(img)
        /\ flash \in {[c \in Banks |-> IF c = b THEN img ELSE old] :
              old \in {[w \in Words |-> Erased], [w \in Words |-> 0]}}
  BY DEF Init
<1>2. PICK old \in {[w \in Words |-> Erased], [w \in Words |-> 0]} :
        flash = [c \in Banks |-> IF c = b THEN img ELSE old]
  BY <1>1
<1>3. Sig \in Words /\ old[Sig] # ValidSig
  BY NvmAssumption DEF Erased, ValidSig
<1>4. \A c \in Banks : flash[c] = IF c = b THEN img ELSE old
  BY <1>2
<1>5. Sums(img)
  BY <1>1 DEF Shipped, Sums
<1>6. \A c \in Banks : flash[c][Sig] = ValidSig => Sums(flash[c])
  BY <1>3, <1>4, <1>5
<1>7. Sig \notin DOMAIN shadow /\ pc = "probe"
  BY DEF Init, NoWords
<1> QED BY <1>6, <1>7 DEF SumInv

\* Whatever reads, writes and erasures fail, and whenever the power does, every word keeps
\* its type and the image that would be found afterwards has its checksum - unless the
\* user rewrites the signature word itself (e1000e_update_nvm_checksum_generic and the
\* two e1000_update_nvm_checksum_* of ich8lan.c).
THEOREM ImageStaysSummed ==
  ASSUME Plain, Sig \notin UserWords
  PROVE  Spec => []ImageDurable
<1>1. Init => IInv /\ SumInv
  BY InitIInv, SumInit
<1>2. (IInv /\ SumInv) /\ TypeOK /\ [Next]_vars => (IInv /\ SumInv)'
  <2>1. ASSUME IInv, SumInv, TypeOK, [Next]_vars PROVE SumInv'
    <3>1. CASE Next
      BY <2>1, <3>1, SumStep
    <3>2. CASE UNCHANGED vars
      <4>1. UNCHANGED <<mac, flash, shadow, pc>>
        BY <3>2 DEF vars, chip
      <4> QED BY <2>1, <4>1, SumKeptQuiet
    <3> QED BY <2>1, <3>1, <3>2
  <2> QED BY <2>1, Step
<1>3. TypeOK /\ IInv /\ SumInv => ImageDurable
  <2>1. ASSUME TypeOK, IInv, SumInv PROVE ChecksumDurable
    <3>1. SignedBank \in Banks /\ flash[SignedBank][Sig] = ValidSig
      BY <2>1 DEF IInv, SomeBankValid, SignedBank, Banks
    <3> QED BY <2>1, <3>1 DEF SumInv, Sums, ChecksumDurable
  <2> QED BY <2>1 DEF ImageDurable
<1> QED BY <1>1, <1>2, <1>3, TypesAlways, PTL DEF Spec
=============================================================================
