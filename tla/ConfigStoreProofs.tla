-------------------------- MODULE ConfigStoreProofs --------------------------
(* What holds of the configuration store for every set of settings and every  *)
(* number of saves: types, the page a save may write to, what a completed     *)
(* save leaves behind, and that the store implements the durable cell.        *)
EXTENDS ConfigStore, TLAPS

(* The inductive invariant.  SaveSparesBest is not inductive: that the target *)
(* page is the other page follows from the parity of the sequence numbers and *)
(* from the blob being written having the number after the best one.          *)
IInv == TypeOK /\ PageParity /\ WritingNext

(* Choosing the best blob never leaves the two pages, and finds one if there is one. *)
LEMMA BestIsAPage ==
  ASSUME NEW p \in [Page -> Blob \cup {NoBlob}]
  PROVE  /\ Best(p) \in {p[0], p[1]}
         /\ Best(p) \in Blob \cup {NoBlob}
         /\ Best(p) = NoBlob <=> p[0] = NoBlob /\ p[1] = NoBlob
BY DEF Best, Page

(* The sequence number after a load is the number of the blob that was chosen. *)
LEMMA LoadedSeqRange ==
  ASSUME NEW p \in [Page -> Blob \cup {NoBlob}]
  PROVE  /\ LoadedSeq(p) \in 0 .. MaxSeq
         /\ Best(p) # NoBlob => LoadedSeq(p) = Best(p).seq
<1>1. MaxSeq \in Nat BY StoreAssumption
<1>2. Best(p) # NoBlob => Best(p).seq \in 1 .. MaxSeq
  BY BestIsAPage DEF Blob
<1> QED BY <1>1, <1>2 DEF LoadedSeq

(* Registers hold a configuration whenever they have their types. *)
LEMMA RuntimeIsConfig == TypeOK => Runtime \in Config
BY DEF TypeOK, Runtime, Config

(* With both pages in parity, the page after the best one can be erased. *)
LEMMA OtherPageIsFree ==
  ASSUME TypeOK, PageParity, NEW b \in Blob, b.seq = LoadedSeq(pages) + 1
  PROVE  /\ TargetPage(b) \in Page
         /\ Best([pages EXCEPT ![TargetPage(b)] = NoBlob]) = Best(pages)
         /\ Best([pages EXCEPT ![TargetPage(b)] = b]) = b
<1> USE MarkerAssumption
<1>1. b.seq \in Nat /\ b # NoBlob BY StoreAssumption DEF Blob
<1>2. TargetPage(b) \in Page BY <1>1 DEF TargetPage, Page
<1>3. \A p \in Page : pages[p] # NoBlob => pages[p].seq \in Nat /\ pages[p].seq % 2 = p
  BY StoreAssumption DEF TypeOK, PageParity, Blob
<1>4. CASE Best(pages) = NoBlob
  <2>1. pages[0] = NoBlob /\ pages[1] = NoBlob
    BY <1>4, BestIsAPage DEF TypeOK
  <2> QED BY <1>1, <1>2, <2>1 DEF Best, Page, TypeOK
<1>5. CASE Best(pages) # NoBlob
  <2>1. b.seq = Best(pages).seq + 1
    BY <1>5, LoadedSeqRange DEF TypeOK
  <2>2. PICK q \in Page : Best(pages) = pages[q]
    BY BestIsAPage DEF TypeOK, Page
  <2>3. pages[q].seq \in Nat /\ pages[q].seq % 2 = q
    BY <1>3, <1>5, <2>2
  <2>4. TargetPage(b) = 1 - q
    BY <2>1, <2>2, <2>3 DEF TargetPage, Page
  <2>5. pages[1 - q] # NoBlob => pages[1 - q].seq <= pages[q].seq
    BY <1>3, <1>5, <2>2 DEF Best, Page
  <2>6. CASE q = 0
    BY <1>1, <1>3, <1>5, <2>1, <2>2, <2>4, <2>5, <2>6 DEF Best, Page, TypeOK
  <2>7. CASE q = 1
    BY <1>1, <1>3, <1>5, <2>1, <2>2, <2>4, <2>5, <2>7 DEF Best, Page, TypeOK
  <2> QED BY <1>2, <2>6, <2>7 DEF Page
<1> QED BY <1>2, <1>4, <1>5

-------------------------------------------------------------------------------
(* The inductive invariant holds at the first power-on. *)
LEMMA InitIInv == Init => IInv
<1> SUFFICES ASSUME Init PROVE IInv
  OBVIOUS
<1>1. TypeOK
  <2>1. 0 \in 0 .. MaxSeq
    BY StoreAssumption
  <2>2. pages \in [Page -> Blob \cup {NoBlob}]
    BY DEF Init
  <2>3. link \in Link /\ body \in Body
    BY StoreAssumption DEF Init
  <2> QED BY <2>1, <2>2, <2>3 DEF Init, TypeOK, Command
<1>2. PageParity /\ WritingNext
  BY DEF Init, PageParity, WritingNext
<1> QED BY <1>1, <1>2 DEF IInv

(* Steps that touch neither the pages nor the blob keep PageParity for free; *)
(* the save steps are the ones that need the parity lemma.                   *)
LEMMA NextIInv == IInv /\ [Next]_vars => IInv'
<1> SUFFICES ASSUME IInv, [Next]_vars PROVE IInv'
  OBVIOUS
<1> USE StoreAssumption, MarkerAssumption
<1> USE DEF IInv
<1>0. TypeOK /\ PageParity /\ WritingNext
  OBVIOUS
<1>1. CASE Boot
  <2>1. Best(pages) # NoBlob => Best(pages).cfg.link \in Link /\ Best(pages).cfg.body \in Body
    BY BestIsAPage DEF TypeOK, Blob, Config
  <2>2. TypeOK'
    BY <1>1, <2>1, LoadedSeqRange DEF Boot, TypeOK
  <2> QED BY <1>1, <2>2 DEF Boot, PageParity, WritingNext
<1>2. ASSUME NEW l \in Link, WriteLink(l) PROVE IInv'
  BY <1>2 DEF WriteLink, Idle, TypeOK, PageParity, WritingNext
<1>3. ASSUME NEW b \in Body, WriteBody(b) PROVE IInv'
  BY <1>3 DEF WriteBody, Idle, TypeOK, PageParity, WritingNext
<1>4. ASSUME NEW c \in Command, WriteCommand(c) PROVE IInv'
  BY <1>4 DEF WriteCommand, Idle, TypeOK, PageParity, WritingNext
<1>5. CASE Reload
  <2>1. Best(pages) # NoBlob => Best(pages).cfg.link \in Link /\ Best(pages).cfg.body \in Body
    BY BestIsAPage DEF TypeOK, Blob, Config
  <2>2. TypeOK'
    BY <1>5, <2>1, LoadedSeqRange DEF Reload, TypeOK, Command
  <2> QED BY <1>5, <2>2 DEF Reload, PageParity, WritingNext
<1>6. CASE FactoryDefaults
  BY <1>6 DEF FactoryDefaults, TypeOK, PageParity, WritingNext, Command
<1>7. CASE SaveUnchanged
  BY <1>7, LoadedSeqRange DEF SaveUnchanged, TypeOK, PageParity, WritingNext, Command
<1>8. CASE SaveStart
  <2>1. seq' = LoadedSeq(pages) /\ seq' \in 0 .. MaxSeq
    BY <1>8, LoadedSeqRange DEF SaveStart, TypeOK
  <2>2. blob' \in Blob
    BY <1>8, <2>1, RuntimeIsConfig DEF SaveStart, Blob
  <2>3. TypeOK'
    BY <1>8, <2>1, <2>2 DEF SaveStart, TypeOK
  <2>4. WritingNext'
    BY <1>8, <2>1, <2>2 DEF SaveStart, WritingNext, Runtime, LoadedSeq
  <2> QED BY <1>8, <2>3, <2>4 DEF SaveStart, PageParity
<1>9. CASE SaveErase
  <2>1. blob \in Blob /\ blob.seq = LoadedSeq(pages) + 1
    BY <1>9 DEF SaveErase, TypeOK, WritingNext
  <2>2. TargetPage(blob) \in Page /\ Best([pages EXCEPT ![TargetPage(blob)] = NoBlob]) = Best(pages)
    BY <2>1, OtherPageIsFree
  <2>3. pages' = pages \/ pages' = [pages EXCEPT ![TargetPage(blob)] = NoBlob]
    BY <1>9, <2>2 DEF SaveErase, TypeOK
  <2>4. TypeOK'
    BY <1>9, <2>2, <2>3 DEF SaveErase, TypeOK, Command
  <2>5. PageParity'
    BY <2>2, <2>3 DEF PageParity, TypeOK
  <2>6. LoadedSeq(pages') = LoadedSeq(pages)
    BY <2>2, <2>3 DEF LoadedSeq
  <2>7. WritingNext'
    BY <1>9, <2>6 DEF SaveErase, WritingNext, Runtime
  <2> QED BY <2>4, <2>5, <2>7
<1>10. CASE SaveProgram
  <2>1. blob \in Blob /\ blob.seq = LoadedSeq(pages) + 1
    BY <1>10 DEF SaveProgram, TypeOK, WritingNext
  <2>2. TargetPage(blob) \in Page
    BY <2>1, OtherPageIsFree
  <2>3. TypeOK'
    BY <1>10, <2>1, <2>2 DEF SaveProgram, TypeOK, Command, Blob
  <2>4. PageParity'
    BY <1>10, <2>1, <2>2 DEF SaveProgram, PageParity, TypeOK, TargetPage
  <2> QED BY <1>10, <2>3, <2>4 DEF SaveProgram, WritingNext
<1>11. CASE SaveProgramFails
  BY <1>11 DEF SaveProgramFails, TypeOK, PageParity, WritingNext, Command
<1>12. CASE EnterBootloader
  BY <1>12 DEF EnterBootloader, Idle, TypeOK, PageParity, WritingNext
<1>13. CASE PowerLoss
  <2>1. \/ pages' = pages
        \/ stage = "erase" /\ pages' = [pages EXCEPT ![TargetPage(blob)] = NoBlob]
    BY <1>13 DEF PowerLoss
  <2>2. stage = "erase" => TargetPage(blob) \in Page
    BY OtherPageIsFree DEF TypeOK, WritingNext
  <2>3. TypeOK' /\ PageParity'
    BY <1>13, <2>1, <2>2 DEF PowerLoss, TypeOK, PageParity, Command
  <2> QED BY <1>13, <2>3 DEF PowerLoss, WritingNext
<1>14. CASE UNCHANGED vars
  BY <1>14 DEF vars, TypeOK, PageParity, WritingNext, Runtime, LoadedSeq
<1> QED
  BY <1>1, <1>2, <1>3, <1>4, <1>5, <1>6, <1>7, <1>8, <1>9, <1>10, <1>11, <1>12,
     <1>13, <1>14 DEF Next

(* Types are correct in every reachable state. *)
THEOREM TypeCorrect == Spec => []TypeOK
<1>1. IInv => TypeOK BY DEF IInv
<1> QED BY InitIInv, NextIInv, <1>1, PTL DEF Spec

(* Every valid blob lies in the page of its parity. *)
THEOREM ParityHolds == Spec => []PageParity
<1>1. IInv => PageParity BY DEF IInv
<1> QED BY InitIInv, NextIInv, <1>1, PTL DEF Spec

(* No save ever erases or programs the page that would be loaded after a power loss. *)
THEOREM BestIsSpared == Spec => []SaveSparesBest
<1>1. ASSUME IInv PROVE SaveSparesBest
  <2> SUFFICES ASSUME stage \in {"erase", "program"}
               PROVE  Best([pages EXCEPT ![TargetPage(blob)] = NoBlob]) = Best(pages)
    BY DEF SaveSparesBest
  <2>1. blob \in Blob /\ blob.seq = LoadedSeq(pages) + 1
    BY <1>1 DEF IInv, TypeOK, WritingNext
  <2> QED BY <1>1, <2>1, OtherPageIsFree DEF IInv
<1> QED BY InitIInv, NextIInv, <1>1, PTL DEF Spec

(* A blob written to the end is the best one and holds the registers' values. *)
LEMMA ProgramMakesBest ==
  ASSUME IInv, SaveProgram
  PROVE  Best(pages') = blob /\ blob \in Blob /\ blob.cfg = Runtime /\ blob # NoBlob
<1>1. blob \in Blob /\ blob # NoBlob
  BY DEF SaveProgram, IInv, TypeOK, WritingNext
<1>2. blob.seq = LoadedSeq(pages) + 1 /\ blob.cfg = Runtime
  BY DEF SaveProgram, IInv, WritingNext
<1>3. Best(pages') = blob
  BY <1>1, <1>2, OtherPageIsFree DEF IInv, SaveProgram
<1> QED BY <1>1, <1>2, <1>3

(* What one step does to the configuration the next boot would select: only a *)
(* completed save changes it, and it becomes what the registers hold.         *)
LEMMA StepAndBest ==
  ASSUME IInv, [Next]_vars
  PROVE  \/ Best(pages') = Best(pages) /\ ~(stage = "program" /\ stage' = "loop" /\ ~pgerr')
         \/ SaveProgram /\ Best(pages') = blob /\ blob \in Blob /\ blob.cfg = Runtime
<1>1. CASE SaveProgram
  BY <1>1, ProgramMakesBest
<1>2. CASE SaveErase \/ PowerLoss
  <2>1. stage = "erase" => Best([pages EXCEPT ![TargetPage(blob)] = NoBlob]) = Best(pages)
    <3>1. stage = "erase" => blob \in Blob /\ blob.seq = LoadedSeq(pages) + 1
      BY DEF IInv, TypeOK, WritingNext
    <3> QED BY <3>1, OtherPageIsFree DEF IInv
  <2>2. \/ pages' = pages
        \/ stage = "erase" /\ pages' = [pages EXCEPT ![TargetPage(blob)] = NoBlob]
    <3>1. CASE SaveErase
      <4>1. stage = "erase" => TargetPage(blob) \in Page
        BY OtherPageIsFree DEF IInv, TypeOK, WritingNext
      <4> QED BY <3>1, <4>1 DEF SaveErase, IInv, TypeOK
    <3>2. CASE PowerLoss
      BY <3>2 DEF PowerLoss
    <3> QED BY <1>2, <3>1, <3>2
  <2> QED BY <1>2, <2>1, <2>2 DEF SaveErase, PowerLoss
<1>3. CASE [Next]_vars /\ ~SaveProgram /\ ~SaveErase /\ ~PowerLoss
  BY <1>3 DEF Next, vars, Boot, WriteLink, WriteBody, WriteCommand, Reload, FactoryDefaults,
     SaveUnchanged, SaveStart, SaveProgramFails, EnterBootloader, Idle
<1> QED BY <1>1, <1>2, <1>3

(* A save that reports success is what the next boot loads. *)
THEOREM CompletedSave == Spec => CompletedSaveIsBest
<1>1. ASSUME IInv, [Next]_vars
      PROVE  [stage = "program" /\ stage' = "loop" /\ ~pgerr' => Best(pages').cfg = Runtime]_vars
  BY <1>1, StepAndBest
<1> QED BY <1>1, InitIInv, NextIInv, PTL DEF Spec, CompletedSaveIsBest

(* The two-page store with all its intermediate states implements the durable *)
(* cell: the mapped durable configuration changes in one step, on success.    *)
THEOREM StoreImplementsCell == Spec => ImplementsCell
<1> USE StoreAssumption, MarkerAssumption
<1>1. Init => Cell!CellInit
  BY DEF Init, Cell!CellInit, Best, Page
<1>2. ASSUME IInv, [Next]_vars
      PROVE  [Cell!CellNext]_(Cell!cellVars)
  <2> USE <1>2
  <2> DEFINE w == IF stage = "reset" THEN NoLink ELSE Runtime
             d == IF Best(pages) = NoBlob THEN NoBlob ELSE Best(pages).cfg
  <2>1. Runtime \in Config /\ Runtime' \in Config
    BY NextIInv, RuntimeIsConfig DEF IInv, TypeOK, Runtime, Config
  <2>2. Best(pages) # NoBlob => Best(pages).cfg \in Config /\ Best(pages).cfg # NoBlob
    BY BestIsAPage DEF IInv, TypeOK, Blob
  <2>3. Runtime # NoLink /\ Runtime' # NoLink /\ Runtime # NoBlob
    BY <2>1
  <2>4. CASE SaveProgram
    <3>1. Best(pages') = blob /\ blob \in Blob /\ blob.cfg = Runtime /\ blob # NoBlob
      BY <2>4, ProgramMakesBest
    <3>2. d' = Runtime /\ w = Runtime /\ w' = Runtime
      BY <2>4, <3>1 DEF SaveProgram, Runtime
    <3> QED BY <3>2, <2>3 DEF Cell!CellNext, Cell!Commit
  <2>5. CASE ~SaveProgram
    <3>1. Best(pages') = Best(pages) /\ d' = d
      BY <2>5, StepAndBest
    <3>2. CASE Boot
      <4>1. w = NoLink /\ w' = Runtime'
        BY <3>2 DEF Boot
      <4>2. CASE Best(pages) # NoBlob
        <5>1. Runtime' = Best(pages).cfg
          BY <2>2, <3>2, <4>2 DEF Boot, Runtime, Config
        <5> QED BY <2>2, <3>1, <4>1, <4>2, <5>1 DEF Cell!CellNext, Cell!Start
      <4>3. CASE Best(pages) = NoBlob
        <5>1. Runtime' \in [link : Link, body : {DefaultBody}]
          BY <3>2, <4>3 DEF Boot, Runtime, IInv, TypeOK
        <5> QED BY <3>1, <4>1, <4>3, <5>1 DEF Cell!CellNext, Cell!Start
      <4> QED BY <4>2, <4>3
    <3>3. CASE stage # "reset" /\ stage' # "reset"
      <4>1. w = Runtime /\ w' = Runtime'
        BY <3>3
      <4> QED BY <2>1, <2>3, <3>1, <4>1 DEF Cell!CellNext, Cell!Edit
    <3>4. CASE stage # "reset" /\ stage' = "reset"
      <4>1. w = Runtime /\ w' = NoLink
        BY <3>4
      <4> QED BY <2>3, <3>1, <4>1 DEF Cell!CellNext, Cell!Stop
    <3>5. CASE stage = "reset" /\ ~Boot
      <4>1. UNCHANGED vars
        BY <1>2, <3>5 DEF Next, WriteLink, WriteBody, WriteCommand, Idle, Reload, FactoryDefaults,
           SaveUnchanged, SaveStart, SaveErase, SaveProgram, SaveProgramFails, EnterBootloader, PowerLoss
      <4>2. w' = w
        BY <3>5, <4>1 DEF vars
      <4> QED BY <3>1, <4>2 DEF Cell!cellVars
    <3> QED BY <3>2, <3>3, <3>4, <3>5
  <2> QED BY <2>4, <2>5
<1> QED BY <1>1, <1>2, InitIInv, NextIInv, PTL DEF Spec, ImplementsCell, Cell!CellSpec
===============================================================================
