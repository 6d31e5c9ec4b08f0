--------------------------- MODULE IndexRebuildProofs ---------------------------
(***************************************************************************)
(* Proofs about IndexRebuild for any number of documents, identities,      *)
(* requests, saves and faults, and any vault.                              *)
(***************************************************************************)
EXTENDS IndexRebuild, TLAPS

-------------------------------------------------------------------------------
(* The inductive invariant.                                                *)

\* The types, with the records named
KvRow == [sidecar : Models \cup {None}, snapshot : Models \cup {None}]
GateRow == [ready : BOOLEAN, serving : BOOLEAN, pin : Models \cup {None}]
JobRow == [st : {"pending", "running", "over"}, scope : {"all", "vault"},
           narrow : SUBSET Files, tries : 0..MaxAttempts, nth : 0..MaxJobs]
RunRow == [pc : Steps, start : Models \cup {None}, named : Models \cup {None},
           staged : BOOLEAN, todo : SUBSET Files, failed : SUBSET Files,
           skipped : SUBSET Files, late : SUBSET Files, file : Files \cup {None},
           prior : Statuses \cup {None}, vec : Models \cup {None}]
UsedRow == [saves : 0..MaxSaves, faults : 0..MaxFaults]
PastRow == [built : Models, overtaken : BOOLEAN, flipped : BOOLEAN,
            unrecorded : BOOLEAN, torn : BOOLEAN, lost : SUBSET Files]

\* The steps in which an attempt goes through its documents, and the states in
\* which it finds them
Going == {"visiting"} \cup InFile
Waiting == {"indexed", "error"}

\* The shape of an attempt: what its step says of its job, of the documents it has
\* still to visit, and of the table it stages.
AttemptFits ==
    /\ run.pc = "idle" => run = NoRun
    /\ run.pc # "idle" => run.start \in Models /\ job.st = "running"
    /\ job.st = "pending" => job.tries < MaxAttempts
    /\ up \/ (run.pc = "idle" /\ save = None)
    /\ run.staged => run.named \in Models
    /\ run.pc \in Swap => run.staged
    /\ run.pc \in Swap \cup {"judging"} => run.todo = {} /\ run.failed = {}
    /\ run.pc = "deciding" => ~run.staged /\ run.failed = {} /\ run.skipped = {}
    /\ run.staged /\ run.pc \in Going \cup Swap \cup {"judging"} => ~Partial
    /\ run.staged /\ run.pc \in Going \cup {"dropping", "creating"} => temp # NoTable

DocumentFits ==
    /\ run.pc \notin InFile => run.file = None
    /\ run.pc \in InFile =>
          /\ run.file \in run.todo
          /\ run.prior \in Waiting
          /\ status[run.file] \in {"processing", "cancelled"}
    /\ run.pc \in {"writing", "finalizing"} => run.vec \in Models
    /\ run.pc \in {"deciding"} \cup Going =>
          \A f \in run.todo : f = run.file \/ status[f] \in Waiting

\* A store that is ready serves the recorded identity; an attempt that stages
\* began where the two differed; only an open rebuild serves beside it.
ReadyMatches == Quiet /\ gate.ready => model = kv.sidecar
StagedIsGated ==
    run.staged /\ run.pc \in Going \cup Swap \cup {"judging", "lifting"} /\ Quiet
        => ~gate.ready
ServingIsOpen == gate.serving => run.staged /\ run.pc \in Going

\* The identity an attempt records is the one it began under.
NamedIsStart ==
    ~past.flipped => /\ run.staged /\ model = run.start => run.named = run.start
                     /\ run.pc \in Swap => run.named = run.start

\* The identity on record is the one the live table was built under, but for the
\* end of a swap.
RecordIsBuilt ==
    /\ kv.sidecar \in Models
    /\ IF run.pc \in {"indexing", "recording"}
       THEN past.built = run.start
       ELSE ~past.flipped /\ ~past.unrecorded => kv.sidecar = past.built

PinIsBuilt ==
    /\ ~past.flipped /\ ~past.unrecorded /\ ~past.torn
    /\ gate.serving /\ gate.pin # None
    => Name[gate.pin] = Name[past.built]

\* A live table is missing only between two steps of a swap, or after one broke off.
TableIsThere ==
    /\ chunks = NoTable => past.torn \/ run.pc = "creating"
    /\ run.staged /\ run.pc \in {"indexing", "recording", "judging"} => chunks # NoTable

HasChunks(f) == chunks # NoTable /\ chunks[f] # None
HasStaged(f) == temp # NoTable /\ temp[f] # None

\* A document that waits for an attempt, or is in its hands, has chunks.
Searchable ==
    \A f \in Files :
        status[f] \in Waiting \/ (f = run.file /\ status[f] = "processing")
            => f \in past.lost \/ past.torn \/ chunks = NoTable \/ chunks[f] # None

\* What a full attempt in place has put into the live table
Rewritten ==
    ~run.staged /\ ~Partial /\ run.pc \in {"deciding", "judging"} \cup Going =>
        \A f \in Files : status[f] \in Waiting =>
            f \in run.todo \cup run.failed \cup run.skipped \/ HasChunks(f)

\* and any attempt in place into the document it has in hand
InHand ==
    run.pc = "finalizing" =>
        IF run.staged THEN HasStaged(run.file) ELSE HasChunks(run.file)

TableWritten ==
    ~run.staged /\ run.pc \in {"visiting", "judging"} =>
        run.todo # {} \/ run.failed # {} \/ run.skipped # {} \/ chunks # NoTable

\* What a staged attempt has put into its table, and what its swap brings out
Staged ==
    run.staged /\ run.pc \in Going \cup {"dropping", "creating"} =>
        \A f \in Files : status[f] \in Waiting =>
            f \in run.todo \cup run.failed \cup run.skipped \cup run.late \/ HasStaged(f)
Selects ==
    run.pc = "deciding" /\ ~Partial =>
        \A f \in Files : status[f] \in Waiting => f \in run.todo \cup run.late
Swapped ==
    run.staged /\ run.pc \in {"indexing", "recording", "judging"} =>
        \A f \in Files : status[f] \in Waiting =>
            f \in past.lost \/ HasChunks(f)

Gating == ReadyMatches /\ StagedIsGated /\ ServingIsOpen
Identity == NamedIsStart /\ RecordIsBuilt /\ PinIsBuilt /\ TableIsThere
Documents ==
    Searchable /\ Rewritten /\ InHand /\ TableWritten /\ Staged /\ Selects /\ Swapped

IInv == TypeOK /\ AttemptFits /\ DocumentFits /\ Gating /\ Identity /\ Documents

-------------------------------------------------------------------------------
(* Saves, documents and cancels outside the attempt keep the invariant.    *)

LEMMA SaveApplyKeeps ==
    ASSUME NEW m \in Models, IInv, SaveApply(m)
    PROVE  IInv'
<1>1. TypeOK'
  <2>1. model' \in Models
    BY DEF SaveApply
  <2>2. save' \in Models \cup {None}
    BY DEF IInv, SaveApply, TypeOK
  <2>3. used' \in UsedRow
    BY NoneAssumption, VaultAssumption, BoundAssumption DEF IInv, SaveApply,
        UsedRow, TypeOK
  <2>4. past' \in PastRow
    BY DEF IInv, SaveApply, PastRow, TypeOK
  <2> QED
    BY <2>1, <2>2, <2>3, <2>4 DEF IInv, SaveApply, Tables, Rows, UsedRow, PastRow,
        TypeOK
<1>2. AttemptFits'
  BY DEF IInv, SaveApply, Tables, AttemptFits, Partial
<1>3. DocumentFits'
  BY DEF IInv, SaveApply, Rows, DocumentFits
<1>4. Gating'
  BY NoneAssumption, VaultAssumption, BoundAssumption DEF IInv, Gating, SaveApply,
      ReadyMatches, StagedIsGated, ServingIsOpen, Quiet, TypeOK
<1>5. Identity'
  BY DEF IInv, Identity, SaveApply, Tables, NamedIsStart, RecordIsBuilt, PinIsBuilt,
      TableIsThere, TypeOK
<1>6. Documents'
  BY DEF IInv, Documents, SaveApply, Tables, Rows, Searchable, Rewritten, InHand,
      TableWritten, Staged, Selects, Swapped, Partial, HasChunks, HasStaged
<1> QED BY <1>1, <1>2, <1>3, <1>4, <1>5, <1>6 DEF IInv

LEMMA SaveFlagKeeps ==
    ASSUME IInv, SaveFlag
    PROVE  IInv'
<1>1. TypeOK'
  <2>1. save' \in Models \cup {None}
    BY DEF SaveFlag
  <2>2. gate' \in GateRow
    BY DEF IInv, SaveFlag, GateRow, TypeOK
  <2>3. kv' \in KvRow
    BY DEF IInv, SaveFlag, KvRow, TypeOK
  <2>4. past' \in PastRow
    BY DEF IInv, SaveFlag, PastRow, TypeOK
  <2> QED
    BY <2>1, <2>2, <2>3, <2>4 DEF IInv, SaveFlag, Tables, Rows, GateRow, PastRow,
        TypeOK
<1>2. AttemptFits'
  BY DEF IInv, SaveFlag, Tables, AttemptFits, Partial
<1>3. DocumentFits'
  BY DEF IInv, SaveFlag, Rows, DocumentFits
<1>4. Gating'
  BY DEF IInv, Gating, SaveFlag, ReadyMatches, StagedIsGated, ServingIsOpen
<1>5. Identity'
  BY DEF IInv, Identity, SaveFlag, Tables, NamedIsStart, RecordIsBuilt, PinIsBuilt,
      TableIsThere
<1>6. Documents'
  BY DEF IInv, Documents, SaveFlag, Tables, Rows, Searchable, Rewritten, InHand,
      TableWritten, Staged, Selects, Swapped, Partial, HasChunks, HasStaged
<1> QED BY <1>1, <1>2, <1>3, <1>4, <1>5, <1>6 DEF IInv

LEMMA IngestKeeps ==
    ASSUME NEW f \in Files, IInv, Ingest(f)
    PROVE  IInv'
<1>1. TypeOK'
  <2>1. status' \in [Files -> Statuses]
    BY DEF IInv, Ingest, Statuses, TypeOK
  <2>2. chunks' \in Table \cup {NoTable}
    BY DEF IInv, Ingest, Live, Empty, Table, TypeOK
  <2>3. kv' \in KvRow
    BY DEF IInv, Ingest, Recorded, KvRow, TypeOK
  <2>4. run' \in RunRow
    BY DEF IInv, Ingest, RunRow, TypeOK
  <2>5. past' \in PastRow
    BY DEF IInv, Ingest, WithTable, PastRow, TypeOK
  <2> QED
    BY <2>1, <2>2, <2>3, <2>4, <2>5 DEF IInv, Ingest, Settings, KvRow, PastRow,
        TypeOK
<1>2. AttemptFits'
  BY DEF IInv, Ingest, AttemptFits, Partial, TypeOK
<1>3. DocumentFits'
  BY DEF IInv, Ingest, DocumentFits, Waiting
<1>4. Gating'
  BY DEF IInv, Gating, Ingest, Settings, Recorded, WithTable, ReadyMatches,
      StagedIsGated, ServingIsOpen, Quiet
<1>5. Identity'
  <2>1. NamedIsStart'
    BY DEF IInv, Identity, Ingest, Settings, WithTable, NamedIsStart
  <2>2. RecordIsBuilt'
    BY DEF IInv, Identity, Ingest, Recorded, WithTable, RecordIsBuilt, Swap, TypeOK
  <2>3. PinIsBuilt'
    BY DEF IInv, Identity, Ingest, WithTable, PinIsBuilt, TableIsThere, Swap
  <2>4. TableIsThere'
    BY NoneAssumption, VaultAssumption, BoundAssumption DEF IInv, Identity, Ingest,
        Live, WithTable, TableIsThere, TypeOK, Table
  <2> QED BY <2>1, <2>2, <2>3, <2>4 DEF Identity
<1>6. Documents'
  <2>1. Searchable'
    BY NoneAssumption, VaultAssumption, BoundAssumption DEF IInv, Documents,
        Identity, Ingest, Live, WithTable, Searchable, TableIsThere, Swap, TypeOK,
        Table
  <2>2. Rewritten'
    BY NoneAssumption, VaultAssumption, BoundAssumption DEF IInv, Documents, Ingest,
        Live, Empty, Rewritten, Partial, HasChunks, TypeOK, Table
  <2>3. InHand'
    BY NoneAssumption, VaultAssumption, BoundAssumption DEF IInv, Documents, Ingest,
        Live, InHand, HasStaged, HasChunks, TypeOK, Table
  <2>4. TableWritten'
    BY NoneAssumption, VaultAssumption, BoundAssumption DEF IInv, Documents, Ingest,
        Live, TableWritten, TypeOK, Table
  <2>5. Staged'
    BY DEF IInv, Documents, Ingest, Staged, Going, InFile, HasStaged
  <2>6. Selects'
    BY DEF IInv, Documents, Ingest, Selects, Partial
  <2>7. Swapped'
    BY NoneAssumption, VaultAssumption, BoundAssumption DEF IInv, Documents, Ingest,
        Live, WithTable, Empty, Swapped, HasChunks, TypeOK, Table
  <2> QED BY <2>1, <2>2, <2>3, <2>4, <2>5, <2>6, <2>7 DEF Documents
<1> QED BY <1>1, <1>2, <1>3, <1>4, <1>5, <1>6 DEF IInv

LEMMA CancelMarkKeeps ==
    ASSUME NEW f \in Files, IInv, CancelMark(f)
    PROVE  IInv'
<1>1. TypeOK'
  <2>1. marked' \in SUBSET Files
    BY DEF IInv, CancelMark, TypeOK
  <2>2. cancel' \in Files \cup {"due", "over"}
    BY DEF CancelMark
  <2> QED
    BY <2>1, <2>2 DEF IInv, CancelMark, Settings, Tables, TypeOK
<1>2. AttemptFits'
  BY DEF IInv, CancelMark, Tables, AttemptFits, Partial
<1>3. DocumentFits'
  BY DEF IInv, CancelMark, DocumentFits
<1>4. Gating'
  BY DEF IInv, Gating, CancelMark, Settings, ReadyMatches, StagedIsGated,
      ServingIsOpen, Quiet
<1>5. Identity'
  BY DEF IInv, Identity, CancelMark, Settings, Tables, NamedIsStart, RecordIsBuilt,
      PinIsBuilt, TableIsThere
<1>6. Documents'
  BY DEF IInv, Documents, CancelMark, Tables, Searchable, Rewritten, InHand,
      TableWritten, Staged, Selects, Swapped, Partial, HasChunks, HasStaged
<1> QED BY <1>1, <1>2, <1>3, <1>4, <1>5, <1>6 DEF IInv

LEMMA CancelFlipKeeps ==
    ASSUME IInv, CancelFlip
    PROVE  IInv'
<1>1. TypeOK'
  <2>1. cancel' \in Files \cup {"due", "over"}
    BY DEF CancelFlip
  <2>2. status' \in [Files -> Statuses]
    BY DEF IInv, CancelFlip, Statuses, TypeOK
  <2>3. marked' \in SUBSET Files
    BY DEF IInv, CancelFlip, TypeOK
  <2> QED
    BY <2>1, <2>2, <2>3 DEF IInv, CancelFlip, Settings, Tables, TypeOK
<1>2. AttemptFits'
  BY DEF IInv, CancelFlip, Settings, Tables, AttemptFits, Partial
<1>3. DocumentFits'
  BY DEF IInv, CancelFlip, DocumentFits, Waiting, TypeOK
<1>4. Gating'
  BY DEF IInv, Gating, CancelFlip, Settings, ReadyMatches, StagedIsGated,
      ServingIsOpen, Quiet
<1>5. Identity'
  BY DEF IInv, Identity, CancelFlip, Settings, Tables, NamedIsStart, RecordIsBuilt,
      PinIsBuilt, TableIsThere
<1>6. Documents'
  BY DEF IInv, Documents, CancelFlip, Tables, Searchable, Rewritten, InHand,
      TableWritten, Staged, Selects, Swapped, Waiting, Partial, HasChunks,
      HasStaged, TypeOK
<1> QED BY <1>1, <1>2, <1>3, <1>4, <1>5, <1>6 DEF IInv

-------------------------------------------------------------------------------
(* So does an attempt from its request to its last document.               *)

LEMMA RequestKeeps ==
    ASSUME NEW s \in {"all", "vault"}, IInv, Request(s)
    PROVE  IInv'
<1>1. TypeOK'
  <2>1. job' \in JobRow
    BY NoneAssumption, VaultAssumption, BoundAssumption DEF IInv, Request, JobRow,
        TypeOK
  <2> QED
    BY <2>1 DEF IInv, Request, Settings, Tables, Rows, JobRow, TypeOK
<1>2. AttemptFits'
  BY NoneAssumption, VaultAssumption, BoundAssumption DEF IInv, Request,
      AttemptFits, Going, Swap, InFile
<1>3. DocumentFits'
  BY DEF IInv, Request, Rows, DocumentFits
<1>4. Gating'
  BY DEF IInv, Gating, Request, Settings, ReadyMatches, StagedIsGated,
      ServingIsOpen, Quiet
<1>5. Identity'
  BY DEF IInv, Identity, Request, Settings, Tables, NamedIsStart, RecordIsBuilt,
      PinIsBuilt, TableIsThere
<1>6. Documents'
  BY DEF IInv, Documents, Request, Tables, Rows, Searchable, Rewritten, InHand,
      TableWritten, Staged, Selects, Swapped, Going, InFile, AttemptFits
<1> QED BY <1>1, <1>2, <1>3, <1>4, <1>5, <1>6 DEF IInv

LEMMA StartKeeps ==
    ASSUME IInv, Start
    PROVE  IInv'
<1>1. TypeOK'
  <2>1. job' \in JobRow
    <3>1. job \in JobRow /\ job.tries < MaxAttempts /\ MaxAttempts \in Nat
      BY BoundAssumption DEF IInv, AttemptFits, TypeOK, Start, JobRow
    <3>2. job' = [job EXCEPT !.st = "running", !.tries = @ + 1]
      BY DEF Start
    <3>3. job.tries + 1 \in 0..MaxAttempts
      BY <3>1 DEF JobRow
    <3> QED BY <3>1, <3>2, <3>3 DEF JobRow
  <2>2. run' \in RunRow
    BY DEF IInv, Start, NoRun, Selected, RunRow, Steps, TypeOK
  <2> QED
    <3>1. UNCHANGED <<model, save, kv, chunks, temp, gate, status, marked, cancel, up,
                      used, past>>
      BY DEF Start, Settings, Tables, Rows
    <3> QED BY <2>1, <2>2, <3>1 DEF IInv, TypeOK, Table, JobRow, RunRow
<1>2. AttemptFits'
  BY DEF IInv, Start, NoRun, AttemptFits, Swap, TypeOK
<1>3. DocumentFits'
  BY DEF Start, Rows, NoRun, Selected, DocumentFits, InFile, Waiting
<1>4. Gating'
  BY DEF IInv, Gating, Start, Settings, NoRun, ReadyMatches, StagedIsGated,
      ServingIsOpen, Quiet, Going, InFile
<1>5. Identity'
  BY DEF IInv, Identity, Start, Tables, NoRun, NamedIsStart, RecordIsBuilt,
      PinIsBuilt, TableIsThere, Swap
<1>6. Documents'
  BY DEF IInv, Documents, Start, Tables, Rows, NoRun, Selected, Searchable,
      Rewritten, InHand, TableWritten, Staged, Selects, Swapped, Waiting, Partial,
      AttemptFits
<1> QED BY <1>1, <1>2, <1>3, <1>4, <1>5, <1>6 DEF IInv

LEMMA DecideOtherKeeps ==
    ASSUME IInv, DecideOther
    PROVE  IInv'
<1>1. TypeOK'
  <2>1. run' \in RunRow
    BY DEF IInv, DecideOther, Fail, RunRow, Steps, TypeOK
  <2>2. job' \in JobRow
    BY DEF IInv, DecideOther, Fail, JobRow, TypeOK
  <2> QED
    BY <2>1, <2>2 DEF IInv, DecideOther, Settings, Tables, Rows, Fail, RunRow,
        TypeOK
<1>2. AttemptFits'
  BY DEF IInv, DecideOther, Fail, AttemptFits, Swap, TypeOK
<1>3. DocumentFits'
  BY DEF IInv, DecideOther, Rows, Fail, DocumentFits, InFile, TypeOK
<1>4. Gating'
  BY DEF IInv, Gating, DecideOther, Settings, Fail, ReadyMatches, StagedIsGated,
      ServingIsOpen, Quiet, TypeOK, AttemptFits
<1>5. Identity'
  BY DEF IInv, Identity, DecideOther, Settings, Tables, Fail, NamedIsStart,
      RecordIsBuilt, PinIsBuilt, TableIsThere, Swap, TypeOK
<1>6. Documents'
  BY DEF IInv, Documents, DecideOther, Tables, Rows, Fail, Searchable, Rewritten,
      InHand, TableWritten, Staged, Selects, Swapped, Partial, Going, InFile,
      HasChunks, TypeOK, AttemptFits
<1> QED BY <1>1, <1>2, <1>3, <1>4, <1>5, <1>6 DEF IInv

\* It stages only where the identities differ, so the store is not ready; its pin
\* has the name of the identity on record.

LEMMA OpenKeeps ==
    ASSUME IInv, Open
    PROVE  IInv'
<1>1. TypeOK'
  <2>1. temp' \in Table \cup {NoTable}
    BY DEF Open, Empty, Table
  <2>2. gate' \in GateRow
    BY DEF IInv, Open, Pin, GateRow, TypeOK
  <2>3. run' \in RunRow
    BY DEF IInv, Open, RunRow, Steps, TypeOK
  <2> QED
    BY <2>1, <2>2, <2>3 DEF IInv, Open, Settings, Rows, GateRow, RunRow, TypeOK
<1>2. AttemptFits'
  BY NoneAssumption, VaultAssumption, BoundAssumption DEF IInv, Open, Empty,
      AttemptFits, Partial, Swap, TypeOK
<1>3. DocumentFits'
  BY DEF IInv, Open, Rows, DocumentFits, InFile
<1>4. Gating'
  <2>1. ReadyMatches'
    BY DEF IInv, Gating, Open, Settings, ReadyMatches, Quiet
  <2>2. StagedIsGated'
    BY DEF IInv, Gating, Open, Settings, IdentityChanged, StagedIsGated, Quiet,
        ReadyMatches
  <2>3. ServingIsOpen'
    BY DEF Open, ServingIsOpen, Going
  <2> QED BY <2>1, <2>2, <2>3 DEF Gating
<1>5. Identity'
  <2>1. NamedIsStart'
    BY DEF Open, Settings, NamedIsStart, Swap
  <2>2. RecordIsBuilt'
    BY DEF IInv, Identity, Open, RecordIsBuilt
  <2>3. PinIsBuilt'
    BY DEF IInv, Identity, Open, IdentityChanged, Pin, PinIsBuilt, RecordIsBuilt
  <2>4. TableIsThere'
    BY DEF IInv, Identity, Open, TableIsThere
  <2> QED BY <2>1, <2>2, <2>3, <2>4 DEF Identity
<1>6. Documents'
  <2>1. Searchable'
    BY DEF IInv, Documents, Open, Rows, Searchable
  <2>2. Rewritten'
    BY DEF Open, Rewritten
  <2>3. InHand'
    BY DEF Open, InHand
  <2>4. TableWritten'
    BY DEF Open, TableWritten
  <2>5. Staged'
    BY DEF IInv, Documents, Open, Rows, Staged, Selects
  <2>6. Selects'
    BY DEF Open, Selects
  <2>7. Swapped'
    BY DEF Open, Swapped
  <2> QED BY <2>1, <2>2, <2>3, <2>4, <2>5, <2>6, <2>7 DEF Documents
<1> QED BY <1>1, <1>2, <1>3, <1>4, <1>5, <1>6 DEF IInv

LEMMA EmbedKeeps ==
    ASSUME IInv, Embed
    PROVE  IInv'
<1>1. TypeOK'
  <2>1. run' \in RunRow
    BY DEF IInv, Embed, RunRow, Steps, InFile, TypeOK
  <2> QED
    BY <2>1 DEF IInv, Embed, Settings, Tables, Rows, RunRow, TypeOK
<1>2. AttemptFits'
  BY DEF IInv, Embed, Tables, AttemptFits, Partial, Going, Swap, InFile
<1>3. DocumentFits'
  BY DEF IInv, Embed, Rows, DocumentFits, Going, InFile, TypeOK
<1>4. Gating'
  BY DEF IInv, Gating, Embed, Settings, ReadyMatches, StagedIsGated, ServingIsOpen,
      Quiet, Going, InFile
<1>5. Identity'
  BY DEF IInv, Identity, Embed, Settings, Tables, NamedIsStart, RecordIsBuilt,
      PinIsBuilt, TableIsThere, Swap
<1>6. Documents'
  BY DEF IInv, Documents, Embed, Tables, Rows, Searchable, Rewritten, InHand,
      TableWritten, Staged, Selects, Swapped, Partial, Going, InFile, HasChunks,
      HasStaged
<1> QED BY <1>1, <1>2, <1>3, <1>4, <1>5, <1>6 DEF IInv

-------------------------------------------------------------------------------
(* A document in the hands of the attempt                                  *)

\* Visit, of a document that still waits

LEMMA TakenKeeps ==
    ASSUME NEW f \in Files, IInv, run.pc = "visiting", f \in run.todo, status[f] \in Waiting,
           marked' = marked \ {f}, status' = [status EXCEPT ![f] = "processing"],
           run' = [run EXCEPT !.pc = "embedding", !.file = f, !.prior = status[f]],
           UNCHANGED <<model, save, kv, chunks, temp, gate, cancel, job, up, used, past>>
    PROVE  IInv'
<1>1. TypeOK'
  <2>1. marked' \in SUBSET Files
    BY DEF IInv, TypeOK
  <2>2. status' \in [Files -> Statuses]
    BY DEF IInv, Statuses, TypeOK
  <2>3. run' \in RunRow
    BY DEF IInv, RunRow, Steps, InFile, TypeOK
  <2> QED
    BY <2>1, <2>2, <2>3 DEF IInv, RunRow, TypeOK
<1>2. AttemptFits'
  BY DEF IInv, AttemptFits, Partial, Going, Swap
<1>3. DocumentFits'
  BY NoneAssumption, VaultAssumption, BoundAssumption DEF IInv, DocumentFits, Going,
      InFile, TypeOK
<1>4. Gating'
  BY DEF IInv, Gating, ReadyMatches, StagedIsGated, ServingIsOpen, Quiet, Going,
      InFile
<1>5. Identity'
  BY DEF IInv, Identity, NamedIsStart, RecordIsBuilt, PinIsBuilt, TableIsThere, Swap
<1>6. Documents'
  <2>1. Searchable'
    BY DEF IInv, Documents, Searchable
  <2>2. Rewritten'
    BY DEF IInv, Documents, Rewritten, Partial, Going, HasChunks
  <2>3. InHand'
    BY DEF InHand
  <2>4. TableWritten'
    BY DEF TableWritten
  <2>5. Staged'
    BY DEF IInv, Documents, Staged, Going, HasStaged
  <2>6. Selects'
    BY DEF Selects
  <2>7. Swapped'
    BY DEF Swapped
  <2> QED BY <2>1, <2>2, <2>3, <2>4, <2>5, <2>6, <2>7 DEF Documents
<1> QED BY <1>1, <1>2, <1>3, <1>4, <1>5, <1>6 DEF IInv

\* Skip, RollBack, Finalize and FileFails: the attempt leaves its document at status t,
\* as failed, as skipped or as written.

LEMMA LeftKeeps ==
    ASSUME NEW t \in Statuses, NEW fails \in SUBSET Files,
           NEW skips \in SUBSET Files, IInv, run.pc \in InFile,
           run' = NextFile([run EXCEPT !.failed = fails, !.skipped = skips]),
           run.failed \subseteq fails, run.skipped \subseteq skips,
           run.file \in fails \cup skips \/ run.pc = "finalizing",
           status' = [status EXCEPT ![run.file] = t],
           t \in Waiting => status[run.file] = "processing",
           \/ chunks' = chunks
           \/ /\ ~run.staged /\ chunks # NoTable /\ t \notin Waiting
              /\ chunks' = [chunks EXCEPT ![run.file] = None],
           marked' \in SUBSET Files, used' \in UsedRow,
           UNCHANGED <<model, save, kv, temp, gate, cancel, job, up, past>>
    PROVE  IInv'
<1>1. TypeOK'
  <2>1. run' \in RunRow
    BY DEF IInv, NextFile, RunRow, Steps, TypeOK
  <2>2. status' \in [Files -> Statuses]
    BY DEF IInv, TypeOK
  <2>3. chunks' \in Table \cup {NoTable}
    BY DEF IInv, Table, TypeOK
  <2>4. marked' \in SUBSET Files
    OBVIOUS
  <2>5. used' \in UsedRow
    OBVIOUS
  <2> QED
    BY <2>1, <2>2, <2>3, <2>4, <2>5 DEF IInv, RunRow, UsedRow, TypeOK
<1>2. AttemptFits'
  BY DEF IInv, NextFile, AttemptFits, Partial, Going, Swap, InFile
<1>3. DocumentFits'
  BY DEF IInv, NextFile, DocumentFits, Going, InFile
<1>4. Gating'
  BY DEF IInv, Gating, NextFile, ReadyMatches, StagedIsGated, ServingIsOpen, Quiet,
      Going
<1>5. Identity'
  BY NoneAssumption, VaultAssumption, BoundAssumption DEF IInv, Identity, NextFile,
      NamedIsStart, RecordIsBuilt, PinIsBuilt, TableIsThere, Swap, TypeOK, Table,
      AttemptFits, DocumentFits
<1>6. Documents'
  <2>1. Searchable'
    BY NoneAssumption, VaultAssumption, BoundAssumption DEF IInv, Documents,
        NextFile, Searchable, TypeOK, Table
  <2>2. Rewritten'
    BY NoneAssumption, VaultAssumption, BoundAssumption DEF IInv, Documents,
        NextFile, Rewritten, Partial, Going, HasChunks, InHand, TypeOK, Table
  <2>3. InHand'
    BY DEF NextFile, InHand
  <2>4. TableWritten'
    BY NoneAssumption, VaultAssumption, BoundAssumption DEF IInv, Documents,
        NextFile, TableWritten, InHand, HasChunks, TypeOK, Table
  <2>5. Staged'
    BY DEF IInv, Documents, NextFile, Staged, Going, HasStaged, InHand
  <2>6. Selects'
    BY DEF NextFile, Selects
  <2>7. Swapped'
    BY DEF NextFile, Swapped
  <2> QED BY <2>1, <2>2, <2>3, <2>4, <2>5, <2>6, <2>7 DEF Documents
<1> QED BY <1>1, <1>2, <1>3, <1>4, <1>5, <1>6 DEF IInv

\* Write, into the staged table

LEMMA WrittenStagedKeeps ==
    ASSUME IInv, run.pc = "writing", run.staged, run' = [run EXCEPT !.pc = "finalizing"],
           temp' = [temp EXCEPT ![run.file] = run.vec],
           UNCHANGED <<model, save, kv, chunks, gate, status, marked, cancel, job, up, used,
                       past>>
    PROVE  IInv'
<1>1. TypeOK'
  <2>1. temp' \in Table \cup {NoTable}
    <3>1. temp \in Table /\ run.file \in Files /\ run.vec \in Models
      BY DEF IInv, TypeOK, AttemptFits, DocumentFits, Going, InFile
    <3> QED BY <3>1 DEF Table
  <2>2. run' \in RunRow
    BY DEF IInv, RunRow, Steps, InFile, TypeOK
  <2> QED
    BY <2>1, <2>2 DEF IInv, RunRow, TypeOK
<1>2. AttemptFits'
  BY NoneAssumption, VaultAssumption, BoundAssumption DEF IInv, AttemptFits,
      Partial, Going, Swap, InFile, TypeOK, Table
<1>3. DocumentFits'
  BY DEF IInv, DocumentFits, Going, InFile
<1>4. Gating'
  BY DEF IInv, Gating, ReadyMatches, StagedIsGated, ServingIsOpen, Quiet, Going,
      InFile
<1>5. Identity'
  BY DEF IInv, Identity, NamedIsStart, RecordIsBuilt, PinIsBuilt, TableIsThere, Swap
<1>6. Documents'
  <2>1. Searchable'
    BY DEF IInv, Documents, Searchable
  <2>2. Rewritten'
    BY DEF Rewritten
  <2>3. InHand'
    <3>1. temp \in Table /\ run.file \in Files /\ run.vec \in Models
      BY DEF IInv, TypeOK, AttemptFits, DocumentFits, Going, InFile
    <3>2. temp'[run.file] # None /\ temp' \in Table
      BY <3>1, NoneAssumption DEF Table
    <3>3. run'.file = run.file /\ run'.staged
      OBVIOUS
    <3> QED BY <3>2, <3>3, NoneAssumption DEF InHand, HasStaged, Table
  <2>4. TableWritten'
    BY DEF TableWritten
  <2>5. Staged'
    BY NoneAssumption, VaultAssumption, BoundAssumption DEF IInv, Documents, Staged,
        Going, InFile, HasStaged, TypeOK, Table, DocumentFits
  <2>6. Selects'
    BY DEF Selects
  <2>7. Swapped'
    BY DEF Swapped
  <2> QED BY <2>1, <2>2, <2>3, <2>4, <2>5, <2>6, <2>7 DEF Documents
<1> QED BY <1>1, <1>2, <1>3, <1>4, <1>5, <1>6 DEF IInv

\* Write, into the live table

LEMMA WrittenLiveKeeps ==
    ASSUME IInv, run.pc = "writing", ~run.staged, run' = [run EXCEPT !.pc = "finalizing"],
           chunks' = [Live EXCEPT ![run.file] = run.vec], kv' = Recorded,
           past' = [WithTable EXCEPT !.lost = @ \ {run.file}],
           UNCHANGED <<model, save, temp, gate, status, marked, cancel, job, up, used>>
    PROVE  IInv'
<1>1. TypeOK'
  <2>1. chunks' \in Table \cup {NoTable}
    BY DEF IInv, Live, Empty, Table, TypeOK
  <2>2. kv' \in KvRow
    BY DEF IInv, Recorded, KvRow, TypeOK
  <2>3. run' \in RunRow
    BY DEF IInv, RunRow, Steps, InFile, TypeOK
  <2>4. past' \in PastRow
    BY DEF IInv, WithTable, PastRow, TypeOK
  <2> QED
    BY <2>1, <2>2, <2>3, <2>4 DEF IInv, Recorded, RunRow, PastRow, TypeOK
<1>2. AttemptFits'
  BY DEF IInv, AttemptFits, Swap
<1>3. DocumentFits'
  BY DEF IInv, DocumentFits, Going, InFile
<1>4. Gating'
  BY DEF IInv, Gating, Recorded, WithTable, ReadyMatches, StagedIsGated,
      ServingIsOpen, Quiet
<1>5. Identity'
  <2>1. NamedIsStart'
    BY DEF NamedIsStart, Swap
  <2>2. RecordIsBuilt'
    BY DEF IInv, Identity, Recorded, WithTable, RecordIsBuilt, TypeOK
  <2>3. PinIsBuilt'
    BY DEF IInv, Gating, PinIsBuilt, ServingIsOpen
  <2>4. TableIsThere'
    BY NoneAssumption, VaultAssumption, BoundAssumption DEF IInv, Identity, Live,
        WithTable, TableIsThere, TypeOK, Table
  <2> QED BY <2>1, <2>2, <2>3, <2>4 DEF Identity
<1>6. Documents'
  <2>1. Searchable'
    BY NoneAssumption, VaultAssumption, BoundAssumption DEF IInv, Documents,
        Identity, Live, WithTable, Searchable, TableIsThere, TypeOK, Table,
        DocumentFits
  <2>2. Rewritten'
    BY NoneAssumption, VaultAssumption, BoundAssumption DEF IInv, Documents, Live,
        Rewritten, Partial, Going, InFile, HasChunks, TypeOK, Table, DocumentFits
  <2>3. InHand'
    <3>1. Live \in Table /\ run.file \in Files /\ run.vec \in Models
      BY DEF IInv, TypeOK, Table, DocumentFits, Live, Empty, InFile
    <3>2. chunks'[run.file] # None /\ chunks' \in Table
      BY <3>1, NoneAssumption DEF Table
    <3>3. run'.file = run.file /\ ~run'.staged
      OBVIOUS
    <3> QED BY <3>2, <3>3, NoneAssumption DEF InHand, HasChunks, Table
  <2>4. TableWritten'
    BY DEF TableWritten
  <2>5. Staged'
    BY DEF Staged
  <2>6. Selects'
    BY DEF Selects
  <2>7. Swapped'
    BY DEF Swapped
  <2> QED BY <2>1, <2>2, <2>3, <2>4, <2>5, <2>6, <2>7 DEF Documents
<1> QED BY <1>1, <1>2, <1>3, <1>4, <1>5, <1>6 DEF IInv

LEMMA VisitKeeps ==
    ASSUME NEW f \in Files, IInv, Visit(f)
    PROVE  IInv'
<1>1. status[f] \in Waiting
  BY NoneAssumption DEF IInv, DocumentFits, Going, InFile, Visit
<1>2. status[f] # "cancelled"
  BY <1>1 DEF Waiting
<1> QED BY <1>1, <1>2, TakenKeeps DEF Visit, Settings, Tables

\* The attempt and its document, in the steps where it has one

LEMMA InFileFits ==
    ASSUME IInv, run.pc \in InFile
    PROVE  /\ run.file \in Files
           /\ status[run.file] \in {"processing", "cancelled"}
           /\ run.prior \in Waiting
           /\ run.prior \in Statuses /\ status[run.file] \in Statuses
           /\ run = [run EXCEPT !.failed = run.failed, !.skipped = run.skipped]
           /\ run.failed \in SUBSET Files /\ run.skipped \in SUBSET Files
BY DEF IInv, TypeOK, DocumentFits, Waiting, Statuses

\* The cancellation handler, on a row left as it is or flipped by the rollback

LEMMA SkipKeeps ==
    ASSUME IInv, run.pc \in InFile, used' \in UsedRow,
           NEW s \in {status[run.file], "cancelled"}, Skip(run.file, s),
           \/ chunks' = chunks
           \/ /\ ~run.staged /\ chunks # NoTable /\ s = "cancelled"
              /\ chunks' = [chunks EXCEPT ![run.file] = None]
    PROVE  IInv'
<1> DEFINE t == IF s = "processing" THEN run.prior ELSE s
           skips == run.skipped \cup {run.file}
<1>1. /\ run.file \in Files /\ status[run.file] \in {"processing", "cancelled"}
      /\ run.prior \in Waiting /\ run.prior \in Statuses
      /\ run.failed \in SUBSET Files /\ run.skipped \in SUBSET Files
  BY InFileFits
<1>2. t \in Statuses /\ (t \in Waiting => status[run.file] = "processing")
  BY <1>1 DEF Statuses, Waiting
<1>3. s = "cancelled" => t \notin Waiting
  BY DEF Waiting
<1>4. run' = NextFile([run EXCEPT !.failed = run.failed, !.skipped = skips])
  <2>1. [run EXCEPT !.skipped = @ \cup {run.file}]
            = [run EXCEPT !.failed = run.failed, !.skipped = skips]
    OBVIOUS
  <2> QED BY <2>1 DEF Skip
<1>5. /\ status' = [status EXCEPT ![run.file] = t]
      /\ marked' = marked \ {run.file}
      /\ UNCHANGED <<model, save, kv, temp, gate, cancel, job, up, past>>
  BY DEF Skip, Settings
<1>6. marked' \in SUBSET Files /\ skips \in SUBSET Files /\ run.skipped \subseteq skips
      /\ run.file \in run.failed \cup skips
  BY <1>1, <1>5 DEF IInv, TypeOK
<1> HIDE DEF t, skips
<1> QED BY <1>1, <1>2, <1>3, <1>4, <1>5, <1>6, LeftKeeps

LEMMA RollBackKeeps ==
    ASSUME IInv, run.pc \in InFile, used' \in UsedRow, RollBack(run.file)
    PROVE  IInv'
<1>1. status[run.file] \in {"processing", "cancelled"}
  BY InFileFits
<1>2. CASE run.staged
  <2>1. Skip(run.file, status[run.file]) /\ chunks' = chunks
    BY <1>2 DEF RollBack
  <2> QED BY <2>1, SkipKeeps
<1>3. CASE ~run.staged
  <2>1. Skip(run.file, "cancelled")
    BY <1>1, <1>3 DEF RollBack
  <2>2. \/ chunks' = chunks
        \/ chunks # NoTable /\ chunks' = [chunks EXCEPT ![run.file] = None]
    BY <1>3 DEF RollBack
  <2> QED BY <1>3, <2>1, <2>2, SkipKeeps
<1> QED BY <1>2, <1>3

LEMMA WriteKeeps ==
    ASSUME IInv, Write
    PROVE  IInv'
<1>1. run.pc = "writing"
  BY DEF Write
<1>2. CASE Skip(run.file, status[run.file]) /\ UNCHANGED <<chunks, used>>
  <2>1. run.pc \in InFile /\ used' \in UsedRow
    BY <1>1, <1>2 DEF InFile, IInv, TypeOK, UsedRow
  <2> QED BY <1>2, <2>1, SkipKeeps
<1>3. CASE run.file \notin marked /\ run' = [run EXCEPT !.pc = "finalizing"]
           /\ (IF run.staged
               THEN /\ temp' = [temp EXCEPT ![run.file] = run.vec]
                    /\ UNCHANGED <<kv, chunks, past>>
               ELSE /\ chunks' = [Live EXCEPT ![run.file] = run.vec]
                    /\ kv' = Recorded
                    /\ past' = [WithTable EXCEPT !.lost = @ \ {run.file}]
                    /\ UNCHANGED temp)
           /\ UNCHANGED <<Settings, gate, Rows, job, up, used>>
  <2>1. UNCHANGED <<model, save, gate, status, marked, cancel, job, up, used>>
    BY <1>3 DEF Settings, Rows
  <2>2. CASE run.staged
    BY <1>1, <1>3, <2>1, <2>2, WrittenStagedKeeps
  <2>3. CASE ~run.staged
    BY <1>1, <1>3, <2>1, <2>3, WrittenLiveKeeps
  <2> QED BY <2>2, <2>3
<1> QED BY <1>2, <1>3 DEF Write

LEMMA FinalizeKeeps ==
    ASSUME IInv, Finalize
    PROVE  IInv'
<1>1. run.pc = "finalizing" /\ run.pc \in InFile
  BY DEF Finalize, InFile
<1>2. CASE RollBack(run.file) /\ UNCHANGED used
  <2>1. used' \in UsedRow
    BY <1>2 DEF IInv, TypeOK, UsedRow
  <2> QED BY <1>1, <1>2, <2>1, RollBackKeeps
<1>3. CASE status[run.file] # "cancelled" /\ run' = NextFile(run)
           /\ status' = [status EXCEPT ![run.file] = IF @ = "processing" THEN "indexed" ELSE @]
           /\ UNCHANGED <<Settings, kv, Tables, gate, marked, cancel, job, up, used, past>>
  <2>1. /\ status[run.file] = "processing" /\ run.file \in Files
        /\ run = [run EXCEPT !.failed = run.failed, !.skipped = run.skipped]
        /\ run.failed \in SUBSET Files /\ run.skipped \in SUBSET Files
    BY <1>1, <1>3, InFileFits
  <2>2. status' = [status EXCEPT ![run.file] = "indexed"] /\ "indexed" \in Statuses
    BY <1>3, <2>1 DEF Statuses
  <2>3. UNCHANGED <<model, save, kv, chunks, temp, gate, marked, cancel, job, up, used,
                    past>>
    BY <1>3 DEF Settings, Tables
  <2>4. marked' \in SUBSET Files /\ used' \in UsedRow
    BY <2>3 DEF IInv, TypeOK, UsedRow
  <2>5. run' = NextFile([run EXCEPT !.failed = run.failed, !.skipped = run.skipped])
    BY <1>3, <2>1
  <2> QED BY <1>1, <2>1, <2>2, <2>3, <2>4, <2>5, LeftKeeps
<1> QED BY <1>2, <1>3 DEF Finalize

LEMMA FileFailsKeeps ==
    ASSUME IInv, FileFails
    PROVE  IInv'
<1>1. run.pc \in InFile
  BY DEF FileFails
<1>2. used' \in UsedRow
  <2>1. used \in UsedRow /\ MaxFaults \in Nat
    BY BoundAssumption DEF IInv, TypeOK, UsedRow
  <2> QED BY <2>1 DEF FileFails, Fault, UsedRow
<1>3. CASE RollBack(run.file)
  BY <1>1, <1>2, <1>3, RollBackKeeps
<1>4. CASE /\ status' = [status EXCEPT ![run.file] =
                           IF @ # "processing" THEN @
                           ELSE IF Undisturbed THEN run.prior ELSE "error"]
           /\ run' = NextFile([run EXCEPT !.failed = @ \cup {run.file}])
           /\ UNCHANGED <<Settings, kv, Tables, gate, marked, cancel, job, up, past>>
  <2> DEFINE t == IF status[run.file] # "processing" THEN status[run.file]
                  ELSE IF Undisturbed THEN run.prior ELSE "error"
             fails == run.failed \cup {run.file}
  <2>1. /\ run.file \in Files /\ status[run.file] \in {"processing", "cancelled"}
        /\ run.prior \in Statuses
        /\ run.failed \in SUBSET Files /\ run.skipped \in SUBSET Files
    BY <1>1, InFileFits
  <2>2. t \in Statuses /\ (t \in Waiting => status[run.file] = "processing")
    BY <2>1 DEF Statuses, Waiting
  <2>3. status' = [status EXCEPT ![run.file] = t]
    BY <1>4
  <2>4. run' = NextFile([run EXCEPT !.failed = fails, !.skipped = run.skipped])
    <3>1. [run EXCEPT !.failed = @ \cup {run.file}]
              = [run EXCEPT !.failed = fails, !.skipped = run.skipped]
      OBVIOUS
    <3> QED BY <1>4, <3>1
  <2>5. UNCHANGED <<model, save, kv, chunks, temp, gate, marked, cancel, job, up, past>>
    BY <1>4 DEF Settings, Tables
  <2>6. /\ marked' \in SUBSET Files /\ fails \in SUBSET Files
        /\ run.failed \subseteq fails /\ run.file \in fails \cup run.skipped
    BY <2>1, <2>5 DEF IInv, TypeOK
  <2> HIDE DEF t, fails
  <2> QED BY <1>1, <1>2, <2>1, <2>2, <2>3, <2>4, <2>5, <2>6, LeftKeeps
<1> QED BY <1>3, <1>4 DEF FileFails

\* An attempt ends: a staged one gives up its table, or goes on to swap it in.

LEMMA AbortKeeps ==
    ASSUME IInv, Abort
    PROVE  IInv'
<1>1. TypeOK'
  <2>1. run' \in RunRow
    BY DEF IInv, Abort, Fail, RunRow, Steps, TypeOK
  <2>2. job' \in JobRow
    BY DEF IInv, Abort, Fail, JobRow, TypeOK
  <2>3. temp' \in Table \cup {NoTable}
    BY DEF Abort
  <2>4. gate' \in GateRow
    BY DEF IInv, Abort, Closed, GateRow, TypeOK
  <2> QED
    BY <2>1, <2>2, <2>3, <2>4 DEF IInv, Abort, Settings, Rows, Fail, GateRow,
        RunRow, TypeOK
<1>2. AttemptFits'
  BY DEF IInv, Abort, Ended, Fail, AttemptFits, Going, Swap, InFile
<1>3. DocumentFits'
  BY DEF IInv, Abort, Ended, Fail, DocumentFits, InFile
<1>4. Gating'
  BY DEF IInv, Gating, Abort, Settings, Ended, Closed, ReadyMatches, StagedIsGated,
      ServingIsOpen, Quiet, Going
<1>5. Identity'
  BY DEF IInv, Identity, Abort, Settings, Ended, Fail, Closed, NamedIsStart,
      RecordIsBuilt, PinIsBuilt, TableIsThere, Swap
<1>6. Documents'
  BY DEF IInv, Documents, Abort, Rows, Fail, Searchable, Rewritten, InHand,
      TableWritten, Staged, Selects, Swapped, Going, InFile
<1> QED BY <1>1, <1>2, <1>3, <1>4, <1>5, <1>6 DEF IInv

LEMMA CommitBeginsKeeps ==
    ASSUME IInv, CommitBegins
    PROVE  IInv'
<1>1. TypeOK'
  <2>1. run' \in RunRow
    BY DEF IInv, CommitBegins, RunRow, Steps, Swap, TypeOK
  <2>2. gate' \in GateRow
    BY DEF IInv, CommitBegins, Closed, GateRow, TypeOK
  <2> QED
    BY <2>1, <2>2 DEF IInv, CommitBegins, Settings, Tables, Rows, GateRow, RunRow,
        TypeOK
<1>2. AttemptFits'
  BY DEF IInv, CommitBegins, Tables, Ended, AttemptFits, Partial, Going
<1>3. DocumentFits'
  BY DEF IInv, CommitBegins, Ended, DocumentFits, InFile
<1>4. Gating'
  BY DEF IInv, Gating, CommitBegins, Settings, Ended, Closed, ReadyMatches,
      StagedIsGated, ServingIsOpen, Quiet, Going
<1>5. Identity'
  BY DEF IInv, Identity, CommitBegins, Tables, Ended, Closed, NamedIsStart,
      RecordIsBuilt, PinIsBuilt, TableIsThere
<1>6. Documents'
  BY DEF IInv, Documents, CommitBegins, Tables, Rows, Ended, Searchable, Rewritten,
      InHand, TableWritten, Staged, Selects, Swapped, Going, HasStaged
<1> QED BY <1>1, <1>2, <1>3, <1>4, <1>5, <1>6 DEF IInv

LEMMA EndInPlaceKeeps ==
    ASSUME IInv, EndInPlace
    PROVE  IInv'
<1>1. TypeOK'
  <2>1. run' \in RunRow
    BY DEF IInv, EndInPlace, Fail, RunRow, Steps, TypeOK
  <2>2. job' \in JobRow
    BY DEF IInv, EndInPlace, Fail, JobRow, TypeOK
  <2> QED
    BY <2>1, <2>2 DEF IInv, EndInPlace, Settings, Tables, Rows, Fail, RunRow, TypeOK
<1>2. AttemptFits'
  BY DEF IInv, EndInPlace, Ended, Fail, AttemptFits, Swap, TypeOK
<1>3. DocumentFits'
  BY DEF IInv, EndInPlace, Ended, Fail, DocumentFits, InFile, TypeOK
<1>4. Gating'
  BY DEF IInv, Gating, EndInPlace, Settings, Fail, ReadyMatches, StagedIsGated,
      ServingIsOpen, Quiet, TypeOK
<1>5. Identity'
  BY DEF IInv, Identity, EndInPlace, Tables, Ended, Fail, NamedIsStart,
      RecordIsBuilt, PinIsBuilt, TableIsThere, Swap, TypeOK
<1>6. Documents'
  BY DEF IInv, Documents, EndInPlace, Tables, Rows, Ended, Fail, Searchable,
      Rewritten, InHand, TableWritten, Staged, Selects, Swapped, Partial, Going,
      HasChunks, TypeOK
<1> QED BY <1>1, <1>2, <1>3, <1>4, <1>5, <1>6 DEF IInv

-------------------------------------------------------------------------------
(* The swap, and the completion of an attempt                              *)

LEMMA DropKeeps ==
    ASSUME IInv, Drop
    PROVE  IInv'
<1>1. TypeOK'
  <2>1. chunks' \in Table \cup {NoTable}
    BY DEF Drop
  <2>2. run' \in RunRow
    BY DEF IInv, Drop, Fail, RunRow, Steps, Swap, TypeOK
  <2>3. job' \in JobRow
    BY DEF IInv, Drop, Fail, JobRow, TypeOK
  <2> QED
    BY <2>1, <2>2, <2>3 DEF IInv, Drop, Settings, Rows, Fail, RunRow, TypeOK
<1>2. AttemptFits'
  BY DEF IInv, Drop, Fail, AttemptFits, Partial, Swap, TypeOK
<1>3. DocumentFits'
  BY DEF IInv, Drop, Fail, DocumentFits, Going, InFile, TypeOK
<1>4. Gating'
  BY DEF IInv, Gating, Drop, Settings, Fail, ReadyMatches, StagedIsGated,
      ServingIsOpen, Quiet, Going, InFile, Swap, TypeOK
<1>5. Identity'
  BY DEF IInv, Identity, Drop, Fail, NamedIsStart, RecordIsBuilt, PinIsBuilt,
      TableIsThere, Swap, TypeOK
<1>6. Documents'
  BY DEF IInv, Documents, Drop, Rows, Fail, Searchable, Rewritten, InHand,
      TableWritten, Staged, Selects, Swapped, Going, InFile, HasStaged, TypeOK
<1> QED BY <1>1, <1>2, <1>3, <1>4, <1>5, <1>6 DEF IInv

\* What the staged table lacks goes: documents skipped, or ingested meanwhile.

LEMMA CreateKeeps ==
    ASSUME IInv, Create
    PROVE  IInv'
<1>1. TypeOK'
  <2>1. chunks' \in Table \cup {NoTable}
    BY DEF IInv, Create, TypeOK
  <2>2. run' \in RunRow
    BY DEF IInv, Create, RunRow, Steps, Swap, TypeOK
  <2>3. past' \in PastRow
    BY DEF IInv, Create, PastRow, TypeOK, AttemptFits
  <2> QED
    <3>1. UNCHANGED <<model, save, kv, temp, gate, status, marked, cancel, job, up,
                      used>>
      BY DEF Create, Settings, Rows
    <3> QED BY <2>1, <2>2, <2>3, <3>1 DEF IInv, TypeOK, Table, RunRow, PastRow
<1>2. AttemptFits'
  BY DEF IInv, Create, AttemptFits, Partial, Swap
<1>3. DocumentFits'
  BY DEF IInv, Create, DocumentFits, Going, InFile
<1>4. Gating'
  BY DEF IInv, Gating, Create, Settings, ReadyMatches, StagedIsGated, ServingIsOpen,
      Quiet, Going, InFile, Swap
<1>5. Identity'
  <2>1. NamedIsStart'
    BY DEF IInv, Identity, Create, NamedIsStart, Swap
  <2>2. RecordIsBuilt'
    BY DEF IInv, Identity, Create, RecordIsBuilt
  <2>3. PinIsBuilt'
    BY DEF IInv, Gating, Create, PinIsBuilt, ServingIsOpen, Going, InFile
  <2>4. TableIsThere'
    BY DEF IInv, Create, TableIsThere, Swap, AttemptFits
  <2> QED BY <2>1, <2>2, <2>3, <2>4 DEF Identity
<1>6. Documents'
  <2>1. Searchable'
    BY NoneAssumption, VaultAssumption, BoundAssumption DEF IInv, Documents, Create,
        Rows, Searchable, Staged, HasStaged, Swap, AttemptFits, DocumentFits
  <2>2. Rewritten'
    BY DEF Create, Rewritten, Going, InFile
  <2>3. InHand'
    BY DEF Create, InHand
  <2>4. TableWritten'
    BY DEF Create, TableWritten
  <2>5. Staged'
    BY DEF Create, Staged, Going, InFile
  <2>6. Selects'
    BY DEF Create, Selects
  <2>7. Swapped'
    BY DEF IInv, Documents, Create, Rows, Swapped, HasChunks, Staged, HasStaged,
        Swap, AttemptFits
  <2> QED BY <2>1, <2>2, <2>3, <2>4, <2>5, <2>6, <2>7 DEF Documents
<1> QED BY <1>1, <1>2, <1>3, <1>4, <1>5, <1>6 DEF IInv

LEMMA DropTempKeeps ==
    ASSUME IInv, DropTemp
    PROVE  IInv'
<1>1. TypeOK'
  <2>1. temp' \in Table \cup {NoTable}
    BY DEF DropTemp
  <2>2. run' \in RunRow
    BY DEF IInv, DropTemp, RunRow, Steps, Swap, TypeOK
  <2> QED
    BY <2>1, <2>2 DEF IInv, DropTemp, Settings, Rows, RunRow, TypeOK
<1>2. AttemptFits'
  BY DEF IInv, DropTemp, AttemptFits, Partial, Going, Swap, InFile
<1>3. DocumentFits'
  BY DEF IInv, DropTemp, DocumentFits, Going, InFile
<1>4. Gating'
  BY DEF IInv, Gating, DropTemp, Settings, ReadyMatches, StagedIsGated,
      ServingIsOpen, Quiet, Going, InFile, Swap
<1>5. Identity'
  BY DEF IInv, Identity, DropTemp, NamedIsStart, RecordIsBuilt, PinIsBuilt,
      TableIsThere, Swap
<1>6. Documents'
  BY DEF IInv, Documents, DropTemp, Rows, Searchable, Rewritten, InHand,
      TableWritten, Staged, Selects, Swapped, Going, InFile, HasChunks
<1> QED BY <1>1, <1>2, <1>3, <1>4, <1>5, <1>6 DEF IInv

LEMMA RecordKeeps ==
    ASSUME IInv, Record
    PROVE  IInv'
<1>1. TypeOK'
  <2>1. run' \in RunRow
    BY DEF IInv, Record, RunRow, Steps, TypeOK
  <2>2. kv' \in KvRow
    BY DEF IInv, Record, KvRow, TypeOK
  <2>3. past' \in PastRow
    <3>1. \E b \in BOOLEAN : past' = [past EXCEPT !.unrecorded = b]
      BY DEF Record
    <3> QED BY <3>1 DEF IInv, TypeOK, PastRow
  <2>4. used' \in UsedRow
    BY NoneAssumption, VaultAssumption, BoundAssumption DEF IInv, Record, Fault,
        UsedRow, TypeOK
  <2> QED
    BY <2>1, <2>2, <2>3, <2>4 DEF IInv, Record, Settings, Tables, Rows, RunRow,
        UsedRow, PastRow, TypeOK
<1>2. AttemptFits'
  BY DEF IInv, Record, AttemptFits, Partial, Going, Swap, InFile
<1>3. DocumentFits'
  BY DEF IInv, Record, DocumentFits, Going, InFile
<1>4. Gating'
  <2>1. ReadyMatches'
    BY DEF IInv, Gating, Record, Settings, ReadyMatches, Quiet, StagedIsGated, Swap,
        TypeOK, AttemptFits
  <2>2. StagedIsGated'
    BY DEF IInv, Gating, Record, Settings, StagedIsGated, Quiet, Swap, TypeOK
  <2>3. ServingIsOpen'
    BY DEF IInv, Gating, Record, ServingIsOpen, Going, InFile
  <2> QED BY <2>1, <2>2, <2>3 DEF Gating
<1>5. Identity'
  <2>1. NamedIsStart'
    BY DEF IInv, Identity, Record, NamedIsStart, Swap, TypeOK
  <2>2. RecordIsBuilt'
    BY DEF IInv, Identity, Record, RecordIsBuilt, NamedIsStart, Swap, TypeOK,
        AttemptFits
  <2>3. PinIsBuilt'
    BY DEF IInv, Gating, Record, PinIsBuilt, ServingIsOpen, Going, InFile
  <2>4. TableIsThere'
    BY DEF IInv, Identity, Record, Tables, TableIsThere, TypeOK
  <2> QED BY <2>1, <2>2, <2>3, <2>4 DEF Identity
<1>6. Documents'
  <2>1. Searchable'
    BY DEF IInv, Documents, Record, Tables, Rows, Searchable, TypeOK
  <2>2. Rewritten'
    BY DEF IInv, Record, Rewritten, Swap, AttemptFits
  <2>3. InHand'
    BY DEF Record, InHand
  <2>4. TableWritten'
    BY DEF IInv, Record, TableWritten, Swap, AttemptFits
  <2>5. Staged'
    BY DEF Record, Staged, Going, InFile
  <2>6. Selects'
    BY DEF Record, Selects
  <2>7. Swapped'
    BY DEF IInv, Documents, Record, Tables, Rows, Swapped, HasChunks, TypeOK
  <2> QED BY <2>1, <2>2, <2>3, <2>4, <2>5, <2>6, <2>7 DEF Documents
<1> QED BY <1>1, <1>2, <1>3, <1>4, <1>5, <1>6 DEF IInv

LEMMA CommitFailsKeeps ==
    ASSUME IInv, CommitFails
    PROVE  IInv'
<1>1. TypeOK'
  <2>1. run' \in RunRow
    BY DEF IInv, CommitFails, Fail, RunRow, Steps, TypeOK
  <2>2. job' \in JobRow
    BY DEF IInv, CommitFails, Fail, JobRow, TypeOK
  <2>3. past' \in PastRow
    BY DEF IInv, CommitFails, BrokenOff, PastRow, TypeOK
  <2>4. used' \in UsedRow
    BY NoneAssumption, VaultAssumption, BoundAssumption DEF IInv, CommitFails,
        Fault, UsedRow, TypeOK
  <2> QED
    BY <2>1, <2>2, <2>3, <2>4 DEF IInv, CommitFails, Settings, Tables, Rows, Fail,
        RunRow, UsedRow, PastRow, TypeOK
<1>2. AttemptFits'
  BY DEF IInv, CommitFails, Fail, AttemptFits, Going, Swap, InFile
<1>3. DocumentFits'
  BY DEF IInv, CommitFails, Fail, DocumentFits, Going, InFile
<1>4. Gating'
  BY DEF IInv, Gating, CommitFails, Settings, Fail, BrokenOff, ReadyMatches,
      StagedIsGated, ServingIsOpen, Quiet, Going, InFile, Swap
<1>5. Identity'
  BY DEF IInv, Identity, CommitFails, Tables, Fail, BrokenOff, NamedIsStart,
      RecordIsBuilt, PinIsBuilt, TableIsThere, Swap, TypeOK
<1>6. Documents'
  BY DEF IInv, Documents, CommitFails, Tables, Rows, Fail, BrokenOff, Searchable,
      Rewritten, InHand, TableWritten, Staged, Selects, Swapped, Going, InFile,
      TypeOK
<1> QED BY <1>1, <1>2, <1>3, <1>4, <1>5, <1>6 DEF IInv

\* Judge, when the identity moved or the write of its record fails

LEMMA JudgeFailsKeeps ==
    ASSUME IInv, run.pc = "judging", Fail({}),
           kv' \in {kv, [kv EXCEPT !.snapshot = None]}, used' \in UsedRow,
           UNCHANGED <<model, save, chunks, temp, gate, status, marked, cancel, up, past>>
    PROVE  IInv'
<1>1. TypeOK'
  <2>1. run' \in RunRow
    BY DEF IInv, Fail, RunRow, Steps, TypeOK
  <2>2. job' \in JobRow
    BY DEF IInv, Fail, JobRow, TypeOK
  <2>3. kv' \in KvRow
    BY DEF IInv, KvRow, TypeOK
  <2>4. used' \in UsedRow
    OBVIOUS
  <2> QED
    BY <2>1, <2>2, <2>3, <2>4 DEF IInv, Fail, RunRow, UsedRow, TypeOK
<1>2. AttemptFits'
  BY DEF IInv, Fail, AttemptFits, Going, Swap, InFile
<1>3. DocumentFits'
  BY DEF IInv, Fail, DocumentFits, Going, InFile
<1>4. Gating'
  BY DEF IInv, Gating, Fail, ReadyMatches, StagedIsGated, ServingIsOpen, Quiet,
      Going, InFile, TypeOK
<1>5. Identity'
  BY DEF IInv, Identity, Fail, NamedIsStart, RecordIsBuilt, PinIsBuilt,
      TableIsThere, Swap, TypeOK
<1>6. Documents'
  BY DEF IInv, Documents, Fail, Searchable, Rewritten, InHand, TableWritten, Staged,
      Selects, Swapped, Going, InFile
<1> QED BY <1>1, <1>2, <1>3, <1>4, <1>5, <1>6 DEF IInv

\* Judge, when it records the attempt: a full one has written every document again.

LEMMA JudgePassesKeeps ==
    ASSUME IInv, run.pc = "judging", ~Moved, run' = [run EXCEPT !.pc = "lifting"],
           kv' = [kv EXCEPT !.sidecar = IF run.staged THEN run.named ELSE model],
           past' = [past EXCEPT !.built = run.start, !.unrecorded = FALSE,
                                !.torn = @ /\ (Partial \/ run.skipped # {})],
           UNCHANGED <<model, save, chunks, temp, gate, status, marked, cancel, job, up,
                       used>>
    PROVE  IInv'
<1>1. TypeOK'
  <2>1. run' \in RunRow
    BY DEF IInv, RunRow, Steps, TypeOK
  <2>2. kv' \in KvRow
    BY DEF IInv, KvRow, TypeOK
  <2>3. past' \in PastRow
    BY DEF IInv, Moved, PastRow, TypeOK
  <2> QED
    <3>1. /\ model' \in Models /\ save' \in Models \cup {None} /\ gate' \in GateRow
          /\ chunks' \in Table \cup {NoTable} /\ temp' \in Table \cup {NoTable}
          /\ status' \in [Files -> Statuses] /\ marked' \subseteq Files
          /\ cancel' \in Files \cup {"due", "over"} /\ job' \in JobRow
          /\ up' \in BOOLEAN /\ used' \in UsedRow
      BY DEF IInv, TypeOK, GateRow, JobRow, UsedRow
    <3> QED
      BY <2>1, <2>2, <2>3, <3>1, Zenon DEF TypeOK, KvRow, GateRow, JobRow, RunRow,
          UsedRow, PastRow
<1>2. AttemptFits'
  BY DEF IInv, AttemptFits, Going, Swap, InFile
<1>3. DocumentFits'
  BY DEF IInv, DocumentFits, Going, InFile
<1>4. Gating'
  <2>1. ReadyMatches'
    BY DEF IInv, Gating, ReadyMatches, Quiet, StagedIsGated
  <2>2. StagedIsGated'
    BY DEF IInv, Gating, StagedIsGated, Quiet
  <2>3. ServingIsOpen'
    BY DEF IInv, Gating, ServingIsOpen, Going, InFile
  <2> QED BY <2>1, <2>2, <2>3 DEF Gating
<1>5. Identity'
  <2>1. NamedIsStart'
    BY DEF IInv, Identity, NamedIsStart, Swap
  <2>2. RecordIsBuilt'
    BY DEF IInv, Identity, Moved, RecordIsBuilt, NamedIsStart, AttemptFits
  <2>3. PinIsBuilt'
    BY DEF IInv, Gating, PinIsBuilt, ServingIsOpen, Going, InFile
  <2>4. TableIsThere'
    BY NoneAssumption, VaultAssumption, BoundAssumption DEF IInv, Identity,
        Documents, TableIsThere, TableWritten, TypeOK, AttemptFits
  <2> QED BY <2>1, <2>2, <2>3, <2>4 DEF Identity
<1>6. Documents'
  <2>1. Searchable'
    BY NoneAssumption, VaultAssumption, BoundAssumption DEF IInv, Documents,
        Searchable, Rewritten, Swapped, HasChunks, TypeOK, AttemptFits, DocumentFits
  <2>2. Rewritten'
    BY DEF Rewritten, Going, InFile
  <2>3. InHand'
    BY DEF InHand
  <2>4. TableWritten'
    BY DEF TableWritten
  <2>5. Staged'
    BY DEF Staged, Going, InFile
  <2>6. Selects'
    BY DEF Selects
  <2>7. Swapped'
    BY DEF Swapped
  <2> QED BY <2>1, <2>2, <2>3, <2>4, <2>5, <2>6, <2>7 DEF Documents
<1> QED BY <1>1, <1>2, <1>3, <1>4, <1>5, <1>6 DEF IInv

LEMMA JudgeKeeps ==
    ASSUME IInv, Judge
    PROVE  IInv'
<1>1. run.pc = "judging" /\ UNCHANGED <<model, save, chunks, temp, gate, status, marked,
                                        cancel, up>>
  BY DEF Judge, Settings, Tables, Rows
<1>2. CASE ~Moved /\ run' = [run EXCEPT !.pc = "lifting"]
  <2>1. /\ kv' = [kv EXCEPT !.sidecar = IF run.staged THEN run.named ELSE model]
        /\ past' = [past EXCEPT !.built = run.start, !.unrecorded = FALSE,
                                !.torn = @ /\ (Partial \/ run.skipped # {})]
        /\ UNCHANGED <<job, used>>
    <3>1. ~Fail({})
      BY <1>2 DEF IInv, TypeOK, Fail
    <3> QED BY <1>2, <3>1 DEF Judge
  <2> QED BY <1>1, <1>2, <2>1, JudgePassesKeeps
<1>3. CASE Fail({}) /\ past' = past
  <2>1. kv' \in {kv, [kv EXCEPT !.snapshot = None]}
    <3>1. run'.pc # "lifting"
      BY <1>3 DEF Fail
    <3>2. run'.pc = "lifting" \/ kv' = IF run.staged THEN [kv EXCEPT !.snapshot = None] ELSE kv
      BY DEF Judge, IInv, TypeOK
    <3> QED BY <3>1, <3>2
  <2>2. used' \in UsedRow
    <3>1. used \in UsedRow /\ MaxFaults \in Nat
      BY BoundAssumption DEF IInv, TypeOK, UsedRow
    <3>2. used' = used \/ (used.faults < MaxFaults
                            /\ used' = [used EXCEPT !.faults = @ + 1])
      BY <1>3 DEF Judge, Fault
    <3> QED BY <3>1, <3>2 DEF UsedRow
  <2> QED BY <1>1, <1>3, <2>1, <2>2, JudgeFailsKeeps
<1> QED BY <1>2, <1>3 DEF Judge

\* A readiness lifted over a save is not Quiet.

LEMMA LiftKeeps ==
    ASSUME IInv, Lift
    PROVE  IInv'
<1>1. TypeOK'
  <2>1. gate' \in GateRow
    BY DEF IInv, Lift, GateRow, TypeOK
  <2>2. past' \in PastRow
    BY DEF IInv, Lift, PastRow, TypeOK
  <2>3. run' \in RunRow
    BY DEF IInv, Lift, RunRow, Steps, TypeOK
  <2> QED
    BY <2>1, <2>2, <2>3 DEF IInv, Lift, Settings, Tables, Rows, GateRow, RunRow,
        PastRow, TypeOK
<1>2. AttemptFits'
  BY DEF IInv, Lift, AttemptFits, Going, Swap, InFile
<1>3. DocumentFits'
  BY DEF IInv, Lift, DocumentFits, Going, InFile
<1>4. Gating'
  BY DEF IInv, Gating, Lift, Settings, ReadyMatches, StagedIsGated, ServingIsOpen,
      Quiet, Going, InFile, Swap, TypeOK
<1>5. Identity'
  BY DEF IInv, Identity, Lift, Settings, Tables, NamedIsStart, RecordIsBuilt,
      PinIsBuilt, TableIsThere, Swap
<1>6. Documents'
  BY DEF IInv, Documents, Lift, Tables, Rows, Searchable, Rewritten, InHand,
      TableWritten, Staged, Selects, Swapped, Going, InFile
<1> QED BY <1>1, <1>2, <1>3, <1>4, <1>5, <1>6 DEF IInv

LEMMA ClearKeeps ==
    ASSUME IInv, Clear
    PROVE  IInv'
<1>1. TypeOK'
  <2>1. kv' \in KvRow
    BY DEF IInv, Clear, KvRow, TypeOK
  <2>2. run' \in RunRow
    BY DEF IInv, Clear, RunRow, Steps, TypeOK
  <2> QED
    BY <2>1, <2>2 DEF IInv, Clear, Settings, Tables, Rows, RunRow, TypeOK
<1>2. AttemptFits'
  BY DEF IInv, Clear, AttemptFits, Going, Swap, InFile
<1>3. DocumentFits'
  BY DEF IInv, Clear, DocumentFits, Going, InFile
<1>4. Gating'
  BY DEF IInv, Gating, Clear, Settings, ReadyMatches, StagedIsGated, ServingIsOpen,
      Quiet, Going, InFile, Swap
<1>5. Identity'
  BY DEF IInv, Identity, Clear, Settings, Tables, NamedIsStart, RecordIsBuilt,
      PinIsBuilt, TableIsThere, Swap
<1>6. Documents'
  BY DEF IInv, Documents, Clear, Tables, Rows, Searchable, Rewritten, InHand,
      TableWritten, Staged, Selects, Swapped, Going, InFile
<1> QED BY <1>1, <1>2, <1>3, <1>4, <1>5, <1>6 DEF IInv

LEMMA SettleKeeps ==
    ASSUME IInv, Settle
    PROVE  IInv'
<1>1. TypeOK'
  <2>1. job' \in JobRow
    BY DEF IInv, Settle, Settled, JobRow, TypeOK
  <2>2. run' \in RunRow
    BY DEF Settle, NoRun, RunRow, Steps
  <2> QED
    BY <2>1, <2>2 DEF IInv, Settle, Settings, Tables, Rows, Settled, RunRow, TypeOK
<1>2. AttemptFits'
  BY NoneAssumption, VaultAssumption, BoundAssumption DEF IInv, Settle, Settled,
      NoRun, AttemptFits, Swap, TypeOK
<1>3. DocumentFits'
  BY DEF Settle, NoRun, DocumentFits, InFile
<1>4. Gating'
  BY DEF IInv, Gating, Settle, Settings, NoRun, ReadyMatches, StagedIsGated,
      ServingIsOpen, Quiet, Going, InFile
<1>5. Identity'
  BY DEF IInv, Identity, Settle, Tables, NoRun, NamedIsStart, RecordIsBuilt,
      PinIsBuilt, TableIsThere
<1>6. Documents'
  BY DEF IInv, Documents, Settle, Tables, Rows, NoRun, Searchable, Rewritten,
      InHand, TableWritten, Staged, Selects, Swapped, Going, InFile, DocumentFits
<1> QED BY <1>1, <1>2, <1>3, <1>4, <1>5, <1>6 DEF IInv

-------------------------------------------------------------------------------
(* Stalls, crashes and boots                                               *)

LEMMA StallKeeps ==
    ASSUME IInv, Stall
    PROVE  IInv'
<1>1. TypeOK'
  <2>1. run' \in RunRow
    BY DEF Stall, NoRun, RunRow, Steps
  <2>2. job' \in JobRow
    BY DEF IInv, Stall, Narrowed, Settled, JobRow, TypeOK
  <2>3. status' \in [Files -> Statuses]
    BY DEF IInv, Stall, Undisturbed, Statuses, TypeOK
  <2>4. temp' \in Table \cup {NoTable}
    BY DEF IInv, Stall, TypeOK
  <2>5. gate' \in GateRow
    <3>1. gate' = gate \/ gate' = Closed
      BY DEF Stall
    <3>2. gate \in GateRow
      BY DEF IInv, TypeOK, GateRow
    <3> QED BY <3>1, <3>2 DEF Closed, GateRow
  <2>6. past' \in PastRow
    BY DEF IInv, Stall, BrokenOff, PastRow, TypeOK
  <2>7. used' \in UsedRow
    BY NoneAssumption, VaultAssumption, BoundAssumption DEF IInv, Stall, Fault,
        UsedRow, TypeOK
  <2> QED
    BY <2>1, <2>2, <2>3, <2>4, <2>5, <2>6, <2>7 DEF IInv, Stall, Settings, Narrowed,
        Settled, GateRow, RunRow, UsedRow, PastRow, TypeOK
<1>2. AttemptFits'
  BY NoneAssumption, VaultAssumption, BoundAssumption DEF IInv, Stall, Narrowed,
      Settled, NoRun, AttemptFits, Swap, TypeOK
<1>3. DocumentFits'
  BY DEF Stall, NoRun, DocumentFits, InFile
<1>4. Gating'
  <2>1. ReadyMatches'
    <3>1. gate'.ready = gate.ready /\ past'.overtaken = past.overtaken
      <4>1. gate'.ready = gate.ready
        <5>1. gate' = gate \/ gate' = Closed
          BY DEF Stall
        <5>2. gate \in GateRow
          BY DEF IInv, TypeOK, GateRow
        <5> QED BY <5>1, <5>2 DEF Closed, GateRow
      <4>2. past'.overtaken = past.overtaken
        BY DEF IInv, TypeOK, Stall, BrokenOff
      <4> QED BY <4>1, <4>2
    <3>2. UNCHANGED <<model, save, kv>>
      BY DEF Stall, Settings
    <3> QED BY <3>1, <3>2 DEF IInv, Gating, ReadyMatches, Quiet
  <2>2. StagedIsGated'
    BY DEF Stall, NoRun, StagedIsGated
  <2>3. ServingIsOpen'
    <3>1. ~gate'.serving
      <4>1. gate.serving => run.staged /\ run.pc \in InFile \cup {"visiting"}
        BY DEF IInv, Gating, ServingIsOpen, Going
      <4>2. Closed.serving = FALSE
        BY DEF Closed
      <4> QED BY <4>1, <4>2 DEF Stall
    <3> QED BY <3>1 DEF ServingIsOpen
  <2> QED BY <2>1, <2>2, <2>3 DEF Gating
<1>5. Identity'
  <2>1. NamedIsStart'
    BY DEF Stall, NoRun, NamedIsStart
  <2>2. RecordIsBuilt'
    BY DEF IInv, Identity, Stall, NoRun, BrokenOff, RecordIsBuilt, TypeOK
  <2>3. PinIsBuilt'
    <3>1. ~gate'.serving
      <4>1. gate.serving => run.staged /\ run.pc \in InFile \cup {"visiting"}
        BY DEF IInv, Gating, ServingIsOpen, Going
      <4>2. Closed.serving = FALSE
        BY DEF Closed
      <4> QED BY <4>1, <4>2 DEF Stall
    <3> QED BY <3>1 DEF PinIsBuilt
  <2>4. TableIsThere'
    BY DEF IInv, Identity, Stall, NoRun, BrokenOff, TableIsThere, TypeOK
  <2> QED BY <2>1, <2>2, <2>3, <2>4 DEF Identity
<1>6. Documents'
  <2>1. Searchable'
    BY NoneAssumption, VaultAssumption, BoundAssumption DEF IInv, Documents, Stall,
        NoRun, BrokenOff, Searchable, TypeOK
  <2>2. Rewritten'
    BY DEF Stall, NoRun, Rewritten, Going, InFile
  <2>3. InHand'
    BY DEF Stall, NoRun, InHand
  <2>4. TableWritten'
    BY DEF Stall, NoRun, TableWritten
  <2>5. Staged'
    BY DEF Stall, NoRun, Staged
  <2>6. Selects'
    BY DEF Stall, NoRun, Selects
  <2>7. Swapped'
    BY DEF Stall, NoRun, Swapped
  <2> QED BY <2>1, <2>2, <2>3, <2>4, <2>5, <2>6, <2>7 DEF Documents
<1> QED BY <1>1, <1>2, <1>3, <1>4, <1>5, <1>6 DEF IInv

LEMMA CrashKeeps ==
    ASSUME IInv, Crash
    PROVE  IInv'
<1>1. TypeOK'
  <2>1. run' \in RunRow
    BY DEF Crash, NoRun, RunRow, Steps
  <2>2. gate' \in GateRow
    BY DEF Crash, GateRow
  <2>3. save' \in Models \cup {None}
    BY DEF Crash
  <2>4. marked' \in SUBSET Files
    BY DEF Crash
  <2>5. cancel' \in Files \cup {"due", "over"}
    BY DEF Crash
  <2>6. past' \in PastRow
    BY DEF IInv, Crash, BrokenOff, PastRow, TypeOK
  <2>7. used' \in UsedRow
    BY NoneAssumption, VaultAssumption, BoundAssumption DEF IInv, Crash, Fault,
        UsedRow, TypeOK
  <2>8. up' \in BOOLEAN
    BY DEF Crash
  <2> QED
    BY <2>1, <2>2, <2>3, <2>4, <2>5, <2>6, <2>7, <2>8 DEF IInv, Crash, Tables,
        RunRow, UsedRow, PastRow, TypeOK
<1>2. AttemptFits'
  BY DEF IInv, Crash, NoRun, AttemptFits, Swap
<1>3. DocumentFits'
  BY DEF Crash, NoRun, DocumentFits, InFile
<1>4. Gating'
  BY DEF Gating, Crash, ReadyMatches, StagedIsGated, ServingIsOpen
<1>5. Identity'
  BY DEF IInv, Identity, Crash, Tables, NoRun, BrokenOff, NamedIsStart,
      RecordIsBuilt, PinIsBuilt, TableIsThere, TypeOK
<1>6. Documents'
  BY NoneAssumption, VaultAssumption, BoundAssumption DEF IInv, Documents, Crash,
      Tables, NoRun, BrokenOff, Searchable, Rewritten, InHand, TableWritten, Staged,
      Selects, Swapped, Going, InFile, TypeOK
<1> QED BY <1>1, <1>2, <1>3, <1>4, <1>5, <1>6 DEF IInv

LEMMA BootKeeps ==
    ASSUME IInv, Boot
    PROVE  IInv'
<1>1. TypeOK'
  <2>1. chunks' \in Table \cup {NoTable}
    BY DEF IInv, Boot, Live, Empty, Table, TypeOK
  <2>2. kv' \in KvRow
    BY DEF IInv, Boot, Recorded, KvRow, TypeOK
  <2>3. past' \in PastRow
    BY DEF IInv, Boot, WithTable, PastRow, TypeOK
  <2>4. gate' \in GateRow
    BY DEF IInv, Boot, GateRow, TypeOK
  <2>5. up' \in BOOLEAN
    BY DEF Boot
  <2> QED
    BY <2>1, <2>2, <2>3, <2>4, <2>5 DEF IInv, Boot, Settings, Rows, Recorded,
        GateRow, PastRow, TypeOK
<1>2. AttemptFits'
  BY DEF IInv, Boot, AttemptFits, Partial
<1>3. DocumentFits'
  BY DEF IInv, Boot, Rows, DocumentFits
<1>4. Gating'
  BY DEF IInv, Gating, Boot, Settings, ReadyMatches, StagedIsGated, ServingIsOpen,
      Going, InFile, Swap, TypeOK, AttemptFits
<1>5. Identity'
  <2>1. NamedIsStart'
    BY DEF IInv, Identity, Boot, Settings, WithTable, NamedIsStart
  <2>2. RecordIsBuilt'
    BY DEF IInv, Identity, Boot, Recorded, WithTable, RecordIsBuilt, TypeOK,
        AttemptFits
  <2>3. PinIsBuilt'
    BY DEF IInv, Gating, Boot, PinIsBuilt, ServingIsOpen, Going, InFile, AttemptFits
  <2>4. TableIsThere'
    BY DEF IInv, Identity, Boot, Live, WithTable, TableIsThere
  <2> QED BY <2>1, <2>2, <2>3, <2>4 DEF Identity
<1>6. Documents'
  <2>1. Searchable'
    BY DEF IInv, Documents, Identity, Boot, Rows, Live, WithTable, Searchable,
        TableIsThere, AttemptFits
  <2>2. Rewritten'
    BY DEF IInv, Documents, Boot, Rows, Live, Rewritten, Partial, HasChunks
  <2>3. InHand'
    BY DEF IInv, Documents, Boot, Live, InHand, HasStaged, HasChunks
  <2>4. TableWritten'
    BY DEF IInv, Documents, Boot, Live, TableWritten
  <2>5. Staged'
    BY DEF IInv, Documents, Boot, Rows, Staged, HasStaged
  <2>6. Selects'
    BY DEF IInv, Documents, Boot, Rows, Selects, Partial
  <2>7. Swapped'
    BY DEF IInv, Documents, Boot, Rows, Live, WithTable, Swapped, HasChunks
  <2> QED BY <2>1, <2>2, <2>3, <2>4, <2>5, <2>6, <2>7 DEF Documents
<1> QED BY <1>1, <1>2, <1>3, <1>4, <1>5, <1>6 DEF IInv

LEMMA ReclaimKeeps ==
    ASSUME IInv, Reclaim
    PROVE  IInv'
<1>1. TypeOK'
  <2>1. job' \in JobRow
    BY DEF IInv, Reclaim, Settled, JobRow, TypeOK
  <2> QED
    BY <2>1 DEF IInv, Reclaim, Settings, Tables, Rows, Settled, TypeOK
<1>2. AttemptFits'
  BY NoneAssumption, VaultAssumption, BoundAssumption DEF IInv, Reclaim, Tables,
      Settled, AttemptFits, Partial, TypeOK
<1>3. DocumentFits'
  BY DEF IInv, Reclaim, Rows, DocumentFits
<1>4. Gating'
  BY DEF IInv, Gating, Reclaim, Settings, ReadyMatches, StagedIsGated,
      ServingIsOpen, Quiet
<1>5. Identity'
  BY DEF IInv, Identity, Reclaim, Settings, Tables, NamedIsStart, RecordIsBuilt,
      PinIsBuilt, TableIsThere
<1>6. Documents'
  BY DEF IInv, Documents, Reclaim, Tables, Rows, Searchable, Rewritten, InHand,
      TableWritten, Staged, Selects, Swapped, Going, InFile
<1> QED BY <1>1, <1>2, <1>3, <1>4, <1>5, <1>6 DEF IInv

-------------------------------------------------------------------------------
(* The theorems                                                            *)

LEMMA InitHolds ==
    ASSUME Init
    PROVE  IInv
<1>1. /\ model \in Models /\ status \in [Files -> {"absent", "indexed", "partial"}]
      /\ chunks = [f \in Files |-> IF status[f] = "absent" THEN None ELSE model]
  BY ModelsAssumption DEF Init
<1>2. chunks \in Table /\ chunks # NoTable
  BY <1>1, NoneAssumption DEF Table
<1>3. TypeOK
  <2>1. NoRun \in RunRow
    BY DEF NoRun, RunRow, Steps
  <2>2. /\ kv \in KvRow /\ gate \in GateRow /\ used \in UsedRow /\ past \in PastRow
    BY <1>1, BoundAssumption DEF Init, KvRow, GateRow, UsedRow, PastRow
  <2>3. job \in JobRow
    BY BoundAssumption DEF Init, JobRow
  <2>4. status \in [Files -> Statuses]
    BY <1>1 DEF Statuses
  <2>5. /\ save = None /\ temp = NoTable /\ marked = {} /\ cancel = "due" /\ up = TRUE
        /\ run = NoRun
    BY DEF Init
  <2> QED
    BY <1>1, <1>2, <2>1, <2>2, <2>3, <2>4, <2>5 DEF TypeOK, KvRow, GateRow, JobRow,
        RunRow, UsedRow, PastRow
<1>4. AttemptFits /\ DocumentFits
  BY DEF Init, NoRun, AttemptFits, DocumentFits, Swap, InFile
<1>5. Gating
  BY DEF Init, NoRun, Gating, ReadyMatches, StagedIsGated, ServingIsOpen
<1>6. Identity
  BY <1>1, <1>2 DEF Init, NoRun, Identity, NamedIsStart, RecordIsBuilt, PinIsBuilt,
      TableIsThere
<1>7. Documents
  <2>1. \A f \in Files : status[f] \in Waiting => chunks[f] # None
    BY <1>1, NoneAssumption DEF Waiting
  <2>2. run = NoRun
    BY DEF Init
  <2>3. NoRun.pc = "idle" /\ ~NoRun.staged /\ NoRun.file \notin Files
    BY NoneAssumption DEF NoRun
  <2> QED
    BY <2>1, <2>2, <2>3 DEF Documents, Searchable, Rewritten, InHand, TableWritten,
        Staged, Selects, Swapped, Going, InFile
<1> QED BY <1>3, <1>4, <1>5, <1>6, <1>7 DEF IInv

LEMMA NextHolds ==
    ASSUME IInv, [Next]_vars
    PROVE  IInv'
<1>1. CASE UNCHANGED vars
  BY <1>1 DEF vars, IInv, TypeOK, AttemptFits, DocumentFits, Gating, ReadyMatches,
      StagedIsGated, ServingIsOpen, Quiet, Identity, NamedIsStart, RecordIsBuilt,
      PinIsBuilt, TableIsThere, Documents, Searchable, Rewritten, InHand,
      TableWritten, Staged, Selects, Swapped, HasChunks, HasStaged, Partial
<1>2. CASE Attempt
  BY <1>2, StartKeeps, DecideOtherKeeps, OpenKeeps, VisitKeeps, EmbedKeeps,
      WriteKeeps, FinalizeKeeps, AbortKeeps, CommitBeginsKeeps, EndInPlaceKeeps,
      DropKeeps, CreateKeeps, DropTempKeeps, RecordKeeps, JudgeKeeps, LiftKeeps,
      ClearKeeps, SettleKeeps DEF Attempt
<1>3. CASE FileFails \/ CommitFails \/ Stall \/ Crash \/ Boot \/ Reclaim
  BY <1>3, FileFailsKeeps, CommitFailsKeeps, StallKeeps, CrashKeeps, BootKeeps,
      ReclaimKeeps
<1>4. CASE \/ \E m \in Models : SaveApply(m)
           \/ SaveFlag
           \/ \E f \in Files : Ingest(f) \/ CancelMark(f)
           \/ CancelFlip
           \/ \E s \in {"all", "vault"} : Request(s)
  BY <1>4, SaveApplyKeeps, SaveFlagKeeps, IngestKeeps, CancelMarkKeeps, CancelFlipKeeps,
      RequestKeeps
<1> QED BY <1>1, <1>2, <1>3, <1>4 DEF Next

LEMMA IInvHolds == Spec => []IInv
<1>1. Init => IInv
  BY InitHolds
<1>2. IInv /\ [Next]_vars => IInv'
  BY NextHolds
<1> QED BY <1>1, <1>2, PTL DEF Spec

LEMMA IInvGates == IInv => Inv
<1> SUFFICES ASSUME IInv PROVE Inv
  OBVIOUS
<1>1. SwapIsGated
  BY DEF IInv, AttemptFits, Gating, StagedIsGated, ServingIsOpen, SwapIsGated,
      Going, InFile, Swap
<1>2. QueriesMatchTheIndex
  <2> SUFFICES ASSUME Quiet, ~past.flipped, ~past.unrecorded, ~past.torn
               PROVE  /\ gate.ready /\ ~gate.serving => model = past.built
                      /\ gate.serving /\ gate.pin # None => Name[gate.pin] = Name[past.built]
    BY DEF QueriesMatchTheIndex
  <2>1. ASSUME gate.ready PROVE model = past.built
    <3>1. model = kv.sidecar
      BY <2>1 DEF IInv, Gating, ReadyMatches
    <3>2. run.pc \notin {"indexing", "recording"}
      BY <2>1 DEF IInv, AttemptFits, Gating, StagedIsGated, Swap
    <3> QED BY <3>1, <3>2 DEF IInv, Identity, RecordIsBuilt
  <2>2. gate.serving /\ gate.pin # None => Name[gate.pin] = Name[past.built]
    BY DEF IInv, Identity, PinIsBuilt
  <2> QED BY <2>1, <2>2
<1> QED BY <1>1, <1>2 DEF IInv, Inv

\* A query is admitted to a ready store under the identity its chunks were built
\* under, to a pinned rebuild under the name of that model whatever snapshot outlived
\* its cutover, and to no table a swap has out (require_model_ready, Judge, Lift,
\* _resolve_serving_pin): for any documents, identities, saves, requests and faults.
THEOREM QueriesMeetTheirIndex == Spec => []Inv
BY IInvHolds, IInvGates, PTL

\* No reindex, in place or staged, full or scoped, makes an indexed document
\* unsearchable, whatever of it fails, stalls or is retried (_reindex_embed_all,
\* commit_dimension_rebuild).
THEOREM ReindexKeepsDocuments == Spec => []IndexedStaysSearchable
<1>1. IInv => IndexedStaysSearchable
  BY DEF IInv, Documents, Searchable, Waiting, IndexedStaysSearchable
<1> QED BY <1>1, IInvHolds, PTL

===============================================================================
