----------------------------- MODULE StorageProofs -----------------------------
(***************************************************************************)
(* What holds of the storage for any number of callers, blocks, lines and  *)
(* database operations: LedgerBackend's properties and its contract.       *)
(***************************************************************************)
EXTENDS LedgerBackend, FiniteSetTheorems, SequenceTheorems, TLAPS

-----------------------------------------------------------------------------
(* The invariant of the files. *)

Pieces == File!Blocks \cup {Torn}

\* The log's lines with the one that has no line break yet.
text == Append(lines, rest)

FileTypes ==
    /\ lines \in Seq(Seq(Pieces)) /\ rest \in Seq(Pieces)
    /\ stage \in [Callers ->
                    {"idle", "lock", "write", "write on", "newline", "sync"}]
    /\ block \in [Callers -> File!Blocks \cup {None}]
    /\ minted \in Nat
    /\ acked \subseteq File!Blocks
    /\ interrupted \in BOOLEAN

\* Who writes or syncs has the lock.
WritersHoldTheLock ==
    \A a \in Callers :
        stage[a] \in {"write", "write on", "newline", "sync"} => holder = a

\* A caller's number is one of its own, and none was given out after it.
BlocksAreOwn ==
    \A a \in Callers :
        stage[a] # "idle" =>
            block[a] \in File!Blocks /\ block[a][1] = a /\ block[a][2] <= minted

\* What a writer has written of its line is at the end of the log.
LineIsBegun ==
    \A a \in Callers :
        /\ stage[a] = "write on" => rest # <<>> /\ rest[Len(rest)] = Torn
        /\ stage[a] = "newline" => rest # <<>> /\ rest[Len(rest)] = block[a]

\* Without an interruption nothing else is after the last line break.
NothingIsLeft ==
    ~interrupted =>
        Len(rest) =
            IF \E a \in Callers : stage[a] \in {"write on", "newline"} THEN 1 ELSE 0

EndsALine(b) ==
    \E n \in DOMAIN lines : lines[n] # <<>> /\ lines[n][Len(lines[n])] = b

\* A block is acknowledged once it ends a line.
AckedEndLines ==
    /\ \A b \in acked : EndsALine(b)
    /\ \A a \in Callers : stage[a] = "sync" => EndsALine(block[a])

\* What a caller has written is older than the block it is about to write.
WrittenIsOlder ==
    \A n \in DOMAIN text : \A k \in DOMAIN text[n] :
        text[n][k] # Torn =>
            /\ text[n][k][2] <= minted
            /\ \A a \in Callers :
                stage[a] \in {"lock", "write", "write on"} /\ text[n][k][1] = a =>
                    text[n][k][2] < block[a][2]

AckedAreOlder ==
    \A b \in acked :
        /\ b[2] <= minted
        /\ \A a \in Callers : stage[a] # "idle" /\ b[1] = a => b[2] < block[a][2]

\* From one line to a later one the blocks of a caller get newer.
LinesAreInOrder ==
    \A i, j \in DOMAIN text :
        i < j => \A k \in DOMAIN text[i], l \in DOMAIN text[j] :
            text[i][k] # Torn /\ text[j][l] # Torn /\ text[i][k][1] = text[j][l][1] =>
                text[i][k][2] < text[j][l][2]

\* The temporary file has the new claims before it takes the place of the old.
SaveIsOrdered ==
    /\ claimFile \subseteq Claims
    /\ wanted = None \/ wanted \subseteq Claims
    /\ save \in {<<>>, <<"open", "write", "rename">>, <<"write", "rename">>, <<"rename">>}
    /\ save = <<>> <=> wanted = None
    /\ save = <<"rename">> => tmp = wanted

FileInv ==
    /\ FileTypes /\ WritersHoldTheLock /\ BlocksAreOwn /\ LineIsBegun /\ NothingIsLeft
    /\ AckedEndLines /\ WrittenIsOlder /\ AckedAreOlder /\ LinesAreInOrder
    /\ SaveIsOrdered

-----------------------------------------------------------------------------
(* The invariant of the database. *)

Rows == Nat \X Sled!Blocks

\* The steps left of an append and of a save, by the next one; both end in a flush.
ToInsert == Sled!AppendSteps
ToFlush == <<"flush", "height", "hash", "flush">>
ToHeight == <<"height", "hash", "flush">>
ToHash == <<"hash", "flush">>
ToEnd == <<"flush">>
ToClear == <<"clear", "fill", "flush">>
ToFill == <<"fill", "flush">>

\* What the last operation left.
last == states[Len(states)]

States == [rows : SUBSET Rows, claims : SUBSET Claims, height : Nat,
           hash : Sled!Blocks \cup {None}]

SledTypes ==
    /\ states \in Seq(States)
    /\ states # <<>>
    /\ nextId \in Nat
    /\ call \in {<<>>, ToInsert, ToFlush, ToHeight, ToHash, ToEnd, ToClear, ToFill}
    /\ inserting \in Sled!Blocks \cup {None}
    /\ remaining \subseteq Claims
    /\ wanted = None \/ wanted \subseteq Claims
    /\ minted \in Nat
    /\ acked \subseteq Sled!Blocks
    /\ interrupted \in BOOLEAN

\* Keys are given out in the order of the blocks, each to one block.
KeysInOrder(rows) ==
    \A r, s \in rows :
        /\ r[1] < s[1] => r[2] < s[2]
        /\ r[1] = s[1] => r = s

\* The second tree has the first, and what else it has comes after it.
Continues(rows, more) ==
    /\ rows \subseteq more
    /\ \A r \in rows, s \in more \ rows : r[1] < s[1]

TreesAreInOrder ==
    /\ \A n \in DOMAIN states :
        /\ IsFiniteSet(states[n].rows)
        /\ KeysInOrder(states[n].rows)
        /\ \A row \in states[n].rows : row[1] < nextId /\ row[2] <= minted
    /\ \A i, j \in DOMAIN states :
        i <= j => Continues(states[i].rows, states[j].rows)

HasBlock(rows, b) == \E row \in rows : row[2] = b

AckedAreInTrees ==
    \A b \in acked : b <= minted /\ \A n \in DOMAIN states : HasBlock(states[n].rows, b)

HeadsFollow ==
    \A n \in DOMAIN states :
        /\ states[n].height <= Cardinality(states[n].rows)
        /\ states[n].hash # None => HasBlock(states[n].rows, states[n].hash)

Appending(steps) == call = steps /\ inserting # None
SameInAll(field) == \A n \in DOMAIN states : states[n][field] = last[field]

\* What an append has done by each of its steps.
AppendIsOrdered ==
    /\ inserting # None =>
        /\ inserting = minted /\ wanted = None
        /\ call \notin {<<>>, ToClear, ToFill}
        /\ \A b \in acked : b < inserting
    /\ call \in {ToInsert, ToFlush, ToHeight, ToHash} => inserting # None
    /\ call = ToInsert =>
        \A n \in DOMAIN states : \A row \in states[n].rows : row[2] < inserting
    /\ inserting # None /\ call # ToInsert => HasBlock(last.rows, inserting)
    /\ Appending(ToHeight) \/ Appending(ToHash) \/ Appending(ToEnd) =>
        SameInAll("rows") /\ SameInAll("claims")
    /\ call \in {ToFlush, ToHeight} =>
        last.height < Cardinality(last.rows)

\* What a save has done by each of its steps.
SaveClears ==
    /\ wanted # None => call \in {ToClear, ToFill, ToEnd}
    /\ call \in {ToClear, ToFill} => wanted # None
    /\ call = ToEnd => (wanted = None <=> inserting # None)
    /\ call = ToClear => remaining = wanted
    /\ call = ToFill => last.claims \cup remaining = wanted
    /\ wanted # None /\ call = ToEnd => last.claims = wanted

HeadMatches ==
    /\ last.height = Cardinality(last.rows)
    /\ last.rows # {} =>
        HasBlock(last.rows, last.hash) /\ \A row \in last.rows : row[2] <= last.hash

\* What an append and a save have done to the head by each of their steps.
HeadIsDue ==
    /\ call \in {<<>>, ToInsert} => Len(states) = 1 /\ HeadMatches
    /\ call = ToFlush =>
        /\ SameInAll("claims")
        /\ Cardinality(last.rows) = Cardinality(states[1].rows) + 1
    /\ call \in {ToFlush, ToHeight} => last.height + 1 = Cardinality(last.rows)
    /\ call = ToHash => last.height = Cardinality(last.rows)
    /\ Appending(ToEnd) => HeadMatches
    /\ wanted # None => HeadMatches /\ SameInAll("rows")

\* Without an interruption every call starts and ends with a flushed head.
HeadIsKept == ~interrupted => HeadIsDue

SledInv ==
    /\ SledTypes /\ TreesAreInOrder /\ AckedAreInTrees /\ HeadsFollow
    /\ AppendIsOrdered /\ SaveClears /\ HeadIsKept

-----------------------------------------------------------------------------

\* What both storages keep of their variables, whichever is chosen.
StorageInv ==
    /\ backend \in {"sled", "file"}
    /\ backend = "file" => FileInv
    /\ backend = "sled" => SledInv

-----------------------------------------------------------------------------
(* The files. *)

LEMMA InitFile == Init => FileInv
<1>. SUFFICES ASSUME Init PROVE FileInv
  OBVIOUS
<1>1. /\ lines = <<>> /\ rest = <<>> /\ stage = [a \in Callers |-> "idle"]
      /\ minted = 0 /\ block = [a \in Callers |-> None] /\ acked = {}
      /\ interrupted = FALSE /\ claimFile = {} /\ wanted = None /\ save = <<>>
  BY DEF Init, File!Init
<1>2. FileTypes
  BY <1>1, EmptySeq DEF FileTypes
<1>3. \A n \in DOMAIN text : text[n] = <<>>
  BY <1>1 DEF text
<1>4. DOMAIN <<>> = {}
  OBVIOUS
<1>5. WrittenIsOlder
  BY <1>3, <1>4 DEF WrittenIsOlder
<1>6. LinesAreInOrder
  BY <1>3, <1>4 DEF LinesAreInOrder
<1>7. NothingIsLeft
  BY <1>1 DEF NothingIsLeft
<1>8. WritersHoldTheLock /\ BlocksAreOwn /\ LineIsBegun /\ AckedEndLines /\ AckedAreOlder
  BY <1>1 DEF WritersHoldTheLock, BlocksAreOwn, LineIsBegun, AckedEndLines, AckedAreOlder
<1>9. SaveIsOrdered
  BY <1>1 DEF SaveIsOrdered
<1>. QED
  BY <1>2, <1>5, <1>6, <1>7, <1>8, <1>9 DEF FileInv

\* A step of an append, and what fails or crashes one.
FileStep(a) ==
    \/ File!OpenLog(a) \/ File!LockLog(a) \/ File!WritePart(a) \/ File!WriteJson(a)
    \/ File!WriteNewline(a) \/ File!SyncLog(a) \/ File!FailAppend(a)

FileSave == File!BeginSave \/ File!SaveStep \/ File!FailSave

\* The lines of the log as a whole.
LEMMA TextIsLines ==
    ASSUME FileTypes
    PROVE  /\ text \in Seq(Seq(Pieces))
           /\ Len(text) = Len(lines) + 1 /\ DOMAIN text = 1..(Len(lines) + 1)
           /\ \A n \in 1..Len(lines) : text[n] = lines[n]
           /\ text[Len(lines) + 1] = rest
           /\ \A n \in DOMAIN text : DOMAIN text[n] = 1..Len(text[n]) /\ text[n] \in Seq(Pieces)
<1>1. lines \in Seq(Seq(Pieces)) /\ rest \in Seq(Pieces)
  BY DEF FileTypes
<1>2. /\ text \in Seq(Seq(Pieces)) /\ Len(text) = Len(lines) + 1
      /\ \A n \in 1..Len(lines) : text[n] = lines[n]
      /\ text[Len(lines) + 1] = rest
  BY <1>1, AppendProperties DEF text
<1>3. DOMAIN text = 1..(Len(lines) + 1)
  BY <1>2, LenProperties
<1>4. \A n \in DOMAIN text : text[n] \in Seq(Pieces)
  BY <1>2, <1>3, ElementOfSeq
<1>5. \A n \in DOMAIN text : DOMAIN text[n] = 1..Len(text[n])
  BY <1>4, LenProperties
<1>. QED
  BY <1>2, <1>3, <1>4, <1>5

\* What the lines become.
LEMMA LogGrows ==
    ASSUME FileInv, File!Next
    PROVE  \/ UNCHANGED <<lines, rest>>
           \/ \E a \in Callers :
                \/ File!WritePart(a) /\ lines' = lines /\ rest' = Append(rest, Torn)
                \/ File!WriteJson(a) /\ lines' = lines
                   /\ rest' = [rest EXCEPT ![Len(rest)] = block[a]]
                \/ File!WriteNewline(a) /\ lines' = Append(lines, rest) /\ rest' = <<>>
BY DEF File!Next, File!OpenLog, File!LockLog, File!WritePart, File!WriteJson,
   File!WriteNewline, File!SyncLog, File!FailAppend, File!BeginSave, File!SaveStep,
   File!FailSave, File!Crash, File!log, File!appends

\* What the stages of the other callers become.
LEMMA StagesMove ==
    ASSUME FileInv, NEW a \in Callers, FileStep(a), NEW c \in Callers, c # a
    PROVE  stage'[c] = stage[c] /\ block'[c] = block[c]
BY DEF FileInv, FileTypes, FileStep, File!OpenLog, File!LockLog, File!WritePart, File!WriteJson,
   File!WriteNewline, File!SyncLog, File!FailAppend, File!Goto

\* A crash and the steps of a save leave the blocks where they are.
LEMMA OtherSteps ==
    ASSUME FileInv, File!Next
    PROVE  \/ \E a \in Callers : FileStep(a) /\ UNCHANGED <<claimFile, tmp, save, wanted>>
           \/ FileSave /\ UNCHANGED <<lines, rest, holder, stage, minted, block, acked>>
           \/ File!Crash
<1>1. \A a \in Callers : FileStep(a) => UNCHANGED <<claimFile, tmp, save, wanted>>
  BY DEF FileStep, File!OpenLog, File!LockLog, File!WritePart, File!WriteJson,
     File!WriteNewline, File!SyncLog, File!FailAppend, File!saves
<1>2. FileSave => UNCHANGED <<lines, rest, holder, stage, minted, block, acked>>
  BY DEF FileSave, File!BeginSave, File!SaveStep, File!FailSave, File!appends, File!log
<1>. QED
  BY <1>1, <1>2 DEF File!Next, FileStep, FileSave

\* What the two ways to write do to the piece at the end.
LEMMA RestGrows ==
    ASSUME rest \in Seq(Pieces), NEW p \in Pieces
    PROVE  /\ Append(rest, p) \in Seq(Pieces)
           /\ Append(rest, p) # <<>>
           /\ Len(Append(rest, p)) = Len(rest) + 1
           /\ \A k \in 1..Len(rest) : Append(rest, p)[k] = rest[k]
           /\ Append(rest, p)[Len(rest) + 1] = p
           /\ Len(rest) \in Nat
BY AppendProperties, LenProperties

LEMMA RestChanges ==
    ASSUME rest \in Seq(Pieces), rest # <<>>, NEW p \in Pieces
    PROVE  /\ Len(rest) \in 1..Len(rest)
           /\ [rest EXCEPT ![Len(rest)] = p] \in Seq(Pieces)
           /\ [rest EXCEPT ![Len(rest)] = p] # <<>>
           /\ Len([rest EXCEPT ![Len(rest)] = p]) = Len(rest)
           /\ \A k \in 1..Len(rest) :
                [rest EXCEPT ![Len(rest)] = p][k] = IF k = Len(rest) THEN p ELSE rest[k]
<1>1. Len(rest) \in 1..Len(rest)
  BY EmptySeq
<1>2. /\ [rest EXCEPT ![Len(rest)] = p] \in Seq(Pieces)
      /\ Len([rest EXCEPT ![Len(rest)] = p]) = Len(rest)
      /\ \A k \in 1..Len(rest) :
           [rest EXCEPT ![Len(rest)] = p][k] = IF k = Len(rest) THEN p ELSE rest[k]
  BY <1>1, ExceptSeq
<1>3. [rest EXCEPT ![Len(rest)] = p] # <<>>
  BY <1>1, <1>2, EmptySeq
<1>. QED
  BY <1>1, <1>2, <1>3

LEMMA NextLog ==
    ASSUME FileInv, File!Next
    PROVE  lines' \in Seq(Seq(Pieces)) /\ rest' \in Seq(Pieces)
<1>1. lines \in Seq(Seq(Pieces)) /\ rest \in Seq(Pieces)
  BY DEF FileInv, FileTypes
<1>2. CASE UNCHANGED <<lines, rest>>
  BY <1>1, <1>2
<1>3. ASSUME NEW a \in Callers, File!WritePart(a), lines' = lines, rest' = Append(rest, Torn)
      PROVE  lines' \in Seq(Seq(Pieces)) /\ rest' \in Seq(Pieces)
  BY <1>1, <1>3, AppendProperties DEF Pieces
<1>4. ASSUME NEW a \in Callers, File!WriteJson(a), lines' = lines,
             rest' = [rest EXCEPT ![Len(rest)] = block[a]]
      PROVE  lines' \in Seq(Seq(Pieces)) /\ rest' \in Seq(Pieces)
  <2>1. stage[a] = "write on"
    BY <1>4 DEF File!WriteJson
  <2>2. block[a] \in Pieces /\ rest # <<>>
    BY <2>1 DEF FileInv, BlocksAreOwn, LineIsBegun, Pieces
  <2>3. Len(rest) \in 1..Len(rest)
    BY <1>1, <2>2, EmptySeq
  <2>. QED
    BY <1>1, <1>4, <2>2, <2>3, ExceptSeq
<1>5. ASSUME NEW a \in Callers, File!WriteNewline(a), lines' = Append(lines, rest), rest' = <<>>
      PROVE  lines' \in Seq(Seq(Pieces)) /\ rest' \in Seq(Pieces)
  BY <1>1, <1>5, AppendProperties, EmptySeq
<1>. QED
  BY <1>2, <1>3, <1>4, <1>5, LogGrows

LEMMA NextFileTypes ==
    ASSUME FileInv, File!Next
    PROVE  FileTypes'
<1>1. lines' \in Seq(Seq(Pieces)) /\ rest' \in Seq(Pieces)
  BY NextLog
<1>. DEFINE Stages == {"idle", "lock", "write", "write on", "newline", "sync"}
<1>2. /\ stage \in [Callers -> Stages] /\ block \in [Callers -> File!Blocks \cup {None}]
      /\ minted \in Nat /\ acked \subseteq File!Blocks /\ interrupted \in BOOLEAN
  BY DEF FileInv, FileTypes
<1>3. /\ stage' \in [Callers -> Stages]
      /\ block' \in [Callers -> File!Blocks \cup {None}]
      /\ minted' \in Nat /\ acked' \subseteq File!Blocks /\ interrupted' \in BOOLEAN
  <2>1. CASE FileSave /\ UNCHANGED <<lines, rest, holder, stage, minted, block, acked>>
    BY <1>2, <2>1 DEF FileSave, File!BeginSave, File!SaveStep, File!FailSave
  <2>2. CASE File!Crash
    BY <1>2, <2>2 DEF File!Crash, File!log
  <2>3. ASSUME NEW a \in Callers, File!OpenLog(a)
        PROVE  /\ stage' \in [Callers -> Stages]
               /\ block' \in [Callers -> File!Blocks \cup {None}]
               /\ minted' \in Nat /\ acked' = acked /\ interrupted' = interrupted
    <3>1. /\ minted < MaxBlocks /\ minted' = minted + 1 /\ acked' = acked
          /\ interrupted' = interrupted
          /\ block' = [block EXCEPT ![a] = <<a, minted + 1>>]
          /\ stage' = [stage EXCEPT ![a] = "lock"]
      BY <2>3 DEF File!OpenLog, File!Goto
    <3>2. minted \in Nat
      BY <1>2
    <3>3. <<a, minted + 1>> \in File!Blocks
      BY <3>1, <3>2, BoundAssumption DEF File!Blocks
    <3>4. stage' \in [Callers -> Stages]
      BY <1>2, <3>1
    <3>5. block' \in [Callers -> File!Blocks \cup {None}]
      BY <1>2, <3>1, <3>3
    <3>6. minted' \in Nat /\ acked' = acked /\ interrupted' = interrupted
      BY <2>3, <3>2 DEF File!OpenLog
    <3>. QED
      BY <3>4, <3>5, <3>6
  <2>4. ASSUME NEW a \in Callers, File!SyncLog(a)
        PROVE  /\ stage' \in [Callers -> Stages]
               /\ block' \in [Callers -> File!Blocks \cup {None}]
               /\ minted' = minted /\ acked' \subseteq File!Blocks /\ interrupted' = interrupted
    <3>1. block[a] \in File!Blocks
      BY <2>4 DEF File!SyncLog, FileInv, BlocksAreOwn
    <3>. QED
      BY <1>2, <2>4, <3>1 DEF File!SyncLog, File!Goto
  <2>5. ASSUME NEW a \in Callers, File!LockLog(a) \/ File!WritePart(a) \/ File!WriteJson(a)
                                  \/ File!WriteNewline(a) \/ File!FailAppend(a)
        PROVE  /\ stage' \in [Callers -> Stages]
               /\ block' \in [Callers -> File!Blocks \cup {None}]
               /\ minted' = minted /\ acked' = acked /\ interrupted' \in BOOLEAN
    BY <1>2, <2>5 DEF File!LockLog, File!WritePart, File!WriteJson, File!WriteNewline,
       File!FailAppend, File!Goto
  <2>. QED
    BY <1>2, <2>1, <2>2, <2>3, <2>4, <2>5, OtherSteps DEF FileStep
<1>. QED
  BY <1>1, <1>3 DEF FileTypes, Pieces, File!Blocks

LEMMA NextWriters ==
    ASSUME FileInv, File!Next
    PROVE  WritersHoldTheLock'
<1>1. WritersHoldTheLock /\ stage \in [Callers ->
                               {"idle", "lock", "write", "write on", "newline", "sync"}]
  BY DEF FileInv, FileTypes
<1>2. CASE FileSave /\ UNCHANGED <<lines, rest, holder, stage, minted, block, acked>>
  BY <1>1, <1>2 DEF WritersHoldTheLock
<1>3. CASE File!Crash
  BY <1>3 DEF File!Crash, WritersHoldTheLock
<1>4. ASSUME NEW a \in Callers, FileStep(a), NEW c \in Callers,
             stage'[c] \in {"write", "write on", "newline", "sync"}
      PROVE  holder' = c
  <2>1. CASE c = a
    <3>1. CASE File!OpenLog(a) \/ File!SyncLog(a) \/ File!FailAppend(a)
      BY <1>1, <1>4, <2>1, <3>1 DEF File!OpenLog, File!SyncLog, File!FailAppend, File!Goto
    <3>2. CASE File!LockLog(a)
      BY <2>1, <3>2 DEF File!LockLog
    <3>3. CASE File!WritePart(a) \/ File!WriteJson(a) \/ File!WriteNewline(a)
      <4>1. holder' = holder
        BY <3>3 DEF File!WritePart, File!WriteJson, File!WriteNewline
      <4>2. stage[a] \in {"write", "write on", "newline"}
        BY <3>3 DEF File!WritePart, File!WriteJson, File!WriteNewline
      <4>. QED
        BY <1>1, <2>1, <4>1, <4>2 DEF WritersHoldTheLock
    <3>. QED
      BY <1>4, <3>1, <3>2, <3>3 DEF FileStep
  <2>2. CASE c # a
    <3>1. stage[c] = stage'[c] /\ holder = c
      BY <1>1, <1>4, <2>2, StagesMove DEF WritersHoldTheLock
    <3>2. None # c
      BY NoneAssumption
    <3>3. holder = a \/ stage[a] \notin {"write", "write on", "newline", "sync"}
      BY <1>1 DEF WritersHoldTheLock
    <3>. QED
      BY <1>1, <1>4, <2>2, <3>1, <3>2, <3>3 DEF FileStep, File!OpenLog, File!LockLog,
         File!WritePart, File!WriteJson, File!WriteNewline, File!SyncLog, File!FailAppend,
         File!Lockable
  <2>. QED
    BY <2>1, <2>2
<1>. QED
  BY <1>2, <1>3, <1>4, OtherSteps DEF WritersHoldTheLock

\* Where a caller is before a step of its own, and what the step says of it.
LEMMA NextBlocksAreOwn ==
    ASSUME FileInv, File!Next
    PROVE  BlocksAreOwn'
<1>1. BlocksAreOwn /\ FileTypes
  BY DEF FileInv
<1>2. minted \in Nat /\ DOMAIN stage = Callers /\ DOMAIN block = Callers
  BY <1>1 DEF FileTypes
<1>3. CASE FileSave /\ UNCHANGED <<lines, rest, holder, stage, minted, block, acked>>
  BY <1>1, <1>3 DEF BlocksAreOwn, File!Blocks
<1>4. CASE File!Crash
  BY <1>4 DEF File!Crash, BlocksAreOwn
<1>5. ASSUME NEW a \in Callers, FileStep(a), NEW c \in Callers, stage'[c] # "idle"
      PROVE  block'[c] \in File!Blocks /\ block'[c][1] = c /\ block'[c][2] <= minted'
  <2>1. CASE File!OpenLog(a) /\ c = a
    <3>1. minted < MaxBlocks /\ minted' = minted + 1
      BY <2>1 DEF File!OpenLog
    <3>2. block'[c] = <<c, minted + 1>>
      BY <1>2, <2>1 DEF File!OpenLog
    <3>3. <<c, minted + 1>> \in File!Blocks
      BY <1>2, <3>1, BoundAssumption DEF File!Blocks
    <3>. QED
      BY <1>2, <3>1, <3>2, <3>3
  <2>2. CASE (File!SyncLog(a) \/ File!FailAppend(a)) /\ c = a
    BY <1>2, <1>5, <2>2 DEF File!SyncLog, File!FailAppend, File!Goto
  <2>3. CASE (File!LockLog(a) \/ File!WritePart(a) \/ File!WriteJson(a)
              \/ File!WriteNewline(a)) /\ c = a
    <3>1. stage[c] # "idle" /\ block'[c] = block[c] /\ minted' = minted
      BY <2>3 DEF File!LockLog, File!WritePart, File!WriteJson, File!WriteNewline
    <3>. QED
      BY <1>1, <3>1 DEF BlocksAreOwn
  <2>4. CASE c # a
    <3>1. stage[c] # "idle" /\ block'[c] = block[c]
      BY <1>5, <2>4, StagesMove
    <3>2. minted' = minted \/ minted' = minted + 1
      BY <1>5 DEF FileStep, File!OpenLog, File!LockLog, File!WritePart,
         File!WriteJson, File!WriteNewline, File!SyncLog, File!FailAppend
    <3>3. block[c] \in File!Blocks /\ block[c][1] = c /\ block[c][2] <= minted
      BY <1>1, <3>1 DEF BlocksAreOwn
    <3>4. block[c][2] \in Nat
      BY <3>3, BoundAssumption DEF File!Blocks
    <3>. QED
      BY <1>2, <3>1, <3>2, <3>3, <3>4
  <2>. QED
    BY <1>5, <2>1, <2>2, <2>3, <2>4 DEF FileStep
<1>. QED
  BY <1>3, <1>4, <1>5, OtherSteps DEF BlocksAreOwn, File!Blocks

\* Only the one caller that writes has begun a line.
LEMMA OneWriter ==
    ASSUME FileInv, NEW a \in Callers, NEW c \in Callers,
           stage[a] \in {"write", "write on", "newline", "sync"},
           stage[c] \in {"write", "write on", "newline", "sync"}
    PROVE  a = c
BY DEF FileInv, WritersHoldTheLock

LEMMA NextLineIsBegun ==
    ASSUME FileInv, File!Next
    PROVE  LineIsBegun'
<1>1. LineIsBegun /\ FileTypes
  BY DEF FileInv
<1>2. rest \in Seq(Pieces) /\ DOMAIN stage = Callers /\ Torn \in Pieces
  BY <1>1 DEF FileTypes, Pieces
<1>3. CASE FileSave /\ UNCHANGED <<lines, rest, holder, stage, minted, block, acked>>
  BY <1>1, <1>3 DEF LineIsBegun
<1>4. CASE File!Crash
  BY <1>4 DEF File!Crash, LineIsBegun
<1>5. ASSUME NEW a \in Callers, FileStep(a), NEW c \in Callers,
             stage'[c] \in {"write on", "newline"}
      PROVE  /\ rest' # <<>>
             /\ rest'[Len(rest')] = IF stage'[c] = "write on" THEN Torn ELSE block'[c]
  <2>1. CASE File!WritePart(a) /\ c = a
    <3>1. rest' = Append(rest, Torn) /\ stage'[c] = "write on"
      BY <1>2, <2>1 DEF File!WritePart, File!Goto
    <3>2. /\ Append(rest, Torn) # <<>>
          /\ Append(rest, Torn)[Len(Append(rest, Torn))] = Torn
      BY <1>2, RestGrows
    <3>. QED
      BY <3>1, <3>2
  <2>2. CASE File!WriteJson(a) /\ c = a
    <3>1. /\ rest' = [rest EXCEPT ![Len(rest)] = block[c]] /\ stage[c] = "write on"
          /\ stage'[c] = "newline" /\ block' = block
      BY <1>2, <2>2 DEF File!WriteJson, File!Goto
    <3>2. rest # <<>> /\ block[c] \in Pieces
      BY <3>1 DEF FileInv, LineIsBegun, BlocksAreOwn, Pieces
    <3>3. /\ [rest EXCEPT ![Len(rest)] = block[c]] # <<>>
          /\ Len([rest EXCEPT ![Len(rest)] = block[c]]) = Len(rest)
          /\ [rest EXCEPT ![Len(rest)] = block[c]][Len(rest)] = block[c]
      BY <1>2, <3>2, RestChanges
    <3>. QED
      BY <3>1, <3>3
  <2>3. CASE c = a /\ ~File!WritePart(a) /\ ~File!WriteJson(a)
    BY <1>2, <1>5, <2>3 DEF FileStep, File!OpenLog, File!LockLog, File!WriteNewline,
       File!SyncLog, File!FailAppend, File!Goto
  <2>4. CASE c # a
    <3>1. stage[c] = stage'[c] /\ block'[c] = block[c]
      BY <1>5, <2>4, StagesMove
    <3>2. stage[a] \notin {"write", "write on", "newline", "sync"}
      BY <1>5, <2>4, <3>1, OneWriter
    <3>3. rest' = rest
      BY <1>5, <3>2 DEF FileStep, File!OpenLog, File!LockLog, File!WritePart,
         File!WriteJson, File!WriteNewline, File!SyncLog, File!FailAppend, File!log
    <3>. QED
      BY <1>1, <1>5, <3>1, <3>3 DEF LineIsBegun
  <2>. QED
    BY <2>1, <2>2, <2>3, <2>4
<1>. QED
  BY <1>3, <1>4, <1>5, OtherSteps DEF LineIsBegun

LEMMA NextNothingIsLeft ==
    ASSUME FileInv, File!Next
    PROVE  NothingIsLeft'
<1>1. NothingIsLeft /\ FileTypes
  BY DEF FileInv
<1>2. rest \in Seq(Pieces) /\ DOMAIN stage = Callers /\ Torn \in Pieces
  BY <1>1 DEF FileTypes, Pieces
<1>. SUFFICES ASSUME ~interrupted'
              PROVE  Len(rest') = IF \E a \in Callers : stage'[a] \in {"write on", "newline"}
                                  THEN 1 ELSE 0
  BY DEF NothingIsLeft
<1>3. ~interrupted
  BY DEF File!Next, File!OpenLog, File!LockLog, File!WritePart, File!WriteJson,
     File!WriteNewline, File!SyncLog, File!FailAppend, File!BeginSave, File!SaveStep,
     File!FailSave, File!Crash
<1>4. CASE FileSave /\ UNCHANGED <<lines, rest, holder, stage, minted, block, acked>>
  BY <1>1, <1>3, <1>4 DEF NothingIsLeft
<1>5. CASE File!Crash
  BY <1>5 DEF File!Crash
<1>6. ASSUME NEW a \in Callers, FileStep(a)
      PROVE  Len(rest') = IF \E c \in Callers : stage'[c] \in {"write on", "newline"}
                          THEN 1 ELSE 0
  <2>1. CASE File!WritePart(a)
    <3>1. /\ rest' = Append(rest, Torn) /\ stage'[a] = "write on" /\ stage[a] = "write"
      BY <1>2, <2>1 DEF File!WritePart, File!Goto
    <3>2. ~\E c \in Callers : stage[c] \in {"write on", "newline"}
      BY <3>1, OneWriter
    <3>3. Len(rest) = 0
      BY <1>1, <1>3, <3>2 DEF NothingIsLeft
    <3>4. Len(Append(rest, Torn)) = 1
      BY <1>2, <3>3, RestGrows
    <3>. QED
      BY <3>1, <3>4
  <2>2. CASE File!WriteJson(a)
    <3>1. /\ rest' = [rest EXCEPT ![Len(rest)] = block[a]] /\ stage[a] = "write on"
          /\ stage'[a] = "newline"
      BY <1>2, <2>2 DEF File!WriteJson, File!Goto
    <3>2. rest # <<>> /\ block[a] \in Pieces /\ Len(rest) = 1
      BY <1>1, <1>3, <3>1 DEF FileInv, LineIsBegun, BlocksAreOwn, Pieces, NothingIsLeft
    <3>3. Len([rest EXCEPT ![Len(rest)] = block[a]]) = 1
      BY <1>2, <3>2, RestChanges
    <3>. QED
      BY <3>1, <3>3
  <2>3. CASE File!WriteNewline(a)
    <3>1. rest' = <<>> /\ stage[a] = "newline" /\ stage'[a] = "sync"
      BY <1>2, <2>3 DEF File!WriteNewline, File!Goto
    <3>2. ~\E c \in Callers : stage'[c] \in {"write on", "newline"}
      BY <1>6, <3>1, OneWriter, StagesMove
    <3>. QED
      BY <3>1, <3>2
  <2>4. CASE File!OpenLog(a) \/ File!LockLog(a) \/ File!SyncLog(a)
    <3>1. rest' = rest
      BY <2>4 DEF File!OpenLog, File!LockLog, File!SyncLog, File!log
    <3>2. \A c \in Callers : stage'[c] \in {"write on", "newline"}
                               <=> stage[c] \in {"write on", "newline"}
      BY <1>2, <1>6, <2>4, StagesMove DEF File!OpenLog, File!LockLog, File!SyncLog, File!Goto
    <3>. QED
      BY <1>1, <1>3, <3>1, <3>2 DEF NothingIsLeft
  <2>5. ~File!FailAppend(a)
    BY DEF File!FailAppend
  <2>. QED
    BY <1>6, <2>1, <2>2, <2>3, <2>4, <2>5 DEF FileStep
<1>. QED
  BY <1>4, <1>5, <1>6, OtherSteps

\* A line is never changed once it has its line break.
LEMMA LinesStay ==
    ASSUME FileInv, File!Next
    PROVE  \A n \in DOMAIN lines : n \in DOMAIN lines' /\ lines'[n] = lines[n]
<1>1. lines \in Seq(Seq(Pieces)) /\ rest \in Seq(Pieces)
  BY DEF FileInv, FileTypes
<1>2. /\ DOMAIN lines = 1..Len(lines) /\ Len(lines) \in Nat
      /\ DOMAIN Append(lines, rest) = 1..(Len(lines) + 1)
      /\ \A n \in 1..Len(lines) : Append(lines, rest)[n] = lines[n]
  BY <1>1, LenProperties, AppendProperties
<1>3. lines' = lines \/ lines' = Append(lines, rest)
  BY LogGrows
<1>. QED
  BY <1>2, <1>3

LEMMA NextAckedEndLines ==
    ASSUME FileInv, File!Next
    PROVE  AckedEndLines'
<1>1. AckedEndLines /\ FileTypes /\ BlocksAreOwn
  BY DEF FileInv
<1>2. DOMAIN stage = Callers
  BY <1>1 DEF FileTypes
<1>3. ASSUME NEW b, EndsALine(b)
      PROVE  EndsALine(b)'
  BY <1>3, LinesStay DEF EndsALine
<1>4. CASE FileSave /\ UNCHANGED <<lines, rest, holder, stage, minted, block, acked>>
  BY <1>1, <1>4 DEF AckedEndLines, EndsALine
<1>5. CASE File!Crash
  BY <1>1, <1>5 DEF File!Crash, File!log, AckedEndLines, EndsALine
<1>6. ASSUME NEW a \in Callers, FileStep(a)
      PROVE  AckedEndLines'
  <2>1. \A b \in acked' : b \in acked \/ (stage[a] = "sync" /\ b = block[a])
    BY <1>6 DEF FileStep, File!OpenLog, File!LockLog, File!WritePart,
       File!WriteJson, File!WriteNewline, File!SyncLog, File!FailAppend
  <2>2. \A b \in acked' : EndsALine(b)'
    <3>1. SUFFICES ASSUME NEW b \in acked' PROVE EndsALine(b)
      BY <1>3
    <3>. QED
      BY <1>1, <2>1 DEF AckedEndLines
  <2>3. ASSUME NEW c \in Callers, stage'[c] = "sync"
        PROVE  EndsALine(block[c])' /\ block'[c] = block[c]
    <3>1. CASE c # a
      <4>1. stage[c] = "sync" /\ block'[c] = block[c]
        BY <1>6, <2>3, <3>1, StagesMove
      <4>2. EndsALine(block[c])
        BY <1>1, <4>1 DEF AckedEndLines
      <4>. QED
        BY <4>1, <4>2, LinesStay DEF EndsALine
    <3>2. CASE c = a
      <4>1. File!WriteNewline(a)
        BY <1>2, <1>6, <2>3, <3>2 DEF FileStep, File!OpenLog, File!LockLog, File!WritePart,
           File!WriteJson, File!SyncLog, File!FailAppend, File!Goto
      <4>2. /\ lines' = Append(lines, rest) /\ block' = block /\ stage[a] = "newline"
        BY <4>1 DEF File!WriteNewline
      <4>3. rest # <<>> /\ rest[Len(rest)] = block[a]
        BY <4>2 DEF FileInv, LineIsBegun
      <4>4. /\ DOMAIN text = 1..(Len(lines) + 1) /\ Len(lines) \in Nat
            /\ text[Len(lines) + 1] = rest /\ lines' = text
        BY <1>1, <4>2, TextIsLines, LenProperties DEF FileTypes, text
      <4>5. Len(lines) + 1 \in DOMAIN lines' /\ lines'[Len(lines) + 1] = rest
        BY <4>4
      <4>. QED
        BY <3>2, <4>2, <4>3, <4>5 DEF EndsALine
    <3>. QED
      BY <3>1, <3>2
  <2>. QED
    BY <2>2, <2>3 DEF AckedEndLines, EndsALine
<1>. QED
  BY <1>4, <1>5, <1>6, OtherSteps

\* Every piece of a block was there before, but for the one that WriteJson writes.
LEMMA WrittenComesFrom ==
    ASSUME FileInv, File!Next,
           NEW n \in DOMAIN text', NEW k \in DOMAIN text'[n], text'[n][k] # Torn
    PROVE  /\ n \in DOMAIN text
           /\ \/ \E l \in DOMAIN text[n] : text[n][l] = text'[n][k]
              \/ \E a \in Callers :
                  File!WriteJson(a) /\ n = Len(lines) + 1 /\ text'[n][k] = block[a]
<1>1. FileTypes /\ rest \in Seq(Pieces)
  BY DEF FileInv, FileTypes
<1>2. /\ Len(lines) \in Nat /\ DOMAIN text = 1..(Len(lines) + 1)
      /\ \A m \in 1..Len(lines) : text[m] = lines[m]
      /\ text[Len(lines) + 1] = rest
      /\ DOMAIN rest = 1..Len(rest) /\ Len(rest) \in Nat
  BY <1>1, TextIsLines, LenProperties DEF FileTypes
<1>3. FileTypes'
  BY NextFileTypes
<1>4. /\ DOMAIN text' = 1..(Len(lines') + 1)
      /\ \A m \in 1..Len(lines') : text'[m] = lines'[m]
      /\ text'[Len(lines') + 1] = rest'
      /\ DOMAIN rest' = 1..Len(rest')
  <2>1. rest' \in Seq(Pieces)
    BY NextLog
  <2>2. DOMAIN rest' = 1..Len(rest')
    BY <2>1, LenProperties
  <2>3. FileTypes' => (DOMAIN text = 1..(Len(lines) + 1)
                       /\ (\A m \in 1..Len(lines) : text[m] = lines[m])
                       /\ text[Len(lines) + 1] = rest)'
    <3>1. lines' \in Seq(Seq(Pieces))
      BY NextLog
    <3>2. /\ Append(lines', rest') \in Seq(Seq(Pieces))
          /\ Len(Append(lines', rest')) = Len(lines') + 1
          /\ \A m \in 1..Len(lines') : Append(lines', rest')[m] = lines'[m]
          /\ Append(lines', rest')[Len(lines') + 1] = rest'
      BY <2>1, <3>1, AppendProperties
    <3>3. DOMAIN Append(lines', rest') = 1..(Len(lines') + 1)
      BY <3>2, LenProperties
    <3>. QED
      BY <3>2, <3>3 DEF text
  <2>. QED
    BY <1>3, <2>2, <2>3
<1>5. CASE UNCHANGED <<lines, rest>>
  BY <1>2, <1>4, <1>5
<1>6. ASSUME NEW a \in Callers, lines' = lines, rest' = Append(rest, Torn)
      PROVE  n \in DOMAIN text /\ \E l \in DOMAIN text[n] : text[n][l] = text'[n][k]
  <2>1. CASE n # Len(lines) + 1
    BY <1>2, <1>4, <1>6, <2>1
  <2>2. CASE n = Len(lines) + 1
    <3>1. /\ Len(rest') = Len(rest) + 1 /\ rest'[Len(rest) + 1] = Torn
          /\ \A j \in 1..Len(rest) : rest'[j] = rest[j]
      BY <1>1, <1>6, RestGrows DEF Pieces
    <3>2. text'[n] = rest' /\ text[n] = rest /\ n \in DOMAIN text
      BY <1>2, <1>4, <1>6, <2>2
    <3>3. k \in 1..(Len(rest) + 1) /\ k # Len(rest) + 1
      BY <1>4, <3>1, <3>2
    <3>4. k \in 1..Len(rest)
      BY <1>2, <3>3
    <3>. QED
      BY <1>2, <3>1, <3>2, <3>4
  <2>. QED
    BY <2>1, <2>2
<1>7. ASSUME NEW a \in Callers, File!WriteJson(a), lines' = lines,
             rest' = [rest EXCEPT ![Len(rest)] = block[a]]
      PROVE  /\ n \in DOMAIN text
             /\ \/ \E l \in DOMAIN text[n] : text[n][l] = text'[n][k]
                \/ n = Len(lines) + 1 /\ text'[n][k] = block[a]
  <2>1. CASE n # Len(lines) + 1
    BY <1>2, <1>4, <1>7, <2>1
  <2>2. CASE n = Len(lines) + 1
    <3>1. stage[a] = "write on"
      BY <1>7 DEF File!WriteJson
    <3>2. rest # <<>> /\ block[a] \in Pieces
      BY <3>1 DEF FileInv, LineIsBegun, BlocksAreOwn, Pieces
    <3>3. /\ Len(rest') = Len(rest)
          /\ \A j \in 1..Len(rest) : rest'[j] = IF j = Len(rest) THEN block[a] ELSE rest[j]
      BY <1>1, <1>7, <3>2, RestChanges
    <3>4. text'[n] = rest' /\ text[n] = rest /\ n \in DOMAIN text
      BY <1>2, <1>4, <1>7, <2>2
    <3>5. k \in 1..Len(rest)
      BY <1>4, <3>3, <3>4
    <3>. QED
      BY <1>2, <2>2, <3>3, <3>4, <3>5
  <2>. QED
    BY <2>1, <2>2
<1>8. ASSUME lines' = Append(lines, rest), rest' = <<>>
      PROVE  n \in DOMAIN text /\ \E l \in DOMAIN text[n] : text[n][l] = text'[n][k]
  <2>1. lines' = text
    BY <1>8 DEF text
  <2>2. Len(lines') = Len(lines) + 1
    BY <1>1, <2>1, TextIsLines
  <2>3. n # Len(lines') + 1
    BY <1>4, <1>8
  <2>4. n \in 1..Len(lines')
    BY <1>2, <1>4, <2>2, <2>3
  <2>5. text'[n] = text[n] /\ n \in DOMAIN text
    BY <1>2, <1>4, <2>1, <2>2, <2>4
  <2>. QED
    BY <2>5
<1>. QED
  BY <1>5, <1>6, <1>7, <1>8, LogGrows

\* A caller that is not idle appends the block it had, or one that is new.
LEMMA CallersKeepBlocks ==
    ASSUME FileInv, File!Next, NEW c \in Callers, stage'[c] # "idle"
    PROVE  \/ /\ stage[c] # "idle" /\ block'[c] = block[c]
              /\ stage'[c] \in {"lock", "write", "write on"} =>
                    stage[c] \in {"lock", "write", "write on"}
           \/ block'[c] = <<c, minted + 1>> /\ minted' = minted + 1
<1>1. DOMAIN stage = Callers /\ DOMAIN block = Callers
  BY DEF FileInv, FileTypes
<1>2. CASE FileSave /\ UNCHANGED <<lines, rest, holder, stage, minted, block, acked>>
  BY <1>2
<1>3. ~File!Crash
  BY DEF File!Crash
<1>4. ASSUME NEW a \in Callers, FileStep(a)
      PROVE  \/ /\ stage[c] # "idle" /\ block'[c] = block[c]
                /\ stage'[c] \in {"lock", "write", "write on"} =>
                      stage[c] \in {"lock", "write", "write on"}
             \/ block'[c] = <<c, minted + 1>> /\ minted' = minted + 1
  <2>1. CASE c # a
    BY <1>4, <2>1, StagesMove
  <2>2. CASE c = a /\ File!OpenLog(a)
    BY <1>1, <2>2 DEF File!OpenLog
  <2>3. CASE c = a /\ (File!SyncLog(a) \/ File!FailAppend(a))
    BY <1>1, <2>3 DEF File!SyncLog, File!FailAppend, File!Goto
  <2>4. CASE c = a /\ (File!LockLog(a) \/ File!WritePart(a) \/ File!WriteJson(a)
                       \/ File!WriteNewline(a))
    BY <1>1, <2>4 DEF File!LockLog, File!WritePart, File!WriteJson, File!WriteNewline, File!Goto
  <2>. QED
    BY <1>4, <2>1, <2>2, <2>3, <2>4 DEF FileStep
<1>. QED
  BY <1>2, <1>3, <1>4, OtherSteps

LEMMA MintedGrows ==
    ASSUME FileInv, File!Next
    PROVE  minted \in Nat /\ minted' \in Nat /\ minted <= minted'
<1>1. minted \in Nat
  BY DEF FileInv, FileTypes
<1>2. minted' = minted \/ minted' = minted + 1
  BY DEF File!Next, File!OpenLog, File!LockLog, File!WritePart, File!WriteJson,
     File!WriteNewline, File!SyncLog, File!FailAppend, File!BeginSave, File!SaveStep,
     File!FailSave, File!Crash, File!appends
<1>. QED
  BY <1>1, <1>2

LEMMA PiecesAreBlocks ==
    ASSUME FileInv, NEW n \in DOMAIN text, NEW k \in DOMAIN text[n], text[n][k] # Torn
    PROVE  text[n][k] \in File!Blocks /\ text[n][k][1] \in Callers /\ text[n][k][2] \in Nat
<1>1. DOMAIN text[n] = 1..Len(text[n]) /\ text[n] \in Seq(Pieces)
  BY TextIsLines DEF FileInv
<1>2. text[n][k] \in Pieces
  BY <1>1, ElementOfSeq
<1>3. text[n][k] \in File!Blocks
  BY <1>2 DEF Pieces
<1>. QED
  BY <1>3, BoundAssumption DEF File!Blocks

LEMMA NextWrittenIsOlder ==
    ASSUME FileInv, File!Next
    PROVE  WrittenIsOlder'
<1>1. WrittenIsOlder /\ BlocksAreOwn
  BY DEF FileInv
<1>. SUFFICES ASSUME NEW n \in DOMAIN text', NEW k \in DOMAIN text'[n], text'[n][k] # Torn
              PROVE  /\ text'[n][k][2] <= minted'
                     /\ \A c \in Callers :
                          (stage'[c] \in {"lock", "write", "write on"} /\ text'[n][k][1] = c) =>
                              text'[n][k][2] < block'[c][2]
  BY DEF WrittenIsOlder
<1>2. minted \in Nat /\ minted' \in Nat /\ minted <= minted'
  BY MintedGrows
<1>3. ASSUME NEW l \in DOMAIN text[n], n \in DOMAIN text, text[n][l] = text'[n][k]
      PROVE  /\ text'[n][k][2] <= minted'
             /\ \A c \in Callers :
                  (stage'[c] \in {"lock", "write", "write on"} /\ text'[n][k][1] = c) =>
                      text'[n][k][2] < block'[c][2]
  <2>1. text'[n][k][2] \in Nat
    BY <1>3, PiecesAreBlocks
  <2>2. text'[n][k][2] <= minted
    BY <1>1, <1>3 DEF WrittenIsOlder
  <2>3. ASSUME NEW c \in Callers, stage'[c] \in {"lock", "write", "write on"},
               text'[n][k][1] = c
        PROVE  text'[n][k][2] < block'[c][2]
    <3>1. CASE block'[c] = block[c] /\ stage[c] \in {"lock", "write", "write on"}
      BY <1>1, <1>3, <2>3, <3>1 DEF WrittenIsOlder
    <3>2. CASE block'[c] = <<c, minted + 1>>
      BY <1>2, <2>1, <2>2, <3>2
    <3>. QED
      BY <2>3, <3>1, <3>2, CallersKeepBlocks
  <2>4. text'[n][k][2] <= minted'
    BY <1>2, <2>1, <2>2
  <2>. QED
    BY <2>3, <2>4
<1>4. ASSUME NEW a \in Callers, File!WriteJson(a), text'[n][k] = block[a]
      PROVE  /\ text'[n][k][2] <= minted'
             /\ \A c \in Callers :
                  (stage'[c] \in {"lock", "write", "write on"} /\ text'[n][k][1] = c) =>
                      text'[n][k][2] < block'[c][2]
  <2>1. stage[a] = "write on" /\ minted' = minted /\ stage'[a] = "newline"
    BY <1>4 DEF File!WriteJson, File!Goto, FileInv, FileTypes
  <2>2. block[a][1] = a /\ block[a][2] <= minted
    BY <1>1, <2>1 DEF BlocksAreOwn
  <2>. QED
    BY <1>4, <2>1, <2>2
<1>. QED
  BY <1>3, <1>4, WrittenComesFrom

LEMMA NextAckedAreOlder ==
    ASSUME FileInv, File!Next
    PROVE  AckedAreOlder'
<1>1. AckedAreOlder /\ BlocksAreOwn /\ acked \subseteq File!Blocks
  BY DEF FileInv, FileTypes
<1>2. minted \in Nat /\ minted' \in Nat /\ minted <= minted'
  BY MintedGrows
<1>3. ASSUME NEW b \in acked, NEW c \in Callers, stage'[c] # "idle", b[1] = c
      PROVE  b[2] < block'[c][2]
  <2>1. b[2] \in Nat /\ b[2] <= minted
    BY <1>1, BoundAssumption DEF AckedAreOlder, File!Blocks
  <2>2. CASE stage[c] # "idle" /\ block'[c] = block[c]
    BY <1>1, <1>3, <2>2 DEF AckedAreOlder
  <2>3. CASE block'[c] = <<c, minted + 1>>
    BY <1>2, <2>1, <2>3
  <2>. QED
    BY <1>3, <2>2, <2>3, CallersKeepBlocks
<1>4. \A b \in acked : b[2] \in Nat /\ b[2] <= minted'
  BY <1>1, <1>2, BoundAssumption DEF AckedAreOlder, File!Blocks
<1>5. CASE acked' = acked
  BY <1>3, <1>4, <1>5 DEF AckedAreOlder
<1>6. ASSUME NEW a \in Callers, File!SyncLog(a)
      PROVE  AckedAreOlder'
  <2>1. acked' = acked \cup {block[a]} /\ stage[a] = "sync" /\ minted' = minted
    BY <1>6 DEF File!SyncLog
  <2>2. stage'[a] = "idle"
    BY <1>6 DEF File!SyncLog, File!Goto, FileInv, FileTypes
  <2>3. block[a][1] = a /\ block[a][2] <= minted
    BY <1>1, <2>1 DEF BlocksAreOwn
  <2>. QED
    BY <1>3, <1>4, <2>1, <2>2, <2>3 DEF AckedAreOlder
<1>7. acked' = acked \/ \E a \in Callers : File!SyncLog(a)
  BY DEF File!Next, File!OpenLog, File!LockLog, File!WritePart, File!WriteJson,
     File!WriteNewline, File!FailAppend, File!BeginSave, File!SaveStep,
     File!FailSave, File!Crash, File!appends
<1>. QED
  BY <1>5, <1>6, <1>7

LEMMA NextLinesAreInOrder ==
    ASSUME FileInv, File!Next
    PROVE  LinesAreInOrder'
<1>1. LinesAreInOrder /\ WrittenIsOlder /\ FileTypes
  BY DEF FileInv
<1>2. DOMAIN text = 1..(Len(lines) + 1) /\ Len(lines) \in Nat
  BY <1>1, TextIsLines, LenProperties DEF FileTypes
<1>. SUFFICES ASSUME NEW i \in DOMAIN text', NEW j \in DOMAIN text', i < j,
                     NEW k \in DOMAIN text'[i], NEW l \in DOMAIN text'[j],
                     text'[i][k] # Torn, text'[j][l] # Torn,
                     text'[i][k][1] = text'[j][l][1]
              PROVE  text'[i][k][2] < text'[j][l][2]
  BY DEF LinesAreInOrder
<1>3. i \in DOMAIN text /\ j \in DOMAIN text
  BY WrittenComesFrom
<1>4. i # Len(lines) + 1
  BY <1>2, <1>3
<1>5. PICK m \in DOMAIN text[i] : text[i][m] = text'[i][k]
  BY <1>4, WrittenComesFrom
<1>6. CASE \E q \in DOMAIN text[j] : text[j][q] = text'[j][l]
  BY <1>1, <1>3, <1>5, <1>6 DEF LinesAreInOrder
<1>7. ASSUME NEW a \in Callers, File!WriteJson(a), text'[j][l] = block[a]
      PROVE  text'[i][k][2] < text'[j][l][2]
  <2>1. stage[a] = "write on"
    BY <1>7 DEF File!WriteJson
  <2>2. block[a][1] = a
    BY <2>1 DEF FileInv, BlocksAreOwn
  <2>3. text[i][m] # Torn /\ text[i][m][1] = a
    BY <1>5, <1>7, <2>2
  <2>4. text[i][m][2] < block[a][2]
    BY <1>1, <1>3, <2>1, <2>3 DEF WrittenIsOlder
  <2>. QED
    BY <1>5, <1>7, <2>4
<1>. QED
  BY <1>6, <1>7, WrittenComesFrom

LEMMA NextSaveIsOrdered ==
    ASSUME FileInv, File!Next
    PROVE  SaveIsOrdered'
<1>1. SaveIsOrdered
  BY DEF FileInv
<1>2. CASE UNCHANGED <<claimFile, tmp, save, wanted>>
  BY <1>1, <1>2 DEF SaveIsOrdered
<1>3. CASE File!Crash \/ File!FailSave
  BY <1>1, <1>3 DEF SaveIsOrdered, File!Crash, File!FailSave
<1>4. CASE File!BeginSave
  <2>1. /\ save' = <<"open", "write", "rename">> /\ wanted' \subseteq Claims
        /\ claimFile' = claimFile
    BY <1>4 DEF File!BeginSave, File!SaveSteps
  <2>2. wanted' # None
    BY <2>1, NoneAssumption
  <2>. QED
    BY <1>1, <2>1, <2>2 DEF SaveIsOrdered
<1>5. CASE File!SaveStep
  <2>1. CASE save = <<"open", "write", "rename">>
    <3>1. /\ save' = <<"write", "rename">> /\ claimFile' = claimFile /\ wanted' = wanted
      BY <1>5, <2>1 DEF File!SaveStep
    <3>. QED
      BY <1>1, <2>1, <3>1 DEF SaveIsOrdered
  <2>2. CASE save = <<"write", "rename">>
    <3>1. /\ save' = <<"rename">> /\ claimFile' = claimFile /\ wanted' = wanted /\ tmp' = wanted
      BY <1>5, <2>2 DEF File!SaveStep
    <3>. QED
      BY <1>1, <2>2, <3>1 DEF SaveIsOrdered
  <2>3. CASE save = <<"rename">>
    <3>1. /\ save' = <<>> /\ claimFile' = tmp /\ wanted' = None
      BY <1>5, <2>3 DEF File!SaveStep
    <3>. QED
      BY <1>1, <2>3, <3>1 DEF SaveIsOrdered
  <2>. QED
    BY <1>1, <1>5, <2>1, <2>2, <2>3 DEF SaveIsOrdered, File!SaveStep
<1>. QED
  BY <1>2, <1>3, <1>4, <1>5, OtherSteps DEF FileSave

LEMMA NextFile == FileInv /\ File!Next => FileInv'
  BY NextFileTypes, NextWriters, NextBlocksAreOwn, NextLineIsBegun, NextNothingIsLeft,
     NextAckedEndLines, NextWrittenIsOlder, NextAckedAreOlder, NextLinesAreInOrder,
     NextSaveIsOrdered
     DEF FileInv

\* What a restart would read, as part of the lines.
LEMMA LinesRead ==
    ASSUME FileTypes
    PROVE  LET read == File!LinesOf(File!log)
           IN  /\ \A n \in DOMAIN read : n \in DOMAIN text /\ read[n] = text[n]
               /\ \A n \in DOMAIN lines : n \in DOMAIN read /\ read[n] = lines[n]
<1>1. /\ DOMAIN text = 1..(Len(lines) + 1) /\ Len(lines) \in Nat
      /\ \A n \in 1..Len(lines) : text[n] = lines[n]
      /\ DOMAIN lines = 1..Len(lines)
  BY TextIsLines, LenProperties DEF FileTypes
<1>2. File!LinesOf(File!log) = IF rest = <<>> THEN lines ELSE text
  BY DEF File!LinesOf, File!log, text
<1>. QED
  BY <1>1, <1>2

LEMMA FilesAreRead == FileInv => File!AckedBlocksAreRead
<1>. SUFFICES ASSUME FileInv, File!Loads(File!log)
              PROVE  LET read == File!LoadBlocks(File!log)
                     IN  /\ acked \subseteq File!ToSet(read)
                         /\ \A i, j \in DOMAIN read :
                             (i < j /\ read[i][1] = read[j][1]) => read[i][2] < read[j][2]
  BY DEF File!AckedBlocksAreRead
<1>. DEFINE read == File!LinesOf(File!log)
<1>1. /\ FileTypes /\ AckedEndLines /\ LinesAreInOrder
  BY DEF FileInv
<1>2. /\ \A n \in DOMAIN read : n \in DOMAIN text /\ read[n] = text[n]
      /\ \A n \in DOMAIN lines : n \in DOMAIN read /\ read[n] = lines[n]
  BY <1>1, LinesRead
<1>3. \A n \in DOMAIN read : Len(read[n]) = 1 /\ read[n][1] # Torn
  BY DEF File!Loads, File!Parses
<1>4. File!LoadBlocks(File!log) = [n \in DOMAIN read |-> read[n][1]]
  BY DEF File!LoadBlocks
<1>. HIDE DEF read
<1>5. acked \subseteq File!ToSet([n \in DOMAIN read |-> read[n][1]])
  <2>1. SUFFICES ASSUME NEW b \in acked
                 PROVE  \E n \in DOMAIN read : read[n][1] = b
    BY DEF File!ToSet
  <2>2. PICK n \in DOMAIN lines : lines[n][Len(lines[n])] = b
    BY <1>1 DEF AckedEndLines, EndsALine
  <2>. QED
    BY <1>2, <1>3, <2>2
<1>6. ASSUME NEW i \in DOMAIN read, NEW j \in DOMAIN read, i < j, read[i][1][1] = read[j][1][1]
      PROVE  read[i][1][2] < read[j][1][2]
  <2>1. 1 \in DOMAIN text[i] /\ 1 \in DOMAIN text[j]
    BY <1>1, <1>2, <1>3, TextIsLines
  <2>. QED
    BY <1>1, <1>2, <1>3, <1>6, <2>1 DEF LinesAreInOrder
<1>. QED
  BY <1>4, <1>5, <1>6

-----------------------------------------------------------------------------
(* The files' contract. *)

LEMMA FunctionIsSeq ==
    ASSUME NEW S, NEW n \in Nat, NEW f \in [1..n -> S]
    PROVE  f \in Seq(S) /\ Len(f) = n
<1>1. f \in Seq(S)
  BY SeqDef
<1>2. DOMAIN f = 1..n /\ DOMAIN f = 1..Len(f) /\ Len(f) \in Nat
  BY <1>1, LenProperties
<1>3. Len(f) = n
  BY <1>2
<1>. QED
  BY <1>1, <1>3

\* A longer sequence that begins like a shorter one.
LEMMA LongerBegins ==
    ASSUME NEW S, NEW s \in Seq(S), NEW t \in Seq(S), Len(s) < Len(t),
           \A i \in 1..Len(s) : s[i] = t[i]
    PROVE  Len(s) <= Len(t) /\ SubSeq(s, 1, Len(s)) = SubSeq(t, 1, Len(s)) /\ s # t
<1>1. Len(s) \in Nat /\ Len(t) \in Nat /\ (\A i \in 1..Len(s) : s[i] \in S /\ t[i] \in S)
  BY LenProperties, ElementOfSeq
<1>2. /\ SubSeq(s, 1, Len(s)) \in Seq(S) /\ Len(SubSeq(s, 1, Len(s))) = Len(s)
      /\ \A i \in 1..Len(s) : SubSeq(s, 1, Len(s))[i] = s[i]
  BY <1>1, SubSeqFull
<1>3. /\ SubSeq(t, 1, Len(s)) \in Seq(S)
      /\ Len(SubSeq(t, 1, Len(s))) = (IF 1 <= Len(s) THEN Len(s) - 1 + 1 ELSE 0)
      /\ \A i \in 1..(Len(s) - 1 + 1) : SubSeq(t, 1, Len(s))[i] = t[1 + i - 1]
  BY <1>1, SubSeqProperties
<1>4. /\ Len(SubSeq(t, 1, Len(s))) = Len(s)
      /\ \A i \in 1..Len(s) : SubSeq(t, 1, Len(s))[i] = t[i]
  BY <1>1, <1>3
<1>5. SubSeq(s, 1, Len(s)) = SubSeq(t, 1, Len(s))
  BY <1>2, <1>3, <1>4, SeqEqual
<1>. QED
  BY <1>1, <1>5

LEMMA FrontOfSeq ==
    ASSUME NEW S, NEW s \in Seq(S), s # <<>>
    PROVE  /\ SubSeq(s, 1, Len(s) - 1) \in Seq(S)
           /\ Len(s) = 1 => SubSeq(s, 1, Len(s) - 1) = <<>>
<1>1. Len(s) \in Nat \ {0} /\ \A i \in 1..Len(s) : s[i] \in S
  BY EmptySeq, ElementOfSeq
<1>2. \A i \in 1..(Len(s) - 1) : s[i] \in S
  BY <1>1
<1>3. SubSeq(s, 1, Len(s) - 1) \in Seq(S)
  BY <1>1, <1>2, SubSeqProperties
<1>4. Len(s) = 1 => SubSeq(s, 1, Len(s) - 1) = <<>>
  BY <1>1, SubSeqEmpty
<1>. QED
  BY <1>3, <1>4

LEMMA AppendToSeq ==
    ASSUME NEW S, NEW s \in Seq(S), NEW e \in S
    PROVE  /\ DOMAIN s = 1..Len(s) /\ Len(s) \in Nat
           /\ DOMAIN Append(s, e) = 1..(Len(s) + 1)
           /\ \A n \in 1..Len(s) : Append(s, e)[n] = s[n]
           /\ Append(s, e)[Len(s) + 1] = e
<1>1. /\ Append(s, e) \in Seq(S) /\ Len(Append(s, e)) = Len(s) + 1
      /\ \A n \in 1..Len(s) : Append(s, e)[n] = s[n]
      /\ Append(s, e)[Len(s) + 1] = e
  BY AppendProperties
<1>2. DOMAIN Append(s, e) = 1..Len(Append(s, e)) /\ DOMAIN s = 1..Len(s) /\ Len(s) \in Nat
  BY <1>1, LenProperties
<1>. QED
  BY <1>1, <1>2

\* Every line is one block, and the blocks.
Whole(read) == \A n \in DOMAIN read : Len(read[n]) = 1 /\ read[n][1] # Torn
Firsts(read) == [n \in DOMAIN read |-> read[n][1]]

LEMMA AppendWhole ==
    ASSUME NEW S, NEW s \in Seq(S), NEW e \in S
    PROVE  Whole(Append(s, e)) <=> (Whole(s) /\ Len(e) = 1 /\ e[1] # Torn)
<1>1. /\ DOMAIN s = 1..Len(s) /\ Len(s) \in Nat
      /\ DOMAIN Append(s, e) = 1..(Len(s) + 1)
      /\ \A n \in 1..Len(s) : Append(s, e)[n] = s[n]
      /\ Append(s, e)[Len(s) + 1] = e
  BY AppendToSeq
<1>. DEFINE t == Append(s, e)
            m == Len(s)
<1>2. /\ DOMAIN s = 1..m /\ m \in Nat /\ DOMAIN t = 1..(m + 1)
      /\ (\A n \in 1..m : t[n] = s[n]) /\ t[m + 1] = e
  BY <1>1
<1>. HIDE DEF t, m
<1>3. Whole(t) <=> (Whole(s) /\ Len(e) = 1 /\ e[1] # Torn)
  BY <1>2 DEF Whole
<1>. QED
  BY <1>3 DEF t

LEMMA WholeIsBoolean == \A read : Whole(read) \in BOOLEAN
  BY DEF Whole

LEMMA ReadByLines ==
    ASSUME NEW t
    PROVE  /\ File!Loads(t) = Whole(File!LinesOf(t))
           /\ File!LoadBlocks(t) =
                IF Whole(File!LinesOf(t)) THEN Firsts(File!LinesOf(t)) ELSE <<>>
BY DEF File!Loads, File!LoadBlocks, File!Parses, Whole, Firsts

LEMMA FirstsAreBlocks ==
    ASSUME NEW read \in Seq(Seq(Pieces)), Whole(read)
    PROVE  Firsts(read) \in Seq(File!Blocks) /\ Len(Firsts(read)) = Len(read)
<1>1. DOMAIN read = 1..Len(read) /\ Len(read) \in Nat
  BY LenProperties
<1>2. \A n \in 1..Len(read) : read[n] \in Seq(Pieces) /\ Len(read[n]) = 1 /\ read[n][1] # Torn
  BY <1>1, ElementOfSeq DEF Whole
<1>3. \A n \in 1..Len(read) : read[n][1] \in Pieces
  BY <1>2, ElementOfSeq
<1>4. Firsts(read) \in [1..Len(read) -> File!Blocks]
  BY <1>1, <1>2, <1>3 DEF Firsts, Pieces
<1>. QED
  BY <1>1, <1>4, FunctionIsSeq

\* The blocks of a whole log are all different.
LEMMA FirstsDiffer ==
    ASSUME FileInv, Whole(text)
    PROVE  \A i, j \in DOMAIN Firsts(text) : Firsts(text)[i] = Firsts(text)[j] => i = j
<1>1. LinesAreInOrder /\ FileTypes
  BY DEF FileInv
<1>2. DOMAIN Firsts(text) = DOMAIN text /\ \A i \in DOMAIN text : Firsts(text)[i] = text[i][1]
  BY DEF Firsts
<1>3. DOMAIN text = 1..(Len(lines) + 1) /\ Len(lines) \in Nat
  BY <1>1, TextIsLines, LenProperties DEF FileTypes
<1>4. ASSUME NEW i \in DOMAIN text, NEW j \in DOMAIN text, i < j
      PROVE  text[i][1] # text[j][1]
  <2>1. 1 \in DOMAIN text[i] /\ 1 \in DOMAIN text[j]
    BY <1>1, TextIsLines DEF Whole
  <2>2. text[i][1] # Torn /\ text[j][1] # Torn
    BY DEF Whole
  <2>3. text[j][1][2] \in Nat
    BY <2>1, <2>2, PiecesAreBlocks
  <2>4. SUFFICES ASSUME text[i][1] = text[j][1] PROVE FALSE
    OBVIOUS
  <2>5. text[i][1][2] < text[j][1][2]
    BY <1>1, <1>4, <2>1, <2>2, <2>4 DEF LinesAreInOrder
  <2>. QED
    BY <2>3, <2>4, <2>5
<1>5. \A i, j \in DOMAIN text : i < j \/ i = j \/ j < i
  BY <1>3
<1>. QED
  BY <1>2, <1>4, <1>5

\* The lines a restart would read, without what is being written.
kept == File!LinesOf(File!Settled)

LEMMA KeptLines ==
    /\ File!Loads(File!Settled) = Whole(kept)
    /\ File!LoadBlocks(File!Settled) = IF Whole(kept) THEN Firsts(kept) ELSE <<>>
  BY ReadByLines DEF kept

LEMMA KeptLinesNext ==
    /\ File!Loads(File!Settled)' = Whole(kept')
    /\ File!LoadBlocks(File!Settled)' = IF Whole(kept') THEN Firsts(kept') ELSE <<>>
  BY ReadByLines DEF kept

\* A line in progress is left out.
LEMMA KeptInProgress ==
    ASSUME FileInv, NEW a \in Callers, stage[a] \in {"write on", "newline"}
    PROVE  /\ Len(rest) \in Nat \ {0}
           /\ Len(rest) = 1 => kept = lines
           /\ Whole(kept) => Whole(lines)
           /\ Whole(text) <=> (Whole(lines) /\ Len(rest) = 1 /\ rest[1] # Torn)
<1>1. FileTypes /\ rest \in Seq(Pieces) /\ lines \in Seq(Seq(Pieces)) /\ rest # <<>>
  BY DEF FileInv, FileTypes, LineIsBegun
<1>2. Len(rest) \in Nat \ {0}
  BY <1>1, EmptySeq
<1>. DEFINE front == SubSeq(rest, 1, Len(rest) - 1)
<1>3. kept = IF front = <<>> THEN lines ELSE Append(lines, front)
  <2>1. File!Settled = <<lines, front>>
    BY DEF File!Settled, File!Front
  <2>. QED
    BY <2>1 DEF kept, File!LinesOf
<1>4. front \in Seq(Pieces) /\ (Len(rest) = 1 => front = <<>>)
  <2>1. rest \in Seq(Pieces) /\ rest # <<>>
    BY <1>1
  <2>. QED
    BY <2>1, FrontOfSeq
<1>. HIDE DEF front
<1>5. lines \in Seq(Seq(Pieces)) /\ front \in Seq(Pieces)
  BY <1>1, <1>4
<1>6. Whole(Append(lines, front)) => Whole(lines)
  BY <1>5, AppendWhole
<1>7. Whole(kept) => Whole(lines)
  BY <1>3, <1>6
<1>8. Whole(text) <=> (Whole(lines) /\ Len(rest) = 1 /\ rest[1] # Torn)
  <2>1. lines \in Seq(Seq(Pieces)) /\ rest \in Seq(Pieces)
    BY <1>1
  <2>. QED
    BY <2>1, AppendWhole DEF text
<1>. QED
  BY <1>2, <1>3, <1>4, <1>7, <1>8

\* A whole log with one more line.
LEMMA FirstsExtend ==
    ASSUME FileInv, Whole(lines), Whole(text)
    PROVE  LET old == Firsts(lines)
               new == Firsts(text)
           IN  /\ Len(new) = Len(old) + 1
               /\ Len(old) <= Len(new) /\ SubSeq(old, 1, Len(old)) = SubSeq(new, 1, Len(old))
               /\ old # new /\ \A i, j \in DOMAIN new : new[i] = new[j] => i = j
<1>1. FileTypes /\ lines \in Seq(Seq(Pieces)) /\ text \in Seq(Seq(Pieces))
  BY TextIsLines DEF FileInv, FileTypes
<1>2. /\ Len(text) = Len(lines) + 1 /\ Len(lines) \in Nat
      /\ DOMAIN text = 1..(Len(lines) + 1) /\ DOMAIN lines = 1..Len(lines)
      /\ \A n \in 1..Len(lines) : text[n] = lines[n]
  BY <1>1, TextIsLines, LenProperties
<1>. DEFINE old == Firsts(lines)
            new == Firsts(text)
<1>3. old \in Seq(File!Blocks) /\ Len(old) = Len(lines)
  BY <1>1, FirstsAreBlocks
<1>4. new \in Seq(File!Blocks) /\ Len(new) = Len(lines) + 1
  BY <1>1, <1>2, FirstsAreBlocks
<1>5. \A i \in 1..Len(old) : old[i] = new[i]
  <2>1. \A i \in 1..Len(lines) : i \in DOMAIN lines /\ i \in DOMAIN text /\ text[i] = lines[i]
    BY <1>2
  <2>. QED
    BY <1>3, <2>1 DEF Firsts
<1>6. \A i, j \in DOMAIN new : new[i] = new[j] => i = j
  BY FirstsDiffer
<1>. HIDE DEF old, new
<1>7. Len(old) < Len(new)
  BY <1>2, <1>3, <1>4
<1>8. Len(old) <= Len(new) /\ SubSeq(old, 1, Len(old)) = SubSeq(new, 1, Len(old)) /\ old # new
  BY <1>3, <1>4, <1>5, <1>7, LongerBegins
<1>9. Len(new) = Len(old) + 1
  BY <1>3, <1>4
<1>. QED
  BY <1>6, <1>8, <1>9 DEF old, new

\* The end of a line, and a call that is given up or dies in one.
LEMMA LineEnds ==
    ASSUME FileInv, NEW a \in Callers, stage[a] \in {"write on", "newline"},
           kept' = text, acked' = acked,
           stage[a] = "newline" \/ interrupted', interrupted => interrupted'
    PROVE  File!Contract!Grow \/ File!Contract!Damage \/ File!Contract!SameBlocks
<1>1. /\ Len(rest) = 1 => kept = lines
      /\ Whole(kept) => Whole(lines)
      /\ Whole(text) <=> (Whole(lines) /\ Len(rest) = 1 /\ rest[1] # Torn)
  BY KeptInProgress
<1>2. /\ stage[a] = "write on" => rest[Len(rest)] = Torn
      /\ stage[a] = "newline" => rest[Len(rest)] # Torn
  BY TornAssumption DEF FileInv, LineIsBegun, BlocksAreOwn
<1>3. CASE Whole(text)
  <2>1. kept = lines /\ Whole(lines)
    BY <1>1, <1>3
  <2>. DEFINE old == Firsts(lines)
              new == Firsts(text)
  <2>2. /\ Len(new) = Len(old) + 1
        /\ Len(old) <= Len(new) /\ SubSeq(old, 1, Len(old)) = SubSeq(new, 1, Len(old))
        /\ old # new /\ \A i, j \in DOMAIN new : new[i] = new[j] => i = j
    BY <1>3, <2>1, FirstsExtend
  <2>. HIDE DEF old, new
  <2>3. File!Loads(File!Settled) /\ File!LoadBlocks(File!Settled) = old
    BY <2>1, KeptLines DEF old
  <2>4. File!Loads(File!Settled)' /\ File!LoadBlocks(File!Settled)' = new
    BY <1>3, KeptLinesNext DEF new
  <2>5. File!Contract!Grow
    BY <2>2, <2>3, <2>4 DEF File!Contract!Grow, File!Contract!IsPrefix,
       File!Contract!IsInjective
  <2>. QED
    BY <2>5
<1>4. CASE ~Whole(text) /\ Whole(kept)
  <2>1. interrupted'
    <3>1. CASE stage[a] = "write on"
      BY <3>1
    <3>2. CASE stage[a] = "newline"
      <4>1. Len(rest) # 1
        BY <1>1, <1>2, <1>4, <3>2
      <4>2. interrupted
        BY <4>1 DEF FileInv, NothingIsLeft
      <4>. QED
        BY <4>2
    <3>. QED
      BY <3>1, <3>2
  <2>2. ~File!Loads(File!Settled)' /\ File!LoadBlocks(File!Settled)' = <<>>
    BY <1>4, KeptLinesNext
  <2>3. File!Contract!Damage
    BY <2>1, <2>2 DEF File!Contract!Damage
  <2>. QED
    BY <2>3
<1>5. CASE ~Whole(text) /\ ~Whole(kept)
  <2>1. ~File!Loads(File!Settled) /\ File!LoadBlocks(File!Settled) = <<>>
    BY <1>5, KeptLines
  <2>2. ~File!Loads(File!Settled)' /\ File!LoadBlocks(File!Settled)' = <<>>
    BY <1>5, KeptLinesNext
  <2>3. File!Contract!SameBlocks
    <3>1. File!Loads(File!Settled)' = File!Loads(File!Settled)
      <4>1. Whole(kept) = Whole(kept')
        BY <1>5, WholeIsBoolean
      <4>. QED
        BY <4>1, KeptLines, KeptLinesNext
    <3>. QED
      BY <2>1, <2>2, <3>1 DEF File!Contract!SameBlocks
  <2>. QED
    BY <2>3
<1>. QED
  BY <1>3, <1>4, <1>5

\* Who writes decides what is left out.
Someone == \E c \in Callers : stage[c] \in {"write on", "newline"}

LEMMA KeptCases ==
    /\ Someone => kept = File!LinesOf(<<lines, SubSeq(rest, 1, Len(rest) - 1)>>)
    /\ ~Someone => kept = File!LinesOf(<<lines, rest>>)
    /\ Someone' => kept' = File!LinesOf(<<lines', SubSeq(rest', 1, Len(rest') - 1)>>)
    /\ ~Someone' => kept' = File!LinesOf(<<lines', rest'>>)
  BY DEF kept, Someone, File!Settled, File!log, File!Front

LEMMA FrontOfWritten ==
    ASSUME NEW S, NEW s \in Seq(S), NEW e \in S
    PROVE  /\ LET t == Append(s, e) IN SubSeq(t, 1, Len(t) - 1) = s
           /\ s # <<>> => LET t == [s EXCEPT ![Len(s)] = e]
                          IN  SubSeq(t, 1, Len(t) - 1) = SubSeq(s, 1, Len(s) - 1)
<1>1. Len(s) \in Nat /\ \A i \in 1..Len(s) : s[i] \in S
  BY LenProperties, ElementOfSeq
<1>2. ASSUME NEW t \in Seq(S), NEW m \in 0..Len(s), Len(t) - 1 = m,
             \A i \in 1..m : t[i] = s[i]
      PROVE  SubSeq(t, 1, Len(t) - 1) = SubSeq(s, 1, m)
  <2>1. m \in Nat /\ m \in Int /\ 1 \in Int /\ m - 1 + 1 = m
    BY <1>1
  <2>2. (\A i \in 1..m : s[i] \in S) /\ (\A i \in 1..m : t[i] \in S)
    BY <1>1, <1>2
  <2>3. /\ SubSeq(t, 1, m) \in Seq(S) /\ Len(SubSeq(t, 1, m)) = (IF 1 <= m THEN m - 1 + 1 ELSE 0)
        /\ \A i \in 1..(m - 1 + 1) : SubSeq(t, 1, m)[i] = t[1 + i - 1]
    BY <2>1, <2>2, SubSeqProperties
  <2>4. /\ SubSeq(s, 1, m) \in Seq(S) /\ Len(SubSeq(s, 1, m)) = (IF 1 <= m THEN m - 1 + 1 ELSE 0)
        /\ \A i \in 1..(m - 1 + 1) : SubSeq(s, 1, m)[i] = s[1 + i - 1]
    BY <2>1, <2>2, SubSeqProperties
  <2>5. /\ Len(SubSeq(t, 1, m)) = m /\ Len(SubSeq(s, 1, m)) = m
        /\ \A i \in 1..m : SubSeq(t, 1, m)[i] = SubSeq(s, 1, m)[i]
    BY <1>2, <2>1, <2>3, <2>4
  <2>6. SubSeq(t, 1, m) = SubSeq(s, 1, m)
    BY <2>3, <2>4, <2>5, SeqEqual
  <2>. QED
    BY <1>2, <2>6
<1>3. SubSeq(Append(s, e), 1, Len(Append(s, e)) - 1) = s
  <2>1. /\ Append(s, e) \in Seq(S) /\ Len(Append(s, e)) = Len(s) + 1
        /\ \A i \in 1..Len(s) : Append(s, e)[i] = s[i]
    BY AppendProperties
  <2>2. Len(s) \in 0..Len(s) /\ Len(Append(s, e)) - 1 = Len(s)
    BY <1>1, <2>1
  <2>. QED
    BY <1>2, <2>1, <2>2, SubSeqFull
<1>4. ASSUME s # <<>>
      PROVE  LET t == [s EXCEPT ![Len(s)] = e]
             IN  SubSeq(t, 1, Len(t) - 1) = SubSeq(s, 1, Len(s) - 1)
  <2>. DEFINE t == [s EXCEPT ![Len(s)] = e]
  <2>1. Len(s) \in 1..Len(s)
    BY <1>4, EmptySeq
  <2>2. /\ t \in Seq(S) /\ Len(t) = Len(s)
        /\ \A i \in 1..Len(s) : t[i] = IF i = Len(s) THEN e ELSE s[i]
    BY <2>1, ExceptSeq
  <2>. HIDE DEF t
  <2>3. Len(s) - 1 \in 0..Len(s) /\ Len(t) - 1 = Len(s) - 1
    BY <1>1, <2>1, <2>2
  <2>4. \A i \in 1..(Len(s) - 1) : t[i] = s[i]
    BY <1>1, <2>2
  <2>5. SubSeq(t, 1, Len(t) - 1) = SubSeq(s, 1, Len(s) - 1)
    BY <1>2, <2>2, <2>3, <2>4
  <2>. QED
    BY <2>5 DEF t
<1>. QED
  BY <1>3, <1>4

\* Nothing that a restart reads changes while a line is written.
LEMMA KeptUnlessLineEnds ==
    ASSUME FileInv, NEW a \in Callers,
           \/ File!OpenLog(a) \/ File!LockLog(a) \/ File!WritePart(a) \/ File!WriteJson(a)
           \/ File!SyncLog(a)
           \/ File!FailAppend(a) /\ stage[a] \notin {"write on", "newline"}
    PROVE  kept' = kept
<1>1. DOMAIN stage = Callers /\ rest \in Seq(Pieces) /\ Torn \in Pieces
  BY DEF FileInv, FileTypes, Pieces
<1>2. FileStep(a)
  BY DEF FileStep
<1>3. CASE \/ File!OpenLog(a) \/ File!LockLog(a) \/ File!SyncLog(a)
           \/ File!FailAppend(a) /\ stage[a] \notin {"write on", "newline"}
  <2>1. lines' = lines /\ rest' = rest
    BY <1>3 DEF File!OpenLog, File!LockLog, File!SyncLog, File!FailAppend, File!log
  <2>2. stage[a] \notin {"write on", "newline"} /\ stage'[a] \notin {"write on", "newline"}
    BY <1>1, <1>3 DEF File!OpenLog, File!LockLog, File!SyncLog, File!FailAppend, File!Goto
  <2>3. \A c \in Callers : stage'[c] \in {"write on", "newline"}
                             <=> stage[c] \in {"write on", "newline"}
    BY <1>2, <2>2, StagesMove
  <2>4. Someone' <=> Someone
    BY <2>3 DEF Someone
  <2>. QED
    BY <2>1, <2>4, KeptCases
<1>4. CASE File!WritePart(a)
  <2>1. /\ lines' = lines /\ rest' = Append(rest, Torn) /\ stage[a] = "write"
        /\ stage'[a] = "write on"
    BY <1>1, <1>4 DEF File!WritePart, File!Goto
  <2>2. ~Someone /\ Someone'
    BY <2>1, OneWriter DEF Someone
  <2>3. SubSeq(rest', 1, Len(rest') - 1) = rest
    BY <1>1, <2>1, FrontOfWritten
  <2>. QED
    BY <2>1, <2>2, <2>3, KeptCases
<1>5. CASE File!WriteJson(a)
  <2>1. /\ lines' = lines /\ rest' = [rest EXCEPT ![Len(rest)] = block[a]]
        /\ stage[a] = "write on" /\ stage'[a] = "newline"
    BY <1>1, <1>5 DEF File!WriteJson, File!Goto
  <2>2. Someone /\ Someone'
    BY <2>1 DEF Someone
  <2>3. block[a] \in Pieces /\ rest # <<>>
    BY <2>1 DEF FileInv, BlocksAreOwn, LineIsBegun, Pieces
  <2>4. SubSeq(rest', 1, Len(rest') - 1) = SubSeq(rest, 1, Len(rest) - 1)
    BY <1>1, <2>1, <2>3, FrontOfWritten
  <2>. QED
    BY <2>1, <2>2, <2>4, KeptCases
<1>. QED
  BY <1>3, <1>4, <1>5

\* The line is read once it is whole, or given up.
LEMMA KeptOnceLineEnds ==
    ASSUME FileInv, NEW a \in Callers, stage[a] \in {"write on", "newline"},
           File!WriteNewline(a) \/ File!FailAppend(a) \/ File!Crash
    PROVE  kept' = text /\ acked' = acked
<1>1. DOMAIN stage = Callers /\ rest # <<>>
  BY DEF FileInv, FileTypes, LineIsBegun
<1>2. acked' = acked
  BY DEF File!WriteNewline, File!FailAppend, File!Crash
<1>3. CASE File!WriteNewline(a)
  <2>1. lines' = text /\ rest' = <<>> /\ stage'[a] = "sync"
    BY <1>1, <1>3 DEF File!WriteNewline, File!Goto, text
  <2>2. ~Someone'
    BY <1>3, <2>1, StagesMove, OneWriter DEF Someone, FileStep
  <2>. QED
    BY <1>2, <2>1, <2>2, KeptCases DEF File!LinesOf
<1>4. CASE File!FailAppend(a)
  <2>1. lines' = lines /\ rest' = rest /\ stage'[a] = "idle"
    BY <1>1, <1>4 DEF File!FailAppend, File!Goto, File!log
  <2>2. ~Someone'
    BY <1>4, <2>1, StagesMove, OneWriter DEF Someone, FileStep
  <2>. QED
    BY <1>1, <1>2, <2>1, <2>2, KeptCases DEF File!LinesOf, text
<1>5. CASE File!Crash
  <2>1. lines' = lines /\ rest' = rest /\ ~Someone'
    BY <1>5 DEF File!Crash, File!log, Someone
  <2>. QED
    BY <1>1, <1>2, <2>1, KeptCases DEF File!LinesOf, text
<1>. QED
  BY <1>3, <1>4, <1>5

LEMMA KeptIsSame ==
    ASSUME kept' = kept, acked' = acked
    PROVE  File!Contract!SameBlocks
<1>1. File!Loads(File!Settled)' = File!Loads(File!Settled)
  BY KeptLines, KeptLinesNext
<1>2. File!LoadBlocks(File!Settled)' = File!LoadBlocks(File!Settled)
  BY KeptLines, KeptLinesNext
<1>. QED
  BY <1>1, <1>2 DEF File!Contract!SameBlocks

\* The caller is told of a block that is read.
LEMMA SyncAcknowledges ==
    ASSUME FileInv, NEW a \in Callers, File!SyncLog(a)
    PROVE  File!Contract!Acknowledge
<1>1. /\ stage[a] = "sync" /\ acked' = acked \cup {block[a]}
  BY DEF File!SyncLog
<1>2. /\ FileTypes /\ block[a] \in File!Blocks /\ block[a][1] = a /\ EndsALine(block[a])
  BY <1>1 DEF FileInv, BlocksAreOwn, AckedEndLines
<1>3. block[a] \notin acked
  <2>1. SUFFICES ASSUME block[a] \in acked PROVE FALSE
    OBVIOUS
  <2>2. block[a][2] < block[a][2]
    BY <1>1, <1>2, <2>1 DEF FileInv, AckedAreOlder
  <2>3. block[a][2] \in Nat
    BY <1>2, BoundAssumption DEF File!Blocks
  <2>. QED
    BY <2>2, <2>3
<1>4. kept' = kept
  BY KeptUnlessLineEnds
<1>5. File!Loads(File!Settled)' = File!Loads(File!Settled)
      /\ File!LoadBlocks(File!Settled)' = File!LoadBlocks(File!Settled)
  BY <1>4, KeptLines, KeptLinesNext
<1>6. ASSUME Whole(kept)
      PROVE  block[a] \in File!ToSet(Firsts(kept))
  <2>1. ~Someone
    BY <1>1, OneWriter DEF Someone
  <2>2. kept = File!LinesOf(File!log)
    BY <2>1, KeptCases DEF File!log
  <2>3. \A n \in DOMAIN lines : n \in DOMAIN kept /\ kept[n] = lines[n]
    BY <1>2, <2>2, LinesRead
  <2>4. PICK n \in DOMAIN lines : lines[n][Len(lines[n])] = block[a]
    BY <1>2 DEF EndsALine
  <2>5. n \in DOMAIN kept /\ kept[n][1] = block[a]
    BY <1>6, <2>3, <2>4 DEF Whole
  <2>. QED
    BY <2>5 DEF Firsts, File!ToSet
<1>7. File!Loads(File!Settled) => block[a] \in File!ToSet(File!LoadBlocks(File!Settled))
  BY <1>6, KeptLines
<1>. QED
  BY <1>1, <1>2, <1>3, <1>5, <1>7 DEF File!Contract!Acknowledge, File!Contract!ToSet, File!ToSet

LEMMA FileBlocksStep ==
    ASSUME FileInv, File!Next
    PROVE  \/ File!Contract!Grow \/ File!Contract!Damage
           \/ File!Contract!Acknowledge \/ File!Contract!SameBlocks
<1>1. CASE FileSave /\ UNCHANGED <<lines, rest, holder, stage, minted, block, acked>>
  <2>1. lines' = lines /\ rest' = rest /\ acked' = acked /\ (Someone' <=> Someone)
    BY <1>1 DEF Someone
  <2>2. kept' = kept
    BY <2>1, KeptCases
  <2>. QED
    BY <2>1, <2>2, KeptIsSame
<1>2. CASE File!Crash
  <2>1. CASE Someone
    <3>1. PICK a \in Callers : stage[a] \in {"write on", "newline"}
      BY <2>1 DEF Someone
    <3>2. kept' = text /\ acked' = acked
      BY <1>2, <3>1, KeptOnceLineEnds
    <3>3. interrupted'
      BY <1>2 DEF File!Crash
    <3>. QED
      BY <3>1, <3>2, <3>3, LineEnds
  <2>2. CASE ~Someone
    <3>1. lines' = lines /\ rest' = rest /\ acked' = acked /\ ~Someone'
      BY <1>2 DEF File!Crash, File!log, Someone
    <3>. QED
      BY <2>2, <3>1, KeptCases, KeptIsSame
  <2>. QED
    BY <2>1, <2>2
<1>3. ASSUME NEW a \in Callers, FileStep(a)
      PROVE  \/ File!Contract!Grow \/ File!Contract!Damage
             \/ File!Contract!Acknowledge \/ File!Contract!SameBlocks
  <2>1. CASE File!SyncLog(a)
    BY <2>1, SyncAcknowledges
  <2>2. CASE File!WriteNewline(a)
    <3>1. stage[a] = "newline" /\ interrupted' = interrupted
      BY <2>2 DEF File!WriteNewline
    <3>2. kept' = text /\ acked' = acked
      BY <2>2, <3>1, KeptOnceLineEnds
    <3>. QED
      BY <3>1, <3>2, LineEnds
  <2>3. CASE File!FailAppend(a) /\ stage[a] \in {"write on", "newline"}
    <3>1. interrupted'
      BY <2>3 DEF File!FailAppend
    <3>2. kept' = text /\ acked' = acked
      BY <2>3, KeptOnceLineEnds
    <3>. QED
      BY <2>3, <3>1, <3>2, LineEnds
  <2>4. CASE \/ File!OpenLog(a) \/ File!LockLog(a) \/ File!WritePart(a) \/ File!WriteJson(a)
             \/ File!FailAppend(a) /\ stage[a] \notin {"write on", "newline"}
    <3>1. kept' = kept
      BY <2>4, KeptUnlessLineEnds
    <3>2. acked' = acked
      BY <2>4 DEF File!OpenLog, File!LockLog, File!WritePart, File!WriteJson, File!FailAppend
    <3>. QED
      BY <3>1, <3>2, KeptIsSame
  <2>. QED
    BY <1>3, <2>1, <2>2, <2>3, <2>4 DEF FileStep
<1>. QED
  BY <1>1, <1>2, <1>3, OtherSteps

LEMMA FileClaimsStep ==
    ASSUME FileInv, File!Next
    PROVE  \/ File!Contract!Ask \/ File!Contract!Replace \/ File!Contract!Confirm
           \/ File!Contract!Abandon \/ File!Contract!Tear \/ File!Contract!SameClaims
<1>1. SaveIsOrdered
  BY DEF FileInv
<1>2. CASE UNCHANGED <<claimFile, tmp, save, wanted>>
  BY <1>2 DEF File!Contract!SameClaims
<1>3. CASE File!BeginSave
  <2>1. claimFile' = claimFile /\ wanted' \in SUBSET Claims /\ save = <<>>
    BY <1>3 DEF File!BeginSave
  <2>2. wanted = None
    BY <1>1, <2>1 DEF SaveIsOrdered
  <2>. QED
    BY <2>1, <2>2 DEF File!Contract!Ask
<1>4. CASE File!SaveStep
  <2>1. CASE save = <<"rename">>
    <3>1. /\ claimFile' = tmp /\ wanted' = None
      BY <1>4, <2>1 DEF File!SaveStep
    <3>2. tmp = wanted /\ wanted # None
      BY <1>1, <2>1 DEF SaveIsOrdered
    <3>. QED
      BY <3>1, <3>2 DEF File!Contract!Replace
  <2>2. CASE save # <<"rename">>
    <3>1. save \in {<<"open", "write", "rename">>, <<"write", "rename">>}
      BY <1>1, <1>4, <2>2 DEF SaveIsOrdered, File!SaveStep
    <3>2. claimFile' = claimFile /\ wanted' = wanted
      BY <1>4, <3>1 DEF File!SaveStep
    <3>. QED
      BY <3>2 DEF File!Contract!SameClaims
  <2>. QED
    BY <2>1, <2>2
<1>5. CASE File!FailSave \/ File!Crash
  <2>1. claimFile' = claimFile /\ wanted' = None /\ interrupted'
    BY <1>5 DEF File!FailSave, File!Crash
  <2>. QED
    BY <2>1 DEF File!Contract!Abandon
<1>. QED
  BY <1>2, <1>3, <1>4, <1>5, OtherSteps DEF FileSave

LEMMA FileInterruption == File!Next => (interrupted => interrupted')
  BY DEF File!Next, File!OpenLog, File!LockLog, File!WritePart, File!WriteJson,
     File!WriteNewline, File!SyncLog, File!FailAppend, File!BeginSave, File!SaveStep,
     File!FailSave, File!Crash

LEMMA FilesFollowContract == FileInv /\ File!Next => File!Contract!Next
  BY FileBlocksStep, FileClaimsStep, FileInterruption DEF File!Contract!Next

-----------------------------------------------------------------------------
(* Trees, and what is read of them. *)

IsTree(rows) == rows \in SUBSET Rows /\ IsFiniteSet(rows) /\ KeysInOrder(rows)

Below(rows, row) == {other \in rows : other[1] <= row[1]}
Place(rows, row) == Cardinality(Below(rows, row))
ReadTree(rows) ==
    [n \in 1..Cardinality(rows) |-> (CHOOSE row \in rows : Place(rows, row) = n)[2]]

\* The database's own Cardinality is that of the theorems on finite sets.
LEMMA SameCardinality == \A rows : Sled!Cardinality(rows) = Cardinality(rows)
BY DEF Sled!Cardinality, Cardinality, Sled!IsFiniteSet, IsFiniteSet

LEMMA TreeIsRead == \A state : Sled!LoadBlocks(state) = ReadTree(state.rows)
BY DEF Sled!LoadBlocks, Sled!Rank, Sled!Cardinality, ReadTree, Place, Below, Cardinality

LEMMA RowTypes ==
    ASSUME NEW rows, IsTree(rows), NEW row \in rows
    PROVE  row \in Rows /\ row[1] \in Nat /\ row[2] \in Nat /\ row[2] \in Sled!Blocks
<1>1. row \in Rows
  BY DEF IsTree
<1>2. row[1] \in Nat /\ row[2] \in Sled!Blocks
  BY <1>1 DEF Rows
<1>3. row[2] \in Nat
  BY <1>2, BoundAssumption DEF Sled!Blocks
<1>. QED
  BY <1>1, <1>2, <1>3

LEMMA PlaceTypes ==
    ASSUME NEW rows, IsTree(rows), NEW row \in rows
    PROVE  Place(rows, row) \in 1..Cardinality(rows)
<1>. DEFINE below == Below(rows, row)
<1>1. IsFiniteSet(rows) /\ below \in SUBSET rows /\ row \in below
  BY RowTypes DEF IsTree, Below
<1>. HIDE DEF below
<1>2. IsFiniteSet(below) /\ Cardinality(below) <= Cardinality(rows)
  BY <1>1, FS_Subset
<1>3. Cardinality(below) \in Nat /\ Cardinality(rows) \in Nat
  BY <1>1, <1>2, FS_CardinalityType
<1>4. Cardinality(below) # 0
  BY <1>1, <1>2, FS_EmptySet
<1>. QED
  BY <1>2, <1>3, <1>4 DEF Place, below

LEMMA PlacesAreOrdered ==
    ASSUME NEW rows, IsTree(rows), NEW r \in rows, NEW s \in rows, r[1] < s[1]
    PROVE  Place(rows, r) < Place(rows, s)
<1>. DEFINE first == Below(rows, r)
            second == Below(rows, s)
<1>1. IsFiniteSet(rows) /\ second \in SUBSET rows
  BY DEF IsTree, Below
<1>2. \A row \in rows : row[1] \in Nat
  BY RowTypes
<1>3. first \in SUBSET second /\ s \in second /\ s \notin first
  BY <1>2 DEF Below
<1>. HIDE DEF first, second
<1>4. IsFiniteSet(second)
  BY <1>1, FS_Subset
<1>5. /\ IsFiniteSet(first) /\ Cardinality(first) <= Cardinality(second)
      /\ Cardinality(second) = Cardinality(first) => second = first
  BY <1>3, <1>4, FS_Subset
<1>6. Cardinality(first) \in Nat /\ Cardinality(second) \in Nat
  BY <1>4, <1>5, FS_CardinalityType
<1>7. Cardinality(first) < Cardinality(second)
  BY <1>3, <1>5, <1>6
<1>. QED
  BY <1>7 DEF Place, first, second

\* Two rows are in the order of their places, and one row is in each place.
LEMMA PlacesTell ==
    ASSUME NEW rows, IsTree(rows), NEW r \in rows, NEW s \in rows
    PROVE  /\ Place(rows, r) = Place(rows, s) => r = s
           /\ Place(rows, r) < Place(rows, s) => r[2] < s[2]
<1>1. r[1] \in Nat /\ s[1] \in Nat
  BY RowTypes
<1>2. Place(rows, r) \in Nat /\ Place(rows, s) \in Nat
  BY PlaceTypes
<1>3. /\ r[1] < s[1] => r[2] < s[2]
      /\ r[1] = s[1] => r = s
  BY DEF IsTree, KeysInOrder
<1>4. CASE r[1] < s[1]
  BY <1>2, <1>3, <1>4, PlacesAreOrdered
<1>5. CASE s[1] < r[1]
  BY <1>2, <1>5, PlacesAreOrdered
<1>6. CASE r[1] = s[1]
  BY <1>2, <1>3, <1>6
<1>. QED
  BY <1>1, <1>4, <1>5, <1>6

LEMMA PlacesAreTaken ==
    ASSUME NEW rows, IsTree(rows), NEW n \in 1..Cardinality(rows)
    PROVE  \E row \in rows : Place(rows, row) = n
<1>. DEFINE places == 1..Cardinality(rows)
            f == [row \in rows |-> Place(rows, row)]
<1>1. IsFiniteSet(rows) /\ Cardinality(rows) \in Nat
  BY FS_CardinalityType DEF IsTree
<1>2. IsFiniteSet(places) /\ Cardinality(places) = Cardinality(rows)
  BY <1>1, FS_Interval
<1>3. f \in [rows -> places]
  BY PlaceTypes
<1>4. \A r, s \in rows : f[r] = f[s] => r = s
  BY PlacesTell
<1>. HIDE DEF f, places
<1>5. f \in Injection(rows, places)
  BY <1>3, <1>4 DEF Injection, IsInjective
<1>6. f \in Surjection(rows, places)
  BY <1>2, <1>5, FS_Injection
<1>7. \E row \in rows : f[row] = n
  BY <1>6 DEF Surjection, places
<1>. QED
  BY <1>7 DEF f

\* The blocks are read in the order of their rows.
LEMMA ReadInOrder ==
    ASSUME NEW rows, IsTree(rows)
    PROVE  /\ ReadTree(rows) \in Seq(Sled!Blocks) /\ Len(ReadTree(rows)) = Cardinality(rows)
           /\ DOMAIN ReadTree(rows) = 1..Cardinality(rows) /\ Cardinality(rows) \in Nat
           /\ \A row \in rows : ReadTree(rows)[Place(rows, row)] = row[2]
           /\ \A n \in 1..Cardinality(rows) :
                \E row \in rows : Place(rows, row) = n /\ ReadTree(rows)[n] = row[2]
           /\ \A i, j \in 1..Cardinality(rows) :
                i < j => ReadTree(rows)[i] < ReadTree(rows)[j]
<1>1. Cardinality(rows) \in Nat
  BY FS_CardinalityType DEF IsTree
<1>2. ASSUME NEW n \in 1..Cardinality(rows)
      PROVE  \E row \in rows : Place(rows, row) = n /\ ReadTree(rows)[n] = row[2]
  <2>. DEFINE row == CHOOSE row \in rows : Place(rows, row) = n
  <2>1. row \in rows /\ Place(rows, row) = n
    BY PlacesAreTaken
  <2>2. ReadTree(rows)[n] = row[2]
    BY DEF ReadTree
  <2>. QED
    BY <2>1, <2>2
<1>3. ASSUME NEW row \in rows
      PROVE  ReadTree(rows)[Place(rows, row)] = row[2]
  BY <1>2, PlaceTypes, PlacesTell
<1>4. ReadTree(rows) \in [1..Cardinality(rows) -> Sled!Blocks]
  <2>1. \A n \in 1..Cardinality(rows) : ReadTree(rows)[n] \in Sled!Blocks
    BY <1>2, RowTypes
  <2>. QED
    BY <2>1 DEF ReadTree
<1>5. ReadTree(rows) \in Seq(Sled!Blocks) /\ Len(ReadTree(rows)) = Cardinality(rows)
  BY <1>1, <1>4, FunctionIsSeq
<1>6. ASSUME NEW i \in 1..Cardinality(rows), NEW j \in 1..Cardinality(rows), i < j
      PROVE  ReadTree(rows)[i] < ReadTree(rows)[j]
  BY <1>2, <1>6, PlacesTell
<1>7. DOMAIN ReadTree(rows) = 1..Cardinality(rows)
  BY DEF ReadTree
<1>. QED
  BY <1>1, <1>2, <1>3, <1>5, <1>6, <1>7

\* A tree that goes on where another ends is read as the other is, and more.
LEMMA ReadContinues ==
    ASSUME NEW rows, NEW more, IsTree(rows), IsTree(more), Continues(rows, more)
    PROVE  /\ Cardinality(rows) <= Cardinality(more)
           /\ Cardinality(rows) = Cardinality(more) => rows = more
           /\ \A n \in 1..Cardinality(rows) : ReadTree(more)[n] = ReadTree(rows)[n]
<1>1. rows \in SUBSET more /\ IsFiniteSet(more)
  BY DEF Continues, IsTree
<1>2. /\ Cardinality(rows) <= Cardinality(more)
      /\ Cardinality(more) = Cardinality(rows) => more = rows
  BY <1>1, FS_Subset
<1>3. ASSUME NEW row \in rows
      PROVE  Place(more, row) = Place(rows, row)
  <2>1. \A other \in more : other[1] \in Nat
    BY RowTypes
  <2>2. \A other \in more \ rows : row[1] < other[1]
    BY DEF Continues
  <2>3. Below(more, row) = Below(rows, row)
    BY <1>1, <2>1, <2>2 DEF Below
  <2>. QED
    BY <2>3 DEF Place
<1>4. ASSUME NEW n \in 1..Cardinality(rows)
      PROVE  ReadTree(more)[n] = ReadTree(rows)[n]
  <2>1. PICK row \in rows : Place(rows, row) = n /\ ReadTree(rows)[n] = row[2]
    BY ReadInOrder
  <2>2. ReadTree(more)[Place(more, row)] = row[2]
    BY <1>1, ReadInOrder
  <2>. QED
    BY <1>3, <2>1, <2>2
<1>. QED
  BY <1>2, <1>4

-----------------------------------------------------------------------------
(* The steps of the database. *)

LEMMA StatesAreStates ==
    ASSUME SledTypes
    PROVE  /\ Len(states) \in Nat \ {0} /\ DOMAIN states = 1..Len(states)
           /\ \A n \in DOMAIN states : states[n] \in States
           /\ Len(states) \in DOMAIN states /\ 1 \in DOMAIN states
           /\ last \in States /\ Sled!db = last /\ Head(states) = states[1]
<1>1. states \in Seq(States) /\ states # <<>>
  BY DEF SledTypes
<1>2. Len(states) \in Nat \ {0} /\ DOMAIN states = 1..Len(states)
  BY <1>1, EmptySeq, LenProperties
<1>3. \A n \in DOMAIN states : states[n] \in States
  BY <1>1, <1>2, ElementOfSeq
<1>4. Len(states) \in DOMAIN states /\ 1 \in DOMAIN states
  BY <1>2
<1>5. Sled!db = last
  BY DEF Sled!db, Sled!Last, last
<1>6. Head(states) = states[1]
  BY <1>1
<1>. QED
  BY <1>2, <1>3, <1>4, <1>5, <1>6 DEF last

\* A state that is added, and a list that starts anew.
LEMMA OneMore ==
    ASSUME SledTypes, NEW new \in States, states' = Append(states, new)
    PROVE  /\ states' \in Seq(States) /\ states' # <<>>
           /\ Len(states') = Len(states) + 1 /\ DOMAIN states' = 1..(Len(states) + 1)
           /\ \A n \in DOMAIN states : states'[n] = states[n]
           /\ states'[Len(states) + 1] = new /\ last' = new
           /\ states'[1] = states[1]
<1>1. states \in Seq(States)
  BY DEF SledTypes
<1>2. /\ Append(states, new) \in Seq(States) /\ Append(states, new) # <<>>
      /\ Len(Append(states, new)) = Len(states) + 1
  BY <1>1, AppendProperties
<1>3. /\ DOMAIN Append(states, new) = 1..(Len(states) + 1)
      /\ \A n \in 1..Len(states) : Append(states, new)[n] = states[n]
      /\ Append(states, new)[Len(states) + 1] = new
  BY <1>1, AppendToSeq
<1>4. DOMAIN states = 1..Len(states) /\ 1 \in DOMAIN states
  BY StatesAreStates
<1>5. last' = new
  BY <1>2, <1>3 DEF last
<1>. QED
  BY <1>2, <1>3, <1>4, <1>5

LEMMA OneOnly ==
    ASSUME NEW only \in States, states' = <<only>>
    PROVE  /\ states' \in Seq(States) /\ states' # <<>> /\ Len(states') = 1
           /\ DOMAIN states' = {1} /\ states'[1] = only /\ last' = only
<1>1. /\ <<only>> \in Seq(States) /\ <<only>> # <<>> /\ Len(<<only>>) = 1
      /\ DOMAIN <<only>> = {1} /\ <<only>>[1] = only
  OBVIOUS
<1>2. last' = only
  BY <1>1 DEF last
<1>. QED
  BY <1>1, <1>2

\* The steps left of a call, told apart.
LEMMA StepsDiffer ==
    /\ <<>> \notin {ToInsert, ToFlush, ToHeight, ToHash, ToEnd, ToClear, ToFill}
    /\ ToInsert \notin {ToFlush, ToHeight, ToHash, ToEnd, ToClear, ToFill}
    /\ ToFlush \notin {ToHeight, ToHash, ToEnd, ToClear, ToFill}
    /\ ToHeight \notin {ToHash, ToEnd, ToClear, ToFill}
    /\ ToHash \notin {ToEnd, ToClear, ToFill}
    /\ ToEnd \notin {ToClear, ToFill}
    /\ ToClear # ToFill
BY DEF ToInsert, Sled!AppendSteps, ToFlush, ToHeight, ToHash, ToEnd, ToClear, ToFill

LEMMA StepsAt ==
    ASSUME SledTypes
    PROVE  /\ Sled!At("insert") => call = ToInsert
           /\ Sled!At("height") => call = ToHeight
           /\ Sled!At("hash") => call = ToHash
           /\ Sled!At("flush") => call \in {ToFlush, ToEnd}
           /\ Sled!At("clear") => call = ToClear
           /\ Sled!At("fill") => call = ToFill
<1>1. call \in {<<>>, ToInsert, ToFlush, ToHeight, ToHash, ToEnd, ToClear, ToFill}
  BY DEF SledTypes
<1>. QED
  BY <1>1 DEF Sled!At, ToInsert, Sled!AppendSteps, ToFlush, ToHeight, ToHash, ToEnd,
     ToClear, ToFill

LEMMA StepsAdvance ==
    ASSUME SledTypes, Sled!Advance
    PROVE  /\ call = ToInsert => call' = ToFlush
           /\ call = ToFlush => call' = ToHeight
           /\ call = ToHeight => call' = ToHash
           /\ call = ToHash => call' = ToEnd
           /\ call = ToClear => call' = ToFill
           /\ call = ToFill => call' = ToEnd
           /\ call \in {ToInsert, ToFlush, ToHeight, ToHash, ToClear, ToFill} =>
                UNCHANGED <<inserting, wanted, acked>>
           /\ call = ToEnd =>
                /\ call' = <<>> /\ inserting' = None /\ wanted' = None
                /\ acked' = IF inserting = None THEN acked ELSE acked \cup {inserting}
<1>1. /\ Tail(ToInsert) = ToFlush /\ Tail(ToFlush) = ToHeight /\ Tail(ToHeight) = ToHash
      /\ Tail(ToHash) = ToEnd /\ Tail(ToClear) = ToFill /\ Tail(ToFill) = ToEnd
      /\ Tail(ToEnd) = <<>>
  BY DEF ToInsert, Sled!AppendSteps, ToFlush, ToHeight, ToHash, ToEnd, ToClear, ToFill
<1>2. /\ \A c \in {ToInsert, ToFlush, ToHeight, ToHash, ToClear, ToFill} : Len(c) > 1
      /\ ~(Len(ToEnd) > 1)
  BY DEF ToInsert, Sled!AppendSteps, ToFlush, ToHeight, ToHash, ToEnd, ToClear, ToFill
<1>3. call' = Tail(call)
  BY DEF Sled!Advance
<1>4. /\ call \in {ToInsert, ToFlush, ToHeight, ToHash, ToClear, ToFill} =>
            UNCHANGED <<inserting, wanted, acked>>
      /\ call = ToEnd =>
            /\ inserting' = None /\ wanted' = None
            /\ acked' = IF inserting = None THEN acked ELSE acked \cup {inserting}
  BY <1>2 DEF Sled!Advance
<1>. QED
  BY <1>1, <1>3, <1>4

\* What each operation does.
LEMMA InsertBlockDoes ==
    ASSUME SledInv, Sled!InsertBlock
    PROVE  /\ call = ToInsert /\ call' = ToFlush
           /\ states' = Append(states,
                [last EXCEPT !.rows = last.rows \cup {<<nextId, inserting>>}])
           /\ nextId' = nextId + 1
           /\ UNCHANGED <<inserting, wanted, acked, remaining, minted, interrupted>>
<1>1. SledTypes /\ TreesAreInOrder
  BY DEF SledInv
<1>2. call = ToInsert /\ call' = ToFlush /\ UNCHANGED <<inserting, wanted, acked>>
  BY <1>1, StepsAt, StepsAdvance DEF Sled!InsertBlock
<1>3. last \in States /\ Sled!db = last /\ \A row \in last.rows : row[1] < nextId /\ row[1] \in Nat
  <2>1. \A row \in last.rows : row[1] < nextId
    BY <1>1, StatesAreStates DEF TreesAreInOrder, last
  <2>2. \A row \in last.rows : row[1] \in Nat
    BY <1>1, StatesAreStates DEF States, Rows
  <2>. QED
    BY <1>1, <2>1, <2>2, StatesAreStates
<1>4. {row \in last.rows : row[1] # nextId} = last.rows
  BY <1>1, <1>3 DEF SledTypes
<1>5. states' = Append(states, [last EXCEPT !.rows =
        {row \in last.rows : row[1] # nextId} \cup {<<nextId, inserting>>}])
  BY <1>3 DEF Sled!InsertBlock, Sled!Operate, States
<1>. QED
  BY <1>2, <1>4, <1>5 DEF Sled!InsertBlock

LEMMA SetHeightDoes ==
    ASSUME SledInv, Sled!SetHeight
    PROVE  /\ call = ToHeight /\ call' = ToHash
           /\ states' = Append(states, [last EXCEPT !.height = last.height + 1])
           /\ UNCHANGED <<inserting, wanted, acked, nextId, remaining, minted, interrupted>>
<1>1. SledTypes
  BY DEF SledInv
<1>2. call = ToHeight /\ call' = ToHash /\ UNCHANGED <<inserting, wanted, acked>>
  BY <1>1, StepsAt, StepsAdvance DEF Sled!SetHeight
<1>3. last \in States /\ Sled!db = last
  BY <1>1, StatesAreStates
<1>4. states' = Append(states, [last EXCEPT !.height = last.height + 1])
  BY <1>3 DEF Sled!SetHeight, Sled!Operate, States
<1>. QED
  BY <1>2, <1>4 DEF Sled!SetHeight

LEMMA SetHashDoes ==
    ASSUME SledInv, Sled!SetHash
    PROVE  /\ call = ToHash /\ call' = ToEnd
           /\ states' = Append(states, [last EXCEPT !.hash = inserting])
           /\ UNCHANGED <<inserting, wanted, acked, nextId, remaining, minted, interrupted>>
<1>1. SledTypes
  BY DEF SledInv
<1>2. call = ToHash /\ call' = ToEnd /\ UNCHANGED <<inserting, wanted, acked>>
  BY <1>1, StepsAt, StepsAdvance DEF Sled!SetHash
<1>3. states' = Append(states, [last EXCEPT !.hash = inserting])
  BY <1>1, StatesAreStates DEF Sled!SetHash, Sled!Operate
<1>. QED
  BY <1>2, <1>3 DEF Sled!SetHash

LEMMA FlushDoes ==
    ASSUME SledInv, Sled!Flush
    PROVE  /\ states' = <<last>>
           /\ UNCHANGED <<nextId, remaining, minted, interrupted>>
           /\ \/ /\ call = ToFlush /\ call' = ToHeight
                 /\ UNCHANGED <<inserting, wanted, acked>>
              \/ /\ call = ToEnd /\ call' = <<>> /\ inserting' = None /\ wanted' = None
                 /\ acked' = IF inserting = None THEN acked ELSE acked \cup {inserting}
<1>1. SledTypes
  BY DEF SledInv
<1>2. call \in {ToFlush, ToEnd} /\ Sled!Advance
  BY <1>1, StepsAt DEF Sled!Flush
<1>3. states' = <<last>> /\ UNCHANGED <<nextId, remaining, minted, interrupted>>
  BY <1>1, StatesAreStates DEF Sled!Flush
<1>. QED
  BY <1>1, <1>2, <1>3, StepsAdvance

LEMMA ClearClaimDoes ==
    ASSUME SledInv, Sled!ClearClaim
    PROVE  /\ call = ToClear
           /\ \E c \in last.claims :
                states' = Append(states, [last EXCEPT !.claims = last.claims \ {c}])
           /\ UNCHANGED <<call, inserting, wanted, acked, nextId, remaining, minted, interrupted>>
<1>1. SledTypes
  BY DEF SledInv
<1>2. call = ToClear
  BY <1>1, StepsAt DEF Sled!ClearClaim
<1>3. last \in States /\ Sled!db = last
  BY <1>1, StatesAreStates
<1>4. \E c \in last.claims :
        states' = Append(states, [last EXCEPT !.claims = last.claims \ {c}])
  BY <1>3 DEF Sled!ClearClaim, Sled!Operate, States
<1>. QED
  BY <1>2, <1>4 DEF Sled!ClearClaim, Sled!caller

LEMMA ClaimsClearedDoes ==
    ASSUME SledInv, Sled!ClaimsCleared
    PROVE  /\ call = ToClear /\ call' = ToFill /\ last.claims = {}
           /\ UNCHANGED <<states, inserting, wanted, acked, nextId, remaining, minted,
                          interrupted>>
<1>1. SledTypes
  BY DEF SledInv
<1>2. call = ToClear /\ call' = ToFill /\ UNCHANGED <<inserting, wanted, acked>>
  BY <1>1, StepsAt, StepsAdvance DEF Sled!ClaimsCleared
<1>. QED
  BY <1>1, <1>2, StatesAreStates DEF Sled!ClaimsCleared

LEMMA InsertClaimDoes ==
    ASSUME SledInv, Sled!InsertClaim
    PROVE  /\ call = ToFill
           /\ \E c \in remaining :
                /\ states' = Append(states, [last EXCEPT !.claims = last.claims \cup {c}])
                /\ remaining' = remaining \ {c}
           /\ UNCHANGED <<call, inserting, wanted, acked, nextId, minted, interrupted>>
<1>1. SledTypes
  BY DEF SledInv
<1>2. call = ToFill
  BY <1>1, StepsAt DEF Sled!InsertClaim
<1>3. last \in States /\ Sled!db = last
  BY <1>1, StatesAreStates
<1>4. \E c \in remaining :
        /\ states' = Append(states, [last EXCEPT !.claims = last.claims \cup {c}])
        /\ remaining' = remaining \ {c}
  BY <1>3 DEF Sled!InsertClaim, Sled!Operate, States
<1>. QED
  BY <1>2, <1>4 DEF Sled!InsertClaim

LEMMA ClaimsInsertedDoes ==
    ASSUME SledInv, Sled!ClaimsInserted
    PROVE  /\ call = ToFill /\ call' = ToEnd /\ remaining = {}
           /\ UNCHANGED <<states, inserting, wanted, acked, nextId, remaining, minted,
                          interrupted>>
<1>1. SledTypes
  BY DEF SledInv
<1>2. call = ToFill /\ call' = ToEnd /\ UNCHANGED <<inserting, wanted, acked>>
  BY <1>1, StepsAt, StepsAdvance DEF Sled!ClaimsInserted
<1>. QED
  BY <1>2 DEF Sled!ClaimsInserted

LEMMA AppendCallDoes ==
    ASSUME SledInv, Sled!AppendCall
    PROVE  /\ call = <<>> /\ call' = ToInsert
           /\ minted' = minted + 1 /\ inserting' = minted + 1 /\ minted + 1 \in Sled!Blocks
           /\ UNCHANGED <<states, nextId, remaining, wanted, acked, interrupted>>
<1>1. minted \in Nat /\ minted < MaxBlocks
  BY DEF SledInv, SledTypes, Sled!AppendCall
<1>2. minted + 1 \in Sled!Blocks
  BY <1>1, BoundAssumption DEF Sled!Blocks
<1>. QED
  BY <1>2 DEF Sled!AppendCall, ToInsert

LEMMA SaveCallDoes ==
    ASSUME SledInv, Sled!SaveCall
    PROVE  /\ call = <<>> /\ call' = ToClear
           /\ wanted' \subseteq Claims /\ wanted' # None /\ remaining' = wanted'
           /\ UNCHANGED <<states, nextId, inserting, minted, acked, interrupted>>
<1>1. wanted' \subseteq Claims
  BY DEF Sled!SaveCall
<1>2. wanted' # None
  BY <1>1, NoneAssumption
<1>. QED
  BY <1>1, <1>2 DEF Sled!SaveCall, ToClear

LEMMA CrashDoes ==
    ASSUME SledInv, Sled!Crash
    PROVE  /\ \E n \in DOMAIN states : states' = <<states[n]>>
           /\ call' = <<>> /\ inserting' = None /\ remaining' = {} /\ wanted' = None
           /\ UNCHANGED <<nextId, minted, acked>>
BY DEF Sled!Crash, Sled!IdAfterCrash

\* The state that an operation adds.
LEMMA InsertedState ==
    ASSUME SledInv, Sled!InsertBlock
    PROVE  LET new == [last EXCEPT !.rows = last.rows \cup {<<nextId, inserting>>}]
           IN  /\ new \in States /\ states' = Append(states, new)
               /\ new.rows = last.rows \cup {<<nextId, inserting>>}
               /\ new.claims = last.claims /\ new.height = last.height /\ new.hash = last.hash
               /\ <<nextId, inserting>> \in Rows /\ inserting \in Sled!Blocks
<1>1. call = ToInsert /\ states' = Append(states,
        [last EXCEPT !.rows = last.rows \cup {<<nextId, inserting>>}])
  BY InsertBlockDoes
<1>2. SledTypes /\ AppendIsOrdered
  BY DEF SledInv
<1>3. last \in States /\ nextId \in Nat /\ inserting \in Sled!Blocks
  BY <1>1, <1>2, StatesAreStates DEF SledTypes, AppendIsOrdered
<1>4. <<nextId, inserting>> \in Rows
  BY <1>3 DEF Rows
<1>. QED
  BY <1>1, <1>3, <1>4 DEF States

LEMMA HeightenedState ==
    ASSUME SledInv, Sled!SetHeight
    PROVE  LET new == [last EXCEPT !.height = last.height + 1]
           IN  /\ new \in States /\ states' = Append(states, new)
               /\ new.rows = last.rows /\ new.claims = last.claims
               /\ new.height = last.height + 1 /\ new.hash = last.hash
<1>1. states' = Append(states, [last EXCEPT !.height = last.height + 1])
  BY SetHeightDoes
<1>2. last \in States
  BY StatesAreStates DEF SledInv
<1>. QED
  BY <1>1, <1>2 DEF States

LEMMA HashedState ==
    ASSUME SledInv, Sled!SetHash
    PROVE  LET new == [last EXCEPT !.hash = inserting]
           IN  /\ new \in States /\ states' = Append(states, new)
               /\ new.rows = last.rows /\ new.claims = last.claims
               /\ new.height = last.height /\ new.hash = inserting
<1>1. states' = Append(states, [last EXCEPT !.hash = inserting])
  BY SetHashDoes
<1>2. last \in States /\ inserting \in Sled!Blocks \cup {None}
  BY StatesAreStates DEF SledInv, SledTypes
<1>. QED
  BY <1>1, <1>2 DEF States

LEMMA ClearedState ==
    ASSUME SledInv, NEW c, states' = Append(states, [last EXCEPT !.claims = last.claims \ {c}])
    PROVE  LET new == [last EXCEPT !.claims = last.claims \ {c}]
           IN  /\ new \in States /\ states' = Append(states, new)
               /\ new.rows = last.rows /\ new.claims = last.claims \ {c}
               /\ new.height = last.height /\ new.hash = last.hash
<1>1. last \in States
  BY StatesAreStates DEF SledInv
<1>. QED
  BY <1>1 DEF States

LEMMA FilledState ==
    ASSUME SledInv, NEW c \in Claims,
           states' = Append(states, [last EXCEPT !.claims = last.claims \cup {c}])
    PROVE  LET new == [last EXCEPT !.claims = last.claims \cup {c}]
           IN  /\ new \in States /\ states' = Append(states, new)
               /\ new.rows = last.rows /\ new.claims = last.claims \cup {c}
               /\ new.height = last.height /\ new.hash = last.hash
<1>1. last \in States
  BY StatesAreStates DEF SledInv
<1>. QED
  BY <1>1 DEF States

\* How the list of states changes.
Kept == states' = states /\ nextId' = nextId
Touched(new) ==
    /\ states' = Append(states, new) /\ new.rows = last.rows
    /\ nextId' = nextId /\ minted' = minted
Restarted(n) == states' = <<states[n]>> /\ nextId' = nextId /\ minted' = minted

LEMMA StatesChange ==
    ASSUME SledInv, Sled!Next
    PROVE  \/ Kept /\ (minted' = minted \/ Sled!AppendCall)
           \/ \E new \in States : Touched(new)
           \/ Sled!InsertBlock
           \/ \E n \in DOMAIN states : Restarted(n)
<1>0. SledTypes
  BY DEF SledInv
<1>1. CASE Sled!AppendCall
  BY <1>1, AppendCallDoes DEF Kept
<1>2. CASE Sled!SaveCall
  BY <1>2, SaveCallDoes DEF Kept
<1>3. CASE Sled!SetHeight
  BY <1>3, HeightenedState, SetHeightDoes DEF Touched
<1>4. CASE Sled!SetHash
  BY <1>4, HashedState, SetHashDoes DEF Touched
<1>5. CASE Sled!Flush
  BY <1>0, <1>5, FlushDoes, StatesAreStates DEF Restarted, last
<1>6. CASE Sled!ClearClaim
  <2>1. PICK c \in last.claims :
          states' = Append(states, [last EXCEPT !.claims = last.claims \ {c}])
    BY <1>6, ClearClaimDoes
  <2>. QED
    BY <1>6, <2>1, ClearedState, ClearClaimDoes DEF Touched
<1>7. CASE Sled!ClaimsCleared
  BY <1>7, ClaimsClearedDoes DEF Kept
<1>8. CASE Sled!InsertClaim
  <2>1. PICK c \in remaining :
          states' = Append(states, [last EXCEPT !.claims = last.claims \cup {c}])
    BY <1>8, InsertClaimDoes
  <2>2. c \in Claims
    BY <1>0 DEF SledTypes
  <2>. QED
    BY <1>8, <2>1, <2>2, FilledState, InsertClaimDoes DEF Touched
<1>9. CASE Sled!ClaimsInserted
  BY <1>9, ClaimsInsertedDoes DEF Kept
<1>10. CASE Sled!Fail
  BY <1>10 DEF Sled!Fail, Kept
<1>11. CASE Sled!Crash
  BY <1>11, CrashDoes DEF Restarted
<1>. QED
  BY <1>1, <1>2, <1>3, <1>4, <1>5, <1>6, <1>7, <1>8, <1>9, <1>10, <1>11 DEF Sled!Next

LEMMA NextStates ==
    ASSUME SledInv, Sled!Next
    PROVE  states' \in Seq(States) /\ states' # <<>>
<1>0. SledTypes
  BY DEF SledInv
<1>1. CASE Kept
  BY <1>0, <1>1 DEF Kept, SledTypes
<1>2. CASE \E new \in States : Touched(new)
  BY <1>0, <1>2, OneMore DEF Touched
<1>3. CASE Sled!InsertBlock
  BY <1>0, <1>3, OneMore, InsertedState
<1>4. CASE \E n \in DOMAIN states : Restarted(n)
  BY <1>0, <1>4, OneOnly, StatesAreStates DEF Restarted
<1>. QED
  BY <1>1, <1>2, <1>3, <1>4, StatesChange

LEMMA NextSledTypes ==
    ASSUME SledInv, Sled!Next
    PROVE  SledTypes'
<1>1. states' \in Seq(States) /\ states' # <<>>
  BY NextStates
<1>2. SledTypes
  BY DEF SledInv
<1>3. nextId \in Nat /\ minted \in Nat /\ interrupted \in BOOLEAN
  BY <1>2 DEF SledTypes
<1>4. nextId' \in Nat
  BY <1>3, StatesChange, InsertBlockDoes DEF Kept, Touched, Restarted
<1>5. minted' \in Nat
  <2>1. minted' = minted \/ minted' = minted + 1
    BY StatesChange, InsertBlockDoes, AppendCallDoes DEF Kept, Touched, Restarted
  <2>. QED
    BY <1>3, <2>1
<1>. DEFINE Calls == {<<>>, ToInsert, ToFlush, ToHeight, ToHash, ToEnd, ToClear, ToFill}
<1>6. /\ call \in Calls /\ inserting \in Sled!Blocks \cup {None}
      /\ remaining \subseteq Claims /\ (wanted = None \/ wanted \subseteq Claims)
      /\ acked \subseteq Sled!Blocks
  BY <1>2 DEF SledTypes
<1>7. call' \in Calls
  BY <1>6, AppendCallDoes, SaveCallDoes, InsertBlockDoes, SetHeightDoes, SetHashDoes, FlushDoes,
     ClearClaimDoes, ClaimsClearedDoes, InsertClaimDoes, ClaimsInsertedDoes, CrashDoes
     DEF Sled!Next, Sled!Fail
<1>8. inserting' \in Sled!Blocks \cup {None}
  BY <1>6, AppendCallDoes, SaveCallDoes, InsertBlockDoes, SetHeightDoes, SetHashDoes, FlushDoes,
     ClearClaimDoes, ClaimsClearedDoes, InsertClaimDoes, ClaimsInsertedDoes, CrashDoes
     DEF Sled!Next, Sled!Fail
<1>9. remaining' \subseteq Claims
  BY <1>6, AppendCallDoes, SaveCallDoes, InsertBlockDoes, SetHeightDoes, SetHashDoes, FlushDoes,
     ClearClaimDoes, ClaimsClearedDoes, InsertClaimDoes, ClaimsInsertedDoes, CrashDoes
     DEF Sled!Next, Sled!Fail
<1>10. wanted' = None \/ wanted' \subseteq Claims
  BY <1>6, AppendCallDoes, SaveCallDoes, InsertBlockDoes, SetHeightDoes, SetHashDoes, FlushDoes,
     ClearClaimDoes, ClaimsClearedDoes, InsertClaimDoes, ClaimsInsertedDoes, CrashDoes
     DEF Sled!Next, Sled!Fail
<1>11. acked' \subseteq Sled!Blocks
  BY <1>6, AppendCallDoes, SaveCallDoes, InsertBlockDoes, SetHeightDoes, SetHashDoes, FlushDoes,
     ClearClaimDoes, ClaimsClearedDoes, InsertClaimDoes, ClaimsInsertedDoes, CrashDoes
     DEF Sled!Next, Sled!Fail
<1>12. interrupted' \in BOOLEAN
  BY <1>3 DEF Sled!Next, Sled!AppendCall, Sled!InsertBlock, Sled!SetHeight, Sled!SetHash,
     Sled!Flush, Sled!SaveCall, Sled!ClearClaim, Sled!ClaimsCleared, Sled!InsertClaim,
     Sled!ClaimsInserted, Sled!Fail, Sled!Crash
<1>. QED
  BY <1>1, <1>4, <1>5, <1>7, <1>8, <1>9, <1>10, <1>11, <1>12
     DEF SledTypes, Sled!Blocks, States, Rows, ToInsert, Sled!AppendSteps, ToFlush, ToHeight,
         ToHash, ToEnd, ToClear, ToFill


\* Each state of the database has a tree.
LEMMA TreesAreTrees ==
    ASSUME SledInv
    PROVE  /\ \A n \in DOMAIN states : IsTree(states[n].rows)
           /\ IsTree(last.rows)
           /\ \A n \in DOMAIN states : Continues(states[n].rows, last.rows)
<1>1. SledTypes /\ TreesAreInOrder
  BY DEF SledInv
<1>2. ASSUME NEW n \in DOMAIN states
      PROVE  IsTree(states[n].rows)
  <2>1. states[n].rows \subseteq Rows
    BY <1>1, StatesAreStates DEF States
  <2>. QED
    BY <1>1, <2>1 DEF IsTree, TreesAreInOrder
<1>3. Len(states) \in DOMAIN states /\ DOMAIN states = 1..Len(states) /\ Len(states) \in Nat
  BY <1>1, StatesAreStates
<1>4. \A n \in DOMAIN states : n <= Len(states)
  BY <1>3
<1>. QED
  BY <1>1, <1>2, <1>3, <1>4 DEF last, TreesAreInOrder

\* A row with the newest key and the newest block.
LEMMA AddRow ==
    ASSUME NEW rows, IsTree(rows), NEW id \in Nat, NEW b \in Sled!Blocks,
           \A row \in rows : row[1] < id /\ row[2] < b
    PROVE  /\ IsTree(rows \cup {<<id, b>>}) /\ Continues(rows, rows \cup {<<id, b>>})
           /\ Cardinality(rows \cup {<<id, b>>}) = Cardinality(rows) + 1
<1>. DEFINE new == <<id, b>>
            more == rows \cup {new}
<1>1. new[1] = id /\ new[2] = b /\ b \in Nat /\ new \in Rows
  BY BoundAssumption DEF Sled!Blocks, Rows
<1>2. \A row \in rows : row[1] \in Nat /\ row[2] \in Nat
  BY RowTypes
<1>3. new \notin rows
  BY <1>1, <1>2
<1>4. IsFiniteSet(rows) /\ KeysInOrder(rows) /\ rows \in SUBSET Rows
  BY DEF IsTree
<1>. HIDE DEF new
<1>5. IsFiniteSet(more) /\ Cardinality(more) = Cardinality(rows) + 1
  BY <1>3, <1>4, FS_AddElement
<1>6. ASSUME NEW r \in more, NEW s \in more
      PROVE  (r[1] < s[1] => r[2] < s[2]) /\ (r[1] = s[1] => r = s)
  <2>1. CASE r \in rows /\ s \in rows
    BY <1>4, <2>1 DEF KeysInOrder
  <2>2. CASE r \in rows /\ s = new
    BY <1>1, <1>2, <2>2
  <2>3. CASE r = new /\ s \in rows
    BY <1>1, <1>2, <2>3
  <2>4. CASE r = new /\ s = new
    BY <1>1, <2>4
  <2>. QED
    BY <2>1, <2>2, <2>3, <2>4
<1>7. Continues(rows, more)
  BY <1>1 DEF Continues
<1>8. IsTree(more)
  BY <1>1, <1>4, <1>5, <1>6 DEF IsTree, KeysInOrder
<1>. QED
  BY <1>5, <1>7, <1>8 DEF new

LEMMA CountersGrow ==
    ASSUME SledInv, Sled!Next
    PROVE  /\ minted \in Nat /\ minted' \in Nat /\ minted <= minted'
           /\ nextId \in Nat /\ nextId' \in Nat /\ nextId <= nextId'
<1>1. minted \in Nat /\ nextId \in Nat
  BY DEF SledInv, SledTypes
<1>2. minted' = minted \/ minted' = minted + 1
  BY StatesChange, InsertBlockDoes, AppendCallDoes DEF Kept, Touched, Restarted
<1>3. nextId' = nextId \/ nextId' = nextId + 1
  BY StatesChange, InsertBlockDoes DEF Kept, Touched, Restarted
<1>. QED
  BY <1>1, <1>2, <1>3

\* The block that is inserted is newer than those of the tree, and so is its key.
LEMMA InsertedRow ==
    ASSUME SledInv, Sled!InsertBlock
    PROVE  LET more == last.rows \cup {<<nextId, inserting>>}
           IN  /\ IsTree(more) /\ Continues(last.rows, more)
               /\ Cardinality(more) = Cardinality(last.rows) + 1
               /\ \A row \in more : row[1] < nextId' /\ row[2] <= minted'
               /\ HasBlock(more, inserting) /\ \A row \in more : row[2] <= inserting
               /\ nextId \in Nat /\ inserting \in Nat /\ inserting \in Sled!Blocks
<1>1. SledTypes /\ TreesAreInOrder /\ AppendIsOrdered
  BY DEF SledInv
<1>2. /\ call = ToInsert /\ nextId' = nextId + 1 /\ minted' = minted
      /\ inserting \in Sled!Blocks
  BY InsertBlockDoes, InsertedState
<1>3. Len(states) \in DOMAIN states /\ last = states[Len(states)]
  BY <1>1, StatesAreStates DEF last
<1>4. \A row \in last.rows : row[1] < nextId /\ row[2] <= minted /\ row[2] < inserting
  BY <1>1, <1>2, <1>3 DEF TreesAreInOrder, AppendIsOrdered
<1>5. nextId \in Nat /\ minted \in Nat /\ inserting \in Nat
  BY <1>1, <1>2, BoundAssumption DEF SledTypes, Sled!Blocks
<1>6. inserting = minted
  BY <1>1, <1>2, <1>5, NoneAssumption DEF AppendIsOrdered
<1>. DEFINE new == <<nextId, inserting>>
            more == last.rows \cup {new}
<1>7. /\ IsTree(more) /\ Continues(last.rows, more)
      /\ Cardinality(more) = Cardinality(last.rows) + 1
  BY <1>2, <1>4, <1>5, AddRow, TreesAreTrees
<1>8. \A row \in last.rows : row[1] \in Nat /\ row[2] \in Nat
  BY RowTypes, TreesAreTrees
<1>9. new[1] = nextId /\ new[2] = inserting
  OBVIOUS
<1>. HIDE DEF new
<1>10. \A row \in more : row[1] < nextId' /\ row[2] <= minted' /\ row[2] <= inserting
  BY <1>2, <1>4, <1>5, <1>6, <1>8, <1>9
<1>11. HasBlock(more, inserting)
  BY <1>9 DEF HasBlock
<1>. QED
  BY <1>2, <1>5, <1>7, <1>10, <1>11 DEF new


\* A tree stays in order as numbers are given out.
InOrder(rows, id, m) ==
    /\ IsFiniteSet(rows) /\ KeysInOrder(rows)
    /\ \A row \in rows : row[1] < id /\ row[2] <= m

LEMMA NextTrees ==
    ASSUME SledInv, Sled!Next
    PROVE  TreesAreInOrder'
<1>1. SledTypes /\ TreesAreInOrder
  BY DEF SledInv
<1>2. /\ minted \in Nat /\ minted' \in Nat /\ minted <= minted'
      /\ nextId \in Nat /\ nextId' \in Nat /\ nextId <= nextId'
  BY CountersGrow
<1>3. /\ DOMAIN states = 1..Len(states) /\ Len(states) \in DOMAIN states
      /\ Len(states) \in Nat /\ 1 \in DOMAIN states /\ last = states[Len(states)]
  BY <1>1, StatesAreStates DEF last
<1>4. ASSUME NEW n \in DOMAIN states
      PROVE  InOrder(states[n].rows, nextId', minted')
  <2>1. \A row \in states[n].rows : row[1] \in Nat /\ row[2] \in Nat
    BY RowTypes, TreesAreTrees
  <2>2. \A row \in states[n].rows : row[1] < nextId /\ row[2] <= minted
    BY <1>1 DEF TreesAreInOrder
  <2>3. \A row \in states[n].rows : row[1] < nextId' /\ row[2] <= minted'
    BY <1>2, <2>1, <2>2
  <2>. QED
    BY <1>1, <2>3 DEF TreesAreInOrder, InOrder
<1>5. \A i, j \in DOMAIN states : i <= j => Continues(states[i].rows, states[j].rows)
  BY <1>1 DEF TreesAreInOrder
<1>6. ASSUME NEW rows
      PROVE  Continues(rows, rows)
  BY DEF Continues
<1>7. SUFFICES /\ \A n \in DOMAIN states' : InOrder(states'[n].rows, nextId', minted')
               /\ \A i, j \in DOMAIN states' :
                    i <= j => Continues(states'[i].rows, states'[j].rows)
  BY DEF TreesAreInOrder, InOrder, KeysInOrder, Continues
<1>8. CASE Kept
  BY <1>4, <1>5, <1>8 DEF Kept
<1>9. CASE \E n \in DOMAIN states : Restarted(n)
  <2>1. PICK n \in DOMAIN states : states' = <<states[n]>>
    BY <1>9 DEF Restarted
  <2>2. DOMAIN states' = {1} /\ states'[1] = states[n]
    BY <1>1, <2>1, OneOnly, StatesAreStates
  <2>. QED
    BY <1>4, <1>6, <2>2
<1>10. ASSUME NEW new \in States, states' = Append(states, new),
              InOrder(new.rows, nextId', minted'), Continues(last.rows, new.rows)
       PROVE  /\ \A n \in DOMAIN states' : InOrder(states'[n].rows, nextId', minted')
              /\ \A i, j \in DOMAIN states' :
                   i <= j => Continues(states'[i].rows, states'[j].rows)
  <2>1. /\ DOMAIN states' = 1..(Len(states) + 1)
        /\ \A n \in DOMAIN states : states'[n] = states[n]
        /\ states'[Len(states) + 1] = new
    BY <1>1, <1>10, OneMore
  <2>2. \A n \in DOMAIN states' : n \in DOMAIN states \/ n = Len(states) + 1
    BY <1>3, <2>1
  <2>3. ASSUME NEW n \in DOMAIN states
        PROVE  Continues(states[n].rows, new.rows)
    <3>1. Continues(states[n].rows, last.rows)
      BY TreesAreTrees
    <3>. QED
      BY <1>10, <3>1 DEF Continues
  <2>4. ASSUME NEW i \in DOMAIN states', NEW j \in DOMAIN states', i <= j
        PROVE  Continues(states'[i].rows, states'[j].rows)
    <3>1. CASE j \in DOMAIN states
      <4>1. i \in DOMAIN states
        BY <1>3, <2>1, <2>4, <3>1
      <4>. QED
        BY <1>5, <2>1, <2>4, <3>1, <4>1
    <3>2. CASE j = Len(states) + 1 /\ i \in DOMAIN states
      BY <2>1, <2>3, <3>2
    <3>3. CASE j = Len(states) + 1 /\ i = Len(states) + 1
      BY <1>6, <3>3
    <3>. QED
      BY <2>2, <3>1, <3>2, <3>3
  <2>. QED
    BY <1>4, <1>10, <2>1, <2>2, <2>4
<1>11. CASE \E new \in States : Touched(new)
  <2>1. PICK new \in States : states' = Append(states, new) /\ new.rows = last.rows
    BY <1>11 DEF Touched
  <2>. QED
    BY <1>3, <1>4, <1>6, <1>10, <2>1
<1>12. CASE Sled!InsertBlock
  <2>. DEFINE new == [last EXCEPT !.rows = last.rows \cup {<<nextId, inserting>>}]
  <2>1. /\ new \in States /\ states' = Append(states, new)
        /\ new.rows = last.rows \cup {<<nextId, inserting>>}
    BY <1>12, InsertedState
  <2>. HIDE DEF new
  <2>2. /\ IsTree(new.rows) /\ Continues(last.rows, new.rows)
        /\ \A row \in new.rows : row[1] < nextId' /\ row[2] <= minted'
    BY <1>12, <2>1, InsertedRow
  <2>3. InOrder(new.rows, nextId', minted')
    BY <2>2 DEF InOrder, IsTree
  <2>. QED
    BY <1>10, <2>1, <2>2, <2>3
<1>. QED
  BY <1>8, <1>9, <1>11, <1>12, StatesChange


\* A head that does not lead its tree, and the one of every state that is added.
HeadFollows(state) ==
    /\ state.height <= Cardinality(state.rows)
    /\ state.hash # None => HasBlock(state.rows, state.hash)

LEMMA NewState ==
    ASSUME SledInv, Sled!Next
    PROVE  \/ Kept
           \/ \E n \in DOMAIN states : Restarted(n)
           \/ \E new \in States :
                states' = Append(states, new) /\ last.rows \subseteq new.rows /\ HeadFollows(new)
<1>1. SledTypes /\ HeadsFollow /\ AppendIsOrdered
  BY DEF SledInv
<1>2. Len(states) \in DOMAIN states /\ last = states[Len(states)] /\ last \in States
  BY <1>1, StatesAreStates DEF last
<1>3. /\ last.height <= Cardinality(last.rows)
      /\ last.hash # None => HasBlock(last.rows, last.hash)
  BY <1>1, <1>2 DEF HeadsFollow
<1>4. last.height \in Nat /\ Cardinality(last.rows) \in Nat
  BY <1>2, TreesAreTrees, ReadInOrder DEF States
<1>5. ASSUME Kept \/ \E n \in DOMAIN states : Restarted(n)
      PROVE  \/ Kept
             \/ \E n \in DOMAIN states : Restarted(n)
             \/ \E new \in States :
                  states' = Append(states, new) /\ last.rows \subseteq new.rows /\ HeadFollows(new)
  BY <1>5
<1>6. ASSUME NEW new \in States, states' = Append(states, new),
             last.rows \subseteq new.rows, HeadFollows(new)
      PROVE  \/ Kept
             \/ \E n \in DOMAIN states : Restarted(n)
             \/ \E s \in States :
                  states' = Append(states, s) /\ last.rows \subseteq s.rows /\ HeadFollows(s)
  BY <1>6
<1>7. CASE Sled!InsertBlock
  <2>. DEFINE new == [last EXCEPT !.rows = last.rows \cup {<<nextId, inserting>>}]
  <2>1. /\ new \in States /\ states' = Append(states, new)
        /\ new.rows = last.rows \cup {<<nextId, inserting>>}
        /\ new.height = last.height /\ new.hash = last.hash
    BY <1>7, InsertedState
  <2>. HIDE DEF new
  <2>2. Cardinality(new.rows) = Cardinality(last.rows) + 1 /\ last.rows \subseteq new.rows
    BY <1>7, <2>1, InsertedRow
  <2>3. new.height <= Cardinality(new.rows)
    BY <1>3, <1>4, <2>1, <2>2
  <2>4. new.hash # None => HasBlock(new.rows, new.hash)
    BY <1>3, <2>1, <2>2 DEF HasBlock
  <2>. QED
    BY <1>6, <2>1, <2>2, <2>3, <2>4 DEF HeadFollows
<1>8. CASE Sled!SetHeight
  <2>. DEFINE new == [last EXCEPT !.height = last.height + 1]
  <2>1. /\ new \in States /\ states' = Append(states, new) /\ new.rows = last.rows
        /\ new.height = last.height + 1 /\ new.hash = last.hash
    BY <1>8, HeightenedState
  <2>. HIDE DEF new
  <2>2. last.height < Cardinality(last.rows)
    BY <1>1, <1>8, SetHeightDoes DEF AppendIsOrdered
  <2>3. new.height <= Cardinality(new.rows)
    BY <1>4, <2>1, <2>2
  <2>4. HeadFollows(new)
    BY <1>3, <2>1, <2>3 DEF HeadFollows
  <2>. QED
    BY <1>6, <2>1, <2>4
<1>9. CASE Sled!SetHash
  <2>. DEFINE new == [last EXCEPT !.hash = inserting]
  <2>1. /\ new \in States /\ states' = Append(states, new) /\ new.rows = last.rows
        /\ new.height = last.height /\ new.hash = inserting
    BY <1>9, HashedState
  <2>. HIDE DEF new
  <2>2. inserting # None => HasBlock(last.rows, inserting)
    BY <1>1, <1>9, SetHashDoes, StepsDiffer DEF AppendIsOrdered
  <2>3. HeadFollows(new)
    BY <1>3, <2>1, <2>2 DEF HeadFollows
  <2>. QED
    BY <1>6, <2>1, <2>3
<1>10. ASSUME NEW new \in States, states' = Append(states, new), new.rows = last.rows,
              new.height = last.height, new.hash = last.hash
       PROVE  \/ Kept
              \/ \E n \in DOMAIN states : Restarted(n)
              \/ \E s \in States :
                   states' = Append(states, s) /\ last.rows \subseteq s.rows /\ HeadFollows(s)
  <2>1. HeadFollows(new)
    BY <1>3, <1>10 DEF HeadFollows
  <2>. QED
    BY <1>6, <1>10, <2>1
<1>11. CASE Sled!ClearClaim
  <2>1. PICK c \in last.claims :
          states' = Append(states, [last EXCEPT !.claims = last.claims \ {c}])
    BY <1>11, ClearClaimDoes
  <2>. QED
    BY <1>10, <2>1, ClearedState
<1>12. CASE Sled!InsertClaim
  <2>1. PICK c \in remaining :
          states' = Append(states, [last EXCEPT !.claims = last.claims \cup {c}])
    BY <1>12, InsertClaimDoes
  <2>2. c \in Claims
    BY <1>1 DEF SledTypes
  <2>. QED
    BY <1>10, <2>1, <2>2, FilledState
<1>13. CASE Sled!Flush
  BY <1>2, <1>5, <1>13, FlushDoes DEF Restarted
<1>14. CASE Sled!Crash
  BY <1>5, <1>14, CrashDoes DEF Restarted
<1>15. CASE Sled!AppendCall \/ Sled!SaveCall \/ Sled!ClaimsCleared \/ Sled!ClaimsInserted \/ Sled!Fail
  BY <1>5, <1>15, AppendCallDoes, SaveCallDoes, ClaimsClearedDoes, ClaimsInsertedDoes
     DEF Kept, Sled!Fail
<1>. QED
  BY <1>7, <1>8, <1>9, <1>11, <1>12, <1>13, <1>14, <1>15 DEF Sled!Next

LEMMA NextHeadsFollow ==
    ASSUME SledInv, Sled!Next
    PROVE  HeadsFollow'
<1>1. SledTypes /\ \A n \in DOMAIN states : HeadFollows(states[n])
  BY DEF SledInv, HeadsFollow, HeadFollows
<1>2. SUFFICES \A n \in DOMAIN states' : HeadFollows(states'[n])
  BY DEF HeadsFollow, HeadFollows, HasBlock
<1>3. CASE Kept
  BY <1>1, <1>3 DEF Kept
<1>4. CASE \E n \in DOMAIN states : Restarted(n)
  <2>1. PICK n \in DOMAIN states : states' = <<states[n]>>
    BY <1>4 DEF Restarted
  <2>2. DOMAIN states' = {1} /\ states'[1] = states[n]
    BY <1>1, <2>1, OneOnly, StatesAreStates
  <2>. QED
    BY <1>1, <2>2
<1>5. ASSUME NEW new \in States, states' = Append(states, new), HeadFollows(new)
      PROVE  \A n \in DOMAIN states' : HeadFollows(states'[n])
  <2>1. /\ DOMAIN states' = 1..(Len(states) + 1)
        /\ \A n \in DOMAIN states : states'[n] = states[n]
        /\ states'[Len(states) + 1] = new
    BY <1>1, <1>5, OneMore
  <2>2. \A n \in DOMAIN states' : n \in DOMAIN states \/ n = Len(states) + 1
    BY <1>1, <2>1, StatesAreStates
  <2>. QED
    BY <1>1, <1>5, <2>1, <2>2
<1>. QED
  BY <1>3, <1>4, <1>5, NewState

\* No tree that a crash can leave is smaller than the smallest before it.
LEMMA TreesStay ==
    ASSUME SledInv, Sled!Next, NEW n \in DOMAIN states'
    PROVE  \E k \in DOMAIN states : states[k].rows \subseteq states'[n].rows
<1>1. SledTypes /\ Len(states) \in DOMAIN states /\ last = states[Len(states)]
  BY StatesAreStates DEF SledInv, last
<1>2. CASE Kept
  BY <1>2 DEF Kept
<1>3. CASE \E k \in DOMAIN states : Restarted(k)
  <2>1. PICK k \in DOMAIN states : states' = <<states[k]>>
    BY <1>3 DEF Restarted
  <2>2. DOMAIN states' = {1} /\ states'[1] = states[k]
    BY <1>1, <2>1, OneOnly, StatesAreStates
  <2>. QED
    BY <2>2
<1>4. CASE \E new \in States : states' = Append(states, new) /\ last.rows \subseteq new.rows
  <2>1. PICK new \in States : states' = Append(states, new) /\ last.rows \subseteq new.rows
    BY <1>4
  <2>2. /\ DOMAIN states' = 1..(Len(states) + 1)
        /\ \A k \in DOMAIN states : states'[k] = states[k]
        /\ states'[Len(states) + 1] = new
    BY <1>1, <2>1, OneMore
  <2>3. n \in DOMAIN states \/ n = Len(states) + 1
    BY <1>1, <2>2, StatesAreStates
  <2>. QED
    BY <1>1, <2>1, <2>2, <2>3
<1>. QED
  BY <1>2, <1>3, <1>4, NewState

LEMMA NextAckedAreInTrees ==
    ASSUME SledInv, Sled!Next
    PROVE  AckedAreInTrees'
<1>1. SledTypes /\ AckedAreInTrees /\ AppendIsOrdered
  BY DEF SledInv
<1>2. \/ acked' = acked
      \/ /\ inserting # None /\ acked' = acked \cup {inserting}
         /\ states' = <<last>> /\ call = ToEnd
  BY AppendCallDoes, SaveCallDoes, InsertBlockDoes, SetHeightDoes, SetHashDoes, FlushDoes,
     ClearClaimDoes, ClaimsClearedDoes, InsertClaimDoes, ClaimsInsertedDoes, CrashDoes
     DEF Sled!Next, Sled!Fail
<1>3. ASSUME NEW b \in acked
      PROVE  b <= minted' /\ \A n \in DOMAIN states' : HasBlock(states'[n].rows, b)
  <2>1. b <= minted /\ \A k \in DOMAIN states : HasBlock(states[k].rows, b)
    BY <1>1 DEF AckedAreInTrees
  <2>2. b \in Nat
    BY <1>1, BoundAssumption DEF SledTypes, Sled!Blocks
  <2>3. b <= minted'
    BY <2>1, <2>2, CountersGrow
  <2>4. \A n \in DOMAIN states' : HasBlock(states'[n].rows, b)
    BY <2>1, TreesStay DEF HasBlock
  <2>. QED
    BY <2>3, <2>4
<1>4. CASE acked' = acked
  BY <1>3, <1>4 DEF AckedAreInTrees, HasBlock
<1>5. CASE /\ inserting # None /\ acked' = acked \cup {inserting}
           /\ states' = <<last>> /\ call = ToEnd
  <2>1. HasBlock(last.rows, inserting) /\ inserting = minted
    BY <1>1, <1>5, StepsDiffer DEF AppendIsOrdered
  <2>2. DOMAIN states' = {1} /\ states'[1] = last
    BY <1>1, <1>5, OneOnly, StatesAreStates
  <2>3. inserting <= minted'
    BY <2>1, CountersGrow
  <2>. QED
    BY <1>3, <1>5, <2>1, <2>2, <2>3 DEF AckedAreInTrees, HasBlock
<1>. QED
  BY <1>2, <1>4, <1>5


\* All states a crash can leave have the rows and the claims of the last one.
OnlyHeadDiffers == SameInAll("rows") /\ SameInAll("claims")

\* The states after a flush, and after an operation on the head.
LEMMA FlushedStates ==
    ASSUME SledInv, states' = <<last>>
    PROVE  last' = last /\ DOMAIN states' = {1} /\ states'[1] = last /\ OnlyHeadDiffers'
<1>1. last \in States
  BY StatesAreStates DEF SledInv
<1>2. last' = last /\ DOMAIN states' = {1} /\ states'[1] = last
  BY <1>1, OneOnly
<1>. QED
  BY <1>2 DEF OnlyHeadDiffers, SameInAll

LEMMA SameRowsAndClaims ==
    ASSUME SledInv, NEW new \in States, states' = Append(states, new),
           new.rows = last.rows, new.claims = last.claims, OnlyHeadDiffers
    PROVE  OnlyHeadDiffers'
<1>1. SledTypes
  BY DEF SledInv
<1>2. /\ DOMAIN states' = 1..(Len(states) + 1)
      /\ \A n \in DOMAIN states : states'[n] = states[n]
      /\ states'[Len(states) + 1] = new /\ last' = new
  BY <1>1, OneMore
<1>3. \A n \in DOMAIN states' : n \in DOMAIN states \/ n = Len(states) + 1
  BY <1>1, <1>2, StatesAreStates
<1>. QED
  BY <1>2, <1>3 DEF OnlyHeadDiffers, SameInAll

\* An append that has not begun, or is over, leaves nothing to show.
LEMMA NoAppend ==
    ASSUME inserting' = None, call' \notin {ToInsert, ToFlush, ToHeight, ToHash}
    PROVE  AppendIsOrdered'
BY DEF AppendIsOrdered, Appending, ToInsert, Sled!AppendSteps, ToFlush, ToHeight, ToHash

LEMMA AppendBegins ==
    ASSUME SledInv, Sled!AppendCall
    PROVE  AppendIsOrdered'
<1>1. /\ SledTypes /\ TreesAreInOrder /\ AckedAreInTrees /\ SaveClears
  BY DEF SledInv
<1>2. /\ call = <<>> /\ call' = ToInsert /\ minted' = minted + 1 /\ inserting' = minted + 1
      /\ states' = states /\ wanted' = wanted /\ acked' = acked /\ inserting' \in Sled!Blocks
  BY AppendCallDoes
<1>3. wanted' = None
  BY <1>1, <1>2, StepsDiffer DEF SaveClears
<1>4. inserting' # None
  BY <1>2, NoneAssumption
<1>5. minted \in Nat /\ acked \subseteq Nat
  BY <1>1, BoundAssumption DEF SledTypes, Sled!Blocks
<1>6. \A b \in acked' : b < inserting'
  BY <1>1, <1>2, <1>5 DEF AckedAreInTrees
<1>7. ASSUME NEW n \in DOMAIN states', NEW row \in states'[n].rows
      PROVE  row[2] < inserting'
  <2>1. row[2] <= minted
    BY <1>1, <1>2 DEF TreesAreInOrder
  <2>2. row[2] \in Nat
    BY <1>2, RowTypes, TreesAreTrees
  <2>. QED
    BY <1>2, <1>5, <2>1, <2>2
<1>. QED
  BY <1>2, <1>3, <1>4, <1>6, <1>7, StepsDiffer
     DEF AppendIsOrdered, Appending, ToInsert, Sled!AppendSteps, ToFlush, ToHeight, ToHash,
         ToEnd, ToClear, ToFill

\* An operation of an append changes neither its block nor what is acknowledged.
AppendGoesOn(steps) ==
    /\ call' = steps /\ inserting # None
    /\ UNCHANGED <<inserting, wanted, acked, minted>>
    /\ HasBlock(last.rows, inserting)'

LEMMA AppendContinues ==
    ASSUME SledInv, NEW steps \in {ToFlush, ToHeight, ToHash, ToEnd}, AppendGoesOn(steps),
           steps # ToFlush => OnlyHeadDiffers',
           steps \in {ToFlush, ToHeight} => (last.height < Cardinality(last.rows))'
    PROVE  AppendIsOrdered'
<1>1. AppendIsOrdered
  BY DEF SledInv
<1>2. /\ call' = steps /\ inserting # None /\ inserting' = inserting
      /\ wanted' = wanted /\ acked' = acked /\ minted' = minted
      /\ HasBlock(last.rows, inserting)'
  BY DEF AppendGoesOn
<1>3. /\ inserting = minted /\ wanted = None /\ \A b \in acked : b < inserting
  BY <1>1, <1>2 DEF AppendIsOrdered
<1>4. call' \notin {<<>>, ToClear, ToFill, ToInsert}
  BY <1>2, StepsDiffer
<1>5. Appending(ToHeight)' \/ Appending(ToHash)' \/ Appending(ToEnd)' =>
        SameInAll("rows")' /\ SameInAll("claims")'
  BY <1>2, StepsDiffer DEF Appending, OnlyHeadDiffers, ToFlush, ToHeight, ToHash, ToEnd
<1>6. call' \in {ToFlush, ToHeight} => (last.height < Cardinality(last.rows))'
  BY <1>2
<1>. QED
  BY <1>2, <1>3, <1>4, <1>5, <1>6
     DEF AppendIsOrdered, ToInsert, Sled!AppendSteps, ToFlush, ToHeight, ToHash, ToEnd,
         ToClear, ToFill

LEMMA NextAppendIsOrdered ==
    ASSUME SledInv, Sled!Next
    PROVE  AppendIsOrdered'
<1>1. SledTypes /\ AppendIsOrdered /\ HeadsFollow
  BY DEF SledInv
<1>2. call \in {ToInsert, ToFlush, ToHeight, ToHash} => inserting # None
  BY <1>1 DEF AppendIsOrdered
<1>3. call \in {<<>>, ToClear, ToFill} => inserting = None
  BY <1>1 DEF AppendIsOrdered
<1>4. CASE Sled!AppendCall
  BY <1>4, AppendBegins
<1>5. CASE Sled!InsertBlock
  <2>. DEFINE new == [last EXCEPT !.rows = last.rows \cup {<<nextId, inserting>>}]
  <2>1. /\ new \in States /\ states' = Append(states, new)
        /\ new.rows = last.rows \cup {<<nextId, inserting>>} /\ new.height = last.height
    BY <1>5, InsertedState
  <2>. HIDE DEF new
  <2>2. last' = new
    BY <1>1, <2>1, OneMore
  <2>3. HasBlock(new.rows, inserting) /\ Cardinality(new.rows) = Cardinality(last.rows) + 1
    BY <1>5, <2>1, InsertedRow
  <2>4. last.height \in Nat /\ Cardinality(last.rows) \in Nat
    BY <1>1, StatesAreStates, TreesAreTrees, ReadInOrder DEF States
  <2>5. last.height <= Cardinality(last.rows)
    BY <1>1, StatesAreStates DEF HeadsFollow, last
  <2>6. (last.height < Cardinality(last.rows))'
    <3>1. new.height < Cardinality(new.rows)
      BY <2>1, <2>3, <2>4, <2>5
    <3>. QED
      BY <2>2, <3>1
  <2>7. AppendGoesOn(ToFlush)
    BY <1>2, <1>5, <2>2, <2>3, InsertBlockDoes DEF AppendGoesOn, HasBlock
  <2>. QED
    BY <2>6, <2>7, AppendContinues
<1>6. CASE Sled!SetHeight
  <2>. DEFINE new == [last EXCEPT !.height = last.height + 1]
  <2>1. /\ new \in States /\ states' = Append(states, new) /\ new.rows = last.rows
        /\ new.claims = last.claims
    BY <1>6, HeightenedState
  <2>. HIDE DEF new
  <2>2. last' = new
    BY <1>1, <2>1, OneMore
  <2>3. OnlyHeadDiffers /\ HasBlock(last.rows, inserting) /\ inserting # None
    BY <1>1, <1>2, <1>6, SetHeightDoes, StepsDiffer DEF AppendIsOrdered, OnlyHeadDiffers, Appending
  <2>4. OnlyHeadDiffers'
    BY <2>1, <2>3, SameRowsAndClaims
  <2>5. AppendGoesOn(ToHash)
    BY <1>6, <2>1, <2>2, <2>3, SetHeightDoes DEF AppendGoesOn, HasBlock
  <2>. QED
    BY <2>4, <2>5, AppendContinues, StepsDiffer
<1>7. CASE Sled!SetHash
  <2>. DEFINE new == [last EXCEPT !.hash = inserting]
  <2>1. /\ new \in States /\ states' = Append(states, new) /\ new.rows = last.rows
        /\ new.claims = last.claims
    BY <1>7, HashedState
  <2>. HIDE DEF new
  <2>2. last' = new
    BY <1>1, <2>1, OneMore
  <2>3. OnlyHeadDiffers /\ HasBlock(last.rows, inserting) /\ inserting # None
    BY <1>1, <1>2, <1>7, SetHashDoes, StepsDiffer DEF AppendIsOrdered, OnlyHeadDiffers, Appending
  <2>4. OnlyHeadDiffers'
    BY <2>1, <2>3, SameRowsAndClaims
  <2>5. AppendGoesOn(ToEnd)
    BY <1>7, <2>1, <2>2, <2>3, SetHashDoes DEF AppendGoesOn, HasBlock
  <2>. QED
    BY <2>4, <2>5, AppendContinues, StepsDiffer
<1>8. CASE Sled!Flush
  <2>1. states' = <<last>> /\ minted' = minted
    BY <1>8, FlushDoes
  <2>2. last' = last /\ OnlyHeadDiffers'
    BY <2>1, FlushedStates
  <2>3. CASE call = ToFlush
    <3>1. call' = ToHeight /\ UNCHANGED <<inserting, wanted, acked>>
      BY <1>8, <2>3, FlushDoes, StepsDiffer
    <3>2. /\ HasBlock(last.rows, inserting) /\ inserting # None
          /\ last.height < Cardinality(last.rows)
      BY <1>1, <1>2, <2>3, StepsDiffer DEF AppendIsOrdered
    <3>3. AppendGoesOn(ToHeight) /\ (last.height < Cardinality(last.rows))'
      BY <2>1, <2>2, <3>1, <3>2 DEF AppendGoesOn, HasBlock
    <3>. QED
      BY <2>2, <3>3, AppendContinues
  <2>4. CASE call # ToFlush
    BY <1>8, <2>4, FlushDoes, NoAppend, StepsDiffer
  <2>. QED
    BY <2>3, <2>4
<1>9. CASE Sled!SaveCall
  BY <1>3, <1>9, SaveCallDoes, NoAppend, StepsDiffer
<1>10. CASE Sled!ClearClaim
  BY <1>3, <1>10, ClearClaimDoes, NoAppend, StepsDiffer
<1>11. CASE Sled!ClaimsCleared
  BY <1>3, <1>11, ClaimsClearedDoes, NoAppend, StepsDiffer
<1>12. CASE Sled!InsertClaim
  BY <1>3, <1>12, InsertClaimDoes, NoAppend, StepsDiffer
<1>13. CASE Sled!ClaimsInserted
  BY <1>3, <1>13, ClaimsInsertedDoes, NoAppend, StepsDiffer
<1>14. CASE Sled!Fail \/ Sled!Crash
  BY <1>14, CrashDoes, NoAppend, StepsDiffer DEF Sled!Fail
<1>. QED
  BY <1>4, <1>5, <1>6, <1>7, <1>8, <1>9, <1>10, <1>11, <1>12, <1>13, <1>14 DEF Sled!Next


\* Who saves does not append.
LEMMA CallsDoNotMix ==
    ASSUME SledInv
    PROVE  /\ call \in {ToInsert, ToFlush, ToHeight, ToHash} =>
                inserting # None /\ wanted = None
           /\ call \in {ToClear, ToFill} => inserting = None /\ wanted # None
           /\ call = <<>> => inserting = None /\ wanted = None
           /\ call = ToEnd => (wanted = None <=> inserting # None)
<1>1. AppendIsOrdered /\ SaveClears
  BY DEF SledInv
<1>2. call \in {ToInsert, ToFlush, ToHeight, ToHash} => inserting # None /\ wanted = None
  BY <1>1 DEF AppendIsOrdered
<1>3. call \in {ToClear, ToFill} => inserting = None /\ wanted # None
  BY <1>1 DEF AppendIsOrdered, SaveClears
<1>4. call = <<>> => inserting = None /\ wanted = None
  BY <1>1, StepsDiffer DEF AppendIsOrdered, SaveClears
<1>5. call = ToEnd => (wanted = None <=> inserting # None)
  BY <1>1 DEF SaveClears
<1>. QED
  BY <1>2, <1>3, <1>4, <1>5

\* A call that does not save has nothing to show of it.
LEMMA NoSave ==
    ASSUME wanted' = None, call' \notin {ToClear, ToFill},
           call' = ToEnd => inserting' # None
    PROVE  SaveClears'
BY DEF SaveClears, ToEnd, ToClear, ToFill

LEMMA NextSaveClears ==
    ASSUME SledInv, Sled!Next
    PROVE  SaveClears'
<1>1. SledTypes /\ SaveClears
  BY DEF SledInv
<1>2. CASE Sled!AppendCall
  BY <1>2, AppendCallDoes, CallsDoNotMix, NoSave, StepsDiffer
<1>3. CASE Sled!InsertBlock
  BY <1>3, InsertBlockDoes, CallsDoNotMix, NoSave, StepsDiffer
<1>4. CASE Sled!SetHeight
  BY <1>4, SetHeightDoes, CallsDoNotMix, NoSave, StepsDiffer
<1>5. CASE Sled!SetHash
  BY <1>5, SetHashDoes, CallsDoNotMix, NoSave, StepsDiffer
<1>6. CASE Sled!Flush
  <2>1. CASE call = ToFlush
    BY <1>6, <2>1, FlushDoes, CallsDoNotMix, NoSave, StepsDiffer
  <2>2. CASE call # ToFlush
    BY <1>6, <2>2, FlushDoes, NoSave, StepsDiffer
  <2>. QED
    BY <2>1, <2>2
<1>7. CASE Sled!Fail \/ Sled!Crash
  BY <1>7, CrashDoes, NoSave, StepsDiffer DEF Sled!Fail
<1>8. CASE Sled!SaveCall
  BY <1>8, SaveCallDoes, StepsDiffer DEF SaveClears, ToClear, ToFill, ToEnd
<1>9. CASE Sled!ClearClaim
  <2>1. /\ call = ToClear /\ call' = ToClear /\ wanted' = wanted /\ remaining' = remaining
    BY <1>9, ClearClaimDoes
  <2>2. wanted # None /\ remaining = wanted
    BY <1>1, <2>1 DEF SaveClears
  <2>. QED
    BY <2>1, <2>2, StepsDiffer DEF SaveClears, ToClear, ToFill, ToEnd
<1>10. CASE Sled!ClaimsCleared
  <2>1. /\ call = ToClear /\ call' = ToFill /\ wanted' = wanted /\ remaining' = remaining
        /\ last.claims = {} /\ states' = states
    BY <1>10, ClaimsClearedDoes
  <2>2. wanted # None /\ remaining = wanted
    BY <1>1, <2>1 DEF SaveClears
  <2>3. last' = last
    BY <2>1 DEF last
  <2>. QED
    BY <2>1, <2>2, <2>3, StepsDiffer DEF SaveClears, ToClear, ToFill, ToEnd
<1>11. CASE Sled!InsertClaim
  <2>1. /\ call = ToFill /\ call' = ToFill /\ wanted' = wanted
    BY <1>11, InsertClaimDoes
  <2>2. PICK c \in remaining :
          /\ states' = Append(states, [last EXCEPT !.claims = last.claims \cup {c}])
          /\ remaining' = remaining \ {c}
    BY <1>11, InsertClaimDoes
  <2>3. c \in Claims
    BY <1>1 DEF SledTypes
  <2>. DEFINE new == [last EXCEPT !.claims = last.claims \cup {c}]
  <2>4. new \in States /\ states' = Append(states, new) /\ new.claims = last.claims \cup {c}
    BY <2>2, <2>3, FilledState
  <2>. HIDE DEF new
  <2>5. last' = new
    BY <1>1, <2>4, OneMore
  <2>6. wanted # None /\ last.claims \cup remaining = wanted
    BY <1>1, <2>1 DEF SaveClears
  <2>7. new.claims \cup (remaining \ {c}) = wanted
    BY <2>2, <2>4, <2>6
  <2>8. last'.claims \cup remaining' = wanted'
    BY <2>1, <2>2, <2>5, <2>7
  <2>. QED
    BY <2>1, <2>6, <2>8, StepsDiffer DEF SaveClears, ToClear, ToFill, ToEnd
<1>12. CASE Sled!ClaimsInserted
  <2>1. /\ call = ToFill /\ call' = ToEnd /\ wanted' = wanted /\ inserting' = inserting
        /\ remaining = {} /\ states' = states
    BY <1>12, ClaimsInsertedDoes
  <2>2. wanted # None /\ last.claims = wanted
    BY <1>1, <2>1 DEF SaveClears
  <2>3. last' = last /\ inserting = None
    BY <2>1, CallsDoNotMix DEF last
  <2>. QED
    BY <2>1, <2>2, <2>3, StepsDiffer DEF SaveClears, ToClear, ToFill, ToEnd
<1>. QED
  BY <1>2, <1>3, <1>4, <1>5, <1>6, <1>7, <1>8, <1>9, <1>10, <1>11, <1>12 DEF Sled!Next


\* A head that matches still does when neither it nor the tree changes.
LEMMA HeadStays ==
    ASSUME HeadMatches, last'.rows = last.rows, last'.height = last.height,
           last'.hash = last.hash
    PROVE  HeadMatches'
BY DEF HeadMatches, HasBlock

LEMMA OneState ==
    ASSUME SledInv, Len(states) = 1
    PROVE  DOMAIN states = {1} /\ states[1] = last
<1>1. DOMAIN states = 1..Len(states)
  BY StatesAreStates DEF SledInv
<1>. QED
  BY <1>1 DEF last

\* An operation on the claims leaves the trees and the head.
LEMMA ClaimTouched ==
    ASSUME SledInv, HeadMatches, SameInAll("rows"),
           NEW new \in States, states' = Append(states, new),
           new.rows = last.rows, new.height = last.height, new.hash = last.hash
    PROVE  HeadMatches' /\ SameInAll("rows")'
<1>1. SledTypes
  BY DEF SledInv
<1>2. /\ DOMAIN states' = 1..(Len(states) + 1)
      /\ \A n \in DOMAIN states : states'[n] = states[n]
      /\ states'[Len(states) + 1] = new /\ last' = new
  BY <1>1, OneMore
<1>3. \A n \in DOMAIN states' : n \in DOMAIN states \/ n = Len(states) + 1
  BY <1>1, <1>2, StatesAreStates
<1>4. SameInAll("rows")'
  BY <1>2, <1>3 DEF SameInAll
<1>. QED
  BY <1>2, <1>4, HeadStays

LEMMA InsertLeavesHead ==
    ASSUME SledInv, HeadIsDue, Sled!InsertBlock
    PROVE  HeadIsDue'
<1>1. SledTypes /\ call = ToInsert /\ call' = ToFlush /\ wanted' = wanted
  BY InsertBlockDoes DEF SledInv
<1>2. Len(states) = 1 /\ last.height = Cardinality(last.rows) /\ wanted = None
  BY <1>1, CallsDoNotMix DEF HeadIsDue, HeadMatches
<1>. DEFINE new == [last EXCEPT !.rows = last.rows \cup {<<nextId, inserting>>}]
<1>3. /\ new \in States /\ states' = Append(states, new)
      /\ new.rows = last.rows \cup {<<nextId, inserting>>}
      /\ new.claims = last.claims /\ new.height = last.height
  BY InsertedState
<1>. HIDE DEF new
<1>4. DOMAIN states' = 1..2 /\ states'[1] = last /\ states'[2] = new /\ last' = new
  <2>1. /\ DOMAIN states' = 1..(Len(states) + 1)
        /\ states'[Len(states) + 1] = new /\ last' = new
        /\ \A n \in DOMAIN states : states'[n] = states[n]
    BY <1>1, <1>3, OneMore
  <2>. QED
    BY <1>2, <2>1, OneState
<1>5. Cardinality(new.rows) = Cardinality(last.rows) + 1
  BY <1>3, InsertedRow
<1>6. SameInAll("claims")'
  <2>1. \A n \in 1..2 : n = 1 \/ n = 2
    OBVIOUS
  <2>. QED
    BY <1>3, <1>4, <2>1 DEF SameInAll
<1>7. new.height + 1 = Cardinality(new.rows)
  BY <1>2, <1>3, <1>5
<1>8. /\ (Cardinality(last.rows) = Cardinality(states[1].rows) + 1)'
      /\ (last.height + 1 = Cardinality(last.rows))'
  BY <1>4, <1>5, <1>7
<1>. QED
  BY <1>1, <1>2, <1>6, <1>8, StepsDiffer
     DEF HeadIsDue, Appending, ToInsert, Sled!AppendSteps, ToFlush, ToHeight, ToHash, ToEnd

LEMMA HeightCatchesUp ==
    ASSUME SledInv, HeadIsDue, Sled!SetHeight
    PROVE  HeadIsDue'
<1>1. SledTypes /\ call = ToHeight /\ call' = ToHash /\ wanted' = wanted
  BY SetHeightDoes DEF SledInv
<1>2. last.height + 1 = Cardinality(last.rows) /\ wanted = None
  BY <1>1, CallsDoNotMix DEF HeadIsDue
<1>. DEFINE new == [last EXCEPT !.height = last.height + 1]
<1>3. /\ new \in States /\ states' = Append(states, new)
      /\ new.rows = last.rows /\ new.height = last.height + 1
  BY HeightenedState
<1>. HIDE DEF new
<1>4. last' = new
  BY <1>1, <1>3, OneMore
<1>5. (last.height = Cardinality(last.rows))'
  BY <1>2, <1>3, <1>4
<1>. QED
  BY <1>1, <1>2, <1>5, StepsDiffer
     DEF HeadIsDue, Appending, ToInsert, Sled!AppendSteps, ToFlush, ToHeight, ToHash, ToEnd

LEMMA HashCatchesUp ==
    ASSUME SledInv, HeadIsDue, Sled!SetHash
    PROVE  HeadIsDue'
<1>1. SledTypes /\ TreesAreInOrder /\ call = ToHash /\ call' = ToEnd /\ wanted' = wanted
  BY SetHashDoes DEF SledInv
<1>2. last.height = Cardinality(last.rows) /\ wanted = None /\ inserting # None
  BY <1>1, CallsDoNotMix DEF HeadIsDue
<1>3. HasBlock(last.rows, inserting) /\ inserting = minted
  BY <1>1, <1>2, StepsDiffer DEF SledInv, AppendIsOrdered
<1>4. \A row \in last.rows : row[2] <= inserting
  BY <1>1, <1>3, StatesAreStates DEF TreesAreInOrder, last
<1>. DEFINE new == [last EXCEPT !.hash = inserting]
<1>5. /\ new \in States /\ states' = Append(states, new)
      /\ new.rows = last.rows /\ new.height = last.height /\ new.hash = inserting
  BY HashedState
<1>. HIDE DEF new
<1>6. last' = new
  BY <1>1, <1>5, OneMore
<1>7. HeadMatches'
  BY <1>2, <1>3, <1>4, <1>5, <1>6 DEF HeadMatches, HasBlock
<1>. QED
  BY <1>1, <1>2, <1>7, StepsDiffer
     DEF HeadIsDue, Appending, ToInsert, Sled!AppendSteps, ToFlush, ToHeight, ToHash, ToEnd

LEMMA FlushKeepsHead ==
    ASSUME SledInv, HeadIsDue, Sled!Flush
    PROVE  HeadIsDue'
<1>1. SledTypes /\ states' = <<last>>
  BY FlushDoes DEF SledInv
<1>2. last' = last /\ Len(states') = 1
  BY <1>1, OneOnly, StatesAreStates
<1>3. CASE call = ToFlush
  <2>1. call' = ToHeight /\ wanted' = wanted /\ wanted = None
    BY <1>3, FlushDoes, CallsDoNotMix, StepsDiffer
  <2>2. (last.height + 1 = Cardinality(last.rows))'
    BY <1>2, <1>3 DEF HeadIsDue
  <2>. QED
    BY <2>1, <2>2, StepsDiffer
       DEF HeadIsDue, Appending, ToInsert, Sled!AppendSteps, ToFlush, ToHeight, ToHash, ToEnd
<1>4. CASE call # ToFlush
  <2>1. call = ToEnd /\ call' = <<>> /\ inserting' = None /\ wanted' = None
    BY <1>4, FlushDoes
  <2>2. inserting # None \/ wanted # None
    BY <2>1, CallsDoNotMix
  <2>3. HeadMatches
    BY <2>1, <2>2 DEF HeadIsDue, Appending
  <2>4. HeadMatches'
    BY <1>2, <2>3, HeadStays
  <2>. QED
    BY <1>2, <2>1, <2>4, StepsDiffer
       DEF HeadIsDue, Appending, ToInsert, Sled!AppendSteps, ToFlush, ToHeight, ToHash, ToEnd
<1>. QED
  BY <1>3, <1>4

LEMMA NextHeadIsKept ==
    ASSUME SledInv, Sled!Next
    PROVE  HeadIsKept'
<1>1. SledTypes /\ HeadIsKept /\ interrupted \in BOOLEAN
  BY DEF SledInv, SledTypes
<1>2. SUFFICES ASSUME ~interrupted'
               PROVE  HeadIsDue'
  BY DEF HeadIsKept, HeadIsDue, HeadMatches, HasBlock, Appending, SameInAll, ToInsert,
         Sled!AppendSteps, ToFlush, ToHeight, ToHash, ToEnd
<1>3. ~interrupted /\ (Sled!Crash => call = <<>>)
  BY <1>1, <1>2 DEF Sled!Next, Sled!AppendCall, Sled!InsertBlock, Sled!SetHeight, Sled!SetHash,
     Sled!Flush, Sled!SaveCall, Sled!ClearClaim, Sled!ClaimsCleared, Sled!InsertClaim,
     Sled!ClaimsInserted, Sled!Fail, Sled!Crash
<1>4. HeadIsDue
  BY <1>1, <1>3 DEF HeadIsKept
<1>. DEFINE Saving ==
       /\ call' \in {ToClear, ToFill, ToEnd} /\ wanted' # None /\ inserting' = None
       /\ HeadMatches' /\ SameInAll("rows")'
<1>5. ASSUME Saving
      PROVE  HeadIsDue'
  BY <1>5, StepsDiffer
     DEF HeadIsDue, Appending, ToInsert, Sled!AppendSteps, ToFlush, ToHeight, ToHash, ToEnd
<1>6. ASSUME states' = states
      PROVE  last' = last /\ (HeadMatches => HeadMatches')
             /\ (SameInAll("rows") => SameInAll("rows")')
  BY <1>6 DEF last, HeadMatches, HasBlock, SameInAll
<1>. HIDE DEF Saving
<1>7. CASE Sled!AppendCall
  <2>1. /\ call = <<>> /\ call' = ToInsert /\ states' = states /\ wanted' = wanted
        /\ wanted = None
    BY <1>7, AppendCallDoes, CallsDoNotMix
  <2>2. Len(states') = 1 /\ HeadMatches'
    BY <1>4, <1>6, <2>1 DEF HeadIsDue
  <2>. QED
    BY <2>1, <2>2, StepsDiffer
       DEF HeadIsDue, Appending, ToInsert, Sled!AppendSteps, ToFlush, ToHeight, ToHash, ToEnd
<1>8. CASE Sled!SaveCall
  <2>1. /\ call = <<>> /\ call' = ToClear /\ states' = states /\ wanted' # None
        /\ inserting' = inserting /\ inserting = None
    BY <1>8, SaveCallDoes, CallsDoNotMix
  <2>2. Len(states) = 1 /\ HeadMatches
    BY <1>4, <2>1 DEF HeadIsDue
  <2>3. SameInAll("rows")
    BY <2>2, OneState DEF SameInAll
  <2>4. Saving
    BY <1>6, <2>1, <2>2, <2>3 DEF Saving
  <2>. QED
    BY <1>5, <2>4
<1>9. ASSUME wanted # None
      PROVE  HeadMatches /\ SameInAll("rows")
  BY <1>4, <1>9 DEF HeadIsDue
<1>10. CASE Sled!ClearClaim
  <2>1. call = ToClear /\ call' = call /\ wanted' = wanted /\ inserting' = inserting
    BY <1>10, ClearClaimDoes
  <2>2. wanted # None /\ inserting = None
    BY <2>1, CallsDoNotMix
  <2>3. PICK c \in last.claims :
          states' = Append(states, [last EXCEPT !.claims = last.claims \ {c}])
    BY <1>10, ClearClaimDoes
  <2>4. HeadMatches' /\ SameInAll("rows")'
    BY <1>9, <2>2, <2>3, ClearedState, ClaimTouched
  <2>. QED
    BY <1>5, <2>1, <2>2, <2>4 DEF Saving
<1>11. CASE Sled!InsertClaim
  <2>1. call = ToFill /\ call' = call /\ wanted' = wanted /\ inserting' = inserting
    BY <1>11, InsertClaimDoes
  <2>2. wanted # None /\ inserting = None
    BY <2>1, CallsDoNotMix
  <2>3. PICK c \in remaining :
          states' = Append(states, [last EXCEPT !.claims = last.claims \cup {c}])
    BY <1>11, InsertClaimDoes
  <2>4. c \in Claims
    BY <1>1 DEF SledTypes
  <2>5. HeadMatches' /\ SameInAll("rows")'
    BY <1>9, <2>2, <2>3, <2>4, FilledState, ClaimTouched
  <2>. QED
    BY <1>5, <2>1, <2>2, <2>5 DEF Saving
<1>12. CASE Sled!ClaimsCleared \/ Sled!ClaimsInserted
  <2>1. /\ call \in {ToClear, ToFill} /\ call' \in {ToFill, ToEnd} /\ states' = states
        /\ wanted' = wanted /\ inserting' = inserting
    BY <1>12, ClaimsClearedDoes, ClaimsInsertedDoes
  <2>2. wanted # None /\ inserting = None
    BY <2>1, CallsDoNotMix
  <2>. QED
    BY <1>5, <1>6, <1>9, <2>1, <2>2 DEF Saving
<1>13. CASE Sled!Crash
  <2>1. /\ call = <<>> /\ call' = <<>> /\ wanted' = None /\ inserting' = None
        /\ \E n \in DOMAIN states : states' = <<states[n]>>
    BY <1>3, <1>13, CrashDoes
  <2>2. Len(states) = 1 /\ HeadMatches
    BY <1>4, <2>1 DEF HeadIsDue
  <2>3. states' = <<last>>
    BY <2>1, <2>2, OneState
  <2>4. last' = last /\ Len(states') = 1
    BY <1>1, <2>3, OneOnly, StatesAreStates
  <2>5. HeadMatches'
    BY <2>2, <2>4, HeadStays
  <2>. QED
    BY <2>1, <2>4, <2>5, StepsDiffer
       DEF HeadIsDue, Appending, ToInsert, Sled!AppendSteps, ToFlush, ToHeight, ToHash, ToEnd
<1>14. ~Sled!Fail
  BY <1>2 DEF Sled!Fail
<1>. QED
  BY <1>4, <1>7, <1>8, <1>10, <1>11, <1>12, <1>13, <1>14, InsertLeavesHead, HeightCatchesUp,
     HashCatchesUp, FlushKeepsHead DEF Sled!Next

LEMMA NextSled == SledInv /\ Sled!Next => SledInv'
BY NextSledTypes, NextTrees, NextAckedAreInTrees, NextHeadsFollow, NextAppendIsOrdered,
   NextSaveClears, NextHeadIsKept DEF SledInv


LEMMA InitSled == Init => SledInv
<1>. SUFFICES ASSUME Init PROVE SledInv
  OBVIOUS
<1>. DEFINE empty == [rows |-> {}, claims |-> {}, height |-> 0, hash |-> None]
<1>1. /\ states = <<empty>> /\ nextId = 0 /\ call = <<>> /\ inserting = None
      /\ remaining = {} /\ wanted = None /\ minted = 0 /\ acked = {} /\ interrupted = FALSE
  BY DEF Init, Sled!Init, Sled!Empty
<1>2. /\ empty \in States /\ empty.rows = {} /\ empty.claims = {} /\ empty.height = 0
      /\ empty.hash = None
  BY DEF States
<1>. HIDE DEF empty
<1>3. /\ states \in Seq(States) /\ states # <<>> /\ Len(states) = 1 /\ DOMAIN states = {1}
      /\ states[1] = empty
  BY <1>1, <1>2
<1>4. last = empty
  BY <1>3 DEF last
<1>5. IsFiniteSet({}) /\ Cardinality({}) = 0
  BY FS_EmptySet
<1>6. SledTypes
  BY <1>1, <1>3 DEF SledTypes
<1>7. TreesAreInOrder
  BY <1>2, <1>3, <1>5 DEF TreesAreInOrder, KeysInOrder, Continues
<1>8. AckedAreInTrees
  BY <1>1 DEF AckedAreInTrees
<1>9. HeadsFollow
  <2>1. empty.height <= Cardinality(empty.rows)
    BY <1>2, <1>5
  <2>. QED
    BY <1>2, <1>3, <2>1 DEF HeadsFollow
<1>10. AppendIsOrdered
  BY <1>1, StepsDiffer DEF AppendIsOrdered, Appending
<1>11. SaveClears
  BY <1>1, StepsDiffer DEF SaveClears, ToClear, ToFill, ToEnd
<1>12. HeadIsKept
  BY <1>1, <1>2, <1>3, <1>4, <1>5, StepsDiffer
     DEF HeadIsKept, HeadIsDue, HeadMatches, Appending, ToInsert, Sled!AppendSteps, ToFlush,
         ToHeight, ToHash, ToEnd
<1>. QED
  BY <1>6, <1>7, <1>8, <1>9, <1>10, <1>11, <1>12 DEF SledInv

-----------------------------------------------------------------------------
(* What the invariant of the database is for. *)

LEMMA SledTreesAreRead == SledInv => Sled!AckedBlocksAreRead
<1>. SUFFICES ASSUME SledInv, NEW n \in DOMAIN states
              PROVE  LET read == Sled!LoadBlocks(states[n])
                     IN  /\ acked \subseteq Sled!ToSet(read)
                         /\ \A i, j \in DOMAIN read : i < j => read[i] < read[j]
  BY DEF Sled!AckedBlocksAreRead
<1>. DEFINE rows == states[n].rows
            read == ReadTree(rows)
<1>1. Sled!LoadBlocks(states[n]) = read
  BY TreeIsRead
<1>2. IsTree(rows)
  BY TreesAreTrees
<1>. HIDE DEF rows
<1>3. /\ DOMAIN read = 1..Cardinality(rows)
      /\ \A row \in rows : read[Place(rows, row)] = row[2]
      /\ \A i, j \in 1..Cardinality(rows) : i < j => read[i] < read[j]
  BY <1>2, ReadInOrder
<1>4. ASSUME NEW b \in acked
      PROVE  \E i \in DOMAIN read : read[i] = b
  <2>1. PICK row \in rows : row[2] = b
    BY DEF SledInv, AckedAreInTrees, HasBlock, rows
  <2>2. Place(rows, row) \in 1..Cardinality(rows)
    BY <1>2, PlaceTypes
  <2>. QED
    BY <1>3, <2>1, <2>2
<1>. HIDE DEF read
<1>5. acked \subseteq Sled!ToSet(read)
  BY <1>4 DEF Sled!ToSet
<1>. QED
  BY <1>1, <1>3, <1>5

LEMMA SledHead == SledInv => Sled!HeadNeverLeads
<1>. SUFFICES ASSUME SledInv PROVE Sled!HeadNeverLeads
  OBVIOUS
<1>1. SledTypes /\ HeadsFollow /\ HeadIsKept
  BY DEF SledInv
<1>2. ASSUME NEW n \in DOMAIN states
      PROVE  /\ states[n].height <= Sled!Cardinality(states[n].rows)
             /\ states[n].hash # None => \E row \in states[n].rows : row[2] = states[n].hash
  BY <1>1, SameCardinality DEF HeadsFollow, HasBlock
<1>3. ASSUME ~interrupted, call = <<>>
      PROVE  /\ last.height = Sled!Cardinality(last.rows)
             /\ last.rows # {} => last.hash = Sled!Last(Sled!LoadBlocks(last))
  <2>1. HeadMatches
    BY <1>1, <1>3 DEF HeadIsKept, HeadIsDue
  <2>2. last.height = Sled!Cardinality(last.rows)
    BY <2>1, SameCardinality DEF HeadMatches
  <2>3. ASSUME last.rows # {}
        PROVE  last.hash = Sled!Last(Sled!LoadBlocks(last))
    <3>. DEFINE rows == last.rows
                read == ReadTree(rows)
                count == Cardinality(rows)
    <3>1. IsTree(rows) /\ Sled!LoadBlocks(last) = read
      BY TreesAreTrees, TreeIsRead
    <3>2. PICK row \in rows : row[2] = last.hash
      BY <2>1, <2>3 DEF HeadMatches, HasBlock
    <3>3. \A other \in rows : other[2] <= last.hash
      BY <2>1, <2>3 DEF HeadMatches
    <3>. HIDE DEF rows
    <3>4. /\ Len(read) = count /\ count \in Nat
          /\ \A k \in 1..count : \E other \in rows : read[k] = other[2]
          /\ \A i, j \in 1..count : i < j => read[i] < read[j]
          /\ read[Place(rows, row)] = row[2]
      BY <3>1, ReadInOrder
    <3>5. Place(rows, row) \in 1..count
      BY <3>1, PlaceTypes
    <3>6. \A other \in rows : other[2] \in Nat
      BY <3>1, RowTypes
    <3>. HIDE DEF read, count
    <3>7. count \in 1..count
      BY <3>4, <3>5
    <3>8. PICK other \in rows : read[count] = other[2]
      BY <3>4, <3>7
    <3>9. read[count] <= last.hash /\ read[count] \in Nat /\ last.hash \in Nat
      BY <3>2, <3>3, <3>6, <3>8
    <3>10. CASE Place(rows, row) = count
      BY <3>1, <3>2, <3>4, <3>10 DEF Sled!Last
    <3>11. CASE Place(rows, row) # count
      <4>1. Place(rows, row) < count
        BY <3>4, <3>5, <3>11
      <4>2. last.hash < read[count]
        BY <3>2, <3>4, <3>5, <3>7, <4>1
      <4>. QED
        BY <3>9, <4>2
    <3>. QED
      BY <3>10, <3>11
  <2>. QED
    BY <2>2, <2>3
<1>4. Sled!db = last
  BY <1>1, StatesAreStates
<1>. QED
  BY <1>2, <1>3, <1>4 DEF Sled!HeadNeverLeads


-----------------------------------------------------------------------------
(* The contract of the database. *)

LEMMA StoredTree ==
    /\ SledInv => Sled!LoadBlocks(Head(states)) = ReadTree(states[1].rows)
    /\ SledInv' => Sled!LoadBlocks(Head(states))' = ReadTree(states'[1].rows)
<1>1. SledInv => Head(states) = states[1]
  BY StatesAreStates DEF SledInv
<1>2. ASSUME SledInv' PROVE Head(states') = states'[1]
  <2>1. states' \in Seq(States) /\ states' # <<>>
    BY <1>2 DEF SledInv, SledTypes, States, Rows, Sled!Blocks
  <2>. QED
    BY <2>1
<1>. QED
  BY <1>1, <1>2, TreeIsRead

\* A restart from a tree that continues the stored one.
LEMMA TreeGrows ==
    ASSUME SledInv, Sled!Next, NEW n \in DOMAIN states, states' = <<states[n]>>,
           acked' = acked,
           \/ interrupted'
           \/ Cardinality(states[n].rows) = Cardinality(states[1].rows) + 1
    PROVE  Sled!Contract!Grow \/ Sled!Contract!SameBlocks
<1>1. SledTypes /\ TreesAreInOrder /\ SledInv'
  BY NextSled DEF SledInv
<1>2. /\ DOMAIN states = 1..Len(states) /\ 1 \in DOMAIN states /\ states[n] \in States
      /\ Len(states) \in Nat
  BY <1>1, StatesAreStates
<1>3. states'[1] = states[n]
  BY <1>2, OneOnly
<1>. DEFINE rows == states[1].rows
            more == states[n].rows
            old == ReadTree(rows)
            new == ReadTree(more)
<1>4. /\ Sled!LoadBlocks(Head(states)) = old
      /\ Sled!LoadBlocks(Head(states))' = new
  BY <1>1, <1>3, StoredTree
<1>5. IsTree(rows) /\ IsTree(more) /\ Continues(rows, more)
  <2>1. 1 <= n
    BY <1>2
  <2>. QED
    BY <1>1, <1>2, <2>1, TreesAreTrees DEF TreesAreInOrder
<1>6. interrupted' \/ Cardinality(more) = Cardinality(rows) + 1
  OBVIOUS
<1>. HIDE DEF rows, more
<1>7. /\ old \in Seq(Sled!Blocks) /\ Len(old) = Cardinality(rows)
      /\ new \in Seq(Sled!Blocks) /\ Len(new) = Cardinality(more)
      /\ DOMAIN new = 1..Cardinality(more)
      /\ Cardinality(rows) \in Nat /\ Cardinality(more) \in Nat
  BY <1>5, ReadInOrder
<1>8. \A i, j \in 1..Cardinality(more) : i < j => new[i] < new[j]
  BY <1>5, ReadInOrder
<1>9. /\ Cardinality(rows) <= Cardinality(more)
      /\ Cardinality(rows) = Cardinality(more) => rows = more
      /\ \A i \in 1..Cardinality(rows) : new[i] = old[i]
  BY <1>5, ReadContinues
<1>10. CASE Cardinality(rows) = Cardinality(more)
  BY <1>4, <1>9, <1>10 DEF Sled!Contract!SameBlocks
<1>11. CASE Cardinality(rows) # Cardinality(more)
  <2>1. \A i \in 1..Cardinality(more) : new[i] \in Sled!Blocks
    BY <1>7, ElementOfSeq
  <2>2. \A i \in 1..Cardinality(more) : new[i] \in Nat
    BY <2>1, BoundAssumption DEF Sled!Blocks
  <2>. HIDE DEF old, new
  <2>3. Len(old) < Len(new)
    BY <1>7, <1>9, <1>11
  <2>4. Len(old) <= Len(new) /\ SubSeq(old, 1, Len(old)) = SubSeq(new, 1, Len(old)) /\ old # new
    BY <1>7, <1>9, <2>3, LongerBegins
  <2>5. ASSUME NEW i \in DOMAIN new, NEW j \in DOMAIN new, new[i] = new[j]
        PROVE  i = j
    <3>1. ~(i < j) /\ ~(j < i)
      BY <1>7, <1>8, <2>2, <2>5
    <3>. QED
      BY <1>7, <3>1
  <2>6. interrupted' \/ Len(new) = Len(old) + 1
    BY <1>6, <1>7
  <2>7. Sled!Contract!Grow
    BY <1>4, <2>4, <2>5, <2>6 DEF Sled!Contract!Grow, Sled!Contract!IsPrefix,
       Sled!Contract!IsInjective
  <2>. QED
    BY <2>7
<1>. QED
  BY <1>10, <1>11

LEMMA SameTree ==
    ASSUME SledInv, Sled!Next, states'[1].rows = states[1].rows, acked' = acked
    PROVE  Sled!Contract!SameBlocks
<1>1. SledInv'
  BY NextSled
<1>. QED
  BY <1>1, StoredTree DEF Sled!Contract!SameBlocks

\* The last flush of an append: the block that is acknowledged is stored already.
LEMMA LastFlushAcknowledges ==
    ASSUME SledInv, Sled!Next, states' = <<last>>, call = ToEnd, inserting # None,
           acked' = acked \cup {inserting}
    PROVE  Sled!Contract!Acknowledge
<1>1. SledTypes /\ AppendIsOrdered /\ SledInv'
  BY NextSled DEF SledInv
<1>2. /\ \A b \in acked : b < inserting
      /\ HasBlock(last.rows, inserting) /\ SameInAll("rows")
  BY <1>1, StepsDiffer DEF AppendIsOrdered, Appending
<1>3. 1 \in DOMAIN states /\ last \in States
  BY <1>1, StatesAreStates
<1>4. states[1].rows = last.rows /\ states'[1] = last
  BY <1>2, <1>3, OneOnly DEF SameInAll
<1>5. inserting \in Sled!Blocks \ acked
  <2>1. inserting \in Sled!Blocks /\ inserting \in Nat
    BY <1>1, BoundAssumption DEF SledTypes, Sled!Blocks
  <2>. QED
    BY <1>2, <2>1
<1>. DEFINE rows == last.rows
            read == ReadTree(rows)
<1>6. Sled!LoadBlocks(Head(states)) = read /\ Sled!LoadBlocks(Head(states))' = read
  BY <1>1, <1>4, StoredTree
<1>7. IsTree(rows)
  BY TreesAreTrees
<1>. HIDE DEF read
<1>8. inserting \in Sled!ToSet(read)
  <2>1. PICK row \in rows : row[2] = inserting
    BY <1>2 DEF HasBlock
  <2>2. /\ Place(rows, row) \in 1..Cardinality(rows) /\ DOMAIN read = 1..Cardinality(rows)
        /\ read[Place(rows, row)] = inserting
    BY <1>7, <2>1, PlaceTypes, ReadInOrder DEF read
  <2>. QED
    BY <2>2 DEF Sled!ToSet
<1>. QED
  BY <1>5, <1>6, <1>8 DEF Sled!Contract!Acknowledge, Sled!Contract!ToSet, Sled!ToSet

LEMMA SledInterruption == Sled!Next => (interrupted => interrupted')
  BY DEF Sled!Next, Sled!AppendCall, Sled!InsertBlock, Sled!SetHeight, Sled!SetHash,
     Sled!Flush, Sled!SaveCall, Sled!ClearClaim, Sled!ClaimsCleared, Sled!InsertClaim,
     Sled!ClaimsInserted, Sled!Fail, Sled!Crash


\* An operation other than a flush or a crash leaves the state a restart would read.
LEMMA FirstStateStays ==
    ASSUME SledInv, Sled!Next
    PROVE  Sled!Flush \/ Sled!Crash \/ (states'[1] = states[1] /\ acked' = acked)
<1>1. SledTypes
  BY DEF SledInv
<1>2. ASSUME NEW new \in States, states' = Append(states, new)
      PROVE  states'[1] = states[1]
  BY <1>1, <1>2, OneMore
<1>3. CASE Sled!AppendCall \/ Sled!SaveCall \/ Sled!ClaimsCleared \/ Sled!ClaimsInserted \/ Sled!Fail
  BY <1>3, AppendCallDoes, SaveCallDoes, ClaimsClearedDoes, ClaimsInsertedDoes DEF Sled!Fail
<1>4. CASE Sled!InsertBlock
  BY <1>2, <1>4, InsertedState, InsertBlockDoes
<1>5. CASE Sled!SetHeight
  BY <1>2, <1>5, HeightenedState, SetHeightDoes
<1>6. CASE Sled!SetHash
  BY <1>2, <1>6, HashedState, SetHashDoes
<1>7. CASE Sled!ClearClaim
  <2>1. PICK c \in last.claims :
          states' = Append(states, [last EXCEPT !.claims = last.claims \ {c}])
    BY <1>7, ClearClaimDoes
  <2>. QED
    BY <1>2, <1>7, <2>1, ClearedState, ClearClaimDoes
<1>8. CASE Sled!InsertClaim
  <2>1. PICK c \in remaining :
          states' = Append(states, [last EXCEPT !.claims = last.claims \cup {c}])
    BY <1>8, InsertClaimDoes
  <2>2. c \in Claims
    BY <1>1 DEF SledTypes
  <2>. QED
    BY <1>2, <1>8, <2>1, <2>2, FilledState, InsertClaimDoes
<1>. QED
  BY <1>3, <1>4, <1>5, <1>6, <1>7, <1>8 DEF Sled!Next

\* A crash that interrupts nothing loses nothing.
LEMMA IdleCrash ==
    ASSUME SledInv, Sled!Crash, ~interrupted'
    PROVE  states'[1] = states[1] /\ wanted = None /\ wanted' = None
<1>1. SledTypes /\ HeadIsKept /\ call = <<>> /\ ~interrupted
  BY DEF SledInv, Sled!Crash
<1>2. Len(states) = 1
  BY <1>1 DEF HeadIsKept, HeadIsDue
<1>3. PICK n \in DOMAIN states : states' = <<states[n]>>
  BY CrashDoes
<1>4. n = 1
  BY <1>2, OneState
<1>. QED
  BY <1>1, <1>3, <1>4, OneOnly, StatesAreStates, CallsDoNotMix, CrashDoes

LEMMA SledBlocksStep ==
    ASSUME SledInv, Sled!Next
    PROVE  Sled!Contract!Grow \/ Sled!Contract!Acknowledge \/ Sled!Contract!SameBlocks
<1>1. SledTypes /\ HeadIsKept
  BY DEF SledInv
<1>2. /\ Len(states) \in DOMAIN states /\ last = states[Len(states)] /\ 1 \in DOMAIN states
      /\ last \in States
  BY <1>1, StatesAreStates DEF last
<1>3. CASE states'[1] = states[1] /\ acked' = acked
  BY <1>3, SameTree
<1>4. CASE Sled!Crash
  <2>1. acked' = acked
    BY <1>4, CrashDoes
  <2>2. CASE interrupted'
    BY <1>4, <2>1, <2>2, CrashDoes, TreeGrows
  <2>3. CASE ~interrupted'
    BY <1>4, <2>1, <2>3, IdleCrash, SameTree
  <2>. QED
    BY <2>2, <2>3
<1>5. CASE Sled!Flush
  <2>1. states' = <<last>> /\ interrupted' = interrupted
    BY <1>5, FlushDoes
  <2>2. CASE interrupted /\ acked' = acked
    BY <1>2, <2>1, <2>2, TreeGrows
  <2>3. CASE call = ToFlush /\ ~interrupted
    <3>1. Cardinality(last.rows) = Cardinality(states[1].rows) + 1
      BY <1>1, <2>3 DEF HeadIsKept, HeadIsDue
    <3>2. acked' = acked
      BY <1>5, <2>3, FlushDoes, StepsDiffer
    <3>. QED
      BY <1>2, <2>1, <3>1, <3>2, TreeGrows
  <2>4. CASE call = ToEnd /\ inserting # None
    <3>1. acked' = acked \cup {inserting}
      BY <1>5, <2>4, FlushDoes, StepsDiffer
    <3>. QED
      BY <2>1, <2>4, <3>1, LastFlushAcknowledges
  <2>5. CASE call = ToEnd /\ inserting = None /\ ~interrupted
    <3>1. wanted # None /\ acked' = acked
      BY <1>5, <2>5, FlushDoes, CallsDoNotMix, StepsDiffer
    <3>2. states[1].rows = last.rows
      BY <1>1, <1>2, <2>5, <3>1 DEF HeadIsKept, HeadIsDue, SameInAll
    <3>3. states'[1] = last
      BY <1>2, <2>1, OneOnly
    <3>. QED
      BY <3>1, <3>2, <3>3, SameTree
  <2>6. acked' = acked \/ (call = ToEnd /\ inserting # None)
    BY <1>5, FlushDoes
  <2>7. call \in {ToFlush, ToEnd}
    BY <1>5, FlushDoes
  <2>. QED
    BY <2>2, <2>3, <2>4, <2>5, <2>6, <2>7
<1>. QED
  BY <1>3, <1>4, <1>5, FirstStateStays

LEMMA SledClaimsStep ==
    ASSUME SledInv, Sled!Next
    PROVE  \/ Sled!Contract!Ask \/ Sled!Contract!Replace \/ Sled!Contract!Abandon
           \/ Sled!Contract!Tear \/ Sled!Contract!SameClaims
<1>1. SledTypes /\ HeadIsKept /\ SaveClears /\ AppendIsOrdered /\ SledInv'
  BY NextSled DEF SledInv
<1>2. Head(states) = states[1] /\ Head(states)' = states'[1]
  <2>1. states' \in Seq(States) /\ states' # <<>>
    BY NextStates
  <2>. QED
    BY <1>1, <2>1, StatesAreStates
<1>3. 1 \in DOMAIN states /\ last \in States /\ \A n \in DOMAIN states : states[n] \in States
  BY <1>1, StatesAreStates
<1>4. CASE states'[1].claims = states[1].claims /\ wanted' = wanted
  BY <1>2, <1>4 DEF Sled!Contract!SameClaims
<1>5. CASE Sled!SaveCall
  <2>1. call = <<>> /\ wanted' \in SUBSET Claims /\ states' = states
    BY <1>5, SaveCallDoes
  <2>2. wanted = None
    BY <2>1, CallsDoNotMix
  <2>. QED
    BY <2>1, <2>2 DEF Sled!Contract!Ask
<1>6. CASE Sled!Fail
  BY <1>6 DEF Sled!Fail, Sled!Contract!Abandon
<1>7. CASE Sled!Crash
  <2>1. CASE interrupted'
    <3>1. PICK n \in DOMAIN states : states' = <<states[n]>>
      BY <1>7, CrashDoes
    <3>2. states'[1] = states[n] /\ states[n].claims \in SUBSET Claims
      BY <1>3, <3>1, OneOnly DEF States
    <3>3. wanted' = None
      BY <1>7, CrashDoes
    <3>. QED
      BY <1>2, <2>1, <3>2, <3>3 DEF Sled!Contract!Tear
  <2>2. CASE ~interrupted'
    BY <1>4, <1>7, <2>2, IdleCrash
  <2>. QED
    BY <2>1, <2>2
<1>8. CASE Sled!Flush
  <2>1. states' = <<last>> /\ interrupted' = interrupted
    BY <1>8, FlushDoes
  <2>2. states'[1] = last
    BY <1>3, <2>1, OneOnly
  <2>3. CASE call = ToFlush
    <3>1. wanted' = wanted
      BY <1>8, <2>3, FlushDoes, StepsDiffer
    <3>2. CASE interrupted
      <4>1. last.claims \in SUBSET Claims
        BY <1>3 DEF States
      <4>. QED
        BY <1>2, <2>1, <2>2, <3>1, <3>2, <4>1 DEF Sled!Contract!Tear
    <3>3. CASE ~interrupted
      <4>1. last.claims = states[1].claims
        BY <1>1, <1>3, <2>3, <3>3 DEF HeadIsKept, HeadIsDue, SameInAll
      <4>. QED
        BY <1>4, <2>2, <3>1, <4>1
    <3>. QED
      BY <3>2, <3>3
  <2>4. CASE call # ToFlush /\ inserting # None
    <3>1. call = ToEnd /\ wanted' = None /\ wanted = None
      BY <1>8, <2>4, FlushDoes, CallsDoNotMix
    <3>2. last.claims = states[1].claims
      BY <1>1, <1>3, <2>4, <3>1, StepsDiffer DEF AppendIsOrdered, Appending, SameInAll
    <3>. QED
      BY <1>4, <2>2, <3>1, <3>2
  <2>5. CASE call # ToFlush /\ inserting = None
    <3>1. call = ToEnd /\ wanted' = None /\ wanted # None
      BY <1>8, <2>5, FlushDoes, CallsDoNotMix
    <3>2. last.claims = wanted
      BY <1>1, <3>1 DEF SaveClears
    <3>. QED
      BY <1>2, <2>2, <3>1, <3>2 DEF Sled!Contract!Replace
  <2>. QED
    BY <2>3, <2>4, <2>5
<1>9. \/ wanted' = wanted \/ Sled!SaveCall \/ Sled!Fail \/ Sled!Crash \/ Sled!Flush
  BY AppendCallDoes, InsertBlockDoes, SetHeightDoes, SetHashDoes, ClearClaimDoes,
     ClaimsClearedDoes, InsertClaimDoes, ClaimsInsertedDoes DEF Sled!Next
<1>. QED
  BY <1>4, <1>5, <1>6, <1>7, <1>8, <1>9, FirstStateStays

LEMMA SledFollowsContract == SledInv /\ Sled!Next => Sled!Contract!Next
  BY SledBlocksStep, SledClaimsStep, SledInterruption DEF Sled!Contract!Next


-----------------------------------------------------------------------------
(* The storage, whichever is chosen. *)

LEMMA InitStorage == Init => StorageInv
BY InitFile, InitSled DEF Init, StorageInv

LEMMA SameStorage == StorageInv /\ UNCHANGED vars => StorageInv'
<1>. SUFFICES ASSUME StorageInv, UNCHANGED vars PROVE StorageInv'
  OBVIOUS
<1>1. /\ UNCHANGED <<backend, minted, wanted, acked, interrupted>>
      /\ UNCHANGED <<lines, rest, holder, stage, block, claimFile, tmp, save>>
      /\ UNCHANGED <<states, nextId, call, inserting, remaining>>
  BY DEF vars, fileVars, sledVars
<1>2. ASSUME FileInv PROVE FileInv'
  <2>1. text' = text
    BY <1>1 DEF text
  <2>2. FileTypes'
    BY <1>1, <1>2 DEF FileInv, FileTypes, Pieces, File!Blocks
  <2>3. WritersHoldTheLock' /\ BlocksAreOwn' /\ LineIsBegun'
    BY <1>1, <1>2 DEF FileInv, WritersHoldTheLock, BlocksAreOwn, LineIsBegun, File!Blocks
  <2>4. NothingIsLeft'
    BY <1>1, <1>2 DEF FileInv, NothingIsLeft
  <2>5. AckedEndLines' /\ AckedAreOlder'
    BY <1>1, <1>2 DEF FileInv, EndsALine, AckedEndLines, AckedAreOlder
  <2>6. WrittenIsOlder'
    BY <1>1, <1>2, <2>1 DEF FileInv, WrittenIsOlder
  <2>7. LinesAreInOrder'
    BY <1>2, <2>1 DEF FileInv, LinesAreInOrder
  <2>8. SaveIsOrdered'
    BY <1>1, <1>2 DEF FileInv, SaveIsOrdered
  <2>. QED
    BY <2>2, <2>3, <2>4, <2>5, <2>6, <2>7, <2>8 DEF FileInv
<1>3. ASSUME SledInv PROVE SledInv'
  BY <1>1, <1>3
     DEF SledInv, SledTypes, Rows, States, last, KeysInOrder, Continues, TreesAreInOrder, HasBlock,
         AckedAreInTrees, HeadsFollow, Appending, SameInAll, AppendIsOrdered, SaveClears,
         HeadMatches, HeadIsDue, HeadIsKept, Sled!Blocks, ToInsert, Sled!AppendSteps, ToFlush,
         ToHeight, ToHash, ToEnd, ToClear, ToFill
<1>. QED
  BY <1>1, <1>2, <1>3 DEF StorageInv

LEMMA NextStorage == StorageInv /\ [Next]_vars => StorageInv'
<1>1. ASSUME StorageInv, Next PROVE StorageInv'
  BY <1>1, NextFile, NextSled DEF Next, StorageInv
<1>. QED
  BY <1>1, SameStorage

\* What the storage keeps of its variables at every step of a call, whichever
\* was chosen: the log's lines and who writes them, or the trees and the head
\* in each state a crash can leave the database in.
THEOREM StorageKeepsOrder == Spec => []StorageInv
  BY InitStorage, NextStorage, PTL DEF Spec

\* Every acknowledged block is read again, and in order, after any crash: from
\* the log if it can be read at all, and from the database in any case.
THEOREM NoAckedBlockIsLost == Spec => []AckedBlocksAreRead
<1>1. StorageInv => AckedBlocksAreRead
  BY FilesAreRead, SledTreesAreRead DEF StorageInv, AckedBlocksAreRead
<1>. QED
  BY <1>1, StorageKeepsOrder, PTL

\* The head of the database, written after the block it names, never leads it,
\* and no append or save that is left in peace leaves it behind.
THEOREM TheHeadNeverLeads == Spec => []HeadNeverLeads
<1>1. StorageInv => HeadNeverLeads
  BY SledHead DEF StorageInv, HeadNeverLeads
<1>. QED
  BY <1>1, StorageKeepsOrder, PTL

LEMMA FilesBeginEmpty == Init => File!Contract!Init
<1>. SUFFICES ASSUME Init PROVE File!Contract!Init
  OBVIOUS
<1>1. /\ lines = <<>> /\ rest = <<>> /\ stage = [a \in Callers |-> "idle"]
      /\ acked = {} /\ interrupted = FALSE /\ claimFile = {} /\ wanted = None
  BY DEF Init, File!Init
<1>2. kept = <<>>
  <2>1. ~Someone
    BY <1>1 DEF Someone
  <2>. QED
    BY <1>1, <2>1, KeptCases DEF File!LinesOf
<1>3. DOMAIN <<>> = {}
  OBVIOUS
<1>4. Whole(kept) /\ Firsts(kept) = <<>>
  BY <1>2, <1>3 DEF Whole, Firsts
<1>5. File!Loads(File!Settled) /\ File!LoadBlocks(File!Settled) = <<>>
  BY <1>4, KeptLines
<1>. QED
  BY <1>1, <1>5 DEF File!Contract!Init

LEMMA SledBeginsEmpty == Init => Sled!Contract!Init
<1>. SUFFICES ASSUME Init PROVE Sled!Contract!Init
  OBVIOUS
<1>1. SledInv /\ 1 \in DOMAIN states /\ Head(states) = states[1]
  BY InitSled, StatesAreStates DEF SledInv
<1>2. /\ acked = {} /\ interrupted = FALSE /\ wanted = None
      /\ states[1].rows = {} /\ states[1].claims = {}
  BY DEF Init, Sled!Init, Sled!Empty
<1>3. Cardinality({}) = 0
  BY FS_EmptySet
<1>4. ReadTree({}) = <<>>
  <2>1. IsTree({})
    BY <1>1, <1>2, TreesAreTrees
  <2>2. ReadTree({}) \in Seq(Sled!Blocks) /\ Len(ReadTree({})) = 0
    BY <1>3, <2>1, ReadInOrder
  <2>. QED
    BY <2>2, EmptySeq
<1>5. Sled!LoadBlocks(Head(states)) = <<>>
  BY <1>1, <1>2, <1>4, StoredTree
<1>. QED
  BY <1>1, <1>2, <1>5 DEF Sled!Contract!Init

\* Each step of a call, a failure and a crash of either storage is one of the
\* trait's contract, or changes nothing that a restart reads.
THEOREM EitherStorageKeepsTheContract == Spec => StorageFollowsContract
<1>1. Init => IF backend = "sled" THEN Sled!Contract!Init ELSE File!Contract!Init
  BY FilesBeginEmpty, SledBeginsEmpty
<1>2. StorageInv /\ [Next]_vars =>
        [IF backend = "sled" THEN Sled!Contract!Next ELSE File!Contract!Next]_vars
  <2>1. ASSUME StorageInv, Next
        PROVE  IF backend = "sled" THEN Sled!Contract!Next ELSE File!Contract!Next
    BY <2>1, FilesFollowContract, SledFollowsContract DEF Next, StorageInv
  <2>. QED
    BY <2>1
<1>. QED
  BY <1>1, <1>2, StorageKeepsOrder, PTL DEF Spec, StorageFollowsContract
=============================================================================
