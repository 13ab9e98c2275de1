-------------------------- MODULE ConfigServiceProofs --------------------------
(***************************************************************************)
(* Proofs, for any threads, contents, lengths and bounds: the types, that  *)
(* the snapshot file is the content saved last or the beginning of it, and *)
(* that getConfig() falls back on what is there of it.                     *)
(***************************************************************************)
EXTENDS ConfigService, FiniteSetTheorems, TLAPS

-----------------------------------------------------------------------------
(* Texts. *)

Marks == {Hole, Garbage}
FileTexts == Seq(Contents \cup {Hole})

LEMMA Numbers ==
  /\ Contents \subseteq Nat /\ Null \notin Contents /\ Hole \notin Contents /\ Garbage \notin Contents
  /\ Unknown \notin Contents \cup {Null} /\ Null # Hole
  /\ \A c \in Contents : Length[c] \in Nat \ {0}
BY ConstantsAssumption DEF Null, Hole, Garbage, Unknown

LEMMA ChunksFact ==
  ASSUME NEW c \in Contents
  PROVE  /\ Chunks(c) = [i \in 1..Length[c] |-> c]
         /\ Chunks(c) \in Seq(Contents) /\ Len(Chunks(c)) = Length[c]
         /\ Chunks(c) # <<>>
BY Numbers DEF Chunks

LEMMA ChunksText ==
  ASSUME NEW c \in Contents \cup {Null}
  PROVE  Chunks(c) \in Texts /\ ~Contains(Chunks(c), Hole)
<1>1. CASE c = Null
  BY <1>1 DEF Chunks, Texts, Contains
<1>2. CASE c \in Contents
  BY <1>2, ChunksFact, Numbers DEF Texts, Contains
<1> QED
  BY <1>1, <1>2

\* The least of a set of natural numbers.
Below == {p \in Nat \X Nat : p[1] < p[2]}

LEMMA Least ==
  ASSUME NEW S \in SUBSET Nat, S # {}
  PROVE  Min(S) \in S /\ \A i \in S : Min(S) <= i
<1>1. IsWellFoundedOn(Below, Nat)
  BY NatLessThanWellFounded DEF OpToRel, Below
<1>2. PICK n \in S : \A i \in S : ~(<<i, n>> \in Below)
  BY <1>1, WFMin
<1>3. \A i \in Nat : i < n => <<i, n>> \in Below
  BY DEF Below
<1>4. ASSUME NEW i \in S PROVE n <= i
  <2>1. ~(<<i, n>> \in Below) /\ i \in Nat /\ n \in Nat
    BY <1>2
  <2>2. ~(i < n)
    BY <1>3, <2>1
  <2> QED
    BY <2>1, <2>2
<1> QED
  BY <1>4 DEF Min

\* A string ends before its first hole, and does not change without one.
LEMMA CStringFact ==
  ASSUME NEW s \in Texts
  PROVE  /\ CString(s) \in Texts /\ ~Contains(CString(s), Hole)
         /\ ~Contains(s, Hole) => CString(s) = s
<1> DEFINE I == {i \in 1..Len(s) : s[i] = Hole}
<1>0. Len(s) \in Nat /\ \A i \in 1..Len(s) : s[i] \in Contents \cup Marks
  BY DEF Texts, Marks
<1>1. UpToHole(s) = IF I # {} THEN Min(I) ELSE 0
  BY DEF UpToHole, SelectInSeq
<1>2. CASE I = {}
  <2>1. CString(s) = s
    BY <1>1, <1>2 DEF CString
  <2> QED
    BY <1>2, <2>1 DEF Contains
<1>3. CASE I # {}
  <2> DEFINE m == Min(I)
  <2>1. m \in I /\ \A i \in I : m <= i
    <3>1. I \in SUBSET Nat
      BY <1>0
    <3> HIDE DEF I
    <3> QED
      BY <1>3, <3>1, Least
  <2> HIDE DEF m
  <2>2. CString(s) = SubSeq(s, 1, m - 1)
    <3>1. UpToHole(s) = m /\ m # 0
      BY <1>1, <1>3, <2>1 DEF m
    <3> QED
      BY <3>1 DEF CString
  <2>3. /\ SubSeq(s, 1, m - 1) \in Texts /\ Len(SubSeq(s, 1, m - 1)) = m - 1
        /\ \A i \in 1..(m - 1) : SubSeq(s, 1, m - 1)[i] = s[i]
    BY <1>0, <2>1 DEF Texts
  <2>4. \A i \in 1..(m - 1) : s[i] # Hole
    BY <1>0, <2>1
  <2> QED
    BY <1>3, <2>2, <2>3, <2>4 DEF Contains
<1> QED
  BY <1>2, <1>3

LEMMA PutFact ==
  ASSUME NEW s \in FileTexts, NEW i \in Nat \ {0}, NEW c \in Contents
  PROVE  /\ Put(s, i, c) \in FileTexts
         /\ i = Len(s) + 1 => Put(s, i, c) = [j \in 1..i |-> IF j = i THEN c ELSE s[j]]
BY DEF Put, FileTexts

-----------------------------------------------------------------------------
(* Types. *)

Codes == Refusals \cup {"net"}
Requesting == [stage : {"request"}]
Looking == [stage : {"remove", "stat", "size"}, code : Codes]
Creating == [stage : {"create"}, content : Contents]
Writing == [stage : {"write"}, content : Contents, file : Files, pos : Nat]
Opening == [stage : {"open"}, code : Codes, size : Nat]
Reading == [stage : {"read"}, code : Codes, size : Nat, file : Files, text : Texts]
Finished == [stage : {"done"}, from : {"failover", "server", "snapshot", "denied"}, result : Texts]

\* TypeOK without the calls, and with them.
RestTypes ==
    /\ server \in Contents \cup {Null} /\ failover \in Contents \cup {Null}
    /\ path \in Files \cup {NoFile}
    /\ data \in [Files -> FileTexts]
    /\ saved \in Contents \cup {Null} /\ mark \in {"whole", "cut", "mixed"}
    /\ expect \in [Threads -> Contents \cup {Null, Unknown}] /\ partial \in SUBSET Threads

\* Besides, a save that is under way has still a chunk to write.
CallTypes ==
    /\ call \in [Threads -> Calls]
    /\ \A t \in Threads : call[t].stage = "done" => ~Contains(call[t].result, Hole)
    /\ \A t \in Threads : call[t].stage = "write" => call[t].pos < Length[call[t].content]

Types == RestTypes /\ CallTypes

-----------------------------------------------------------------------------
(* The snapshot and its readers. *)

\* One who writes alone appends; who has written all is not there any more.
SnapshotInv ==
    /\ mark = "whole" =>
           /\ \A t \in Threads : ~Writes(t, path)
           /\ IF saved = Null THEN path = NoFile ELSE path # NoFile /\ data[path] = Chunks(saved)
    /\ mark = "cut" =>
           /\ path # NoFile /\ saved # Null
           /\ Len(data[path]) < Length[saved]
           /\ data[path] = [i \in 1..Len(data[path]) |-> saved]
           /\ \A t \in Threads :
                 Writes(t, path) => call[t].content = saved /\ call[t].pos = Len(data[path])
           /\ \A t, u \in Threads : Writes(t, path) /\ Writes(u, path) => t = u

\* The snapshot is e, or the beginning of e if t has looked for it when its save
\* was not finished.
Intact(t, e) ==
    /\ e \in Contents /\ path # NoFile
    /\ data[path] = [i \in 1..Len(data[path]) |-> e]
    /\ Len(data[path]) <= Length[e]
    /\ t \notin partial => Len(data[path]) = Length[e]

Expected(t, e, result) == IF t \in partial THEN IsPrefix(result, Chunks(e)) ELSE result = Chunks(e)

\* What a thread has found out that knows what it has to read.
ReaderInv(t) ==
    LET c == call[t]  e == expect[t]
    IN  /\ c.stage \in {"idle", "request", "create", "write", "remove", "stat"} => e = Unknown
        /\ e # Unknown =>
             /\ c.stage \in {"size", "open", "read"} => Intact(t, e)
             /\ c.stage \in {"open", "read"} => c.size = Len(data[path])
             /\ c.stage = "read" => /\ c.file = path /\ Len(c.text) <= Len(data[path])
                                    /\ c.text = [i \in 1..Len(c.text) |-> e]
             /\ c.stage = "done" /\ c.from \in {"snapshot", "denied"} => Expected(t, e, c.result)

Inv == Types /\ SnapshotInv /\ \A t \in Threads : ReaderInv(t)

LEMMA CallFact ==
  ASSUME NEW c \in Calls
  PROVE  /\ c.stage = "idle" => c = Idle
         /\ c.stage = "request" => c \in Requesting
         /\ c.stage \in {"remove", "stat", "size"} => c \in Looking
         /\ c.stage = "create" => c \in Creating
         /\ c.stage = "write" => c \in Writing
         /\ c.stage = "open" => c \in Opening
         /\ c.stage = "read" => c \in Reading
         /\ c.stage = "done" => c \in Finished
         /\ c.stage \in {"idle", "request", "remove", "stat", "size", "create", "write", "open", "read", "done"}
BY DEF Calls, Idle, Requesting, Looking, Creating, Writing, Opening, Reading, Finished, Codes

LEMMA CallsFact ==
  /\ Idle \in Calls
  /\ Requesting \cup Looking \cup Creating \cup Writing \cup Opening \cup Reading \cup Finished \subseteq Calls
BY DEF Calls, Requesting, Looking, Creating, Writing, Opening, Reading, Finished, Codes

LEMMA StepTypes ==
  ASSUME CallTypes, NEW t \in Threads, NEW from, NEW to \in Calls, Step(t, from, to),
         to.stage = "done" => ~Contains(to.result, Hole),
         to.stage = "write" => to.pos < Length[to.content]
  PROVE  CallTypes'
BY DEF CallTypes, Step

LEMMA DoneTypes ==
  ASSUME CallTypes, NEW t \in Threads, NEW from, NEW source \in {"failover", "server", "snapshot", "denied"},
         NEW result \in Texts, ~Contains(result, Hole), Done(t, from, source, result)
  PROVE  CallTypes'
<1> DEFINE to == [stage |-> "done", from |-> source, result |-> result]
<1>1. to \in Finished /\ to.stage = "done" /\ to.result = result
  BY DEF Finished
<1>2. Step(t, from, to)
  BY DEF Done
<1> HIDE DEF to
<1> QED
  BY <1>1, <1>2, CallsFact, StepTypes

LEMMA TypesInit == Init => Types
<1> SUFFICES ASSUME Init PROVE Types
  OBVIOUS
<1>1. RestTypes
  BY DEF Init, RestTypes, FileTexts
<1>2. CallTypes
  BY CallsFact DEF Init, CallTypes, Idle
<1> QED
  BY <1>1, <1>2 DEF Types

\* A thread that is about to create a file finds one that nobody has open: the
\* others have one each at most.
LEMMA FreeFile ==
  ASSUME Types, NEW t \in Threads, call[t].stage = "create", path = NoFile
  PROVE  \E g \in Files : g \notin Live
<1> SUFFICES ASSUME \A g \in Files : g \in Live PROVE FALSE
  OBVIOUS
<1> DEFINE W == Threads \ {t}
           T == {call[u].file : u \in W}
           f == [u \in W |-> call[u].file]
<1>1. IsFiniteSet(W) /\ Cardinality(W) = Cardinality(Threads) - 1
  BY FS_RemoveElement, FilesAssumption
<1>2. f \in Surjection(W, T)
  BY DEF Surjection
<1>3. IsFiniteSet(T) /\ Cardinality(T) <= Cardinality(W)
  <2> HIDE DEF W, T, f
  <2> QED
    BY <1>1, <1>2, FS_Surjection
<1>4. Files \subseteq T
  BY ConstantsAssumption DEF Live
<1>5. Cardinality(Files) <= Cardinality(T)
  <2> HIDE DEF T
  <2> QED
    BY <1>3, <1>4, FS_Subset
<1>6. Cardinality(Threads) \in Nat /\ Cardinality(Files) \in Nat /\ Cardinality(T) \in Nat /\ Cardinality(W) \in Nat
  <2> HIDE DEF T, W
  <2> QED
    BY <1>1, <1>3, FS_CardinalityType, FilesAssumption
<1> HIDE DEF W, T
<1> QED
  BY <1>1, <1>3, <1>5, <1>6, FilesAssumption

\* fopen("wb"): the file is the one that is there or one that nobody has open.
LEMMA CreateFact ==
  ASSUME Types, NEW t \in Threads, Create(t)
  PROVE  \E f \in Files :
           /\ IF path = NoFile THEN f \notin Live ELSE f = path
           /\ call[t].content \in Contents
           /\ Step(t, "create", [stage |-> "write", content |-> call[t].content, file |-> f, pos |-> 0])
           /\ path' = f
           /\ data' = [data EXCEPT ![f] = <<>>]
           /\ saved' = call[t].content
           /\ mark' = IF \E u \in Threads : Writes(u, f) THEN "mixed" ELSE "cut"
           /\ Interfere
           /\ UNCHANGED <<server, failover, bounds>>
<1>1. call[t].stage = "create" /\ call[t].content \in Contents
  BY CallFact DEF Create, Types, CallTypes, Creating
<1>2. \A f \in IF path = NoFile THEN {CHOOSE g \in Files : g \notin Live} ELSE {path} :
         f \in Files /\ IF path = NoFile THEN f \notin Live ELSE f = path
  BY <1>1, FreeFile DEF Types, RestTypes
<1>3. PICK f \in IF path = NoFile THEN {CHOOSE g \in Files : g \notin Live} ELSE {path} :
           /\ Step(t, "create", [stage |-> "write", content |-> call[t].content, file |-> f, pos |-> 0])
           /\ path' = f
           /\ data' = [data EXCEPT ![f] = <<>>]
           /\ saved' = call[t].content
           /\ mark' = IF \E u \in Threads : Writes(u, f) THEN "mixed" ELSE "cut"
           /\ Interfere
           /\ UNCHANGED <<server, failover, bounds>>
  BY DEF Create
<1>4. f \in Files /\ IF path = NoFile THEN f \notin Live ELSE f = path
  BY <1>2
<1> QED
  BY <1>1, <1>3, <1>4

LEMMA WriteFact ==
  ASSUME Types, NEW t \in Threads, WriteChunk(t)
  PROVE  /\ call[t] \in Writing /\ call[t].file \in Files /\ call[t].content \in Contents
         /\ call[t].pos \in Nat /\ call[t].pos < Length[call[t].content]
         /\ Length[call[t].content] \in Nat \ {0}
BY CallFact, Numbers DEF WriteChunk, Types, CallTypes, Writing

LEMMA ReadFact ==
  ASSUME Types, NEW t \in Threads, call[t].stage = "read"
  PROVE  /\ call[t] \in Reading /\ call[t].file \in Files /\ call[t].text \in Texts /\ Len(call[t].text) \in Nat
         /\ call[t].size \in Nat
         /\ data[call[t].file] \in FileTexts /\ Len(data[call[t].file]) \in Nat
BY CallFact DEF Types, CallTypes, RestTypes, Reading, Texts, FileTexts

\* A call that falls back on what it has read.
LEMMA FallBackTypes ==
  ASSUME Types, NEW t \in Threads, NEW from, NEW result \in Texts, ~Contains(result, Hole),
         FallBack(t, from, result)
  PROVE  CallTypes'
BY DoneTypes DEF FallBack, Types

LEMMA EmptyText == <<>> \in Texts /\ ~Contains(<<>>, Hole)
BY DEF Texts, Contains

\* The steps before the file is written.
LEMMA RequestTypes ==
  ASSUME Types, NEW t \in Threads,
         \/ GetConfig(t) \/ Answered(t) \/ (\E code \in Refusals : Refused(t, code)) \/ NoAnswer(t)
         \/ Return(t)
  PROVE  Types'
<1>1. RestTypes'
  BY DEF GetConfig, Answered, Refused, NoAnswer, Return, disk, ghosts, hopes, Types, RestTypes
<1>2. CASE GetConfig(t)
  <2>1. [stage |-> "request"] \in Calls
    BY CallsFact DEF Requesting
  <2>2. CASE failover # Null
    <3>1. Done(t, "idle", "failover", Chunks(failover))
      BY <1>2, <2>2 DEF GetConfig
    <3>2. Chunks(failover) \in Texts /\ ~Contains(Chunks(failover), Hole)
      BY ChunksText DEF Types, RestTypes
    <3> QED
      BY <1>1, <3>1, <3>2, DoneTypes DEF Types
  <2>3. CASE failover = Null
    <3>1. Step(t, "idle", [stage |-> "request"])
      BY <1>2, <2>3 DEF GetConfig
    <3> QED
      BY <1>1, <2>1, <3>1, StepTypes DEF Types
  <2> QED
    BY <1>1, <2>2, <2>3 DEF Types
<1>3. CASE Answered(t)
  <2>1. [stage |-> "create", content |-> server] \in Calls
    BY <1>3, CallsFact DEF Answered, Creating, Types, RestTypes
  <2> QED
    BY <1>1, <1>3, <2>1, StepTypes DEF Answered, Types
<1>4. ASSUME NEW code \in Refusals, Refused(t, code) PROVE Types'
  <2>1. [stage |-> "remove", code |-> code] \in Calls
    BY CallsFact DEF Looking, Codes
  <2> QED
    BY <1>1, <1>4, <2>1, StepTypes DEF Refused, Types
<1>5. CASE NoAnswer(t)
  <2>1. [stage |-> "stat", code |-> "net"] \in Calls
    BY CallsFact DEF Looking, Codes
  <2> QED
    BY <1>1, <1>5, <2>1, StepTypes DEF NoAnswer, Types
<1>6. CASE Return(t)
  BY <1>1, <1>6, CallsFact, StepTypes DEF Return, Types, Idle
<1> QED
  BY <1>2, <1>3, <1>4, <1>5, <1>6

\* saveSnapshot() and remove().
LEMMA SaveTypes ==
  ASSUME Types, NEW t \in Threads, Create(t) \/ WriteChunk(t) \/ RemoveSnapshot(t)
  PROVE  Types'
<1>0. Interfere => /\ expect' \in [Threads -> Contents \cup {Null, Unknown}]
                   /\ partial' \in SUBSET Threads
  BY DEF Interfere, Types, RestTypes
<1>1. CASE Create(t)
  <2>1. PICK f \in Files :
           /\ call[t].content \in Contents
           /\ Step(t, "create", [stage |-> "write", content |-> call[t].content, file |-> f, pos |-> 0])
           /\ path' = f
           /\ data' = [data EXCEPT ![f] = <<>>]
           /\ saved' = call[t].content
           /\ mark' \in {"mixed", "cut"}
           /\ Interfere
           /\ UNCHANGED <<server, failover>>
    BY <1>1, CreateFact
  <2>2. RestTypes'
    BY <1>0, <2>1 DEF Types, RestTypes, FileTexts
  <2>3. [stage |-> "write", content |-> call[t].content, file |-> f, pos |-> 0] \in Calls
    BY <2>1, CallsFact DEF Writing
  <2>4. CallTypes'
    <3> DEFINE to == [stage |-> "write", content |-> call[t].content, file |-> f, pos |-> 0]
    <3>1. to \in Calls /\ Step(t, "create", to)
      BY <2>1, <2>3
    <3>2. to.stage = "write" /\ to.pos < Length[to.content]
      BY <2>1, Numbers
    <3> HIDE DEF to
    <3> QED
      BY <3>1, <3>2, StepTypes DEF Types
  <2> QED
    BY <2>2, <2>4 DEF Types
<1>2. CASE WriteChunk(t)
  <2> DEFINE f == call[t].file
             c == call[t].content
             pos == call[t].pos + 1
  <2>1. /\ call[t] \in Writing /\ f \in Files /\ c \in Contents /\ pos \in Nat \ {0} /\ pos <= Length[c]
        /\ Length[c] \in Nat \ {0}
    BY <1>2, WriteFact
  <2>2. Put(data[f], pos, c) \in FileTexts
    BY <2>1, PutFact DEF Types, RestTypes
  <2>3. RestTypes'
    <3>1. /\ data' = [data EXCEPT ![f] = Put(data[f], pos, c)]
          /\ mark' \in {mark, "whole"}
          /\ Interfere \/ UNCHANGED hopes
          /\ UNCHANGED <<server, failover, path, saved>>
      BY <1>2 DEF WriteChunk
    <3> HIDE DEF f, pos, c
    <3>2. data' \in [Files -> FileTexts]
      BY <2>1, <2>2, <3>1 DEF Types, RestTypes
    <3>3. expect' \in [Threads -> Contents \cup {Null, Unknown}] /\ partial' \in SUBSET Threads
      BY <1>0, <3>1 DEF Types, RestTypes, hopes
    <3> QED
      BY <3>1, <3>2, <3>3 DEF Types, RestTypes
  <2>4. CASE pos = Length[c]
    <3>1. Done(t, "write", "server", Chunks(c))
      BY <1>2, <2>4 DEF WriteChunk
    <3>2. Chunks(c) \in Texts /\ ~Contains(Chunks(c), Hole)
      BY <2>1, ChunksText
    <3> QED
      BY <2>3, <3>1, <3>2, DoneTypes DEF Types
  <2>5. CASE pos # Length[c]
    <3>1. [call[t] EXCEPT !.pos = pos] \in Writing
      BY <2>1 DEF Writing
    <3>2. [call[t] EXCEPT !.pos = pos].pos = pos /\ [call[t] EXCEPT !.pos = pos].content = c
          /\ [call[t] EXCEPT !.pos = pos].stage = "write"
      BY <2>1 DEF Writing
    <3>3. Step(t, "write", [call[t] EXCEPT !.pos = pos])
      BY <1>2, <2>5 DEF WriteChunk
    <3>4. pos < Length[c]
      BY <2>1, <2>5
    <3> DEFINE to == [call[t] EXCEPT !.pos = pos]
    <3>5. /\ to \in Calls /\ Step(t, "write", to)
          /\ to.stage = "write" /\ to.pos < Length[to.content]
      BY <3>1, <3>2, <3>3, <3>4, CallsFact
    <3> HIDE DEF to
    <3> QED
      BY <2>3, <3>5, StepTypes DEF Types
  <2> QED
    BY <2>3, <2>4, <2>5 DEF Types
<1>3. CASE RemoveSnapshot(t)
  <2>1. RestTypes'
    BY <1>0, <1>3 DEF RemoveSnapshot, Types, RestTypes
  <2>2. call[t].code \in Codes
    BY <1>3, CallFact DEF RemoveSnapshot, Types, CallTypes, Looking
  <2>3. [stage |-> "stat", code |-> call[t].code] \in Calls
    BY <2>2, CallsFact DEF Looking
  <2> QED
    BY <1>3, <2>1, <2>3, StepTypes DEF RemoveSnapshot, Types
<1> QED
  BY <1>1, <1>2, <1>3

\* getSnapshot().
LEMMA ReadTypes ==
  ASSUME Types, NEW t \in Threads, Stat(t) \/ Size(t) \/ Open(t) \/ ReadChunk(t) \/ EndRead(t)
  PROVE  Types'
<1>1. RestTypes'
  BY DEF Stat, Size, Open, ReadChunk, EndRead, disk, ghosts, hopes, Types, RestTypes
<1>2. call[t].stage \in {"stat", "size", "open", "read"} => call[t].code \in Codes
  BY CallFact DEF Types, CallTypes, Looking, Opening, Reading
<1>3. CASE Stat(t)
  <2>1. CASE path = NoFile
    <3>1. FallBack(t, "stat", <<>>)
      BY <1>3, <2>1 DEF Stat
    <3> QED
      BY <1>1, <3>1, EmptyText, FallBackTypes DEF Types
  <2>2. CASE path # NoFile
    <3>1. [stage |-> "size", code |-> call[t].code] \in Calls
      BY <1>2, <1>3, CallsFact DEF Stat, Looking
    <3>2. Step(t, "stat", [stage |-> "size", code |-> call[t].code])
      BY <1>3, <2>2 DEF Stat
    <3> QED
      BY <1>1, <3>1, <3>2, StepTypes DEF Types
  <2> QED
    BY <1>1, <2>1, <2>2 DEF Types
<1>4. CASE Size(t)
  <2> DEFINE size == IF path = NoFile THEN 0 ELSE Len(data[path])
  <2>1. size \in Nat
    BY DEF Types, RestTypes, FileTexts
  <2> HIDE DEF size
  <2>2. [stage |-> "open", code |-> call[t].code, size |-> size] \in Calls
    BY <1>2, <1>4, <2>1, CallsFact DEF Size, Opening
  <2>3. Step(t, "size", [stage |-> "open", code |-> call[t].code, size |-> size])
    BY <1>4 DEF Size, size
  <2> QED
    BY <1>1, <2>2, <2>3, StepTypes DEF Types
<1>5. CASE Open(t)
  <2>1. CASE path = NoFile
    <3>1. FallBack(t, "open", <<>>)
      BY <1>5, <2>1 DEF Open
    <3> QED
      BY <1>1, <3>1, EmptyText, FallBackTypes DEF Types
  <2>2. CASE path # NoFile
    <3>1. call[t].size \in Nat /\ path \in Files
      BY <1>5, <2>2, CallFact DEF Open, Types, RestTypes, CallTypes, Opening
    <3>2. [stage |-> "read", code |-> call[t].code, size |-> call[t].size, file |-> path, text |-> <<>>] \in Calls
      BY <1>2, <1>5, <3>1, CallsFact, EmptyText DEF Open, Reading
    <3>3. Step(t, "open", [stage |-> "read", code |-> call[t].code, size |-> call[t].size,
                           file |-> path, text |-> <<>>])
      BY <1>5, <2>2 DEF Open
    <3> QED
      BY <1>1, <3>2, <3>3, StepTypes DEF Types
  <2> QED
    BY <1>1, <2>1, <2>2 DEF Types
<1>6. CASE ReadChunk(t)
  <2> DEFINE text == Append(call[t].text, data[call[t].file][Len(call[t].text) + 1])
  <2>1. call[t] \in Reading /\ text \in Texts
    <3>1. data[call[t].file][Len(call[t].text) + 1] \in Contents \cup {Hole}
      BY <1>6, ReadFact DEF ReadChunk, More, FileTexts
    <3> QED
      BY <1>6, <3>1, ReadFact DEF ReadChunk, Texts
  <2>2. Step(t, "read", [call[t] EXCEPT !.text = text])
    BY <1>6 DEF ReadChunk
  <2> HIDE DEF text
  <2>3. [call[t] EXCEPT !.text = text] \in Reading /\ [call[t] EXCEPT !.text = text].stage = "read"
    BY <2>1 DEF Reading
  <2> QED
    BY <1>1, <2>2, <2>3, CallsFact, StepTypes DEF Types
<1>7. CASE EndRead(t)
  <2>1. PICK rest \in {<<>>, <<Garbage>>} : FallBack(t, "read", CString(call[t].text \o rest))
    BY <1>7 DEF EndRead
  <2>2. call[t].text \in Texts /\ rest \in Texts
    <3>1. call[t].text \in Texts
      BY <1>7, ReadFact DEF EndRead
    <3>2. <<>> \in Texts /\ <<Garbage>> \in Texts
      BY DEF Texts
    <3> QED
      BY <2>1, <3>1, <3>2
  <2>3. call[t].text \o rest \in Texts
    BY <2>2 DEF Texts
  <2> QED
    BY <1>1, <2>1, <2>3, CStringFact, FallBackTypes DEF Types
<1> QED
  BY <1>3, <1>4, <1>5, <1>6, <1>7

LEMMA DieTypes ==
  ASSUME Types, Die
  PROVE  Types'
<1>1. CallTypes'
  BY CallsFact DEF Die, CallTypes, Idle
<1>2. RestTypes'
  BY DEF Die, Interfere, disk, Types, RestTypes
<1> QED
  BY <1>1, <1>2 DEF Types

\* The calls on the snapshot file that fail.
LEMMA FailTypes ==
  ASSUME Types, NEW t \in Threads, CreateFails(t) \/ WriteFails(t) \/ RemoveFails(t) \/ ReadFails(t)
  PROVE  Types'
<1>1. CASE CreateFails(t)
  BY <1>1, DieTypes DEF CreateFails
<1>2. CASE WriteFails(t)
  <2>1. RestTypes'
    BY <1>2 DEF WriteFails, disk, ghosts, hopes, Types, RestTypes
  <2>2. call[t].content \in Contents
    BY <1>2, CallFact DEF WriteFails, Types, CallTypes, Writing
  <2>3. Chunks(call[t].content) \in Texts /\ ~Contains(Chunks(call[t].content), Hole)
    BY <2>2, ChunksText
  <2>4. Done(t, "write", "server", Chunks(call[t].content))
    BY <1>2 DEF WriteFails
  <2> QED
    BY <2>1, <2>3, <2>4, DoneTypes DEF Types
<1>3. CASE RemoveFails(t)
  <2>1. RestTypes'
    BY <1>3 DEF RemoveFails, disk, ghosts, hopes, Types, RestTypes
  <2>2. call[t].code \in Codes
    BY <1>3, CallFact DEF RemoveFails, Step, Types, CallTypes, Looking
  <2>3. [stage |-> "stat", code |-> call[t].code] \in Calls
    BY <2>2, CallsFact DEF Looking
  <2> QED
    BY <1>3, <2>1, <2>3, StepTypes DEF RemoveFails, Types
<1>4. CASE ReadFails(t)
  <2>1. RestTypes'
    BY <1>4 DEF ReadFails, disk, Types, RestTypes
  <2>2. PICK rest \in {<<>>, <<Garbage>>} : FallBack(t, "read", CString(call[t].text \o rest))
    BY <1>4 DEF ReadFails
  <2>3. call[t].text \o rest \in Texts
    <3>1. call[t].text \in Texts
      BY <1>4, ReadFact DEF ReadFails
    <3>2. <<>> \in Texts /\ <<Garbage>> \in Texts
      BY DEF Texts
    <3>3. rest \in Texts
      BY <2>2, <3>2
    <3> QED
      BY <3>1, <3>3 DEF Texts
  <2> QED
    BY <2>1, <2>2, <2>3, CStringFact, FallBackTypes DEF Types
<1> QED
  BY <1>1, <1>2, <1>3, <1>4

LEMMA NextTypes == Types /\ [Next]_vars => Types'
<1> SUFFICES ASSUME Types, [Next]_vars PROVE Types'
  OBVIOUS
<1>1. CASE UNCHANGED vars
  BY <1>1 DEF vars, disk, ghosts, hopes, Types, RestTypes, CallTypes
<1>2. ASSUME NEW c \in Contents \cup {Null}, Publish(c) \/ EditFailover(c) PROVE Types'
  BY <1>2 DEF Publish, EditFailover, disk, ghosts, hopes, Types, RestTypes, CallTypes
<1>3. CASE Crash
  BY <1>3, DieTypes DEF Crash
<1> QED
  BY <1>1, <1>2, <1>3, RequestTypes, SaveTypes, ReadTypes, FailTypes DEF Next

-----------------------------------------------------------------------------
(* The snapshot. *)

LEMMA NoFileFact == NoFile \notin Files
BY ConstantsAssumption

\* What a step makes of its thread and leaves of the others.
LEMMA StepFact ==
  ASSUME Types, NEW t \in Threads, NEW from, NEW to, Step(t, from, to)
  PROVE  call[t].stage = from /\ call'[t] = to /\ \A u \in Threads \ {t} : call'[u] = call[u]
BY DEF Step, Types, CallTypes

\* Nobody begins to write, nor goes on, and the file stays as it is.
LEMMA SnapshotKept ==
  ASSUME SnapshotInv, UNCHANGED <<disk, saved, mark>>,
         \A u \in Threads : call'[u].stage = "write" => call'[u] = call[u]
  PROVE  SnapshotInv'
<1>1. \A u \in Threads : Writes(u, path)' => Writes(u, path) /\ call'[u] = call[u]
  BY DEF disk, Writes
<1> QED
  BY <1>1 DEF SnapshotInv, disk, Writes

LEMMA CreateSnapshot ==
  ASSUME Types, SnapshotInv, NEW t \in Threads, Create(t)
  PROVE  SnapshotInv'
<1>1. PICK f \in Files :
           /\ call[t].content \in Contents
           /\ Step(t, "create", [stage |-> "write", content |-> call[t].content, file |-> f, pos |-> 0])
           /\ path' = f
           /\ data' = [data EXCEPT ![f] = <<>>]
           /\ saved' = call[t].content
           /\ mark' = IF \E u \in Threads : Writes(u, f) THEN "mixed" ELSE "cut"
  BY CreateFact
<1>2. CASE \E u \in Threads : Writes(u, f)
  BY <1>1, <1>2 DEF SnapshotInv
<1>3. CASE \A u \in Threads : ~Writes(u, f)
  <2>1. mark' = "cut" /\ path' # NoFile /\ saved' \in Contents /\ saved' # Null
    BY <1>1, <1>3, NoFileFact, Numbers
  <2>2. data'[path'] = <<>>
    BY <1>1 DEF Types, RestTypes
  <2>3. Len(data'[path']) = 0 /\ Len(data'[path']) < Length[saved']
    BY <2>1, <2>2, Numbers
  <2>4. data'[path'] = [i \in 1..Len(data'[path']) |-> saved']
    BY <2>2
  <2>5. call'[t] = [stage |-> "write", content |-> call[t].content, file |-> f, pos |-> 0]
        /\ \A u \in Threads \ {t} : call'[u] = call[u]
    BY <1>1, StepFact
  <2>6. \A u \in Threads : Writes(u, path)' => u = t
    BY <1>1, <1>3, <2>5 DEF Writes
  <2>7. call'[t].content = saved' /\ call'[t].pos = Len(data'[path'])
    BY <1>1, <2>3, <2>5
  <2> QED
    BY <2>1, <2>3, <2>4, <2>6, <2>7 DEF SnapshotInv
<1> QED
  BY <1>2, <1>3

\* The chunk that a thread writes, and where the thread is then.
LEMMA WriteStep ==
  ASSUME Types, NEW t \in Threads, WriteChunk(t), NEW f, NEW c, NEW pos,
         f = call[t].file, c = call[t].content, pos = call[t].pos + 1
  PROVE  /\ call[t].stage = "write"
         /\ f \in Files /\ c \in Contents /\ pos \in Nat \ {0} /\ pos <= Length[c]
         /\ IF pos = Length[c] THEN call'[t].stage = "done"
            ELSE /\ call'[t].stage = "write" /\ call'[t].file = f
                 /\ call'[t].content = c /\ call'[t].pos = pos
         /\ \A u \in Threads \ {t} : call'[u] = call[u]
         /\ data' = [data EXCEPT ![f] = Put(data[f], pos, c)]
<1>1. /\ call[t] \in Writing /\ f \in Files /\ c \in Contents /\ pos \in Nat \ {0} /\ pos <= Length[c]
  BY WriteFact
<1>2. CASE pos = Length[c]
  <2>1. Done(t, "write", "server", Chunks(c))
    BY <1>2 DEF WriteChunk
  <2> QED
    BY <1>1, <1>2, <2>1, StepFact DEF Done, WriteChunk
<1>3. CASE pos # Length[c]
  <2>1. Step(t, "write", [call[t] EXCEPT !.pos = pos])
    BY <1>3 DEF WriteChunk
  <2>2. /\ [call[t] EXCEPT !.pos = pos].pos = pos /\ [call[t] EXCEPT !.pos = pos].content = c
        /\ [call[t] EXCEPT !.pos = pos].stage = "write" /\ [call[t] EXCEPT !.pos = pos].file = f
    BY <1>1 DEF Writing
  <2>3. call'[t] = [call[t] EXCEPT !.pos = pos] /\ \A u \in Threads \ {t} : call'[u] = call[u]
    BY <2>1, StepFact
  <2> QED
    BY <1>1, <1>3, <2>2, <2>3 DEF WriteChunk
<1> QED
  BY <1>2, <1>3

LEMMA WriteSnapshot ==
  ASSUME Types, SnapshotInv, NEW t \in Threads, WriteChunk(t)
  PROVE  SnapshotInv'
<1>1. PICK f, c, pos : f = call[t].file /\ c = call[t].content /\ pos = call[t].pos + 1
  OBVIOUS
<1>2. /\ call[t].stage = "write"
      /\ f \in Files /\ c \in Contents /\ pos \in Nat \ {0} /\ pos <= Length[c]
      /\ IF pos = Length[c] THEN call'[t].stage = "done"
         ELSE /\ call'[t].stage = "write" /\ call'[t].file = f
              /\ call'[t].content = c /\ call'[t].pos = pos
      /\ \A u \in Threads \ {t} : call'[u] = call[u]
      /\ data' = [data EXCEPT ![f] = Put(data[f], pos, c)]
  BY <1>1, WriteStep
<1>3. /\ mark' = IF f = path /\ mark = "cut" /\ pos = Length[c] THEN "whole" ELSE mark
      /\ path' = path /\ saved' = saved
  BY <1>1 DEF WriteChunk
<1>4. Writes(t, f) /\ Length[c] \in Nat \ {0}
  BY <1>1, <1>2, Numbers DEF Writes
<1>5. CASE f = path
  <2>1. CASE mark = "cut"
    <3>1. /\ c = saved /\ saved # Null /\ path # NoFile
          /\ pos = Len(data[path]) + 1
          /\ \A u \in Threads \ {t} : ~Writes(u, path)
      BY <1>1, <1>4, <1>5, <2>1 DEF SnapshotInv
    <3>2. data[path] = [i \in 1..Len(data[path]) |-> saved]
      BY <2>1 DEF SnapshotInv
    <3>3. data[path] \in FileTexts /\ Len(data[path]) \in Nat
      BY <1>2, <1>5 DEF Types, RestTypes, FileTexts
    <3>4. data'[path] = [i \in 1..pos |-> saved]
      <4>1. data'[path] = Put(data[path], pos, c)
        BY <1>2, <1>5 DEF Types, RestTypes
      <4>2. data'[path] = [j \in 1..pos |-> IF j = pos THEN c ELSE data[path][j]]
        BY <1>2, <3>1, <3>3, <4>1, PutFact
      <4>3. \A j \in 1..pos : j # pos => data[path][j] = saved
        <5>1. PICK n : n = Len(data[path])
          OBVIOUS
        <5>2. n \in Nat /\ pos = n + 1 /\ data[path] = [i \in 1..n |-> saved]
          BY <3>1, <3>2, <3>3, <5>1
        <5> QED
          BY <5>2
      <4> QED
        BY <3>1, <4>2, <4>3
    <3>5. Len(data'[path]) = pos
      BY <1>2, <3>4
    <3>6. \A u \in Threads \ {t} : ~Writes(u, path)'
      BY <1>2, <1>3, <3>1 DEF Writes
    <3>7. CASE pos = Length[c]
      <4>1. mark' = "whole" /\ ~Writes(t, path)'
        BY <1>2, <1>3, <1>5, <2>1, <3>7 DEF Writes
      <4>2. data'[path] = Chunks(saved)
        BY <1>2, <3>1, <3>4, <3>7, ChunksFact
      <4> QED
        BY <1>3, <3>1, <3>6, <4>1, <4>2 DEF SnapshotInv
    <3>8. CASE pos # Length[c]
      <4>1. mark' = "cut" /\ call'[t].content = saved /\ call'[t].pos = pos /\ pos < Length[saved]
        BY <1>2, <1>3, <1>4, <2>1, <3>1, <3>8
      <4>2. path' # NoFile /\ saved' # Null /\ Len(data'[path']) < Length[saved']
        BY <1>3, <3>1, <3>5, <4>1
      <4>3. data'[path'] = [i \in 1..Len(data'[path']) |-> saved']
        BY <1>3, <3>4, <3>5
      <4>4. \A u \in Threads : Writes(u, path)' => u = t
        BY <3>6
      <4>5. call'[t].content = saved' /\ call'[t].pos = Len(data'[path'])
        BY <1>3, <3>5, <4>1
      <4> QED
        BY <4>1, <4>2, <4>3, <4>4, <4>5 DEF SnapshotInv
    <3> QED
      BY <3>7, <3>8
  <2>2. mark # "whole"
    BY <1>4, <1>5 DEF SnapshotInv
  <2> QED
    BY <1>3, <2>1, <2>2 DEF SnapshotInv
<1>6. CASE f # path
  <2>1. \A u \in Threads : Writes(u, path)' => Writes(u, path) /\ call'[u] = call[u]
    BY <1>2, <1>3, <1>6 DEF Writes
  <2>2. path # NoFile => data'[path] = data[path]
    BY <1>2, <1>6 DEF Types, RestTypes
  <2>3. mark' = mark
    BY <1>3, <1>6
  <2> QED
    BY <1>3, <2>1, <2>2, <2>3 DEF SnapshotInv
<1> QED
  BY <1>5, <1>6

LEMMA RemoveSnapshotSnapshot ==
  ASSUME Types, SnapshotInv, NEW t \in Threads, RemoveSnapshot(t)
  PROVE  SnapshotInv'
<1>1. path' = NoFile /\ saved' = Null /\ mark' = "whole"
  BY DEF RemoveSnapshot
<1>2. \A u \in Threads : ~Writes(u, NoFile)'
  <2>1. Types'
    BY SaveTypes
  <2>2. \A u \in Threads : call'[u] \in Calls
    BY <2>1 DEF Types, CallTypes
  <2>3. \A u \in Threads : call'[u].stage = "write" => call'[u] \in Writing
    BY <2>2, CallFact
  <2> QED
    BY <2>3, NoFileFact DEF Writes, Writing
<1> QED
  BY <1>1, <1>2 DEF SnapshotInv

\* The other steps of a call write nothing.
LEMMA OtherSteps ==
  ASSUME Types, NEW t \in Threads,
         \/ GetConfig(t) \/ Answered(t) \/ (\E code \in Refusals : Refused(t, code)) \/ NoAnswer(t)
         \/ Stat(t) \/ Size(t) \/ Open(t) \/ ReadChunk(t) \/ EndRead(t) \/ Return(t)
  PROVE  /\ UNCHANGED <<disk, saved, mark>>
         /\ \A u \in Threads \ {t} :
               call'[u] = call[u] /\ expect'[u] = expect[u] /\ (u \in partial' <=> u \in partial)
         /\ call'[t].stage # "write"
<1>1. /\ UNCHANGED <<disk, saved, mark>>
      /\ \A u \in Threads \ {t} : expect'[u] = expect[u] /\ (u \in partial' <=> u \in partial)
  BY DEF GetConfig, Answered, Refused, NoAnswer, Stat, Size, Open, ReadChunk, EndRead, Return, ghosts,
         hopes, Types, RestTypes
<1>2. \E from, to : Step(t, from, to) /\ to.stage # "write"
  <2>1. ASSUME NEW from, NEW source, NEW result, Done(t, from, source, result)
        PROVE  \E a, b : Step(t, a, b) /\ b.stage # "write"
    BY <2>1 DEF Done
  <2>2. ASSUME NEW from, NEW result, FallBack(t, from, result)
        PROVE  \E a, b : Step(t, a, b) /\ b.stage # "write"
    BY <2>1, <2>2 DEF FallBack
  <2>3. CASE GetConfig(t)
    BY <2>1, <2>3 DEF GetConfig
  <2>4. CASE Answered(t) \/ NoAnswer(t) \/ Size(t) \/ Return(t)
    BY <2>4 DEF Answered, NoAnswer, Size, Return, Idle
  <2>5. ASSUME NEW code \in Refusals, Refused(t, code) PROVE \E a, b : Step(t, a, b) /\ b.stage # "write"
    BY <2>5 DEF Refused
  <2>6. CASE Stat(t)
    BY <2>2, <2>6 DEF Stat
  <2>7. CASE Open(t)
    BY <2>2, <2>7 DEF Open
  <2>8. CASE ReadChunk(t)
    <3>1. [call[t] EXCEPT !.text = Append(call[t].text, data[call[t].file][Len(call[t].text) + 1])].stage = "read"
      BY <2>8, ReadFact DEF ReadChunk, Reading
    <3> QED
      BY <2>8, <3>1 DEF ReadChunk
  <2>9. CASE EndRead(t)
    BY <2>2, <2>9 DEF EndRead
  <2> QED
    BY <2>3, <2>4, <2>5, <2>6, <2>7, <2>8, <2>9
<1> QED
  BY <1>1, <1>2, StepFact

LEMMA FailSteps ==
  ASSUME Types, NEW t \in Threads, WriteFails(t) \/ RemoveFails(t) \/ ReadFails(t)
  PROVE  /\ UNCHANGED <<disk, saved, mark>>
         /\ \A u \in Threads \ {t} :
               call'[u] = call[u] /\ expect'[u] = expect[u] /\ (u \in partial' <=> u \in partial)
         /\ call'[t].stage # "write"
<1>1. /\ UNCHANGED <<disk, saved, mark>>
      /\ \A u \in Threads \ {t} : expect'[u] = expect[u] /\ (u \in partial' <=> u \in partial)
  BY DEF WriteFails, RemoveFails, ReadFails, ghosts, hopes, Types, RestTypes
<1>2. \E from, to : Step(t, from, to) /\ to.stage # "write"
  <2>1. CASE WriteFails(t)
    BY <2>1 DEF WriteFails, Done
  <2>2. CASE RemoveFails(t)
    BY <2>2 DEF RemoveFails
  <2>3. CASE ReadFails(t)
    <3>1. PICK result : FallBack(t, "read", result)
      BY <2>3 DEF ReadFails
    <3> QED
      BY <3>1 DEF FallBack, Done
  <2> QED
    BY <2>1, <2>2, <2>3
<1> QED
  BY <1>1, <1>2, StepFact

\* A call that fails writes nothing more, whether its process dies of it or not.
LEMMA FailSnapshot ==
  ASSUME Types, SnapshotInv, NEW t \in Threads,
         CreateFails(t) \/ WriteFails(t) \/ RemoveFails(t) \/ ReadFails(t)
  PROVE  SnapshotInv'
<1>1. CASE CreateFails(t)
  BY <1>1, SnapshotKept DEF CreateFails, Die, Idle
<1>2. CASE WriteFails(t) \/ RemoveFails(t) \/ ReadFails(t)
  BY <1>2, FailSteps, SnapshotKept
<1> QED
  BY <1>1, <1>2

LEMMA NextSnapshot == Types /\ SnapshotInv /\ [Next]_vars => SnapshotInv'
<1> SUFFICES ASSUME Types, SnapshotInv, [Next]_vars PROVE SnapshotInv'
  OBVIOUS
<1>1. CASE UNCHANGED vars
  BY <1>1, SnapshotKept DEF vars, disk, ghosts, hopes
<1>2. ASSUME NEW c \in Contents \cup {Null}, Publish(c) \/ EditFailover(c) PROVE SnapshotInv'
  BY <1>2, SnapshotKept DEF Publish, EditFailover, ghosts
<1>3. CASE Crash
  BY <1>3, SnapshotKept DEF Crash, Die, Idle
<1>4. ASSUME NEW t \in Threads,
             \/ GetConfig(t) \/ Answered(t) \/ (\E code \in Refusals : Refused(t, code)) \/ NoAnswer(t)
             \/ Stat(t) \/ Size(t) \/ Open(t) \/ ReadChunk(t) \/ EndRead(t) \/ Return(t)
      PROVE  SnapshotInv'
  BY <1>4, OtherSteps, SnapshotKept
<1> QED
  BY <1>1, <1>2, <1>3, <1>4, CreateSnapshot, WriteSnapshot, RemoveSnapshotSnapshot, FailSnapshot DEF Next

-----------------------------------------------------------------------------
(* The readers. *)

\* Who does not know what to read has found out nothing.
LEMMA ReaderUnknown ==
  ASSUME NEW t \in Threads, expect'[t] = Unknown
  PROVE  ReaderInv(t)'
BY DEF ReaderInv

LEMMA ReaderKept ==
  ASSUME NEW t \in Threads, ReaderInv(t), call'[t] = call[t], expect'[t] = expect[t],
         t \in partial' <=> t \in partial,
         path' = path, path # NoFile => data'[path] = data[path]
  PROVE  ReaderInv(t)'
<1>1. \A e : Intact(t, e) => Intact(t, e)' /\ Len(data'[path']) = Len(data[path])
  BY DEF Intact
<1>2. \A e, result : Expected(t, e, result) => Expected(t, e, result)'
  BY DEF Expected, Chunks
<1>3. PICK c, e : c = call[t] /\ e = expect[t]
  OBVIOUS
<1>4. call'[t] = c /\ expect'[t] = e
  BY <1>3
<1> QED
  BY <1>1, <1>2, <1>3, <1>4 DEF ReaderInv

LEMMA EarlyReaders ==
  ASSUME NEW t \in Threads, ReaderInv(t),
         call[t].stage \in {"idle", "request", "create", "write", "remove", "stat"}
  PROVE  expect[t] = Unknown
BY DEF ReaderInv

LEMMA InterfereFact ==
  ASSUME Interfere, NEW t \in Threads
  PROVE  ReaderInv(t)'
BY ReaderUnknown DEF Interfere

\* The beginning of a content.
LEMMA PrefixFact ==
  ASSUME NEW c \in Contents, NEW s, NEW n \in Nat, n <= Length[c], s = [i \in 1..n |-> c]
  PROVE  IsPrefix(s, Chunks(c))
<1>1. Chunks(c) = [i \in 1..Length[c] |-> c] /\ Len(Chunks(c)) = Length[c] /\ Length[c] \in Nat
  BY ChunksFact, Numbers
<1>2. Len(s) = n /\ SubSeq(s, 1, n) = [i \in 1..n |-> c]
  OBVIOUS
<1>3. SubSeq(Chunks(c), 1, n) = [i \in 1..n |-> c]
  BY <1>1
<1> QED
  BY <1>1, <1>2, <1>3 DEF IsPrefix

LEMMA EmptyExpected == \A t : Expected(t, Null, <<>>)'
BY DEF Expected, Chunks, IsPrefix

LEMMA FallBackFact ==
  ASSUME Types, NEW t \in Threads, NEW from, NEW result, FallBack(t, from, result)
  PROVE  /\ call[t].stage = from /\ call'[t].stage = "done" /\ call'[t].result = result
         /\ call'[t].from \in {"snapshot", "denied"}
<1>1. PICK source \in {"snapshot", "denied"} : Done(t, from, source, result)
  BY DEF FallBack
<1> QED
  BY <1>1, StepFact DEF Done

LEMMA WriteReaders ==
  ASSUME Types, \A u \in Threads : ReaderInv(u), NEW t \in Threads,
         Create(t) \/ WriteChunk(t) \/ RemoveSnapshot(t), NEW u \in Threads
  PROVE  ReaderInv(u)'
<1>1. CASE Create(t) \/ RemoveSnapshot(t)
  BY <1>1, InterfereFact DEF Create, RemoveSnapshot
<1>2. CASE WriteChunk(t)
  <2>1. PICK f, c, pos : f = call[t].file /\ c = call[t].content /\ pos = call[t].pos + 1
    OBVIOUS
  <2>2. /\ call[t].stage = "write" /\ f \in Files
        /\ \A v \in Threads \ {t} : call'[v] = call[v]
        /\ data' = [data EXCEPT ![f] = Put(data[f], pos, c)]
    BY <1>2, <2>1, WriteStep
  <2>3. expect[t] = Unknown
    BY <2>2, EarlyReaders
  <2>4. CASE f = path
    BY <1>2, <2>1, <2>4, InterfereFact DEF WriteChunk
  <2>5. CASE f # path
    <3>1. UNCHANGED <<expect, partial, path>>
      BY <1>2, <2>1, <2>5 DEF WriteChunk, hopes
    <3>2. path # NoFile => data'[path] = data[path]
      BY <2>2, <2>5 DEF Types, RestTypes
    <3> QED
      BY <2>2, <2>3, <3>1, <3>2, ReaderUnknown, ReaderKept
  <2> QED
    BY <2>4, <2>5
<1> QED
  BY <1>1, <1>2

\* Is there a file?  After a request that was not answered with 200 the thread
\* starts to read what was saved last, or what is there of it.
LEMMA StatReader ==
  ASSUME Types, SnapshotInv, NEW t \in Threads, Stat(t)
  PROVE  ReaderInv(t)'
<1>1. UNCHANGED <<path, data>>
  BY DEF Stat, disk
<1>2. SUFFICES ASSUME expect'[t] # Unknown
               PROVE  ReaderInv(t)'
  BY ReaderUnknown
<1>3. PICK e : e = expect'[t]
  OBVIOUS
<1>4. /\ mark \in {"whole", "cut"} /\ e = saved
      /\ mark = "cut" => t \in partial'
  BY <1>2, <1>3 DEF Stat, Types, RestTypes
<1>5. (e = Null /\ path = NoFile) \/ Intact(t, e)'
  <2>1. CASE mark = "whole"
    <3>1. IF e = Null THEN path = NoFile ELSE path # NoFile /\ data[path] = Chunks(e) /\ e \in Contents
      BY <1>4, <2>1 DEF SnapshotInv, Types, RestTypes
    <3>2. ASSUME e # Null PROVE Intact(t, e)'
      <4>1. Len(data[path]) = Length[e] /\ data[path] = [i \in 1..Length[e] |-> e] /\ Length[e] \in Nat
        BY <3>1, <3>2, ChunksFact, Numbers
      <4> QED
        BY <1>1, <3>1, <3>2, <4>1 DEF Intact
    <3> QED
      BY <3>1, <3>2
  <2>2. CASE mark = "cut"
    <3>1. /\ path # NoFile /\ e \in Contents
          /\ Len(data[path]) < Length[e] /\ data[path] = [i \in 1..Len(data[path]) |-> e]
      BY <1>4, <2>2 DEF SnapshotInv, Types, RestTypes
    <3>2. Len(data[path]) \in Nat /\ Length[e] \in Nat
      BY <3>1, Numbers DEF Types, RestTypes, FileTexts
    <3> QED
      BY <1>1, <1>4, <2>2, <3>1, <3>2 DEF Intact
  <2> QED
    BY <1>4, <2>1, <2>2
<1>6. CASE path = NoFile
  <2>1. FallBack(t, "stat", <<>>)
    BY <1>6 DEF Stat
  <2>2. call'[t].stage = "done" /\ call'[t].result = <<>>
    BY <2>1, FallBackFact
  <2>3. e = Null
    BY <1>1, <1>5, <1>6 DEF Intact
  <2>4. Expected(t, e, <<>>)'
    BY <2>3, EmptyExpected
  <2> QED
    BY <1>3, <2>2, <2>4 DEF ReaderInv
<1>7. CASE path # NoFile
  <2>1. Step(t, "stat", [stage |-> "size", code |-> call[t].code])
    BY <1>7 DEF Stat
  <2>2. call'[t].stage = "size"
    BY <2>1, StepFact
  <2> QED
    BY <1>3, <1>5, <1>7, <2>2 DEF ReaderInv
<1> QED
  BY <1>6, <1>7

LEMMA SizeReader ==
  ASSUME Types, NEW t \in Threads, ReaderInv(t), Size(t)
  PROVE  ReaderInv(t)'
<1>1. call[t].stage = "size" /\ UNCHANGED <<path, data, expect, partial>>
  BY DEF Size, disk, ghosts, hopes
<1>2. SUFFICES ASSUME expect[t] # Unknown
               PROVE  ReaderInv(t)'
  BY <1>1, ReaderUnknown
<1>3. PICK e : e = expect[t]
  OBVIOUS
<1>4. Intact(t, e)
  BY <1>1, <1>2, <1>3 DEF ReaderInv
<1>5. PICK size : size = IF path = NoFile THEN 0 ELSE Len(data[path])
  OBVIOUS
<1>6. Step(t, "size", [stage |-> "open", code |-> call[t].code, size |-> size])
  BY <1>5 DEF Size
<1>7. call'[t].stage = "open" /\ call'[t].size = size
  BY <1>6, StepFact
<1>8. Intact(t, e)' /\ expect'[t] = e
  BY <1>1, <1>3, <1>4 DEF Intact
<1>9. size = Len(data'[path'])
  BY <1>1, <1>4, <1>5 DEF Intact
<1> QED
  BY <1>7, <1>8, <1>9 DEF ReaderInv

LEMMA OpenReader ==
  ASSUME Types, NEW t \in Threads, ReaderInv(t), Open(t)
  PROVE  ReaderInv(t)'
<1>1. call[t].stage = "open" /\ UNCHANGED <<path, data, expect, partial>>
  BY DEF Open, disk, ghosts, hopes
<1>2. SUFFICES ASSUME expect[t] # Unknown
               PROVE  ReaderInv(t)'
  BY <1>1, ReaderUnknown
<1>3. PICK e : e = expect[t]
  OBVIOUS
<1>4. Intact(t, e) /\ call[t].size = Len(data[path])
  BY <1>1, <1>2, <1>3 DEF ReaderInv
<1>5. path # NoFile /\ Len(data[path]) \in Nat
  BY <1>4 DEF Intact, Types, RestTypes, FileTexts
<1>6. Step(t, "open", [stage |-> "read", code |-> call[t].code, size |-> call[t].size,
                       file |-> path, text |-> <<>>])
  BY <1>5 DEF Open
<1>7. call'[t].stage = "read" /\ call'[t].size = call[t].size /\ call'[t].file = path /\ call'[t].text = <<>>
  BY <1>6, StepFact
<1>8. Intact(t, e)' /\ expect'[t] = e
  BY <1>1, <1>3, <1>4 DEF Intact
<1>9. Len(call'[t].text) = 0 /\ call'[t].text = [i \in 1..Len(call'[t].text) |-> e]
  BY <1>7
<1>10. Len(call'[t].text) <= Len(data'[path']) /\ call'[t].size = Len(data'[path'])
  BY <1>1, <1>4, <1>5, <1>7, <1>9
<1> QED
  BY <1>1, <1>7, <1>8, <1>9, <1>10 DEF ReaderInv

\* What a reader has read that knows what to read.
LEMMA ReadingFact ==
  ASSUME Types, NEW t \in Threads, ReaderInv(t), call[t].stage = "read", expect[t] # Unknown
  PROVE  /\ Intact(t, expect[t]) /\ expect[t] \in Contents
         /\ call[t].file = path /\ call[t].size = Len(data[path]) /\ Len(data[path]) \in Nat
         /\ data[path] = [i \in 1..Len(data[path]) |-> expect[t]]
         /\ Len(data[path]) <= Length[expect[t]]
         /\ t \notin partial => Len(data[path]) = Length[expect[t]]
         /\ Len(call[t].text) \in Nat /\ Len(call[t].text) <= Len(data[path])
         /\ call[t].text = [i \in 1..Len(call[t].text) |-> expect[t]]
<1>1. /\ Intact(t, expect[t]) /\ call[t].size = Len(data[path]) /\ call[t].file = path
      /\ Len(call[t].text) <= Len(data[path])
      /\ call[t].text = [i \in 1..Len(call[t].text) |-> expect[t]]
  BY DEF ReaderInv
<1>2. Len(call[t].text) \in Nat /\ Len(data[path]) \in Nat
  BY <1>1, ReadFact
<1> QED
  BY <1>1, <1>2 DEF Intact

LEMMA ReadReader ==
  ASSUME Types, NEW t \in Threads, ReaderInv(t), ReadChunk(t)
  PROVE  ReaderInv(t)'
<1>1. call[t].stage = "read" /\ More(t) /\ UNCHANGED <<path, data, expect, partial>>
  BY DEF ReadChunk, disk, ghosts, hopes
<1>2. SUFFICES ASSUME expect[t] # Unknown
               PROVE  ReaderInv(t)'
  BY <1>1, ReaderUnknown
<1>3. PICK e, s, n, m : e = expect[t] /\ s = call[t].text /\ n = Len(s) /\ m = Len(data[path])
  OBVIOUS
<1>4. /\ Intact(t, e) /\ call[t].file = path /\ call[t].size = m
      /\ n \in Nat /\ m \in Nat /\ n <= m
      /\ data[path] = [i \in 1..m |-> e] /\ s = [i \in 1..n |-> e]
  BY <1>1, <1>2, <1>3, ReadingFact
<1>5. n < m
  BY <1>1, <1>3, <1>4 DEF More
<1>6. data[path][n + 1] = e
  BY <1>4, <1>5
<1>7. PICK text : text = Append(s, e)
  OBVIOUS
<1>8. text = [i \in 1..(n + 1) |-> e] /\ Len(text) = n + 1
  BY <1>4, <1>7
<1>9. Step(t, "read", [call[t] EXCEPT !.text = text])
  BY <1>3, <1>4, <1>6, <1>7 DEF ReadChunk
<1>10. /\ [call[t] EXCEPT !.text = text].stage = "read" /\ [call[t] EXCEPT !.text = text].text = text
       /\ [call[t] EXCEPT !.text = text].size = call[t].size /\ [call[t] EXCEPT !.text = text].file = call[t].file
  <2>1. call[t] \in Reading
    BY <1>1, ReadFact
  <2> QED
    BY <2>1 DEF Reading
<1>11. call'[t].stage = "read" /\ call'[t].text = text /\ call'[t].size = m /\ call'[t].file = path
  <2>1. call'[t] = [call[t] EXCEPT !.text = text]
    BY <1>9, StepFact
  <2> QED
    BY <1>4, <1>10, <2>1
<1>12. Intact(t, e)' /\ expect'[t] = e
  BY <1>1, <1>3, <1>4 DEF Intact
<1>13. /\ Len(call'[t].text) <= Len(data'[path']) /\ call'[t].text = [i \in 1..Len(call'[t].text) |-> e]
       /\ call'[t].size = Len(data'[path'])
  BY <1>1, <1>3, <1>4, <1>5, <1>8, <1>11
<1> QED
  BY <1>1, <1>11, <1>12, <1>13 DEF ReaderInv

LEMMA EndReader ==
  ASSUME Types, NEW t \in Threads, ReaderInv(t), EndRead(t)
  PROVE  ReaderInv(t)'
<1>1. call[t].stage = "read" /\ ~More(t) /\ UNCHANGED <<path, data, expect, partial>>
  BY DEF EndRead, disk, ghosts, hopes
<1>2. SUFFICES ASSUME expect[t] # Unknown
               PROVE  ReaderInv(t)'
  BY <1>1, ReaderUnknown
<1>3. PICK e, s, n, m : e = expect[t] /\ s = call[t].text /\ n = Len(s) /\ m = Len(data[path])
  OBVIOUS
<1>4. /\ e \in Contents /\ call[t].file = path /\ call[t].size = m
      /\ m <= Length[e] /\ (t \notin partial => m = Length[e])
      /\ n \in Nat /\ m \in Nat /\ n <= m /\ s = [i \in 1..n |-> e]
  BY <1>1, <1>2, <1>3, ReadingFact
<1>5. n = m
  BY <1>1, <1>3, <1>4 DEF More
<1>6. Expected(t, e, s)
  BY <1>4, <1>5, ChunksFact, PrefixFact DEF Expected
<1>7. FallBack(t, "read", CString(s \o <<>>))
  <2>1. ~(n < call[t].size)
    BY <1>4, <1>5
  <2> QED
    BY <1>3, <1>4, <2>1 DEF EndRead
<1>8. s \in Texts /\ ~Contains(s, Hole)
  BY <1>4, Numbers DEF Texts, Contains
<1>9. CString(s \o <<>>) = s
  <2>1. s \o <<>> = s
    BY <1>8 DEF Texts
  <2> QED
    BY <1>8, <2>1, CStringFact
<1>10. call'[t].stage = "done" /\ call'[t].result = s
  BY <1>7, <1>9, FallBackFact
<1>11. expect'[t] = e /\ Expected(t, e, s)'
  BY <1>1, <1>3, <1>6 DEF Expected, Chunks
<1> QED
  BY <1>10, <1>11 DEF ReaderInv

LEMMA OtherReaders ==
  ASSUME Types, SnapshotInv, \A u \in Threads : ReaderInv(u), NEW t \in Threads,
         \/ GetConfig(t) \/ Answered(t) \/ (\E code \in Refusals : Refused(t, code)) \/ NoAnswer(t)
         \/ Stat(t) \/ Size(t) \/ Open(t) \/ ReadChunk(t) \/ EndRead(t) \/ Return(t),
         NEW u \in Threads
  PROVE  ReaderInv(u)'
<1>1. CASE u # t
  <2>1. /\ UNCHANGED <<path, data>> /\ call'[u] = call[u] /\ expect'[u] = expect[u]
        /\ u \in partial' <=> u \in partial
    BY <1>1, OtherSteps DEF disk
  <2> QED
    BY <2>1, ReaderKept
<1>2. CASE u = t
  <2>1. CASE GetConfig(t)
    <3>1. call[t].stage = "idle"
      BY <2>1 DEF GetConfig, Done, Step
    <3>2. expect'[t] = Unknown
      BY <2>1, <3>1, EarlyReaders DEF GetConfig, ghosts, hopes
    <3> QED
      BY <1>2, <3>2, ReaderUnknown
  <2>2. CASE Answered(t) \/ (\E code \in Refusals : Refused(t, code)) \/ NoAnswer(t)
    <3>1. call[t].stage = "request" /\ expect' = expect
      BY <2>2 DEF Answered, Refused, NoAnswer, Step, ghosts, hopes
    <3> QED
      BY <1>2, <3>1, EarlyReaders, ReaderUnknown
  <2>3. CASE Return(t)
    BY <1>2, <2>3, ReaderUnknown DEF Return, Types, RestTypes
  <2>4. CASE Stat(t) \/ Size(t) \/ Open(t) \/ ReadChunk(t) \/ EndRead(t)
    BY <1>2, <2>4, StatReader, SizeReader, OpenReader, ReadReader, EndReader
  <2> QED
    BY <2>1, <2>2, <2>3, <2>4
<1> QED
  BY <1>1, <1>2

LEMMA FailReaders ==
  ASSUME Types, \A u \in Threads : ReaderInv(u), NEW t \in Threads,
         CreateFails(t) \/ WriteFails(t) \/ RemoveFails(t) \/ ReadFails(t), NEW u \in Threads
  PROVE  ReaderInv(u)'
<1>1. CASE CreateFails(t)
  BY <1>1, InterfereFact DEF CreateFails, Die
<1>2. CASE WriteFails(t) \/ RemoveFails(t) \/ ReadFails(t)
  <2>1. CASE u # t
    <3>1. /\ UNCHANGED <<path, data>> /\ call'[u] = call[u] /\ expect'[u] = expect[u]
          /\ u \in partial' <=> u \in partial
      BY <1>2, <2>1, FailSteps DEF disk
    <3> QED
      BY <3>1, ReaderKept
  <2>2. CASE u = t
    <3>1. CASE WriteFails(t) \/ RemoveFails(t)
      <4>1. call[t].stage \in {"write", "remove"} /\ expect' = expect
        BY <3>1 DEF WriteFails, RemoveFails, Step, ghosts, hopes
      <4> QED
        BY <2>2, <4>1, EarlyReaders, ReaderUnknown
    <3>2. CASE ReadFails(t)
      BY <2>2, <3>2, ReaderUnknown DEF ReadFails, Types, RestTypes
    <3> QED
      BY <1>2, <3>1, <3>2
  <2> QED
    BY <2>1, <2>2
<1> QED
  BY <1>1, <1>2

LEMMA NextReaders ==
  Inv /\ [Next]_vars => (\A t \in Threads : ReaderInv(t))'
<1> SUFFICES ASSUME Inv, [Next]_vars, NEW u \in Threads PROVE ReaderInv(u)'
  OBVIOUS
<1>0. Types /\ SnapshotInv /\ \A t \in Threads : ReaderInv(t)
  BY DEF Inv
<1>1. CASE UNCHANGED vars
  BY <1>0, <1>1, ReaderKept DEF vars, disk, ghosts, hopes
<1>2. ASSUME NEW c \in Contents \cup {Null}, Publish(c) \/ EditFailover(c) PROVE ReaderInv(u)'
  BY <1>0, <1>2, ReaderKept DEF Publish, EditFailover, disk, ghosts, hopes
<1>3. CASE Crash
  BY <1>3, InterfereFact DEF Crash, Die
<1>4. ASSUME NEW t \in Threads, Create(t) \/ WriteChunk(t) \/ RemoveSnapshot(t) PROVE ReaderInv(u)'
  BY <1>0, <1>4, WriteReaders
<1>5. ASSUME NEW t \in Threads,
             \/ GetConfig(t) \/ Answered(t) \/ (\E code \in Refusals : Refused(t, code)) \/ NoAnswer(t)
             \/ Stat(t) \/ Size(t) \/ Open(t) \/ ReadChunk(t) \/ EndRead(t) \/ Return(t)
      PROVE  ReaderInv(u)'
  BY <1>0, <1>5, OtherReaders
<1>6. ASSUME NEW t \in Threads, CreateFails(t) \/ WriteFails(t) \/ RemoveFails(t) \/ ReadFails(t)
      PROVE  ReaderInv(u)'
  BY <1>0, <1>6, FailReaders
<1> QED
  BY <1>1, <1>2, <1>3, <1>4, <1>5, <1>6 DEF Next

-----------------------------------------------------------------------------
(* The theorems. *)

\* The types, the snapshot file and its readers, all the way (getConfigInner,
\* saveSnapshot and getSnapshot).
THEOREM Invariant == Spec => []Inv
<1>1. Init => Inv
  <2> SUFFICES ASSUME Init PROVE Inv
    OBVIOUS
  <2>1. SnapshotInv
    BY DEF Init, SnapshotInv, Writes, Idle
  <2>2. \A t \in Threads : ReaderInv(t)
    BY DEF Init, ReaderInv
  <2> QED
    BY <2>1, <2>2, TypesInit DEF Inv
<1>2. Inv /\ [Next]_vars => Inv'
  BY NextTypes, NextSnapshot, NextReaders DEF Inv
<1> QED
  BY <1>1, <1>2, PTL DEF Spec

\* Every variable keeps to its type, and nothing that a call of getConfig()
\* returns has a zero in it, whatever the file held (getFileContents).
THEOREM TypeCorrect == Spec => []TypeOK
<1>1. Inv => TypeOK
  BY DEF Inv, Types, RestTypes, CallTypes, FileTexts, TypeOK
<1> QED
  BY <1>1, Invariant, PTL

\* The snapshot is the content that was saved last, or the beginning of it during
\* the save and after a crash or an error has cut it; only two saves at once mix
\* their contents (saveSnapshot).
THEOREM SnapshotIsOneContentHolds == Spec => []SnapshotIsOneContent
<1>1. ASSUME Inv PROVE SnapshotIsOneContent
  <2>1. Types /\ SnapshotInv
    BY <1>1 DEF Inv
  <2>2. ASSUME mark = "cut" PROVE path # NoFile /\ IsPrefix(data[path], Chunks(saved))
    <3>1. /\ path # NoFile /\ saved \in Contents
          /\ Len(data[path]) < Length[saved]
          /\ data[path] = [i \in 1..Len(data[path]) |-> saved]
      BY <2>1, <2>2 DEF SnapshotInv, Types, RestTypes
    <3>2. Len(data[path]) \in Nat /\ Length[saved] \in Nat
      BY <2>1, <3>1, Numbers DEF Types, RestTypes, FileTexts
    <3> QED
      BY <3>1, <3>2, PrefixFact
  <2> QED
    BY <2>1, <2>2 DEF SnapshotInv, SnapshotIsOneContent
<1> QED
  BY <1>1, Invariant, PTL

\* Without a server getConfig() gives the content that was saved last, or a
\* beginning of it if that save was not finished when it looked for the file: a
\* crash or an error has cut it, or it was under way.  It is nothing if the last
\* save was a removal because the server had refused the content.  No other
\* thread saves or removes the file meanwhile, and fread() does not fail
\* (getServerConfig, getSnapshot).
THEOREM FallbackIsLastSavedHolds == Spec => []FallbackIsLastSaved
<1>1. Inv => FallbackIsLastSaved
  BY DEF Inv, ReaderInv, Expected, FellBack, FallbackIsLastSaved
<1> QED
  BY <1>1, Invariant, PTL
================================================================================
