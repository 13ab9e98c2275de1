----------------------------- MODULE ConfigService -----------------------------
(***************************************************************************)
(* NacosConfigService::getConfig: the failover file, the server, and the   *)
(* snapshot file that every answer renews and that stands in for a server  *)
(* that cannot be reached.  One configuration is enough: every             *)
(* configuration has files of its own.                                     *)
(*                                                                         *)
(* Nothing locks the snapshot file: the threads' system calls interleave.  *)
(* A content is written and read in chunks of the stream buffer; a file is *)
(* a sequence of chunks, each the content it belongs to.  A file that is   *)
(* removed while it is open goes on for who has it open.  The watcher of   *)
(* ClientWorker fetches and saves as getConfig() does, and stops short of  *)
(* the snapshot.                                                           *)
(*                                                                         *)
(* saveSnapshot() and getSnapshot() look at no error of fopen("wb"),       *)
(* fwrite(), fclose(), remove() and fread(), and each may fail here.       *)
(***************************************************************************)
EXTENDS Integers, Sequences, SequencesExt

CONSTANTS
    Threads,    \* the threads that call getConfig()
    Contents,   \* the contents the configuration can have
    Length,     \* Length[c]: how many chunks content c has
    Files,      \* file descriptions on disk
    NoFile,     \* the path of the snapshot names no file
    MaxCalls,   \* bound: calls of getConfig()
    MaxEdits,   \* bound: changes of the content on the server, and of the failover file
    MaxCrashes, \* bound: crashes
    MaxFaults   \* bound: failing calls on the snapshot file

Null == 0     \* no content, or an empty one (isNull())
Hole == -1    \* a chunk of a file that was never written: zeros
Garbage == -2 \* what a buffer holds that was not filled

ASSUME ConstantsAssumption ==
    /\ Contents \subseteq Nat \ {Null}
    /\ Length \in [Contents -> Nat \ {0}]
    /\ NoFile \notin Files
    /\ MaxCalls \in Nat /\ MaxEdits \in Nat /\ MaxCrashes \in Nat
    /\ MaxFaults \in Nat

\* A disk has room for a file that nobody has open.
ASSUME FilesAssumption ==
    /\ IsFiniteSet(Threads) /\ IsFiniteSet(Files)
    /\ Cardinality(Threads) <= Cardinality(Files)

VARIABLES
    server,    \* the content on the server
    failover,  \* the content of the failover file
    path,      \* the file that the snapshot's path names
    data,      \* data[f]: the chunks of file f
    call,      \* call[t]: where t is in getConfig(), with its locals
    saved,     \* ghost: the content of the last save that was begun, Null after a removal
    mark,      \* ghost: "whole": saved is in the file; "cut": its save was not
               \* finished; "mixed": two saves wrote to the file at once
    expect,    \* ghost: expect[t]: the content of the last save when t looked for the
               \* file, Unknown before, and if another thread interferes since
    partial,   \* ghost: the threads for whom that save was not finished
    calls, edits, crashes, faults  \* counters for the bounds

disk == <<path, data>>
hopes == <<expect, partial>>
ghosts == <<saved, mark, hopes>>
bounds == <<calls, edits, crashes, faults>>
vars == <<server, failover, disk, call, ghosts, bounds>>

Idle == [stage |-> "idle"]
Unknown == -3

Chunks(c) == IF c = Null THEN <<>> ELSE [i \in 1..Length[c] |-> c]

\* What became of the request: "net" no answer, else the status code.
Refusals == {"404", "403", "other"}

Texts == Seq(Contents \cup {Hole, Garbage})
Calls ==
    {Idle} \cup [stage : {"request"}]
    \cup [stage : {"remove", "stat", "size"}, code : Refusals \cup {"net"}]
    \cup [stage : {"create"}, content : Contents]
    \cup [stage : {"write"}, content : Contents, file : Files, pos : Nat]
    \cup [stage : {"open"}, code : Refusals \cup {"net"}, size : Nat]
    \cup [stage : {"read"}, code : Refusals \cup {"net"}, size : Nat, file : Files, text : Texts]
    \cup [stage : {"done"}, from : {"failover", "server", "snapshot", "denied"}, result : Texts]

\* Hole is read as the end of the string.
TypeOK ==
    /\ server \in Contents \cup {Null} /\ failover \in Contents \cup {Null}
    /\ path \in Files \cup {NoFile}
    /\ \A f \in Files : data[f] \in Seq(Contents \cup {Hole})
    /\ \A t \in Threads : call[t] \in Calls
    /\ \A t \in Threads : call[t].stage = "done" => ~Contains(call[t].result, Hole)
    /\ saved \in Contents \cup {Null} /\ mark \in {"whole", "cut", "mixed"}
    /\ expect \in [Threads -> Contents \cup {Null, Unknown}] /\ partial \in SUBSET Threads

Init ==
    /\ server = Null /\ failover = Null
    /\ path = NoFile /\ data = [f \in Files |-> <<>>]
    /\ call = [t \in Threads |-> Idle]
    /\ saved = Null /\ mark = "whole"
    /\ expect = [t \in Threads |-> Unknown] /\ partial = {}
    /\ calls = 0 /\ edits = 0 /\ crashes = 0 /\ faults = 0

Step(t, from, to) == call[t].stage = from /\ call' = [call EXCEPT ![t] = to]
Done(t, from, source, result) ==
    Step(t, from, [stage |-> "done", from |-> source, result |-> result])

\* The file changes, or the process dies: what is about to be read is unknown.
Interfere == expect' = [t \in Threads |-> Unknown] /\ partial' = {}

\* A call on the snapshot file fails.
Fault ==
    /\ faults < MaxFaults
    /\ faults' = faults + 1
    /\ UNCHANGED <<calls, edits, crashes>>

\* The process dies; the disk stays as it is.
Die ==
    /\ call' = [t \in Threads |-> Idle]
    /\ Interfere
    /\ UNCHANGED <<server, failover, disk, saved, mark>>

-----------------------------------------------------------------------------
(* The server and the operator. *)

\* publishConfig() or removeConfig(), of this client or another.  The client
\* that gets FALSE, for want of an answer, does not know whether it was done.
Publish(c) ==
    /\ edits < MaxEdits
    /\ c # server
    /\ server' = c
    /\ edits' = edits + 1
    /\ UNCHANGED <<failover, disk, call, ghosts, calls, crashes, faults>>

\* External: somebody puts the failover file there, or takes it away.
EditFailover(c) ==
    /\ edits < MaxEdits
    /\ c # failover
    /\ failover' = c
    /\ edits' = edits + 1
    /\ UNCHANGED <<server, disk, call, ghosts, calls, crashes, faults>>

-----------------------------------------------------------------------------
(* getConfigInner() and getServerConfig() *)

\* The failover file has the first word.
GetConfig(t) ==
    /\ calls < MaxCalls
    /\ calls' = calls + 1
    /\ IF failover # Null THEN Done(t, "idle", "failover", Chunks(failover))
                          ELSE Step(t, "idle", [stage |-> "request"])
    /\ UNCHANGED <<server, failover, disk, ghosts, edits, crashes, faults>>

\* 200: the content is saved.
Answered(t) ==
    /\ server # Null
    /\ Step(t, "request", [stage |-> "create", content |-> server])
    /\ UNCHANGED <<server, failover, disk, ghosts, bounds>>

\* Any other code: the snapshot is removed.
Refused(t, code) ==
    /\ code = "404" => server = Null
    /\ Step(t, "request", [stage |-> "remove", code |-> code])
    /\ UNCHANGED <<server, failover, disk, ghosts, bounds>>

\* A NetworkException, which getServerConfigHelper() turns into a NacosException.
NoAnswer(t) ==
    /\ Step(t, "request", [stage |-> "stat", code |-> "net"])
    /\ UNCHANGED <<server, failover, disk, ghosts, bounds>>

-----------------------------------------------------------------------------
(* saveSnapshot() *)

Live == {path} \cup {call[t].file : t \in {u \in Threads : call[u].stage \in {"write", "read"}}}
Writes(t, f) == call[t].stage = "write" /\ call[t].file = f

\* Mutant: the file is opened without being truncated.
Create_NoTruncate(t) ==
    /\ call[t].stage = "create"
    /\ \E f \in IF path = NoFile THEN {CHOOSE g \in Files : g \notin Live} ELSE {path} :
        /\ Step(t, "create", [stage |-> "write", content |-> call[t].content, file |-> f, pos |-> 0])
        /\ path' = f
        /\ data' = IF path = NoFile THEN [data EXCEPT ![f] = <<>>] ELSE data
        /\ saved' = call[t].content
        /\ mark' = IF \E u \in Threads : Writes(u, f) THEN "mixed" ELSE "cut"
        /\ Interfere
        /\ UNCHANGED <<server, failover, bounds>>

\* fopen("wb") makes a file, or empties the one that is there.
Create(t) ==
    /\ call[t].stage = "create"
    /\ \E f \in IF path = NoFile THEN {CHOOSE g \in Files : g \notin Live} ELSE {path} :
        /\ Step(t, "create", [stage |-> "write", content |-> call[t].content, file |-> f, pos |-> 0])
        /\ path' = f
        /\ data' = [data EXCEPT ![f] = <<>>]
        /\ saved' = call[t].content
        /\ mark' = IF \E u \in Threads : Writes(u, f) THEN "mixed" ELSE "cut"
        /\ Interfere
        /\ UNCHANGED <<server, failover, bounds>>

\* fopen() gives NULL, and the process dies of fwrite() and fclose() on it.
CreateFails(t) ==
    /\ Fault
    /\ call[t].stage = "create"
    /\ Die

\* s with chunk c at place i.
Put(s, i, c) ==
    [j \in 1..(IF Len(s) < i THEN i ELSE Len(s)) |->
        IF j = i THEN c ELSE IF j <= Len(s) THEN s[j] ELSE Hole]

\* fwrite() and fclose() write the chunks; after the last one getConfig()
\* returns the server's content.
WriteChunk(t) ==
    LET f == call[t].file  c == call[t].content  pos == call[t].pos + 1
    IN  /\ call[t].stage = "write"
        /\ IF pos = Length[c] THEN Done(t, "write", "server", Chunks(c))
                              ELSE Step(t, "write", [call[t] EXCEPT !.pos = pos])
        /\ data' = [data EXCEPT ![f] = Put(@, pos, c)]
        /\ mark' = IF f = path /\ mark = "cut" /\ pos = Length[c] THEN "whole" ELSE mark
        /\ IF f = path THEN Interfere ELSE UNCHANGED hopes
        /\ UNCHANGED <<server, failover, path, saved, bounds>>

\* fwrite() or fclose() fails, on a full disk for one: the rest is not written,
\* and getConfig() returns the server's content as if it had been.
WriteFails(t) ==
    /\ Fault
    /\ call[t].stage = "write"
    /\ Done(t, "write", "server", Chunks(call[t].content))
    /\ UNCHANGED <<server, failover, disk, ghosts>>

\* remove()
RemoveSnapshot(t) ==
    /\ call[t].stage = "remove"
    /\ Step(t, "remove", [stage |-> "stat", code |-> call[t].code])
    /\ path' = NoFile
    /\ saved' = Null /\ mark' = "whole"
    /\ Interfere
    /\ UNCHANGED <<server, failover, data, bounds>>

\* remove() fails, which is logged: the refused content stays in the snapshot.
RemoveFails(t) ==
    /\ Fault
    /\ path # NoFile
    /\ Step(t, "remove", [stage |-> "stat", code |-> call[t].code])
    /\ UNCHANGED <<server, failover, disk, ghosts>>

-----------------------------------------------------------------------------
(* getSnapshot(), after a request that was not answered with 200. *)

\* With a code of 403 and nothing to return getConfig() throws.
FallBack(t, from, result) ==
    Done(t, from, IF call[t].code = "403" /\ result = <<>> THEN "denied" ELSE "snapshot", result)

\* Is there a file?
Stat(t) ==
    LET code == call[t].code
    IN  /\ call[t].stage = "stat"
        /\ IF path = NoFile THEN FallBack(t, "stat", <<>>)
                            ELSE Step(t, "stat", [stage |-> "size", code |-> code])
        /\ expect' = [expect EXCEPT ![t] = IF mark = "mixed" THEN Unknown ELSE saved]
        /\ partial' = IF mark = "cut" THEN partial \cup {t} ELSE partial
        /\ UNCHANGED <<server, failover, disk, saved, mark, bounds>>

Size(t) ==
    /\ call[t].stage = "size"
    /\ Step(t, "size", [stage |-> "open", code |-> call[t].code,
                        size |-> IF path = NoFile THEN 0 ELSE Len(data[path])])
    /\ UNCHANGED <<server, failover, disk, ghosts, bounds>>

\* fopen("rb") fails when the file has gone; the exception stands for no content.
Open(t) ==
    /\ call[t].stage = "open"
    /\ IF path = NoFile THEN FallBack(t, "open", <<>>)
       ELSE Step(t, "open", [stage |-> "read", code |-> call[t].code, size |-> call[t].size,
                             file |-> path, text |-> <<>>])
    /\ UNCHANGED <<server, failover, disk, ghosts, bounds>>

\* The string ends at the first zero.
UpToHole(s) == SelectInSeq(s, LAMBDA c : c = Hole)
CString(s) == IF UpToHole(s) = 0 THEN s ELSE SubSeq(s, 1, UpToHole(s) - 1)

\* Mutant: the last chunk is not read.
More_Short(t) == Len(call[t].text) + 1 < call[t].size /\ Len(call[t].text) < Len(data[call[t].file])

More(t) == Len(call[t].text) < call[t].size /\ Len(call[t].text) < Len(data[call[t].file])

ReadChunk(t) ==
    /\ call[t].stage = "read"
    /\ More(t)
    /\ Step(t, "read", [call[t] EXCEPT !.text = Append(@, data[call[t].file][Len(@) + 1])])
    /\ UNCHANGED <<server, failover, disk, ghosts, bounds>>

\* Mutant: the whole buffer is returned.
EndRead_Whole(t) ==
    /\ call[t].stage = "read"
    /\ ~More(t)
    /\ \E rest \in IF Len(call[t].text) < call[t].size THEN {<<>>, <<Garbage>>} ELSE {<<>>} :
          FallBack(t, "read", call[t].text \o rest)
    /\ UNCHANGED <<server, failover, disk, ghosts, bounds>>

\* A file that is shorter than its size was leaves the rest of the buffer as
\* it was: anything, or nothing.
EndRead(t) ==
    /\ call[t].stage = "read"
    /\ ~More(t)
    /\ \E rest \in IF Len(call[t].text) < call[t].size THEN {<<>>, <<Garbage>>} ELSE {<<>>} :
          FallBack(t, "read", CString(call[t].text \o rest))
    /\ UNCHANGED <<server, failover, disk, ghosts, bounds>>

\* fread() fails, which nobody looks at: the buffer is left as it was from here.
ReadFails(t) ==
    /\ Fault
    /\ call[t].stage = "read"
    /\ \E rest \in {<<>>, <<Garbage>>} : FallBack(t, "read", CString(call[t].text \o rest))
    /\ expect' = [expect EXCEPT ![t] = Unknown] /\ partial' = partial \ {t}
    /\ UNCHANGED <<server, failover, disk, saved, mark>>

Return(t) ==
    /\ Step(t, "done", Idle)
    /\ expect' = [expect EXCEPT ![t] = Unknown] /\ partial' = partial \ {t}
    /\ UNCHANGED <<server, failover, disk, saved, mark, bounds>>

-----------------------------------------------------------------------------
\* The process dies, in the middle of whatever it does.
Crash ==
    /\ crashes < MaxCrashes
    /\ crashes' = crashes + 1
    /\ \E t \in Threads : call[t] # Idle
    /\ Die
    /\ UNCHANGED <<calls, edits, faults>>

Next ==
    \/ \E c \in Contents \cup {Null} : Publish(c) \/ EditFailover(c)
    \/ \E t \in Threads :
        \/ GetConfig(t) \/ Answered(t) \/ (\E code \in Refusals : Refused(t, code)) \/ NoAnswer(t)
        \/ Create(t) \/ WriteChunk(t) \/ RemoveSnapshot(t)
        \/ Stat(t) \/ Size(t) \/ Open(t) \/ ReadChunk(t) \/ EndRead(t)
        \/ CreateFails(t) \/ WriteFails(t) \/ RemoveFails(t) \/ ReadFails(t)
        \/ Return(t)
    \/ Crash

Spec == Init /\ [][Next]_vars

-----------------------------------------------------------------------------
(* Properties. *)

\* The snapshot is what was saved last; a crash, or an error of fwrite() or
\* fclose(), cuts it short but never leaves a part of an older content in it.
\* Only two saves at once do, and the next one that has the file for itself mends
\* it (saveSnapshot).
SnapshotIsOneContent ==
    /\ mark = "whole" => IF saved = Null THEN path = NoFile
                         ELSE path # NoFile /\ data[path] = Chunks(saved)
    /\ mark = "cut" => path # NoFile /\ IsPrefix(data[path], Chunks(saved))

FellBack(t) ==
    call[t].stage = "done" /\ call[t].from \in {"snapshot", "denied"} /\ expect[t] # Unknown

\* Without a server getConfig() gives the content that was saved last, nothing
\* if that was a removal because the server refused it, as long as no other
\* thread saves or removes the file after it has looked for it, and fread() does
\* not fail.  If the last save was not finished, because of a crash, because
\* fwrite() or fclose() failed or because it is still under way, getConfig()
\* gives a beginning of that content, and no part of another one; if remove()
\* failed, the content that the server has refused stays the one saved last
\* (getSnapshot, getServerConfig).
FallbackIsLastSaved ==
    \A t \in Threads :
        FellBack(t) => IF t \in partial THEN IsPrefix(call[t].result, Chunks(expect[t]))
                                        ELSE call[t].result = Chunks(expect[t])

\* "Saved snapshot, read it again, should be the same" (test/testcase/testCache.cpp).
\* The code does not keep this after a save that was cut short.
SavedIsRead == \A t \in Threads : FellBack(t) => call[t].result = Chunks(expect[t])
================================================================================
