----------------------------- MODULE ZipStream -----------------------------
(***************************************************************************)
(* The response to a download of a directory: stream_directory_as_zip      *)
(* (src/server.rs) walks the directory, and a task of its own writes an    *)
(* archive into a bounded pipe whose other end is the body.                *)
(*                                                                         *)
(* The archive is a sequence of units <<what, entry, reads>>: the head of  *)
(* an entry, a read of its file, its close (which holds the size), and the *)
(* central directory, without which it is no archive.                      *)
(***************************************************************************)
EXTENDS Naturals, Sequences

CONSTANTS
    N,          \* names in the directory, visited in order
    MaxReads,   \* bound: the longest file, in reads
    Cap         \* capacity of the pipe, in units

ASSUME SizesAssumption == N \in Nat /\ MaxReads \in Nat /\ Cap \in Nat \ {0}

Names == 1..N

VARIABLES
    kind,      \* name -> "dir" or "file"
    disk,      \* name -> "readable", "failing" or "gone"
    length,    \* name -> its length
    pc,        \* the handler, then the task
    cur,       \* the name visited, then the place in entries
    entries,   \* the names collected
    pos,       \* reads of the current file
    pipe,
    body,      \* units the downloader has
    reader     \* "open", "gone", or "ended": the body ended without error

diskVars == <<kind, disk, length>>
taskVars == <<pc, cur, entries, pos>>
vars == <<diskVars, taskVars, pipe, body, reader>>

Central == <<"central", 0, 0>>

-----------------------------------------------------------------------------
Init ==
    /\ kind \in [Names -> {"dir", "file"}]
    /\ disk = [n \in Names |-> "readable"]
    /\ length \in [Names -> 0..MaxReads]
    /\ pc = "walk" /\ cur = 1 /\ entries = <<>> /\ pos = 0
    /\ pipe = <<>> /\ body = <<>> /\ reader = "open"

(* The handler: WalkDir, entry by entry.                                   *)

\* A name that is gone by now is not seen.
WalkEntry ==
    /\ pc = "walk" /\ cur <= N
    /\ cur' = cur + 1
    /\ entries' = IF disk[cur] = "gone" THEN entries ELSE Append(entries, cur)
    /\ UNCHANGED <<diskVars, pc, pos, pipe, body, reader>>

\* A directory that cannot be listed: the download is answered by an error.
WalkFails ==
    /\ pc = "walk" /\ cur <= N /\ kind[cur] = "dir" /\ disk[cur] = "failing"
    /\ pc' = "error"
    /\ UNCHANGED <<diskVars, cur, entries, pos, pipe, body, reader>>

\* tokio::spawn.
SpawnTask ==
    /\ pc = "walk" /\ cur > N
    /\ pc' = "entry" /\ cur' = 1
    /\ UNCHANGED <<diskVars, entries, pos, pipe, body, reader>>

-----------------------------------------------------------------------------
(* The task.  Any error makes it return, which drops its end of the pipe.  *)

\* Mutant: a write to a pipe nobody reads waits.
WriteWaits(unit, then) ==
    reader = "open" /\ Len(pipe) < Cap /\ pipe' = Append(pipe, unit) /\ pc' = then

\* Mutant: a pipe without a limit.
WriteUnbounded(unit, then) ==
    \/ reader = "open" /\ pipe' = Append(pipe, unit) /\ pc' = then
    \/ reader # "open" /\ UNCHANGED pipe /\ pc' = "failed"

\* A write waits for room; with the body gone it fails.
Write(unit, then) ==
    \/ reader = "open" /\ Len(pipe) < Cap /\ pipe' = Append(pipe, unit) /\ pc' = then
    \/ reader # "open" /\ UNCHANGED pipe /\ pc' = "failed"

Entry == entries[cur]

\* write_entry_whole: a directory is nothing but its head.
WriteDir ==
    /\ pc = "entry" /\ cur <= Len(entries) /\ kind[Entry] = "dir"
    /\ Write(<<"head", Entry, 0>>, "entry")
    /\ cur' = cur + 1
    /\ UNCHANGED <<diskVars, entries, pos, body, reader>>

\* write_entry_stream, before the file is opened.
WriteHead ==
    /\ pc = "entry" /\ cur <= Len(entries) /\ kind[Entry] = "file"
    /\ Write(<<"head", Entry, 0>>, "open")
    /\ UNCHANGED <<diskVars, cur, entries, pos, body, reader>>

\* Mutant: a file that cannot be opened is skipped.
OpenEntrySkips ==
    /\ pc = "open"
    /\ IF disk[Entry] = "readable" THEN pc' = "read" /\ UNCHANGED cur
                                   ELSE pc' = "entry" /\ cur' = cur + 1
    /\ pos' = 0
    /\ UNCHANGED <<diskVars, entries, pipe, body, reader>>

OpenEntry ==
    /\ pc = "open"
    /\ pc' = IF disk[Entry] = "readable" THEN "read" ELSE "failed"
    /\ pos' = 0
    /\ UNCHANGED <<diskVars, cur, entries, pipe, body, reader>>

\* read() finds more, the end, or an error; a file unlinked meanwhile is
\* read on.
ReadEntry ==
    /\ pc = "read"
    /\ pc' = IF disk[Entry] = "failing" THEN "failed"
             ELSE IF pos < length[Entry] THEN "write" ELSE "close"
    /\ pos' = IF pc' = "write" THEN pos + 1 ELSE pos
    /\ UNCHANGED <<diskVars, cur, entries, pipe, body, reader>>

WriteData ==
    /\ pc = "write"
    /\ Write(<<"data", Entry, pos>>, "read")
    /\ UNCHANGED <<diskVars, cur, entries, pos, body, reader>>

CloseEntry ==
    /\ pc = "close"
    /\ Write(<<"close", Entry, pos>>, "entry")
    /\ cur' = cur + 1
    /\ UNCHANGED <<diskVars, entries, pos, body, reader>>

\* zip.close().
CloseZip ==
    /\ pc = "entry" /\ cur > Len(entries)
    /\ Write(Central, "done")
    /\ UNCHANGED <<diskVars, cur, entries, pos, body, reader>>

-----------------------------------------------------------------------------
(* The body.                                                               *)

Read ==
    /\ reader = "open" /\ pipe # <<>>
    /\ body' = Append(body, Head(pipe)) /\ pipe' = Tail(pipe)
    /\ UNCHANGED <<diskVars, taskVars, reader>>

\* The writer is dropped and the pipe is empty: an ordinary end, whether the
\* task finished or failed.
EndOfBody ==
    /\ reader = "open" /\ pipe = <<>> /\ pc \in {"done", "failed"}
    /\ reader' = "ended"
    /\ UNCHANGED <<diskVars, taskVars, pipe, body>>

\* The downloader disconnects.
Leave ==
    /\ reader = "open" /\ pc \notin {"walk", "error"}
    /\ reader' = "gone" /\ pipe' = <<>>
    /\ UNCHANGED <<diskVars, taskVars, body>>

\* The directory in use: names vanish, files become unreadable, grow, shrink.
DiskChanges(n) ==
    /\ \/ /\ disk[n] = "readable"
          /\ \E s \in {"failing", "gone"} : disk' = [disk EXCEPT ![n] = s]
          /\ UNCHANGED length
       \/ /\ disk[n] # "gone" /\ kind[n] = "file"
          /\ \E k \in 0..MaxReads : length' = [length EXCEPT ![n] = k]
          /\ UNCHANGED disk
    /\ UNCHANGED <<kind, taskVars, pipe, body, reader>>

Walk == WalkEntry \/ WalkFails \/ SpawnTask
Task == WriteDir \/ WriteHead \/ OpenEntry \/ ReadEntry \/ WriteData
        \/ CloseEntry \/ CloseZip
Downloader == Read \/ EndOfBody \/ Leave

Next == Walk \/ Task \/ Downloader \/ \E n \in Names : DiskChanges(n)

Spec == Init /\ [][Next]_vars

\* The handler and the task are scheduled; the body is read or its connection
\* breaks.
FairSpec == Spec /\ WF_vars(Walk) /\ WF_vars(Task) /\ WF_vars(Downloader)

-----------------------------------------------------------------------------
Units == {"head", "data", "close"} \X Names \X (0..MaxReads) \cup {Central}

TypeOK ==
    /\ kind \in [Names -> {"dir", "file"}]
    /\ disk \in [Names -> {"readable", "failing", "gone"}]
    /\ length \in [Names -> 0..MaxReads]
    /\ pc \in {"walk", "error", "entry", "open", "read", "write", "close",
               "done", "failed"}
    /\ cur \in 1..(N + 1)
    /\ entries \in Seq(Names)
    /\ pc \in {"open", "read", "write", "close"} => cur \in 1..Len(entries)
    /\ pos \in 0..MaxReads
    /\ pipe \in Seq(Units) /\ Len(pipe) <= Cap
    /\ body \in Seq(Units)
    /\ reader \in {"open", "gone", "ended"}

\* Entry i of the archive begins after all of its predecessors.
BeginsAfter(i, u) ==
    \/ i = 1 /\ u = <<>>
    \/ /\ i > 1 /\ u # <<>> /\ u[2] = entries[i - 1]
       /\ u[1] = IF kind[u[2]] = "dir" THEN "head" ELSE "close"

\* May v follow u, <<>> being the beginning?
Follows(u, v) ==
    \/ v = Central /\ BeginsAfter(Len(entries) + 1, u)
    \/ /\ v[1] = "head" /\ v[3] = 0
       /\ \E i \in 1..Len(entries) : v[2] = entries[i] /\ BeginsAfter(i, u)
    \/ /\ v[1] \in {"data", "close"} /\ kind[v[2]] = "file"
       /\ u # <<>> /\ u[1] \in {"head", "data"} /\ u[2] = v[2]
       /\ v[3] = IF v[1] = "data" THEN u[3] + 1 ELSE u[3]

\* What the downloader has is always the beginning of one archive of all the
\* entries walked, whatever happens to the directory: so a body that holds
\* the central directory misses no entry and no read of a file, and a task
\* that fails is recognised by the central directory it leaves out.
ArchiveBegun == \A i \in 1..Len(body) :
    Follows(IF i = 1 THEN <<>> ELSE body[i - 1], body[i])

\* The task never outlives its download: it ends, whether the archive is
\* read, the downloader leaves with the pipe full, or a file fails.
TaskEnds == pc = "entry" ~> pc \in {"done", "failed"}
=============================================================================
