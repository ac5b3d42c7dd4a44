---------------------------- MODULE FileResponse ----------------------------
(***************************************************************************)
(* The response to a download of a plain file: parse_range_header and the  *)
(* last part of download_handler (src/server.rs), the file underneath,     *)
(* which its owner may change at any time, and a downloader that resumes.  *)
(*                                                                         *)
(* Lengths are counted in reads of the stream.  A version is one file      *)
(* object; its content at position i is <<version, i>>.                    *)
(***************************************************************************)
EXTENDS Naturals, Sequences, FiniteSets

CONSTANTS
    W,            \* u64 arithmetic is modulo W
    MaxLen,       \* the longest file
    Numbers,      \* the numbers in Range headers
    MaxVersions,  \* bound: file objects the path names in turn
    MaxTries      \* bound: requests of the downloader

ASSUME WidthAssumption  == W \in Nat /\ MaxLen \in Nat /\ 2 * MaxLen < W
ASSUME NumbersAssumption == Numbers \subseteq 0..(W - 1) /\ 0 \in Numbers
ASSUME BoundsAssumption == MaxVersions \in Nat \ {0} /\ MaxTries \in Nat

Gone     == 0
Versions == 1..MaxVersions
U64      == 0..(W - 1)

\* A Range header as parse_range_header tells them apart: absent or not
\* understood, "a-", "a-b" and "-b".  A downloader asks for the file or for
\* a part of it.
Kinds    == {"none", "from", "fromTo", "suffix"}
Requests == [goal : {"file", "part"}, kind : Kinds, a : U64, b : U64]

Whole == [goal |-> "file", kind |-> "none", a |-> 0, b |-> 0]
From(goal, i) == [goal |-> goal, kind |-> "from", a |-> i, b |-> 0]

Parts == {From("part", i) : i \in Numbers} \cup
    [goal : {"part"}, kind : {"fromTo"}, a : Numbers, b : Numbers] \cup
    [goal : {"part"}, kind : {"suffix"}, a : {0}, b : Numbers]

VARIABLES
    path,      \* the version the path names, or Gone
    made,      \* versions made so far
    len,       \* version -> its length
    checks,    \* does the build check for overflow?
    req,       \* the request
    hpc,       \* progress of download_handler and of its response
    source,    \* the version behind the open handle
    size,      \* file_size
    part,      \* body received so far
    saved,     \* the downloader's file before this response
    moved,     \* was the file changed during this request?  (history)
    changed,   \* ... since the downloader began?  (history)
    tries

fileVars    == <<path, made, len>>
requestVars == <<req, saved, tries>>
historyVars == <<moved, changed>>
vars == <<fileVars, checks, requestVars, hpc, source, size, part, historyVars>>

-----------------------------------------------------------------------------
(* parse_range_header, and the positions the handler computes from it.     *)

Least(m, n) == IF m <= n THEN m ELSE n

MinusOne(n) == (n + W - 1) % W

\* Does the function return Some(range)?
Parses(h, n) == h.kind = "suffix" \/ (h.kind \in {"from", "fromTo"} /\ h.a < n)

\* size.saturating_sub(suffix), or the number given; 0 without a range.
Start(h, n) ==
    IF ~Parses(h, n) THEN 0
    ELSE IF h.kind = "suffix" THEN n - Least(n, h.b) ELSE h.a

\* Mutant: the end of the range is not limited to the file.
EndUnlimited(h, n) ==
    IF Parses(h, n) /\ h.kind = "fromTo" THEN h.b ELSE MinusOne(n)

End(h, n) ==
    IF Parses(h, n) /\ h.kind = "fromTo" THEN Least(h.b, MinusOne(n))
                                         ELSE MinusOne(n)

\* Mutant: the end is taken to be exclusive.
LengthExclusive(h, n) ==
    IF Parses(h, n) THEN (End(h, n) + W - Start(h, n)) % W ELSE n

\* Mutant: the length is computed without a width.
LengthUnbounded(h, n) ==
    IF Parses(h, n) THEN End(h, n) + W - Start(h, n) + 1 ELSE n

\* content_length: end - start + 1, or the size.
Length(h, n) ==
    IF Parses(h, n) THEN (End(h, n) + W - Start(h, n) + 1) % W ELSE n

\* Mutant: a suffix longer than the file overflows too.
OverflowsUnsaturated(h, n) ==
    \/ n = 0 \/ (Parses(h, n) /\ End(h, n) < Start(h, n))
    \/ h.kind = "suffix" /\ h.b > n

\* file_size - 1 or end - start leaves u64.
Overflows(h, n) == n = 0 \/ (Parses(h, n) /\ End(h, n) < Start(h, n))

-----------------------------------------------------------------------------
Waiting == {"idle", "notfound", "error", "panicked", "broken", "done"}
Body    == {"streaming", "broken", "done"}

\* The downloader's file: a 206 continues what it had, a 200 starts again.
Assembled == IF Parses(req, size) THEN saved \o part ELSE part

Init ==
    /\ path = 1 /\ made = 1
    /\ \E n \in 0..MaxLen : len = [v \in Versions |-> n]
    /\ checks \in BOOLEAN
    /\ req = Whole
    /\ hpc = "idle"
    /\ source = 1 /\ size = 0
    /\ part = <<>> /\ saved = <<>>
    /\ moved = FALSE /\ changed = FALSE
    /\ tries = 0

Arrive ==
    /\ hpc \in Waiting /\ tries < MaxTries
    /\ tries' = tries + 1
    /\ hpc' = "arrived" /\ part' = <<>> /\ moved' = FALSE
    /\ UNCHANGED <<fileVars, checks, source, size>>

\* A download from the start.
RequestFile ==
    /\ Arrive
    /\ req' = Whole /\ saved' = <<>> /\ changed' = FALSE

\* "bytes=n-", n being what the downloader has.
Resume ==
    /\ Arrive
    /\ req.goal = "file" /\ hpc \in {"notfound", "error", "panicked", "broken"}
    /\ saved' = IF hpc = "broken" THEN Assembled ELSE saved
    /\ req' = From("file", Len(saved'))
    /\ UNCHANGED changed

RequestPart ==
    /\ Arrive
    /\ req' \in Parts
    /\ UNCHANGED <<saved, changed>>

-----------------------------------------------------------------------------
(* download_handler.  Every step may find another file than the last.      *)

\* path.exists().
PathExists ==
    /\ hpc = "arrived"
    /\ hpc' = IF path = Gone THEN "notfound" ELSE "found"
    /\ UNCHANGED <<fileVars, checks, requestVars, source, size, part, historyVars>>

OpenFile ==
    /\ hpc = "found"
    /\ IF path = Gone THEN hpc' = "error" /\ UNCHANGED source
                      ELSE hpc' = "opened" /\ source' = path
    /\ UNCHANGED <<fileVars, checks, requestVars, size, part, historyVars>>

\* metadata().len(), then the range; only a range needs a second handle.
ReadSize ==
    /\ hpc = "opened"
    /\ size' = len[source]
    /\ hpc' = IF checks /\ Overflows(req, size') THEN "panicked"
              ELSE IF Parses(req, size') THEN "reopen" ELSE "streaming"
    /\ UNCHANGED <<fileVars, checks, requestVars, source, part, historyVars>>

\* File::open again, and seek.
Reopen ==
    /\ hpc = "reopen"
    /\ IF path = Gone THEN hpc' = "error" /\ UNCHANGED source
                      ELSE hpc' = "streaming" /\ source' = path
    /\ UNCHANGED <<fileVars, checks, requestVars, size, part, historyVars>>

\* Mutant: no seek to the start of the range.
PositionUnsought == Len(part)

Position == Start(req, size) + Len(part)

\* A read of the stream, sent as long as Content-Length has room for it.
Send ==
    /\ hpc = "streaming" /\ Len(part) < Length(req, size)
    /\ Position < len[source]
    /\ part' = Append(part, <<source, Position>>)
    /\ UNCHANGED <<fileVars, checks, requestVars, hpc, source, size, historyVars>>

\* Mutant: at the end of the file the stream waits for more of it.
EndOfFileWaits == FALSE /\ UNCHANGED vars

\* The file ends before Content-Length does: the connection is broken off.
EndOfFile ==
    /\ hpc = "streaming" /\ Len(part) < Length(req, size)
    /\ Position >= len[source]
    /\ hpc' = "broken"
    /\ UNCHANGED <<fileVars, checks, requestVars, source, size, part, historyVars>>

Complete ==
    /\ hpc = "streaming" /\ Len(part) = Length(req, size)
    /\ hpc' = "done"
    /\ UNCHANGED <<fileVars, checks, requestVars, source, size, part, historyVars>>

\* The connection is lost, at any point.
Disconnect ==
    /\ hpc \notin Waiting
    /\ hpc' = IF hpc = "streaming" THEN "broken" ELSE "error"
    /\ UNCHANGED <<fileVars, checks, requestVars, source, size, part, historyVars>>

-----------------------------------------------------------------------------
(* The owner of the file.                                                  *)

Touch == /\ moved' = TRUE /\ changed' = TRUE
         /\ UNCHANGED <<checks, requestVars, hpc, source, size, part>>

\* Another file takes the path.
Replace ==
    /\ Touch
    /\ made < MaxVersions
    /\ made' = made + 1 /\ path' = made'
    /\ \E n \in 0..MaxLen : len' = [len EXCEPT ![made'] = n]

\* The file grows or is cut in place.
Resize ==
    /\ Touch
    /\ path # Gone
    /\ \E n \in 0..MaxLen : n # len[path] /\ len' = [len EXCEPT ![path] = n]
    /\ UNCHANGED <<path, made>>

Remove ==
    /\ Touch
    /\ path # Gone /\ path' = Gone
    /\ UNCHANGED <<made, len>>

-----------------------------------------------------------------------------
Handler == PathExists \/ OpenFile \/ ReadSize \/ Reopen
Stream  == Send \/ EndOfFile \/ Complete

Next ==
    \/ RequestFile \/ Resume \/ RequestPart
    \/ Handler \/ Stream \/ Disconnect
    \/ Replace \/ Resize \/ Remove

Spec == Init /\ [][Next]_vars

\* The handler is scheduled and the response is read.
FairSpec == Spec /\ WF_vars(Handler) /\ WF_vars(Stream)

-----------------------------------------------------------------------------
Chunks == Versions \X (0..MaxLen)

TypeOK ==
    /\ path \in Versions \cup {Gone}
    /\ made \in Versions
    /\ len \in [Versions -> 0..MaxLen]
    /\ checks \in BOOLEAN
    /\ req \in Requests
    /\ hpc \in Waiting \cup {"arrived", "found", "opened", "reopen", "streaming"}
    /\ source \in Versions
    /\ size \in 0..MaxLen
    /\ Length(req, size) \in U64
    /\ part \in Seq(Chunks) /\ saved \in Seq(Chunks)
    /\ moved \in BOOLEAN /\ changed \in BOOLEAN /\ (moved => changed)
    /\ tries \in 0..MaxTries

\* What RFC 9110 means by the header: the positions asked for.
Asked(h, n) == {i \in 0..(n - 1) :
    CASE h.kind = "from"   -> h.a <= i
      [] h.kind = "fromTo" -> h.a <= i /\ i <= h.b
      [] h.kind = "suffix" -> n <= i + h.b
      [] OTHER             -> TRUE}

WellFormed(h) == (h.kind = "fromTo" => h.a <= h.b) /\ (h.kind = "suffix" => h.b > 0)

\* parse_range_header on a file that is not empty: a valid header gives just
\* the positions asked for, one that asks for none of the file gives it all.
RangeHonoured == hpc \in {"reopen"} \cup Body /\ size > 0 /\ WellFormed(req) =>
    IF Asked(req, size) = {} THEN ~Parses(req, size)
    ELSE /\ Asked(req, size) = Start(req, size)..End(req, size)
         /\ Length(req, size) = End(req, size) - Start(req, size) + 1

\* A response that ends well has the advertised bytes of the file, neither
\* more nor less, if the file was left alone meanwhile: on every path through
\* the two handles, and whatever the header was.
CompleteIsExact == hpc = "done" /\ ~moved =>
    /\ size = len[path]
    /\ Len(part) = Cardinality({i \in 0..(size - 1) :
                                 Start(req, size) <= i /\ i <= End(req, size)})
    /\ \A i \in 1..Len(part) : part[i] = <<path, Start(req, size) + i - 1>>

\* A downloader that resumes as often as it takes holds a prefix of the file,
\* and in the end the file, if the file is left alone: also when a resumed
\* request is answered with the file from its start.
ResumeAssembles == req.goal = "file" /\ hpc \in Body /\ ~changed =>
    /\ \A i \in 1..Len(Assembled) : Assembled[i] = <<path, i - 1>>
    /\ hpc = "done" => Len(Assembled) = len[path]

\* With overflow checks only an empty file, an inverted range or an empty
\* suffix is answered by a panic.
PanicsOnlyOnEmpty == hpc = "panicked" => size = 0 \/ ~WellFormed(req)

\* Every response ends, however the file grows: Content-Length is fixed
\* before the first byte.
EveryResponseEnds == hpc = "arrived" ~> hpc \in Waiting
=============================================================================
