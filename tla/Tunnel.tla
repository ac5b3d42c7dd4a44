------------------------------- MODULE Tunnel -------------------------------
(***************************************************************************)
(* The tunnel of RyanSend: a client behind a NAT announces one file, long- *)
(* polls the server, and streams the file to the server each time a poll   *)
(* is answered "Upload"; the server pipes the bytes of the upload request  *)
(* into the body of a waiting download (src/tunnel.rs and the tunnel       *)
(* handlers of src/server.rs).                                             *)
(*                                                                         *)
(* Everything the server keeps is indexed by the file's id, so one file    *)
(* and its one client show every interaction.  A server is restarted in    *)
(* place by an administrator (Reload) or dies (Crash); each incarnation    *)
(* has its own TunnelManager, and the handlers of an incarnation keep the  *)
(* manager they started with.                                              *)
(***************************************************************************)
EXTENDS Naturals, Sequences, FiniteSets

CONSTANTS
    Downloads,    \* requests for /download that carry this tunnel's token
    None,         \* no download, no manager
    FileLen,      \* number of chunks of the file when it is announced
    Sizes,        \* numbers of chunks it may come to have
    Cap,          \* capacity of the channel of request_file_stream
    MaxRestarts,  \* bound: incarnations of the server after the first
    MaxFaults,    \* bound: network and client failures
    Https         \* the client talks to the HTTPS listener

ASSUME NoneAssumption     == None \notin Downloads /\ None \notin Nat
ASSUME FileLenAssumption  == FileLen \in Nat \ {0}
ASSUME SizesAssumption    == Sizes \subseteq Nat /\ FileLen \in Sizes
ASSUME CapAssumption      == Cap \in Nat \ {0}
ASSUME RestartsAssumption == MaxRestarts \in Nat
ASSUME FaultsAssumption   == MaxFaults \in Nat
ASSUME HttpsAssumption    == Https \in BOOLEAN

Managers == 0..MaxRestarts

\* One upload request is provoked by one notification, and one download
\* notifies once, so a download names the upload its notification provoked.
Uploads == Downloads

VARIABLES
    current,         \* the manager new connections reach
    serving,         \* is there a listener?
    connections,     \* managers in which the file is registered
    upload_senders,  \* manager -> the download whose sender it stores
    dstate,          \* download -> progress of its download_handler
    dmgr,            \* download -> the manager its handler uses
    chan,            \* download -> chunks buffered in its channel
    got,             \* download -> chunks its HTTP body has received
    ustate,          \* upload -> progress of its tunnel_upload_handler
    umgr,            \* upload -> the manager its handler uses
    target,          \* upload -> the download whose sender it cloned
    next,            \* upload -> the next chunk of its body
    orphaned,        \* uploads whose client is no longer connected
    cpc,             \* progress of the client
    cmgr,            \* manager of the client's request or kept connection
    task,            \* the upload the client is asked for
    size,            \* number of chunks of the client's file now
    faults           \* failures so far

serverVars   == <<current, serving>>
managerVars  == <<connections, upload_senders>>
downloadVars == <<dstate, dmgr, chan, got>>
uploadVars   == <<ustate, umgr, target, next, orphaned>>
clientVars   == <<cpc, cmgr, task>>
vars == <<serverVars, managerVars, downloadVars, uploadVars, clientVars, size,
          faults>>

-----------------------------------------------------------------------------
(* The handlers' states.                                                   *)

HasReceiver == {"inserted", "streaming"}           \* byte_rx is alive
Ended       == {"complete", "truncated", "aborted", "notfound", "reset"}
DStates     == {"idle", "looked"} \cup HasReceiver \cup Ended

Active  == {"arrived", "feeding", "closing", "failing"}
Fed     == {"feeding", "closing", "failing", "ok", "failed"}
UStates == Active \cup {"none", "ok", "failed", "refused", "lost"}

Polling == {"found", "waiting", "woken"}           \* in poll_for_upload
CStates == {"announce", "poll", "upload", "uploading", "reannounce",
            "sleep", "exited"} \cup Polling

\* Mutant: the stream ends with the stored sender, whoever holds a clone.
HasStoredSender(d) == \E m \in Managers : upload_senders[m] = d

\* Mutant: the body keeps a sender of its own.
HasReceiverSender(d) == dstate[d] \in HasReceiver

\* A Sender of d's channel exists: the one in the map or a clone of it.
HasSender(d) == \/ \E m \in Managers : upload_senders[m] = d
                \/ \E u \in Uploads : ustate[u] = "feeding" /\ target[u] = d

\* Where the client's next request goes.  On a plain connection a graceful
\* shutdown closes the connection after the request in flight; nothing shuts
\* down a kept HTTPS connection, so the client goes on using it.
Reaches(m) == IF Https /\ cmgr # None THEN m = cmgr ELSE serving /\ m = current
Unreachable == ~serving /\ ~(Https /\ cmgr # None)

Fault == faults < MaxFaults /\ faults' = faults + 1

-----------------------------------------------------------------------------
Init ==
    /\ current = 0
    /\ serving = TRUE
    /\ connections = {}
    /\ upload_senders = [m \in Managers |-> None]
    /\ dstate = [d \in Downloads |-> "idle"]
    /\ dmgr = [d \in Downloads |-> None]
    /\ chan = [d \in Downloads |-> <<>>]
    /\ got = [d \in Downloads |-> <<>>]
    /\ ustate = [u \in Uploads |-> "none"]
    /\ umgr = [u \in Uploads |-> None]
    /\ target = [u \in Uploads |-> None]
    /\ next = [u \in Uploads |-> 1]
    /\ orphaned = {}
    /\ cpc = "announce"
    /\ cmgr = None
    /\ task = None
    /\ size = FileLen
    /\ faults = 0

-----------------------------------------------------------------------------
(* The client: announce_and_serve, then the loop of poll_and_serve.        *)

\* announce_and_serve uses an HTTP client of its own: no connection is kept.
Announce ==
    /\ cpc = "announce" /\ serving
    /\ connections' = connections \cup {current}     \* register_tunnel
    /\ cpc' = "poll"
    /\ UNCHANGED <<serverVars, upload_senders, downloadVars, uploadVars,
                   cmgr, task, size, faults>>

\* A first announcement that fails ends the command.
AnnounceFails ==
    /\ cpc = "announce" /\ ~serving
    /\ cpc' = "exited"
    /\ UNCHANGED <<serverVars, managerVars, downloadVars, uploadVars,
                   cmgr, task, size, faults>>

\* Mutant: a 404 is treated as any other failure of the poll.
PollLookupOnly ==
    /\ cpc = "poll"
    /\ \E m \in Managers :
         /\ Reaches(m)
         /\ cmgr' = m
         /\ cpc' = IF m \in connections THEN "found" ELSE "sleep"
    /\ UNCHANGED <<serverVars, managerVars, downloadVars, uploadVars,
                   task, size, faults>>

\* The poll arrives and poll_for_upload looks the connection up; an unknown
\* file is answered 404.
PollLookup ==
    /\ cpc = "poll"
    /\ \E m \in Managers :
         /\ Reaches(m)
         /\ cmgr' = m
         /\ cpc' = IF m \in connections THEN "found" ELSE "reannounce"
    /\ UNCHANGED <<serverVars, managerVars, downloadVars, uploadVars,
                   task, size, faults>>

PollRefused ==
    /\ cpc = "poll" /\ Unreachable
    /\ cpc' = "sleep"
    /\ UNCHANGED <<serverVars, managerVars, downloadVars, uploadVars,
                   cmgr, task, size, faults>>

\* notified(): only from here on does notify_waiters reach this poll.
PollWait ==
    /\ cpc = "found"
    /\ cpc' = "waiting"
    /\ UNCHANGED <<serverVars, managerVars, downloadVars, uploadVars,
                   cmgr, task, size, faults>>

\* Mutant: a poll that is woken as its time runs out answers Wait.
PollTimeoutWoken ==
    /\ cpc \in {"waiting", "woken"}
    /\ cpc' = "poll" /\ task' = None
    /\ UNCHANGED <<serverVars, managerVars, downloadVars, uploadVars,
                   cmgr, size, faults>>

\* 30 seconds without a notification: Wait, and the client polls again.
PollTimeout ==
    /\ cpc = "waiting"
    /\ cpc' = "poll"
    /\ UNCHANGED <<serverVars, managerVars, downloadVars, uploadVars,
                   cmgr, task, size, faults>>

PollUpload ==
    /\ cpc = "woken"
    /\ cpc' = "upload"
    /\ UNCHANGED <<serverVars, managerVars, downloadVars, uploadVars,
                   cmgr, task, size, faults>>

\* stream_upload sends its request.
StreamUpload ==
    /\ cpc = "upload"
    /\ \E m \in Managers :
         /\ Reaches(m)
         /\ cmgr' = m
         /\ umgr' = [umgr EXCEPT ![task] = m]
    /\ ustate' = [ustate EXCEPT ![task] = "arrived"]
    /\ cpc' = "uploading"
    /\ UNCHANGED <<serverVars, managerVars, downloadVars, target, next,
                   orphaned, task, size, faults>>

\* stream_upload fails before any request is made; the loop only logs it.
StreamUploadRefused ==
    /\ cpc = "upload" /\ Unreachable
    /\ cpc' = "poll"
    /\ task' = None
    /\ UNCHANGED <<serverVars, managerVars, downloadVars, uploadVars,
                   cmgr, size, faults>>

\* Mutant: the client polls again while its upload runs.
StreamUploadDetached ==
    /\ cpc = "uploading"
    /\ cpc' = "poll"
    /\ task' = None
    /\ UNCHANGED <<serverVars, managerVars, downloadVars, uploadVars,
                   cmgr, size, faults>>

\* The answer to the upload, good or bad, sends the client back to polling.
StreamUploadReturns ==
    /\ cpc = "uploading" /\ ustate[task] \in {"ok", "failed", "refused"}
    /\ cpc' = "poll"
    /\ task' = None
    /\ UNCHANGED <<serverVars, managerVars, downloadVars, uploadVars,
                   cmgr, size, faults>>

\* After a 404 the client announces again and sleeps, whatever comes back.
Reannounce ==
    /\ cpc = "reannounce"
    /\ \/ \E m \in Managers :
            /\ Reaches(m)
            /\ cmgr' = m
            /\ connections' = connections \cup {m}
       \/ Unreachable /\ UNCHANGED <<connections, cmgr>>
    /\ cpc' = "sleep"
    /\ UNCHANGED <<serverVars, upload_senders, downloadVars, uploadVars,
                   task, size, faults>>

\* The back-off (retry_delay_secs) is over.
WakeUp ==
    /\ cpc = "sleep"
    /\ cpc' = "poll"
    /\ UNCHANGED <<serverVars, managerVars, downloadVars, uploadVars,
                   cmgr, task, size, faults>>

-----------------------------------------------------------------------------
(* The download handler's tunnel branch, with request_file_stream, and the *)
(* HTTP body it returns.                                                   *)

\* The first get_connection.  A registered file stays registered as long as
\* its manager lives, so the second one, in request_file_stream, succeeds.
DownloadLookup(d) ==
    /\ dstate[d] = "idle" /\ serving
    /\ dmgr' = [dmgr EXCEPT ![d] = current]
    /\ dstate' = [dstate EXCEPT ![d] =
                    IF current \in connections THEN "looked" ELSE "notfound"]
    /\ UNCHANGED <<serverVars, managerVars, chan, got, uploadVars, clientVars,
                   size, faults>>

\* The new sender replaces, and so drops, the one stored before.
InsertSender(d) ==
    /\ dstate[d] = "looked"
    /\ upload_senders' = [upload_senders EXCEPT ![dmgr[d]] = d]
    /\ dstate' = [dstate EXCEPT ![d] = "inserted"]
    /\ UNCHANGED <<serverVars, connections, dmgr, chan, got, uploadVars,
                   clientVars, size, faults>>

\* notify_waiters wakes a poll that waits on this manager and leaves nothing
\* behind for one that does not wait yet.
NotifyUploadRequested(d) ==
    /\ dstate[d] = "inserted"
    /\ dstate' = [dstate EXCEPT ![d] = "streaming"]
    /\ IF cpc = "waiting" /\ cmgr = dmgr[d]
         THEN cpc' = "woken" /\ task' = d
         ELSE UNCHANGED <<cpc, task>>
    /\ UNCHANGED <<serverVars, managerVars, dmgr, chan, got, uploadVars, cmgr,
                   size, faults>>

\* The body yields a chunk; Content-Length chunks end it.
Receive(d) ==
    /\ dstate[d] = "streaming" /\ chan[d] # <<>>
    /\ got' = [got EXCEPT ![d] = Append(@, Head(chan[d]))]
    /\ IF Len(got[d]) + 1 = FileLen
         THEN /\ dstate' = [dstate EXCEPT ![d] = "complete"]
              /\ chan' = [chan EXCEPT ![d] = <<>>]
         ELSE /\ dstate' = dstate
              /\ chan' = [chan EXCEPT ![d] = Tail(@)]
    /\ UNCHANGED <<serverVars, managerVars, dmgr, uploadVars, clientVars,
                   size, faults>>

\* recv() returns None: no sender is left.  The body ends short of its
\* Content-Length.
ChannelCloses(d) ==
    /\ dstate[d] = "streaming" /\ chan[d] = <<>> /\ ~HasSender(d)
    /\ dstate' = [dstate EXCEPT ![d] = "truncated"]
    /\ UNCHANGED <<serverVars, managerVars, dmgr, chan, got, uploadVars,
                   clientVars, size, faults>>

\* The downloader disconnects; its stored sender stays in the map.
DownloadAborts(d) ==
    /\ dstate[d] \in {"looked", "streaming"}
    /\ dstate' = [dstate EXCEPT ![d] = "aborted"]
    /\ chan' = [chan EXCEPT ![d] = <<>>]
    /\ UNCHANGED <<serverVars, managerVars, dmgr, got, uploadVars, clientVars,
                   size, faults>>

-----------------------------------------------------------------------------
(* tunnel_upload_handler.                                                  *)

\* get_upload_sender clones the sender stored NOW, whoever asked for this
\* upload.
GetUploadSender(u) ==
    /\ ustate[u] = "arrived"
    /\ IF upload_senders[umgr[u]] = None
         THEN /\ ustate' = [ustate EXCEPT ![u] = "refused"]
              /\ UNCHANGED target
         ELSE /\ ustate' = [ustate EXCEPT ![u] = "feeding"]
              /\ target' = [target EXCEPT ![u] = upload_senders[umgr[u]]]
    /\ UNCHANGED <<serverVars, managerVars, downloadVars, umgr, next, orphaned,
                   clientVars, size, faults>>

\* Mutant: an unbounded channel.
ForwardUnbounded(u) ==
    /\ ustate[u] = "feeding" /\ next[u] <= size
    /\ dstate[target[u]] \in HasReceiver
    /\ chan' = [chan EXCEPT ![target[u]] = Append(@, next[u])]
    /\ next' = [next EXCEPT ![u] = @ + 1]
    /\ UNCHANGED <<serverVars, managerVars, dstate, dmgr, got, ustate, umgr,
                   target, orphaned, clientVars, size, faults>>

\* sender.send(Ok(bytes)) waits for room in the channel.
Forward(u) ==
    /\ ustate[u] = "feeding" /\ next[u] <= size
    /\ dstate[target[u]] \in HasReceiver
    /\ Len(chan[target[u]]) < Cap
    /\ chan' = [chan EXCEPT ![target[u]] = Append(@, next[u])]
    /\ next' = [next EXCEPT ![u] = @ + 1]
    /\ UNCHANGED <<serverVars, managerVars, dstate, dmgr, got, ustate, umgr,
                   target, orphaned, clientVars, size, faults>>

\* Mutant: the loop leaves one chunk too early.
DropSenderEarly(u) ==
    /\ ustate[u] = "feeding"
    /\ \/ next[u] >= size
       \/ dstate[target[u]] \notin HasReceiver
    /\ ustate' = [ustate EXCEPT ![u] = "closing"]
    /\ UNCHANGED <<serverVars, managerVars, downloadVars, umgr, target, next,
                   orphaned, clientVars, size, faults>>

\* Mutant: a failed send() does not break the loop.
DropSenderAtEnd(u) ==
    /\ ustate[u] = "feeding" /\ next[u] > size
    /\ ustate' = [ustate EXCEPT ![u] = "closing"]
    /\ UNCHANGED <<serverVars, managerVars, downloadVars, umgr, target, next,
                   orphaned, clientVars, size, faults>>

\* The body is over, or send() found the receiver gone and the loop breaks:
\* either way the sender is dropped and the answer will be 200.
DropSender(u) ==
    /\ ustate[u] = "feeding"
    /\ \/ next[u] > size
       \/ dstate[target[u]] \notin HasReceiver
    /\ ustate' = [ustate EXCEPT ![u] = "closing"]
    /\ UNCHANGED <<serverVars, managerVars, downloadVars, umgr, target, next,
                   orphaned, clientVars, size, faults>>

\* The body fails, because the client is gone: the sender is dropped and the
\* answer will be an error.
BodyError(u) ==
    /\ ustate[u] = "feeding" /\ u \in orphaned
    /\ ustate' = [ustate EXCEPT ![u] = "failing"]
    /\ UNCHANGED <<serverVars, managerVars, downloadVars, umgr, target, next,
                   orphaned, clientVars, size, faults>>

\* The connection is found closed while the handler waits elsewhere: it is
\* dropped with its clone, and nothing is cleaned up.
HandlerDropped(u) ==
    /\ ustate[u] \in Active /\ u \in orphaned
    /\ ustate' = [ustate EXCEPT ![u] = "lost"]
    /\ UNCHANGED <<serverVars, managerVars, downloadVars, umgr, target, next,
                   orphaned, clientVars, size, faults>>

\* finish_upload removes whichever sender is stored for the file by now.
FinishUpload(u) ==
    /\ ustate[u] \in {"closing", "failing"}
    /\ upload_senders' = [upload_senders EXCEPT ![umgr[u]] = None]
    /\ ustate' = [ustate EXCEPT ![u] = IF @ = "closing" THEN "ok" ELSE "failed"]
    /\ UNCHANGED <<serverVars, connections, downloadVars, umgr, target, next,
                   orphaned, clientVars, size, faults>>

-----------------------------------------------------------------------------
(* Restarts of the server and failures of the network and the client.      *)

\* The reload signal: the listener closes, requests in flight go on.
Reload ==
    /\ serving /\ current < MaxRestarts
    /\ serving' = FALSE
    /\ UNCHANGED <<current, managerVars, downloadVars, uploadVars, clientVars,
                   size, faults>>

\* run_server: a new listener, and a new manager that knows no file.
RunServer ==
    /\ ~serving
    /\ serving' = TRUE
    /\ current' = current + 1
    /\ UNCHANGED <<managerVars, downloadVars, uploadVars, clientVars, size, faults>>

\* The process dies with every handler of every incarnation in it.
Crash ==
    /\ serving /\ current < MaxRestarts
    /\ serving' = FALSE
    /\ connections' = {}
    /\ upload_senders' = [m \in Managers |-> None]
    /\ dstate' = [d \in Downloads |->
                    IF dstate[d] \in {"looked"} \cup HasReceiver
                      THEN "reset" ELSE dstate[d]]
    /\ chan' = [d \in Downloads |-> <<>>]
    /\ ustate' = [u \in Uploads |->
                    IF ustate[u] \in Active THEN "lost" ELSE ustate[u]]
    /\ cpc' = CASE cpc \in Polling -> "sleep"
                [] cpc = "uploading" -> "poll"
                [] OTHER -> cpc
    /\ cmgr' = None
    /\ task' = IF cpc = "upload" THEN task ELSE None
    /\ UNCHANGED <<current, dmgr, got, umgr, target, next, orphaned,
                   size, faults>>

\* The poll, or its answer, is lost: the client backs off.
LosePoll ==
    /\ Fault
    /\ cpc \in Polling
    /\ cpc' = "sleep" /\ cmgr' = None /\ task' = None
    /\ UNCHANGED <<serverVars, managerVars, downloadVars, uploadVars, size>>

\* A failed re-announcement: the request or only its answer is lost.
LoseReannounce ==
    /\ Fault
    /\ cpc = "reannounce"
    /\ cpc' = "sleep" /\ cmgr' = None
    /\ \/ UNCHANGED connections
       \/ \E m \in Managers : Reaches(m) /\ connections' = connections \cup {m}
    /\ UNCHANGED <<serverVars, upload_senders, downloadVars, uploadVars, task,
                   size>>

\* stream_upload fails: opening the file, sending the request, or half way,
\* in which case the server's handler is still to notice.
LoseUpload ==
    /\ Fault
    /\ cpc \in {"upload", "uploading"}
    /\ orphaned' = IF cpc = "uploading" THEN orphaned \cup {task} ELSE orphaned
    /\ cpc' = "poll" /\ cmgr' = None /\ task' = None
    /\ UNCHANGED <<serverVars, managerVars, downloadVars, ustate, umgr, target,
                   next, size>>

\* The command is interrupted.
ClientDies ==
    /\ Fault
    /\ cpc # "exited"
    /\ orphaned' = IF cpc = "uploading" THEN orphaned \cup {task} ELSE orphaned
    /\ cpc' = "exited" /\ cmgr' = None /\ task' = None
    /\ UNCHANGED <<serverVars, managerVars, downloadVars, ustate, umgr, target,
                   next, size>>

\* Somebody writes to the client's file, once; the server keeps announcing
\* the length it was told.
ResizeFile ==
    /\ Fault
    /\ size = FileLen /\ size' \in Sizes \ {FileLen}
    /\ UNCHANGED <<serverVars, managerVars, downloadVars, uploadVars, clientVars>>

-----------------------------------------------------------------------------
ClientNext ==
    \/ Announce \/ AnnounceFails
    \/ PollLookup \/ PollRefused \/ PollWait \/ PollTimeout \/ PollUpload
    \/ StreamUpload \/ StreamUploadRefused \/ StreamUploadReturns
    \/ Reannounce \/ WakeUp

DownloadNext(d) ==
    \/ DownloadLookup(d) \/ InsertSender(d) \/ NotifyUploadRequested(d)
    \/ Receive(d) \/ ChannelCloses(d) \/ DownloadAborts(d)

UploadNext(u) ==
    \/ GetUploadSender(u) \/ Forward(u) \/ DropSender(u) \/ BodyError(u)
    \/ HandlerDropped(u) \/ FinishUpload(u)

ServerNext == Reload \/ RunServer \/ Crash

FaultNext == LosePoll \/ LoseReannounce \/ LoseUpload \/ ClientDies \/ ResizeFile

Next ==
    \/ ClientNext
    \/ \E d \in Downloads : DownloadNext(d)
    \/ \E u \in Uploads : UploadNext(u)
    \/ ServerNext
    \/ FaultNext

Spec == Init /\ [][Next]_vars

\* Handlers are scheduled, timers fire, the server comes back, and the TCP
\* connection of a download delivers or breaks.  Nobody has to start a
\* download, restart the server or fail.
Fairness ==
    /\ WF_vars(ClientNext)
    /\ \A d \in Downloads :
         /\ WF_vars(InsertSender(d))
         /\ WF_vars(NotifyUploadRequested(d))
         /\ WF_vars(Receive(d) \/ (DownloadAborts(d) /\ chan[d] # <<>>))
         /\ WF_vars(ChannelCloses(d))
    /\ \A u \in Uploads :
         WF_vars(GetUploadSender(u) \/ Forward(u) \/ DropSender(u) \/ FinishUpload(u))
    /\ WF_vars(RunServer)

FairSpec == Spec /\ Fairness

-----------------------------------------------------------------------------
(* Safety.                                                                 *)

TypeOK ==
    /\ current \in Managers
    /\ serving \in BOOLEAN
    /\ ~serving => current < MaxRestarts
    /\ connections \subseteq Managers
    /\ upload_senders \in [Managers -> Downloads \cup {None}]
    /\ dstate \in [Downloads -> DStates]
    /\ dmgr \in [Downloads -> Managers \cup {None}]
    /\ chan \in [Downloads -> Seq(Nat \ {0})]
    /\ \A d \in Downloads : Len(chan[d]) <= Cap
    /\ got \in [Downloads -> Seq(Nat \ {0})]
    /\ ustate \in [Uploads -> UStates]
    /\ umgr \in [Uploads -> Managers \cup {None}]
    /\ target \in [Uploads -> Downloads \cup {None}]
    /\ \A u \in Uploads : ustate[u] \in Fed => target[u] # None
    /\ \A u \in Uploads : ustate[u] \in Active => umgr[u] # None
    /\ next \in [Uploads -> Nat \ {0}]
    /\ orphaned \subseteq Uploads
    /\ cpc \in CStates
    /\ cmgr \in Managers \cup {None}
    /\ task \in Uploads \cup {None}
    /\ cpc \in {"woken", "upload", "uploading"} => task # None
    /\ size \in Sizes
    /\ faults \in 0..MaxFaults

\* The downloader holds a prefix of the file: no chunk missing, repeated or
\* from another upload's position, also when the file has become shorter or
\* longer than announced.  tunnel_upload_handler pipes whatever sender the map
\* holds, so this rests on uploads never sharing a sender.
DeliveredInOrder == \A d \in Downloads :
    \A i \in 1..Len(got[d]) : got[d][i] = i

\* DeliveredInOrder as long as no upload lost its client half way.
IntactUnlessOrphaned == orphaned = {} => DeliveredInOrder

\* An upload answered 200 left nothing undone for a downloader that is still
\* there: the rest of what was announced is in the channel, unless the file
\* has become shorter.
AckedMeansDelivered == orphaned = {} /\ size >= FileLen =>
    \A u \in Uploads :
        ustate[u] = "ok" /\ dstate[target[u]] \in HasReceiver
            => Len(got[target[u]]) + Len(chan[target[u]]) >= FileLen

\* Requests racing for one file cut a download short at its very start or
\* not at all: once bytes flow, neither a later download that replaces the
\* stored sender nor the cleanup of another upload takes the channel away.
\* Only a file that has become shorter does.
NoPartialBody == orphaned = {} /\ size >= FileLen =>
    \A d \in Downloads : dstate[d] = "truncated" => got[d] = <<>>

-----------------------------------------------------------------------------
(* The tunnel as its downloaders see it.                                   *)

PhaseOf == [idle      |-> "idle",  notfound  |-> "refused", looked   |-> "open",
            inserted  |-> "open",  streaming |-> "open",    complete |-> "whole",
            truncated |-> "short", aborted   |-> "gone",    reset    |-> "gone"]

Phase(d) == PhaseOf[dstate[d]]

Transfer == INSTANCE FileTransfer
              WITH phase <- [d \in Downloads |-> Phase(d)], body <- got

\* With no failure but restarts, poll, notification, upload and channel
\* together are a FileTransfer.
ImplementsFileTransfer == Transfer!Spec

\* No upload has lost its client, and the file is not shorter than announced.
Unharmed == orphaned = {} /\ size >= FileLen

\* Lost polls and announcements, a client that dies between uploads and a
\* file that grows do no harm either: until an upload is broken off or the
\* file shortened, whatever a downloader sees is a step of a file transfer.
TransferUntilHarmed == [][Unharmed => Transfer!Next]_(Transfer!transferVars)

-----------------------------------------------------------------------------
(* The inductive invariant behind the safety properties.                   *)

Unsent == {"idle", "looked", "notfound"}

\* Which download belongs to which manager and upload.
Structure ==
    /\ \A m \in Managers : upload_senders[m] # None =>
         dmgr[upload_senders[m]] = m /\ dstate[upload_senders[m]] \notin Unsent
    /\ \A u \in Uploads : ustate[u] \in Fed =>
         umgr[u] = dmgr[target[u]] /\ dstate[target[u]] \notin Unsent
    /\ \A d \in Downloads : dstate[d] \in Unsent => got[d] = <<>>
    /\ \A d \in Downloads : dstate[d] \notin HasReceiver => chan[d] = <<>>
    /\ \A u \in Uploads : ustate[u] # "none" =>
         dstate[u] \notin Unsent \cup {"inserted"}
    /\ cpc \in {"woken", "upload"} =>
         ustate[task] = "none" /\ dstate[task] \notin Unsent \cup {"inserted"}
    /\ \A u \in Uploads : ustate[u] \in {"none", "arrived"} => next[u] = 1

\* While no upload has lost its client, the uploads run one at a time.
OneUpload ==
    /\ \A u \in Uploads : ustate[u] \in Active => cpc = "uploading" /\ task = u
    /\ \A u \in Uploads : ustate[u] \notin {"failing", "failed"}

\* No two uploads feed one download.
OneFeeder ==
    /\ \A u \in Uploads : ustate[u] = "ok" =>
         \A m \in Managers : upload_senders[m] # target[u]
    /\ \A u, v \in Uploads :
         ustate[u] \in Fed /\ ustate[v] \in Fed /\ u # v => target[u] # target[v]

Piped(d) == Len(got[d]) + Len(chan[d])

\* How much of the file has entered each channel.
BodyOpen == \A d \in Downloads : dstate[d] \in HasReceiver => Len(got[d]) < FileLen

FeedPosition == \A u \in Uploads, d \in Downloads :
    ustate[u] \in Fed /\ target[u] = d /\ dstate[d] \in HasReceiver =>
        IF ustate[u] = "feeding" THEN next[u] = Piped(d) + 1
                                 ELSE size >= FileLen => Piped(d) >= FileLen

IsFed(d) == \E u \in Uploads : ustate[u] \in Fed /\ target[u] = d

UnfedEmpty == \A d \in Downloads :
    dstate[d] \in HasReceiver /\ ~IsFed(d) => got[d] = <<>> /\ chan[d] = <<>>

CutShortEmpty == size >= FileLen =>
    \A d \in Downloads : dstate[d] = "truncated" => got[d] = <<>>

Progress == BodyOpen /\ FeedPosition /\ UnfedEmpty /\ CutShortEmpty

\* The channel goes on where the body stands.
Consecutive == \A d \in Downloads :
    /\ \A i \in 1..Len(got[d]) : got[d][i] = i
    /\ \A i \in 1..Len(chan[d]) : chan[d][i] = Len(got[d]) + i

Pipeline == OneUpload /\ OneFeeder /\ Progress /\ Consecutive

Inductive == TypeOK /\ Structure /\ (orphaned = {} => Pipeline)

-----------------------------------------------------------------------------
(* Liveness.                                                               *)

\* A download keeps its reader waiting for ever only if its sender sits in
\* the map unclaimed: replaced, removed or fed, it ends.
OnlyUnclaimedHang == \A d \in Downloads :
    (dstate[d] = "streaming" /\ \A m \in Managers : upload_senders[m] # d)
        ~> dstate[d] \in Ended

\* A download whose notification a poll heard does not wait for ever: it comes
\* to an end, in full or replaced by another download, although the answer,
\* the upload and the bytes are three requests that nothing ties to it, and
\* other downloads and cleanups come between them.  Only another failure, or a
\* restart that sends the upload to another manager, prevents it.
HeardIsServed == \A d \in Downloads, n \in 0..MaxFaults :
    (cpc = "woken" /\ task = d /\ faults = n)
        ~> \/ dstate[d] \in Ended
           \/ faults > n
           \/ ~Https /\ (dmgr[d] # current \/ ~serving)

\* The client always comes back to waiting for downloads.
ClientKeepsPolling == []<>(cpc \in {"waiting", "exited"})

\* "Automatically re-announces tunnel if server forgets about it (e.g., after
\* restart)": a manager that serves gets to know the file.
ReannouncedAfterRestart == \A m \in Managers :
    (serving /\ current = m)
        ~> (m \in connections \/ current # m \/ ~serving \/ cpc = "exited")

\* "The file is streamed through your server in real-time when someone
\* downloads it": a download that waits for bytes is served to its end.
DownloadServed == \A d \in Downloads :
    dstate[d] = "streaming" ~> dstate[d] \in Ended
=============================================================================
