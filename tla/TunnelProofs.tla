---------------------------- MODULE TunnelProofs ----------------------------
(***************************************************************************)
(* Theorems about Tunnel, for every set of downloads, file length, channel *)
(* capacity and bound.                                                     *)
(***************************************************************************)
EXTENDS Tunnel, TLAPS, SequenceTheorems

USE DEF Managers, Uploads, DStates, UStates, CStates, HasReceiver, Ended, Active, Fed, Polling

-----------------------------------------------------------------------------
(* Type correctness.                                                       *)

\* The tunnel begins with typed values.
LEMMA InitTypeOK == Init => TypeOK
  BY NoneAssumption, FileLenAssumption, SizesAssumption, CapAssumption,
     RestartsAssumption, FaultsAssumption
     DEF Init, TypeOK

\* Every step of the client keeps the types.
LEMMA ClientTypeOK == TypeOK /\ ClientNext => TypeOK'
<1> SUFFICES ASSUME TypeOK, ClientNext PROVE TypeOK'
  OBVIOUS
<1>1. CASE Announce
  BY <1>1 DEF TypeOK, Announce, serverVars, downloadVars, uploadVars
<1>2. CASE AnnounceFails
  BY <1>2 DEF TypeOK, AnnounceFails, serverVars, managerVars, downloadVars, uploadVars
<1>3. CASE PollLookup
  BY <1>3 DEF TypeOK, PollLookup, serverVars, managerVars, downloadVars, uploadVars
<1>4. CASE PollRefused \/ PollWait \/ PollTimeout \/ PollUpload \/ WakeUp
  BY <1>4 DEF TypeOK, PollRefused, PollWait, PollTimeout, PollUpload, WakeUp,
              serverVars, managerVars, downloadVars, uploadVars
<1>5. CASE StreamUpload
  <2>1. PICK m \in Managers : umgr' = [umgr EXCEPT ![task] = m] /\ cmgr' = m
    BY <1>5 DEF StreamUpload
  <2>2. task \in Uploads /\ cpc' = "uploading" /\ ustate' = [ustate EXCEPT ![task] = "arrived"]
    BY <1>5, NoneAssumption DEF TypeOK, StreamUpload
  <2>3. /\ UNCHANGED <<current, serving, connections, upload_senders, dstate, dmgr, chan, got>>
        /\ UNCHANGED <<target, next, orphaned, task, size, faults>>
    BY <1>5 DEF StreamUpload, serverVars, managerVars, downloadVars
  <2>4. /\ umgr' \in [Uploads -> Managers \cup {None}] /\ ustate' \in [Uploads -> UStates]
        /\ \A u \in Uploads : ustate'[u] \in Fed => target'[u] # None
        /\ \A u \in Uploads : ustate'[u] \in Active => umgr'[u] # None
    BY <2>1, <2>2, <2>3, NoneAssumption DEF TypeOK
  <2>5. cmgr' \in Managers \cup {None} /\ cpc' \in CStates /\ task' # None
    BY <2>1, <2>2, <2>3, NoneAssumption
  <2> QED
    BY <2>2, <2>3, <2>4, <2>5 DEF TypeOK
<1>6. CASE StreamUploadRefused \/ StreamUploadReturns
  <2>1. cpc' = "poll" /\ task' = None /\ cmgr' = cmgr /\ size' = size /\ faults' = faults
    BY <1>6 DEF StreamUploadRefused, StreamUploadReturns
  <2>2. /\ UNCHANGED <<current, serving, connections, upload_senders, dstate, dmgr, chan, got>>
        /\ UNCHANGED <<ustate, umgr, target, next, orphaned>>
    BY <1>6 DEF StreamUploadRefused, StreamUploadReturns, serverVars, managerVars,
                downloadVars, uploadVars
  <2>3. cpc' \in CStates /\ ~(cpc' \in {"woken", "upload", "uploading"})
        /\ task' \in Uploads \cup {None}
    BY <2>1
  <2> QED
    BY <2>1, <2>2, <2>3 DEF TypeOK
<1>7. CASE Reannounce
  BY <1>7 DEF TypeOK, Reannounce, serverVars, downloadVars, uploadVars
<1> QED
  BY <1>1, <1>2, <1>3, <1>4, <1>5, <1>6, <1>7 DEF ClientNext

\* Every step of a download keeps the types.
LEMMA DownloadTypeOK ==
  ASSUME TypeOK, NEW d \in Downloads, DownloadNext(d)
  PROVE  TypeOK'
<1>1. CASE DownloadLookup(d)
  BY <1>1 DEF TypeOK, DownloadLookup, serverVars, managerVars, uploadVars, clientVars
<1>2. CASE InsertSender(d)
  BY <1>2 DEF TypeOK, InsertSender, serverVars, uploadVars, clientVars
<1>3. CASE NotifyUploadRequested(d)
  BY <1>3, NoneAssumption
     DEF TypeOK, NotifyUploadRequested, serverVars, managerVars, uploadVars
<1>4. CASE Receive(d)
  <2>1. /\ got \in [Downloads -> Seq(Nat \ {0})]
        /\ chan \in [Downloads -> Seq(Nat \ {0})]
        /\ \A e \in Downloads : Len(chan[e]) <= Cap
        /\ chan[d] # <<>>
    BY <1>4 DEF TypeOK, Receive
  <2>2. /\ Head(chan[d]) \in Nat \ {0}
        /\ Tail(chan[d]) \in Seq(Nat \ {0})
        /\ Len(Tail(chan[d])) <= Cap
    <3>1. chan[d] \in Seq(Nat \ {0}) /\ chan[d] # <<>> /\ Len(chan[d]) <= Cap
      BY <2>1
    <3>2. /\ Head(chan[d]) \in Nat \ {0}
          /\ Tail(chan[d]) \in Seq(Nat \ {0})
          /\ Len(Tail(chan[d])) = Len(chan[d]) - 1
      BY <3>1, HeadTailProperties
    <3>3. Len(chan[d]) \in Nat
      BY <3>1, LenProperties
    <3> QED
      BY <3>1, <3>2, <3>3, CapAssumption
  <2>3. Append(got[d], Head(chan[d])) \in Seq(Nat \ {0})
    BY <2>1, <2>2
  <2>4. \E c \in {<<>>, Tail(chan[d])} : chan' = [chan EXCEPT ![d] = c]
    BY <1>4 DEF Receive
  <2>5. got' \in [Downloads -> Seq(Nat \ {0})]
    BY <1>4, <2>1, <2>3 DEF Receive
  <2>6. /\ chan' \in [Downloads -> Seq(Nat \ {0})]
        /\ \A e \in Downloads : Len(chan'[e]) <= Cap
    <3>1. <<>> \in Seq(Nat \ {0}) /\ Len(<<>>) <= Cap
      BY CapAssumption, EmptySeq
    <3> QED
      BY <2>1, <2>2, <2>4, <3>1
  <2>7. dstate' \in [Downloads -> DStates]
    BY <1>4 DEF Receive, TypeOK
  <2>8. UNCHANGED <<serverVars, managerVars, dmgr, uploadVars, clientVars, size, faults>>
    BY <1>4 DEF Receive
  <2> QED
    BY <2>5, <2>6, <2>7, <2>8 DEF TypeOK, serverVars, managerVars, uploadVars, clientVars
<1>5. CASE ChannelCloses(d)
  BY <1>5 DEF TypeOK, ChannelCloses, serverVars, managerVars, uploadVars, clientVars
<1>6. CASE DownloadAborts(d)
  BY <1>6, CapAssumption DEF TypeOK, DownloadAborts, serverVars, managerVars, uploadVars, clientVars
<1> QED
  BY <1>1, <1>2, <1>3, <1>4, <1>5, <1>6 DEF DownloadNext

\* Every step of an upload keeps the types.
LEMMA UploadTypeOK ==
  ASSUME TypeOK, NEW u \in Uploads, UploadNext(u)
  PROVE  TypeOK'
<1>1. CASE GetUploadSender(u)
  BY <1>1, ZenonT(60) DEF TypeOK, GetUploadSender, serverVars, managerVars, downloadVars,
         clientVars
<1>2. CASE Forward(u)
  <2>1. target[u] \in Downloads /\ next[u] \in Nat \ {0} /\ chan[target[u]] \in Seq(Nat \ {0})
    BY <1>2 DEF TypeOK, Forward
  <2>2. /\ Append(chan[target[u]], next[u]) \in Seq(Nat \ {0})
        /\ Len(Append(chan[target[u]], next[u])) <= Cap
    BY <1>2, <2>1, CapAssumption DEF Forward
  <2>3. /\ chan' \in [Downloads -> Seq(Nat \ {0})]
        /\ \A d \in Downloads : Len(chan'[d]) <= Cap
        /\ next' \in [Uploads -> Nat \ {0}]
    BY <1>2, <2>1, <2>2, FileLenAssumption DEF Forward, TypeOK
  <2> QED
    BY <1>2, <2>3 DEF TypeOK, Forward, serverVars, managerVars, clientVars
<1>3. CASE DropSender(u) \/ BodyError(u)
  BY <1>3, ZenonT(60) DEF TypeOK, DropSender, BodyError, serverVars, managerVars, downloadVars, clientVars
<1>4. CASE HandlerDropped(u)
  BY <1>4 DEF TypeOK, HandlerDropped, UStates, Active, serverVars, managerVars, downloadVars,
              clientVars
<1>5. CASE FinishUpload(u)
  BY <1>5 DEF TypeOK, FinishUpload, serverVars, downloadVars, clientVars
<1> QED
  BY <1>1, <1>2, <1>3, <1>4, <1>5 DEF UploadNext

\* Failures are counted within their bound.
LEMMA FaultTypeOK == TypeOK /\ Fault => faults' \in 0..MaxFaults
  BY FaultsAssumption DEF TypeOK, Fault

\* Restarts and failures keep the types.
LEMMA EnvironmentTypeOK == TypeOK /\ (ServerNext \/ FaultNext) => TypeOK'
<1> SUFFICES ASSUME TypeOK, ServerNext \/ FaultNext PROVE TypeOK'
  OBVIOUS
<1>0. Fault => faults' \in 0..MaxFaults
  BY FaultTypeOK
<1>1. CASE Reload
  BY <1>1 DEF TypeOK, Reload, managerVars, downloadVars, uploadVars, clientVars
<1>2. CASE RunServer
  BY <1>2, RestartsAssumption
     DEF TypeOK, RunServer, managerVars, downloadVars, uploadVars, clientVars
<1>3. CASE Crash
  <2>1. /\ chan' \in [Downloads -> Seq(Nat \ {0})]
        /\ \A d \in Downloads : Len(chan'[d]) <= Cap
    BY <1>3, CapAssumption DEF Crash
  <2>2. /\ dstate' \in [Downloads -> DStates]
        /\ upload_senders' \in [Managers -> Downloads \cup {None}]
    BY <1>3 DEF Crash, TypeOK
  <2>3. /\ ustate' \in [Uploads -> UStates]
        /\ \A u \in Uploads : ustate'[u] \in Fed => target'[u] # None
        /\ \A u \in Uploads : ustate'[u] \in Active => umgr'[u] # None
    BY <1>3 DEF Crash, TypeOK
  <2>4. /\ cpc' \in CStates /\ cmgr' \in Managers \cup {None}
        /\ task' \in Uploads \cup {None}
        /\ cpc' \in {"woken", "upload", "uploading"} => task' # None
    BY <1>3 DEF Crash, TypeOK
  <2> QED
    BY <1>3, <2>1, <2>2, <2>3, <2>4 DEF TypeOK, Crash
<1>4. CASE LosePoll
  BY <1>4, <1>0
     DEF TypeOK, LosePoll, serverVars, managerVars, downloadVars, uploadVars
<1>5. CASE LoseReannounce
  <2>1. connections' \subseteq Managers
    BY <1>5 DEF LoseReannounce, TypeOK
  <2> QED
    BY <1>5, <2>1, <1>0
       DEF TypeOK, LoseReannounce, serverVars, downloadVars, uploadVars
<1>6. CASE LoseUpload \/ ClientDies
  <2>1. orphaned' \subseteq Uploads
    BY <1>6 DEF LoseUpload, ClientDies, TypeOK
  <2> QED
    BY <1>6, <2>1, <1>0
       DEF TypeOK, LoseUpload, ClientDies, serverVars, managerVars, downloadVars
<1>7. CASE ResizeFile
  BY <1>7, <1>0
     DEF TypeOK, ResizeFile, serverVars, managerVars, downloadVars, uploadVars, clientVars
<1> QED
  BY <1>1, <1>2, <1>3, <1>4, <1>5, <1>6, <1>7 DEF ServerNext, FaultNext

\* Every step keeps the types.
LEMMA NextTypeOK == TypeOK /\ [Next]_vars => TypeOK'
<1> SUFFICES ASSUME TypeOK, [Next]_vars PROVE TypeOK'
  OBVIOUS
<1>1. CASE UNCHANGED vars
  BY <1>1 DEF TypeOK, vars, serverVars, managerVars, downloadVars, uploadVars, clientVars
<1> QED
  BY <1>1, ClientTypeOK, DownloadTypeOK, UploadTypeOK, EnvironmentTypeOK DEF Next

\* The values of every variable stay in their types, and no handler acts on a
\* manager, a download or an upload it does not have.
THEOREM TypeCorrect == Spec => []TypeOK
  BY InitTypeOK, NextTypeOK, PTL DEF Spec

-----------------------------------------------------------------------------
(* The inductive invariant.                                                *)

\* A tunnel without requests satisfies the invariant.
LEMMA InitInductive == Init => Inductive
<1> SUFFICES ASSUME Init PROVE Inductive
  OBVIOUS
<1>1. TypeOK
  BY InitTypeOK
<1>2. Structure
  BY NoneAssumption DEF Init, Structure, Unsent
<1>3. OneUpload /\ OneFeeder
  BY DEF Init, OneUpload, OneFeeder
<1>4. Progress /\ Consecutive
  BY FileLenAssumption DEF Init, Progress, BodyOpen, FeedPosition, UnfedEmpty, CutShortEmpty, Consecutive
<1> QED
  BY <1>1, <1>2, <1>3, <1>4 DEF Inductive, Pipeline

\* Steps of the client keep Structure: only StreamUpload and the steps that
\* make the client work on an upload concern it.
LEMMA ClientStructure == TypeOK /\ Structure /\ ClientNext => Structure'
<1> SUFFICES ASSUME TypeOK, Structure, ClientNext PROVE Structure'
  OBVIOUS
<1> USE DEF Structure, Unsent
<1>1. CASE Announce \/ AnnounceFails \/ PollLookup \/ PollRefused \/ PollWait
        \/ PollTimeout \/ StreamUploadRefused \/ StreamUploadReturns
        \/ Reannounce \/ WakeUp
  <2>1. /\ cpc' \notin {"woken", "upload"}
        /\ UNCHANGED <<upload_senders, downloadVars, uploadVars>>
    BY <1>1 DEF Announce, AnnounceFails, PollLookup, PollRefused, PollWait,
       PollTimeout, StreamUploadRefused, StreamUploadReturns, Reannounce,
       WakeUp, managerVars
  <2> QED
    BY <2>1 DEF downloadVars, uploadVars
<1>2. CASE PollUpload
  BY <1>2 DEF PollUpload, managerVars, downloadVars, uploadVars
<1>3. CASE StreamUpload
  <2>1. task \in Uploads /\ ustate[task] = "none" /\ next[task] = 1
    BY <1>3 DEF StreamUpload, TypeOK
  <2> QED
    BY <1>3, <2>1 DEF StreamUpload, TypeOK, managerVars, downloadVars
<1> QED
  BY <1>1, <1>2, <1>3 DEF ClientNext

\* Steps of a download keep Structure.
LEMMA DownloadStructure ==
  ASSUME TypeOK, Structure, NEW d \in Downloads, DownloadNext(d)
  PROVE  Structure'
<1> USE DEF Structure, Unsent
<1>1. CASE DownloadLookup(d)
  BY <1>1, NoneAssumption DEF DownloadLookup, TypeOK, managerVars, uploadVars, clientVars
<1>2. CASE InsertSender(d)
  BY <1>2, NoneAssumption DEF InsertSender, TypeOK, uploadVars, clientVars
<1>3. CASE NotifyUploadRequested(d)
  BY <1>3 DEF NotifyUploadRequested, TypeOK, managerVars, uploadVars
<1>4. CASE Receive(d)
  <2>1. /\ dstate[d] = "streaming"
        /\ \E p \in {"streaming", "complete"} : dstate' = [dstate EXCEPT ![d] = p]
        /\ chan'[d] = <<>> \/ dstate'[d] = "streaming"
        /\ \A e \in Downloads : e # d => got'[e] = got[e] /\ chan'[e] = chan[e]
    BY <1>4 DEF Receive, TypeOK
  <2>2. UNCHANGED <<managerVars, dmgr, uploadVars, clientVars>>
    BY <1>4 DEF Receive
  <2> QED
    BY <2>1, <2>2 DEF TypeOK, managerVars, uploadVars, clientVars
<1>5. CASE ChannelCloses(d)
  BY <1>5 DEF ChannelCloses, TypeOK, managerVars, uploadVars, clientVars
<1>6. CASE DownloadAborts(d)
  BY <1>6 DEF DownloadAborts, TypeOK, managerVars, uploadVars, clientVars
<1> QED
  BY <1>1, <1>2, <1>3, <1>4, <1>5, <1>6 DEF DownloadNext

\* Steps of an upload keep Structure.
LEMMA UploadStructure ==
  ASSUME TypeOK, Structure, NEW u \in Uploads, UploadNext(u)
  PROVE  Structure'
<1> USE DEF Structure, Unsent
<1>1. CASE GetUploadSender(u)
  <2>0. umgr[u] \in Managers /\ UNCHANGED <<managerVars, downloadVars, umgr, next, clientVars>>
    BY <1>1 DEF GetUploadSender, TypeOK
  <2>1. CASE upload_senders[umgr[u]] = None
    <3>1. /\ ustate[u] = "arrived"
          /\ ustate' = [ustate EXCEPT ![u] = "refused"] /\ target' = target
      BY <1>1, <2>1 DEF GetUploadSender
    <3> QED
      BY <2>0, <3>1 DEF TypeOK, managerVars, downloadVars, clientVars
  <2>2. CASE upload_senders[umgr[u]] # None
    <3>1. /\ ustate[u] = "arrived"
          /\ ustate' = [ustate EXCEPT ![u] = "feeding"]
          /\ target' = [target EXCEPT ![u] = upload_senders[umgr[u]]]
      BY <1>1, <2>2 DEF GetUploadSender
    <3> QED
      BY <2>0, <2>2, <3>1 DEF TypeOK, managerVars, downloadVars, clientVars
  <2> QED
    BY <2>1, <2>2
<1>2. CASE Forward(u)
  BY <1>2, SMTT(30) DEF Forward, TypeOK, managerVars, clientVars
<1>3. CASE DropSender(u) \/ BodyError(u)
  <2>1. /\ ustate[u] = "feeding"
        /\ \E p \in {"closing", "failing"} : ustate' = [ustate EXCEPT ![u] = p]
        /\ UNCHANGED <<managerVars, downloadVars, umgr, target, next, clientVars>>
    BY <1>3 DEF DropSender, BodyError
  <2> QED
    BY <2>1 DEF TypeOK, managerVars, downloadVars, clientVars
<1>4. CASE HandlerDropped(u)
  BY <1>4 DEF HandlerDropped, TypeOK, Active, Fed, managerVars, downloadVars, clientVars
<1>5. CASE FinishUpload(u)
  BY <1>5 DEF FinishUpload, TypeOK, downloadVars, clientVars
<1> QED
  BY <1>1, <1>2, <1>3, <1>4, <1>5 DEF UploadNext

\* Restarts and failures keep Structure.
LEMMA EnvironmentStructure ==
  TypeOK /\ Structure /\ (ServerNext \/ FaultNext) => Structure'
<1> SUFFICES ASSUME TypeOK, Structure, ServerNext \/ FaultNext PROVE Structure'
  OBVIOUS
<1> USE DEF Structure, Unsent
<1>1. CASE Reload \/ RunServer
  BY <1>1 DEF Reload, RunServer, managerVars, downloadVars, uploadVars, clientVars
<1>2. CASE Crash
  BY <1>2 DEF Crash, TypeOK
<1>3. CASE LosePoll \/ LoseReannounce \/ LoseUpload \/ ClientDies
  <2>1. /\ cpc' \notin {"woken", "upload"}
        /\ UNCHANGED <<upload_senders, downloadVars, ustate, umgr, target, next>>
    BY <1>3 DEF LosePoll, LoseReannounce, LoseUpload, ClientDies, managerVars, uploadVars
  <2> QED
    BY <2>1 DEF downloadVars
<1>4. CASE ResizeFile
  BY <1>4 DEF ResizeFile, managerVars, downloadVars, uploadVars, clientVars
<1> QED
  BY <1>1, <1>2, <1>3, <1>4 DEF ServerNext, FaultNext

\* Every step keeps who belongs to whom.
LEMMA NextStructure == TypeOK /\ Structure /\ [Next]_vars => Structure'
<1> SUFFICES ASSUME TypeOK, Structure, [Next]_vars PROVE Structure'
  OBVIOUS
<1>1. CASE UNCHANGED vars
  BY <1>1 DEF Structure, vars, managerVars, downloadVars, uploadVars, clientVars
<1> QED
  BY <1>1, ClientStructure, DownloadStructure, UploadStructure,
     EnvironmentStructure DEF Next

-----------------------------------------------------------------------------
(* The pipeline, as long as no upload is orphaned.                         *)

\* Orphans stay orphans.
LEMMA OrphansStay == [Next]_vars /\ orphaned' = {} => orphaned = {}
  BY DEF Next, vars, ClientNext, DownloadNext, UploadNext, ServerNext, FaultNext,
     uploadVars, Announce, AnnounceFails, PollLookup, PollRefused, PollWait,
     PollTimeout, PollUpload, StreamUpload, StreamUploadRefused,
     StreamUploadReturns, Reannounce, WakeUp, DownloadLookup, InsertSender,
     NotifyUploadRequested, Receive, ChannelCloses, DownloadAborts,
     GetUploadSender, Forward, DropSender, BodyError, HandlerDropped, FinishUpload, Reload,
     RunServer, Crash, LosePoll, LoseReannounce, LoseUpload, ClientDies, ResizeFile

\* A file that is as long as announced always was.
LEMMA LongBefore ==
  ASSUME TypeOK, [Next]_vars
  PROVE  size' >= FileLen => size >= FileLen
<1>1. size \in Nat /\ FileLen \in Nat
  BY FileLenAssumption, SizesAssumption DEF TypeOK
<1>2. size' = size \/ size = FileLen
  BY DEF Next, vars, ClientNext, DownloadNext, UploadNext, ServerNext, FaultNext,
     Announce, AnnounceFails, PollLookup, PollRefused, PollWait,
     PollTimeout, PollUpload, StreamUpload, StreamUploadRefused,
     StreamUploadReturns, Reannounce, WakeUp, DownloadLookup, InsertSender,
     NotifyUploadRequested, Receive, ChannelCloses, DownloadAborts,
     GetUploadSender, Forward, DropSender, BodyError, HandlerDropped, FinishUpload, Reload,
     RunServer, Crash, LosePoll, LoseReannounce, LoseUpload, ClientDies, ResizeFile
<1> QED
  BY <1>1, <1>2

\* Every step keeps the client's uploads apart.
LEMMA NextOneUpload ==
  ASSUME TypeOK, Structure, orphaned = {}, OneUpload, [Next]_vars, orphaned' = {}
  PROVE  OneUpload'
<1> USE DEF OneUpload
<1>1. CASE UNCHANGED vars
  BY <1>1 DEF vars, uploadVars, clientVars
<1>2. CASE Announce \/ AnnounceFails \/ PollLookup \/ PollRefused \/ PollWait
        \/ PollTimeout \/ PollUpload \/ StreamUploadRefused \/ Reannounce \/ WakeUp
        \/ LosePoll \/ LoseReannounce
  <2>1. cpc # "uploading" /\ ustate' = ustate
    BY <1>2 DEF Announce, AnnounceFails, PollLookup, PollRefused, PollWait,
       PollTimeout, PollUpload, StreamUploadRefused, Reannounce, WakeUp,
       LosePoll, LoseReannounce, uploadVars
  <2> QED
    BY <2>1
<1>3. CASE StreamUpload
  <2>1. /\ cpc # "uploading" /\ cpc' = "uploading" /\ task' = task
        /\ ustate' = [ustate EXCEPT ![task] = "arrived"]
    BY <1>3 DEF StreamUpload
  <2> QED
    BY <2>1 DEF TypeOK
<1>4. CASE StreamUploadReturns
  BY <1>4 DEF StreamUploadReturns, TypeOK, uploadVars
<1>5. CASE LoseUpload \/ ClientDies
  BY <1>5 DEF LoseUpload, ClientDies, ResizeFile
<1>6. ASSUME NEW d \in Downloads, DownloadNext(d) PROVE OneUpload'
  <2>1. CASE NotifyUploadRequested(d)
    BY <2>1 DEF NotifyUploadRequested, uploadVars
  <2>2. CASE ~NotifyUploadRequested(d)
    BY <1>6, <2>2 DEF DownloadNext, DownloadLookup, InsertSender, Receive,
       ChannelCloses, DownloadAborts, uploadVars, clientVars
  <2> QED
    BY <2>1, <2>2
<1>7. ASSUME NEW u \in Uploads, UploadNext(u) PROVE OneUpload'
  <2>1. ~BodyError(u) /\ ~HandlerDropped(u)
    BY DEF BodyError, HandlerDropped
  <2>2. /\ ustate[u] \in Active /\ ustate[u] # "failing"
        /\ \E p \in {"refused", "feeding", "closing", "ok"} :
             ustate' = [ustate EXCEPT ![u] = p]
    <3>1. CASE GetUploadSender(u)
      BY <3>1 DEF GetUploadSender
    <3>2. CASE Forward(u)
      BY <3>2 DEF Forward, TypeOK
    <3>3. CASE DropSender(u)
      BY <3>3 DEF DropSender
    <3>4. CASE FinishUpload(u)
      BY <3>4 DEF FinishUpload
    <3> QED
      BY <1>7, <2>1, <3>1, <3>2, <3>3, <3>4 DEF UploadNext
  <2>3. UNCHANGED clientVars
    BY <1>7 DEF UploadNext, GetUploadSender, Forward, DropSender, BodyError, HandlerDropped, FinishUpload
  <2> QED
    BY <2>2, <2>3 DEF TypeOK, clientVars
<1>8. CASE Reload \/ RunServer
  BY <1>8 DEF Reload, RunServer, uploadVars, clientVars
<1>9. CASE Crash
  BY <1>9 DEF Crash, TypeOK
<1>10. CASE ResizeFile
  BY <1>10 DEF ResizeFile, uploadVars, clientVars
<1> QED
  BY <1>1, <1>2, <1>3, <1>4, <1>5, <1>6, <1>7, <1>8, <1>9, <1>10
     DEF Next, ClientNext, ServerNext, FaultNext

\* Every step keeps the feeders of channels apart.
LEMMA NextOneFeeder ==
  ASSUME TypeOK, Structure, orphaned = {}, OneUpload, OneFeeder,
         [Next]_vars, orphaned' = {}
  PROVE  OneFeeder'
<1> USE DEF OneFeeder
<1>1. CASE UNCHANGED vars \/ ServerNext \/ FaultNext \/ ClientNext
  <2>1. CASE Crash
    BY <2>1, NoneAssumption DEF Crash, TypeOK
  <2>2. CASE StreamUpload
    BY <2>2 DEF StreamUpload, TypeOK, managerVars
  <2>3. CASE UNCHANGED <<upload_senders, ustate, target>>
    BY <2>3
  <2> QED
    BY <1>1, <2>1, <2>2, <2>3 DEF vars, ServerNext, FaultNext, ClientNext,
       managerVars, uploadVars, Announce, AnnounceFails, PollLookup, PollRefused,
       PollWait, PollTimeout, PollUpload, StreamUploadRefused,
       StreamUploadReturns, Reannounce, WakeUp, Reload, RunServer, LosePoll,
       LoseReannounce, LoseUpload, ClientDies, ResizeFile
<1>2. ASSUME NEW d \in Downloads, DownloadNext(d) PROVE OneFeeder'
  <2>1. CASE InsertSender(d)
    BY <2>1 DEF InsertSender, TypeOK, Structure, Unsent, uploadVars
  <2>2. CASE ~InsertSender(d)
    BY <1>2, <2>2 DEF DownloadNext, DownloadLookup, NotifyUploadRequested, Receive,
       ChannelCloses, DownloadAborts, managerVars, uploadVars
  <2> QED
    BY <2>1, <2>2
<1>3. ASSUME NEW u \in Uploads, UploadNext(u) PROVE OneFeeder'
  <2>1. CASE GetUploadSender(u)
    <3>0. /\ ustate[u] = "arrived" /\ UNCHANGED upload_senders /\ umgr[u] \in Managers
          /\ \A v \in Uploads : v # u => ustate[v] \notin Active
      BY <2>1 DEF GetUploadSender, OneUpload, TypeOK, managerVars
    <3>1. CASE upload_senders[umgr[u]] = None
      <4>1. ustate' = [ustate EXCEPT ![u] = "refused"] /\ target' = target
        BY <2>1, <3>1 DEF GetUploadSender
      <4> QED
        BY <3>0, <4>1 DEF TypeOK
    <3>2. CASE upload_senders[umgr[u]] # None
      <4>1. /\ ustate' = [ustate EXCEPT ![u] = "feeding"]
            /\ target' = [target EXCEPT ![u] = upload_senders[umgr[u]]]
        BY <2>1, <3>2 DEF GetUploadSender
      <4>2. \A v \in Uploads : v # u /\ ustate[v] \in Fed => ustate[v] = "ok"
        BY <3>0 DEF OneUpload
      <4>3. \A v \in Uploads : v # u /\ ustate[v] \in Fed => target[v] # target'[u]
        BY <3>0, <4>1, <4>2 DEF TypeOK
      <4>4. /\ \A v \in Uploads : v # u => ustate'[v] = ustate[v] /\ target'[v] = target[v]
            /\ ustate'[u] = "feeding"
        BY <4>1 DEF TypeOK
      <4> QED
        BY <3>0, <4>3, <4>4
    <3> QED
      BY <3>1, <3>2
  <2>2. CASE Forward(u)
    BY <2>2 DEF Forward, managerVars
  <2>3. CASE DropSender(u) \/ BodyError(u) \/ HandlerDropped(u)
    <3>1. /\ ustate[u] = "feeding" /\ UNCHANGED <<upload_senders, target>>
          /\ \E p \in {"closing", "failing"} : ustate' = [ustate EXCEPT ![u] = p]
      BY <2>3 DEF DropSender, BodyError, HandlerDropped, managerVars
    <3>2. \A v \in Uploads : /\ ustate'[v] \in Fed => ustate[v] \in Fed
                             /\ ustate'[v] = "ok" => ustate[v] = "ok"
      BY <3>1 DEF TypeOK
    <3> QED
      BY <3>1, <3>2
  <2>4. CASE FinishUpload(u)
    <3>1. /\ ustate[u] = "closing" /\ target' = target
          /\ ustate' = [ustate EXCEPT ![u] = "ok"]
          /\ upload_senders' = [upload_senders EXCEPT ![umgr[u]] = None]
      BY <2>4 DEF FinishUpload, OneUpload
    <3>2. /\ target[u] \in Downloads /\ umgr[u] = dmgr[target[u]]
          /\ umgr[u] \in Managers
      BY <3>1 DEF TypeOK, Structure
    <3>3. \A m \in Managers : upload_senders'[m] # target[u]
      BY <3>1, <3>2, NoneAssumption DEF TypeOK, Structure
    <3>4. \A v \in Uploads : ustate[v] = "ok" =>
            \A m \in Managers : upload_senders'[m] # target[v]
      BY <3>1, <3>2, NoneAssumption DEF TypeOK
    <3>5. \A v \in Uploads : /\ ustate'[v] \in Fed => ustate[v] \in Fed
                             /\ ustate'[v] = "ok" => v = u \/ ustate[v] = "ok"
      BY <3>1 DEF TypeOK
    <3> QED
      BY <3>1, <3>3, <3>4, <3>5
  <2> QED
    BY <1>3, <2>1, <2>2, <2>3, <2>4 DEF UploadNext
<1> QED
  BY <1>1, <1>2, <1>3 DEF Next

\* Sums of naturals, for terms whose summands are lengths.
LEMMA NatSums ==
  /\ \A a, b \in Nat : a + b \in Nat
  /\ \A a, b \in Nat : (a + 1) + (b - 1) = a + b
  /\ \A a, b \in Nat : a + (b + 1) = (a + b) + 1
  /\ \A a \in Nat : a + 0 = a
  OBVIOUS

\* What a download has, in its channel and its body, is counted by numbers.
LEMMA Lengths ==
  ASSUME TypeOK, NEW d \in Downloads
  PROVE  /\ got[d] \in Seq(Nat \ {0}) /\ Len(got[d]) \in Nat
         /\ chan[d] \in Seq(Nat \ {0}) /\ Len(chan[d]) \in Nat
         /\ Piped(d) \in Nat
<1>1. got[d] \in Seq(Nat \ {0}) /\ chan[d] \in Seq(Nat \ {0})
  BY DEF TypeOK
<1>2. Len(got[d]) \in Nat /\ Len(chan[d]) \in Nat
  BY <1>1, LenProperties
<1>3. Piped(d) \in Nat
  BY <1>2, NatSums, Zenon DEF Piped
<1> QED
  BY <1>1, <1>2, <1>3

\* What Receive does to the two sequences.
LEMMA ReceiveEffect ==
  ASSUME TypeOK, NEW d \in Downloads, Receive(d)
  PROVE  /\ got' = [got EXCEPT ![d] = Append(got[d], Head(chan[d]))]
         /\ Len(got'[d]) = Len(got[d]) + 1
         /\ \/ dstate' = [dstate EXCEPT ![d] = "complete"] /\ chan'[d] = <<>>
            \/ /\ dstate' = dstate /\ chan'[d] = Tail(chan[d])
               /\ Len(chan'[d]) = Len(chan[d]) - 1
               /\ Len(got'[d]) # FileLen
         /\ \A e \in Downloads : e # d => got'[e] = got[e] /\ chan'[e] = chan[e]
         /\ dstate[d] = "streaming" /\ chan[d] # <<>>
         /\ UNCHANGED <<managerVars, dmgr, uploadVars, clientVars>>
<1>1. /\ got[d] \in Seq(Nat \ {0}) /\ chan[d] \in Seq(Nat \ {0}) /\ chan[d] # <<>>
      /\ chan \in [Downloads -> Seq(Nat \ {0})] /\ got \in [Downloads -> Seq(Nat \ {0})]
  BY DEF TypeOK, Receive
<1>2. Head(chan[d]) \in Nat \ {0} /\ Len(Tail(chan[d])) = Len(chan[d]) - 1
  BY <1>1, HeadTailProperties
<1>3. Len(Append(got[d], Head(chan[d]))) = Len(got[d]) + 1
  BY <1>1, <1>2
<1>4. got' = [got EXCEPT ![d] = Append(got[d], Head(chan[d]))]
  BY DEF Receive
<1>5. CASE Len(got[d]) + 1 = FileLen
  BY <1>1, <1>3, <1>4, <1>5 DEF Receive
<1>6. CASE Len(got[d]) + 1 # FileLen
  BY <1>1, <1>2, <1>3, <1>4, <1>6 DEF Receive
<1> QED
  BY <1>5, <1>6

\* Steps that move no byte and touch no upload that has a sender.
LEMMA ProgressFrame ==
  ASSUME Progress, UNCHANGED <<dstate, chan, got, target, next>>,
         size' >= FileLen => size >= FileLen,
         \A u \in Uploads : /\ ustate'[u] \in Fed <=> ustate[u] \in Fed
                            /\ ustate[u] \in Fed =>
                                 (ustate'[u] = "feeding" <=> ustate[u] = "feeding")
  PROVE  Progress'
<1>0. \A d \in Downloads : Piped(d)' = Piped(d)
  BY DEF Piped
<1>1. ASSUME NEW d \in Downloads PROVE IsFed(d)' <=> IsFed(d)
  BY DEF IsFed
<1>2. BodyOpen' /\ CutShortEmpty'
  BY DEF Progress, BodyOpen, CutShortEmpty
<1>3. FeedPosition'
  <2> SUFFICES ASSUME NEW u \in Uploads, NEW d \in Downloads,
                      ustate'[u] \in Fed, target[u] = d, dstate[d] \in HasReceiver
               PROVE  IF ustate'[u] = "feeding" THEN next[u] = Piped(d)' + 1
                      ELSE size' >= FileLen => Piped(d)' >= FileLen
    BY DEF FeedPosition
  <2>1. ustate[u] \in Fed /\ (ustate'[u] = "feeding" <=> ustate[u] = "feeding")
    OBVIOUS
  <2> QED
    BY <1>0, <2>1 DEF Progress, FeedPosition
<1>4. UnfedEmpty'
  BY <1>1 DEF Progress, UnfedEmpty
<1> QED
  BY <1>2, <1>3, <1>4 DEF Progress

\* Steps of one download, seen from its channel: only d changes, and what the
\* invariant says of d is kept.
LEMMA ProgressDownload ==
  ASSUME TypeOK, Progress, NEW d \in Downloads, UNCHANGED <<ustate, target, next>>,
         size' >= FileLen => size >= FileLen,
         \A e \in Downloads : e # d =>
            dstate'[e] = dstate[e] /\ got'[e] = got[e] /\ chan'[e] = chan[e],
         dstate'[d] \in HasReceiver =>
            /\ Len(got'[d]) < FileLen
            /\ Piped(d)' = Piped(d)
            /\ IsFed(d) \/ (got'[d] = <<>> /\ chan'[d] = <<>>)
            /\ dstate[d] \in HasReceiver \/ ~IsFed(d),
         dstate'[d] = "truncated" /\ size' >= FileLen => got'[d] = <<>>
  PROVE  Progress'
<1>1. \A e \in Downloads : IsFed(e)' <=> IsFed(e)
  BY DEF IsFed
<1>2. \A e \in Downloads : e # d => Piped(e)' = Piped(e)
  BY DEF Piped
<1>3. BodyOpen' /\ CutShortEmpty'
  BY DEF Progress, BodyOpen, CutShortEmpty
<1>4. FeedPosition'
  <2> SUFFICES ASSUME NEW u \in Uploads, NEW e \in Downloads,
                      ustate[u] \in Fed, target[u] = e, dstate'[e] \in HasReceiver
               PROVE  IF ustate[u] = "feeding" THEN next[u] = Piped(e)' + 1
                      ELSE size' >= FileLen => Piped(e)' >= FileLen
    BY DEF FeedPosition
  <2>1. IsFed(e)
    BY DEF IsFed
  <2>2. dstate[e] \in HasReceiver /\ Piped(e)' = Piped(e)
    BY <1>2, <2>1
  <2> QED
    BY <2>2 DEF Progress, FeedPosition
<1>5. UnfedEmpty'
  BY <1>1 DEF Progress, UnfedEmpty
<1> QED
  BY <1>3, <1>4, <1>5 DEF Progress

\* A channel whose senders are gone was never fed, unless all of the file went
\* through it: only then, or when the file has become shorter, does a reader
\* see the end of it.
LEMMA ClosesUnfed ==
  ASSUME TypeOK, OneUpload, Progress, NEW d \in Downloads, ChannelCloses(d),
         size >= FileLen
  PROVE  got[d] = <<>>
<1>1. /\ dstate[d] = "streaming" /\ chan[d] = <<>>
      /\ \A u \in Uploads : ustate[u] = "feeding" => target[u] # d
  BY DEF ChannelCloses, HasSender
<1>2. ~(Piped(d) >= FileLen)
  <2>1. Len(chan[d]) = 0 /\ Len(got[d]) < FileLen /\ Len(got[d]) \in Nat
    BY <1>1, Lengths DEF Progress, BodyOpen
  <2>2. Piped(d) = Len(got[d])
    BY <2>1, NatSums, Zenon DEF Piped
  <2> QED
    BY <2>1, <2>2, FileLenAssumption
<1>3. ~IsFed(d)
  BY <1>1, <1>2 DEF OneUpload, Progress, FeedPosition, IsFed
<1> QED
  BY <1>1, <1>3 DEF Progress, UnfedEmpty

\* Every step keeps count of what has been fed.
LEMMA NextProgress ==
  ASSUME TypeOK, Structure, orphaned = {}, OneUpload, OneFeeder, Progress,
         [Next]_vars, orphaned' = {}
  PROVE  Progress'
<1>0. \A d \in Downloads : /\ Len(got[d]) \in Nat /\ Len(chan[d]) \in Nat
                           /\ Piped(d) \in Nat
  BY Lengths
<1>9. size' >= FileLen => size >= FileLen
  BY LongBefore
<1>1. CASE UNCHANGED vars \/ ServerNext \/ FaultNext \/ ClientNext
  <2>1. CASE Crash
    BY <2>1 DEF Crash, TypeOK, Progress, BodyOpen, FeedPosition, UnfedEmpty, CutShortEmpty
  <2>2. CASE StreamUpload
    <3>1. /\ task \in Uploads /\ ustate[task] = "none"
          /\ ustate' = [ustate EXCEPT ![task] = "arrived"]
          /\ UNCHANGED <<dstate, got, chan, target, next>>
      BY <2>2 DEF StreamUpload, TypeOK, Structure, downloadVars
    <3>2. \A u \in Uploads : /\ ustate'[u] \in Fed <=> ustate[u] \in Fed
                             /\ ustate[u] \in Fed => ustate'[u] = ustate[u]
      BY <3>1 DEF TypeOK
    <3> QED
      BY <1>9, <3>1, <3>2, ProgressFrame
  <2>3. CASE UNCHANGED <<dstate, chan, got, ustate, target, next>>
    BY <1>9, <2>3, ProgressFrame
  <2> QED
    BY <1>1, <2>1, <2>2, <2>3 DEF vars, ServerNext, FaultNext, ClientNext,
       downloadVars, uploadVars, Announce, AnnounceFails, PollLookup, PollRefused,
       PollWait, PollTimeout, PollUpload, StreamUploadRefused,
       StreamUploadReturns, Reannounce, WakeUp, Reload, RunServer, LosePoll,
       LoseReannounce, LoseUpload, ClientDies, ResizeFile
<1>2. ASSUME NEW d \in Downloads, DownloadNext(d) PROVE Progress'
  <2>0. UNCHANGED <<ustate, target, next>>
    BY <1>2 DEF DownloadNext, DownloadLookup, InsertSender, NotifyUploadRequested,
       Receive, ChannelCloses, DownloadAborts, uploadVars
  <2>1. CASE DownloadLookup(d)
    BY <1>9, <2>0, <2>1, ProgressDownload DEF DownloadLookup, TypeOK
  <2>2. CASE InsertSender(d)
    <3>1. /\ got[d] = <<>> /\ chan[d] = <<>> /\ dstate[d] = "looked" /\ ~IsFed(d)
          /\ dstate' = [dstate EXCEPT ![d] = "inserted"] /\ UNCHANGED <<got, chan>>
      BY <2>2 DEF InsertSender, Structure, Unsent, IsFed
    <3>2. Len(got'[d]) < FileLen
      BY <3>1, FileLenAssumption
    <3>3. Piped(d)' = Piped(d)
      BY <3>1 DEF Piped
    <3> QED
      BY <1>9, <2>0, <3>1, <3>2, <3>3, ProgressDownload DEF TypeOK
  <2>3. CASE NotifyUploadRequested(d)
    <3>1. /\ dstate[d] = "inserted" /\ dstate' = [dstate EXCEPT ![d] = "streaming"]
          /\ UNCHANGED <<got, chan>>
      BY <2>3 DEF NotifyUploadRequested
    <3>2. Piped(d)' = Piped(d) /\ Len(got'[d]) < FileLen
      BY <3>1 DEF Piped, Progress, BodyOpen
    <3>3. IsFed(d) \/ (got'[d] = <<>> /\ chan'[d] = <<>>)
      BY <3>1 DEF Progress, UnfedEmpty
    <3> QED
      BY <1>9, <2>0, <3>1, <3>2, <3>3, ProgressDownload DEF TypeOK
  <2>4. CASE Receive(d)
    <3>1. /\ dstate[d] = "streaming" /\ chan[d] # <<>> /\ IsFed(d)
          /\ Len(got[d]) < FileLen /\ Len(got'[d]) = Len(got[d]) + 1
          /\ \A e \in Downloads : e # d => got'[e] = got[e] /\ chan'[e] = chan[e]
      BY <2>4, ReceiveEffect DEF Progress, BodyOpen, UnfedEmpty
    <3>2. CASE /\ dstate' = dstate /\ chan'[d] = Tail(chan[d])
               /\ Len(chan'[d]) = Len(chan[d]) - 1 /\ Len(got'[d]) # FileLen
      <4>1. Piped(d)' = Piped(d)
        <5>1. Piped(d)' = (Len(got[d]) + 1) + (Len(chan[d]) - 1)
          BY <3>1, <3>2, Zenon DEF Piped
        <5>2. @ = Len(got[d]) + Len(chan[d])
          BY <1>0, NatSums, Zenon
        <5> QED
          BY <5>1, <5>2, Zenon DEF Piped
      <4>2. Len(got'[d]) < FileLen
        BY <1>0, <3>1, <3>2, FileLenAssumption
      <4> QED
        BY <1>9, <2>0, <3>1, <3>2, <4>1, <4>2, ProgressDownload
    <3>3. CASE dstate' = [dstate EXCEPT ![d] = "complete"]
      <4>1. dstate'[d] = "complete" /\ \A e \in Downloads : e # d => dstate'[e] = dstate[e]
        BY <3>3 DEF TypeOK
      <4> QED
        BY <1>9, <2>0, <3>1, <4>1, ProgressDownload
    <3> QED
      BY <2>4, <3>2, <3>3, ReceiveEffect
  <2>5. CASE ChannelCloses(d)
    <3>1. /\ dstate[d] = "streaming" /\ chan[d] = <<>>
          /\ \A u \in Uploads : ustate[u] = "feeding" => target[u] # d
          /\ dstate' = [dstate EXCEPT ![d] = "truncated"] /\ UNCHANGED <<got, chan>>
      BY <2>5 DEF ChannelCloses, HasSender
    <3>4. size' >= FileLen => got[d] = <<>>
      BY <1>9, <2>5, ClosesUnfed
    <3> QED
      BY <1>9, <2>0, <3>1, <3>4, ProgressDownload DEF TypeOK
  <2>6. CASE DownloadAborts(d)
    BY <1>9, <2>0, <2>6, ProgressDownload DEF DownloadAborts, TypeOK
  <2> QED
    BY <1>2, <2>1, <2>2, <2>3, <2>4, <2>5, <2>6 DEF DownloadNext
<1>3. ASSUME NEW u \in Uploads, UploadNext(u) PROVE Progress'
  <2>1. CASE GetUploadSender(u)
    <3>0. /\ ustate[u] = "arrived" /\ umgr[u] \in Managers /\ next[u] = 1
          /\ UNCHANGED <<dstate, got, chan, next>>
          /\ \A v \in Uploads : v # u => ustate[v] \notin Active
      BY <2>1 DEF GetUploadSender, OneUpload, Structure, TypeOK, downloadVars
    <3>1. CASE upload_senders[umgr[u]] = None
      <4>1. ustate' = [ustate EXCEPT ![u] = "refused"] /\ target' = target
        BY <2>1, <3>1 DEF GetUploadSender
      <4>2. \A v \in Uploads : /\ ustate'[v] \in Fed <=> ustate[v] \in Fed
                               /\ ustate[v] \in Fed => ustate'[v] = ustate[v]
        BY <3>0, <4>1 DEF TypeOK
      <4> QED
        BY <1>9, <3>0, <4>1, <4>2, ProgressFrame
    <3>2. CASE upload_senders[umgr[u]] # None
      <4>1. PICK e \in Downloads : /\ e = upload_senders[umgr[u]]
                                   /\ ustate' = [ustate EXCEPT ![u] = "feeding"]
                                   /\ target' = [target EXCEPT ![u] = e]
        BY <2>1, <3>0, <3>2 DEF GetUploadSender, TypeOK
      <4>2. ~IsFed(e)
        BY <3>0, <4>1 DEF OneUpload, OneFeeder, IsFed
      <4>3. dstate[e] \in HasReceiver => Piped(e) = 0
        <5>1. dstate[e] \in HasReceiver => Len(got[e]) = 0 /\ Len(chan[e]) = 0
          BY <4>1, <4>2 DEF Progress, UnfedEmpty
        <5>2. 0 + 0 = 0
          OBVIOUS
        <5> QED
          BY <5>1, <5>2, Zenon DEF Piped
      <4>4. /\ \A v \in Uploads : v # u => ustate'[v] = ustate[v] /\ target'[v] = target[v]
            /\ ustate'[u] = "feeding" /\ target'[u] = e
        BY <4>1 DEF TypeOK
      <4>5. \A f \in Downloads : Piped(f)' = Piped(f)
        BY <3>0 DEF Piped
      <4>9. \A f \in Downloads : IsFed(f) => IsFed(f)'
        BY <3>0, <4>4 DEF IsFed
      <4>6. FeedPosition'
        <5> SUFFICES ASSUME NEW v \in Uploads, NEW f \in Downloads,
                            ustate'[v] \in Fed, target'[v] = f,
                            dstate'[f] \in HasReceiver
                     PROVE  IF ustate'[v] = "feeding" THEN next'[v] = Piped(f)' + 1
                            ELSE size' >= FileLen => Piped(f)' >= FileLen
          BY DEF FeedPosition
        <5>1. CASE v = u
          BY <3>0, <4>1, <4>3, <4>4, <4>5, <5>1
        <5>2. CASE v # u
          BY <1>9, <3>0, <4>4, <4>5, <5>2 DEF Progress, FeedPosition
        <5> QED
          BY <5>1, <5>2
      <4>7. BodyOpen' /\ CutShortEmpty'
        BY <1>9, <3>0 DEF Progress, BodyOpen, CutShortEmpty
      <4>8. UnfedEmpty'
        BY <3>0, <4>9 DEF Progress, UnfedEmpty
      <4> QED
        BY <4>6, <4>7, <4>8 DEF Progress
    <3> QED
      BY <3>1, <3>2
  <2>2. CASE Forward(u)
    <3>0. ustate[u] = "feeding" /\ target[u] \in Downloads /\ next[u] \in Nat \ {0}
      BY <2>2 DEF Forward, TypeOK
    <3>1. PICK e \in Downloads :
            /\ e = target[u]
            /\ ustate[u] = "feeding" /\ dstate[e] \in HasReceiver
            /\ next[u] \in Nat \ {0}
            /\ next' = [next EXCEPT ![u] = next[u] + 1]
            /\ chan' = [chan EXCEPT ![e] = Append(chan[e], next[u])]
            /\ UNCHANGED <<dstate, got, ustate, target>>
      BY <2>2, <3>0 DEF Forward
    <3>2. Len(chan'[e]) = Len(chan[e]) + 1 /\ \A f \in Downloads : f # e => chan'[f] = chan[f]
      <4>1. chan[e] \in Seq(Nat \ {0})
        BY Lengths
      <4>2. Len(Append(chan[e], next[u])) = Len(chan[e]) + 1
        BY <3>1, <4>1
      <4> QED
        BY <3>1, <4>2 DEF TypeOK
    <3>3. Piped(e)' = Piped(e) + 1 /\ \A f \in Downloads : f # e => Piped(f)' = Piped(f)
      <4>1. Piped(e)' = Piped(e) + 1
        <5>1. Piped(e)' = Len(got[e]) + (Len(chan[e]) + 1)
          BY <3>1, <3>2, Zenon DEF Piped
        <5>2. @ = (Len(got[e]) + Len(chan[e])) + 1
          BY <1>0, NatSums, Zenon
        <5> QED
          BY <5>1, <5>2, Zenon DEF Piped
      <4>2. \A f \in Downloads : f # e => Piped(f)' = Piped(f)
        BY <3>1, <3>2 DEF Piped
      <4> QED
        BY <4>1, <4>2
    <3>4. \A v \in Uploads : ustate[v] \in Fed /\ v # u => target[v] # e /\ next'[v] = next[v]
      BY <3>1 DEF OneFeeder, TypeOK
    <3>5. next'[u] = next[u] + 1
      BY <3>1 DEF TypeOK
    <3>6. next[u] = Piped(e) + 1 /\ IsFed(e)
      BY <3>1 DEF Progress, FeedPosition, IsFed
    <3>7. FeedPosition'
      <4> SUFFICES ASSUME NEW v \in Uploads, NEW f \in Downloads,
                          ustate[v] \in Fed, target[v] = f, dstate[f] \in HasReceiver
                   PROVE  IF ustate[v] = "feeding" THEN next'[v] = Piped(f)' + 1
                          ELSE size' >= FileLen => Piped(f)' >= FileLen
        BY <3>1 DEF FeedPosition
      <4>1. CASE v = u
        BY <1>0, <3>1, <3>3, <3>5, <3>6, <4>1
      <4>2. CASE v # u
        <5>1. f # e /\ next'[v] = next[v]
          BY <3>4, <4>2
        <5>2. Piped(f)' = Piped(f)
          BY <3>3, <5>1
        <5> QED
          BY <1>9, <5>1, <5>2 DEF Progress, FeedPosition
      <4> QED
        BY <4>1, <4>2
    <3>8. UnfedEmpty'
      <4>1. \A f \in Downloads : IsFed(f)' <=> IsFed(f)
        BY <3>1 DEF IsFed
      <4> QED
        BY <3>1, <3>2, <3>6, <4>1 DEF Progress, UnfedEmpty
    <3>9. BodyOpen' /\ CutShortEmpty'
      BY <1>9, <3>1 DEF Progress, BodyOpen, CutShortEmpty
    <3> QED
      BY <3>7, <3>8, <3>9 DEF Progress
  <2>3. CASE DropSender(u) \/ BodyError(u) \/ HandlerDropped(u)
    <3>1. DropSender(u)
      BY <2>3 DEF BodyError, HandlerDropped
    <3>2. /\ ustate[u] = "feeding" /\ target[u] \in Downloads
          /\ ustate' = [ustate EXCEPT ![u] = "closing"]
          /\ UNCHANGED <<dstate, got, chan, target, next>>
      BY <3>1 DEF DropSender, TypeOK, downloadVars
    <3>3. dstate[target[u]] \in HasReceiver /\ size >= FileLen => Piped(target[u]) >= FileLen
      <4>1. dstate[target[u]] \in HasReceiver =>
              next[u] = Piped(target[u]) + 1 /\ next[u] > size
        BY <3>1, <3>2 DEF DropSender, Progress, FeedPosition
      <4>2. next[u] \in Nat \ {0} /\ Piped(target[u]) \in Nat /\ size \in Nat
        BY <1>0, <3>2, SizesAssumption DEF TypeOK
      <4> QED
        BY <4>1, <4>2, FileLenAssumption
    <3>4. /\ ustate'[u] = "closing"
          /\ \A v \in Uploads : v # u => ustate'[v] = ustate[v]
      BY <3>2 DEF TypeOK
    <3>5. \A f \in Downloads : Piped(f)' = Piped(f)
      BY <3>2 DEF Piped
    <3>8. \A f \in Downloads : IsFed(f)' <=> IsFed(f)
      BY <3>2, <3>4 DEF IsFed
    <3>6. FeedPosition'
      BY <1>9, <3>2, <3>3, <3>4, <3>5 DEF Progress, FeedPosition
    <3>7. BodyOpen' /\ CutShortEmpty' /\ UnfedEmpty'
      BY <1>9, <3>2, <3>8 DEF Progress, BodyOpen, CutShortEmpty, UnfedEmpty
    <3> QED
      BY <3>6, <3>7 DEF Progress
  <2>4. CASE FinishUpload(u)
    <3>1. /\ ustate[u] = "closing" /\ ustate' = [ustate EXCEPT ![u] = "ok"]
          /\ UNCHANGED <<dstate, got, chan, target, next>>
      BY <2>4 DEF FinishUpload, OneUpload, downloadVars
    <3>2. \A v \in Uploads : /\ ustate'[v] \in Fed <=> ustate[v] \in Fed
                             /\ ustate'[v] = "feeding" <=> ustate[v] = "feeding"
      BY <3>1 DEF TypeOK
    <3> QED
      BY <1>9, <3>1, <3>2, ProgressFrame
  <2> QED
    BY <1>3, <2>1, <2>2, <2>3, <2>4 DEF UploadNext
<1> QED
  BY <1>1, <1>2, <1>3 DEF Next

\* Moving the head of a queue that continues a sequence to its end.
LEMMA MoveHead ==
  ASSUME NEW S, NEW s \in Seq(S), NEW c \in Seq(S), c # <<>>,
         \A i \in 1..Len(s) : s[i] = i,
         \A i \in 1..Len(c) : c[i] = Len(s) + i
  PROVE  /\ \A i \in 1..Len(Append(s, Head(c))) : Append(s, Head(c))[i] = i
         /\ \A i \in 1..Len(Tail(c)) : Tail(c)[i] = Len(Append(s, Head(c))) + i
<1>1. Len(c) \in Nat \ {0} /\ Len(s) \in Nat /\ Head(c) = c[1]
  BY EmptySeq
<1>2. Head(c) = Len(s) + 1
  BY <1>1
<1>3. Len(Append(s, Head(c))) = Len(s) + 1
  BY <1>1, <1>2, HeadTailProperties
<1>4. \A i \in 1..(Len(s) + 1) :
        Append(s, Head(c))[i] = IF i <= Len(s) THEN s[i] ELSE Head(c)
  BY <1>1, HeadTailProperties
<1>5. Len(Tail(c)) = Len(c) - 1 /\ \A i \in 1..(Len(c) - 1) : Tail(c)[i] = c[i + 1]
  BY <1>1, HeadTailProperties
<1>6. \A i \in 1..Len(Append(s, Head(c))) : Append(s, Head(c))[i] = i
  BY <1>1, <1>2, <1>3, <1>4
<1>7. \A i \in 1..Len(Tail(c)) : Tail(c)[i] = Len(Append(s, Head(c))) + i
  BY <1>1, <1>3, <1>5
<1> QED
  BY <1>6, <1>7

\* Appending the next element to it.
LEMMA AppendNext ==
  ASSUME NEW S, NEW k \in Nat, NEW c \in Seq(S), NEW n \in S, n = k + Len(c) + 1,
         \A i \in 1..Len(c) : c[i] = k + i
  PROVE  \A i \in 1..Len(Append(c, n)) : Append(c, n)[i] = k + i
<1>1. Len(c) \in Nat /\ Len(Append(c, n)) = Len(c) + 1
  OBVIOUS
<1>2. \A i \in 1..(Len(c) + 1) : Append(c, n)[i] = IF i <= Len(c) THEN c[i] ELSE n
  BY <1>1
<1>3. ASSUME NEW i \in 1..(Len(c) + 1) PROVE Append(c, n)[i] = k + i
  <2>1. CASE i <= Len(c)
    BY <1>1, <1>2, <2>1
  <2>2. CASE i = Len(c) + 1
    BY <1>1, <1>2, <2>2
  <2> QED
    BY <1>1, <2>1, <2>2
<1> QED
  BY <1>1, <1>3

\* Every step keeps the chunks in order.
LEMMA NextConsecutive ==
  ASSUME TypeOK, Progress, Consecutive, [Next]_vars
  PROVE  Consecutive'
<1>1. CASE UNCHANGED vars \/ ServerNext \/ FaultNext \/ ClientNext
  <2>1. CASE Crash
    <3>1. \A d \in Downloads : chan'[d] = <<>> /\ got'[d] = got[d]
      BY <2>1 DEF Crash
    <3> QED
      BY <3>1 DEF Consecutive
  <2>2. CASE UNCHANGED <<chan, got>>
    BY <2>2 DEF Consecutive
  <2> QED
    BY <1>1, <2>1, <2>2 DEF vars, ServerNext, FaultNext, ClientNext,
       downloadVars, Announce, AnnounceFails, PollLookup, PollRefused, PollWait,
       PollTimeout, PollUpload, StreamUpload, StreamUploadRefused,
       StreamUploadReturns, Reannounce, WakeUp, Reload, RunServer, LosePoll,
       LoseReannounce, LoseUpload, ClientDies, ResizeFile
<1>2. ASSUME NEW d \in Downloads, DownloadNext(d) PROVE Consecutive'
  <2>1. CASE Receive(d)
    <3>1. /\ got'[d] = Append(got[d], Head(chan[d])) /\ chan[d] # <<>>
          /\ chan'[d] = <<>> \/ chan'[d] = Tail(chan[d])
          /\ \A e \in Downloads : e # d => got'[e] = got[e] /\ chan'[e] = chan[e]
      BY <2>1, ReceiveEffect, SMTT(30) DEF TypeOK
    <3>2. /\ \A i \in 1..Len(got'[d]) : got'[d][i] = i
          /\ \A i \in 1..Len(Tail(chan[d])) : Tail(chan[d])[i] = Len(got'[d]) + i
      <4>1. /\ got[d] \in Seq(Nat \ {0}) /\ chan[d] \in Seq(Nat \ {0})
            /\ \A i \in 1..Len(got[d]) : got[d][i] = i
            /\ \A i \in 1..Len(chan[d]) : chan[d][i] = Len(got[d]) + i
        BY DEF TypeOK, Consecutive
      <4>2. got'[d] = Append(got[d], Head(chan[d])) /\ chan[d] # <<>>
        BY <3>1
      <4> DEFINE S == Nat \ {0}
                 s == got[d]
                 c == chan[d]
      <4>3. /\ s \in Seq(S) /\ c \in Seq(S) /\ c # <<>>
            /\ \A i \in 1..Len(s) : s[i] = i
            /\ \A i \in 1..Len(c) : c[i] = Len(s) + i
        BY <4>1, <4>2
      <4>4. got'[d] = Append(s, Head(c)) /\ Tail(c) = Tail(chan[d])
        BY <4>2
      <4> HIDE DEF S, s, c
      <4>5. /\ \A i \in 1..Len(Append(s, Head(c))) : Append(s, Head(c))[i] = i
            /\ \A i \in 1..Len(Tail(c)) : Tail(c)[i] = Len(Append(s, Head(c))) + i
        BY <4>3, MoveHead
      <4> QED
        BY <4>4, <4>5
    <3>3. \A i \in 1..Len(chan'[d]) : chan'[d][i] = Len(got'[d]) + i
      <4>1. CASE chan'[d] = <<>>
        BY <4>1
      <4>2. CASE chan'[d] = Tail(chan[d])
        BY <3>2, <4>2
      <4> QED
        BY <3>1, <4>1, <4>2
    <3> QED
      BY <3>1, <3>2, <3>3 DEF Consecutive
  <2>2. CASE DownloadAborts(d)
    <3>1. /\ got' = got /\ chan'[d] = <<>>
          /\ \A e \in Downloads : e # d => chan'[e] = chan[e]
      BY <2>2 DEF DownloadAborts, TypeOK
    <3>2. Len(<<>>) = 0
      OBVIOUS
    <3> QED
      BY <3>1, <3>2 DEF Consecutive
  <2>3. CASE UNCHANGED <<chan, got>>
    BY <2>3 DEF Consecutive
  <2> QED
    BY <1>2, <2>1, <2>2, <2>3 DEF DownloadNext, DownloadLookup, InsertSender,
       NotifyUploadRequested, ChannelCloses
<1>3. ASSUME NEW u \in Uploads, UploadNext(u) PROVE Consecutive'
  <2>1. CASE Forward(u)
    <3>1. ustate[u] = "feeding" /\ target[u] \in Downloads /\ next[u] \in Nat \ {0}
      BY <2>1 DEF Forward, TypeOK
    <3>2. PICK e \in Downloads :
            /\ e = target[u] /\ dstate[e] \in HasReceiver
            /\ chan' = [chan EXCEPT ![e] = Append(chan[e], next[u])]
            /\ got' = got
      BY <2>1, <3>1 DEF Forward
    <3>3. /\ chan[e] \in Seq(Nat \ {0})
          /\ Len(got[e]) \in Nat
          /\ \A i \in 1..Len(chan[e]) : chan[e][i] = Len(got[e]) + i
      BY Lengths DEF Consecutive
    <3>4. next[u] = Len(got[e]) + Len(chan[e]) + 1
      BY <3>1, <3>2 DEF Progress, FeedPosition, Piped
    <3>5. \A i \in 1..Len(Append(chan[e], next[u])) :
            Append(chan[e], next[u])[i] = Len(got[e]) + i
      <4> DEFINE k == Len(got[e])
                 c == chan[e]
                 n == next[u]
      <4>1. /\ k \in Nat /\ c \in Seq(Nat \ {0}) /\ n \in Nat \ {0}
            /\ n = k + Len(c) + 1
            /\ \A i \in 1..Len(c) : c[i] = k + i
        BY <3>1, <3>3, <3>4, Zenon
      <4> HIDE DEF k, c, n
      <4>2. \A i \in 1..Len(Append(c, n)) : Append(c, n)[i] = k + i
        BY <4>1, AppendNext
      <4> QED
        BY <4>2, Zenon DEF k, c, n
    <3>6. /\ chan'[e] = Append(chan[e], next[u])
          /\ \A f \in Downloads : f # e => chan'[f] = chan[f]
      BY <3>2 DEF TypeOK
    <3>7. ASSUME NEW f \in Downloads
          PROVE  /\ \A i \in 1..Len(got'[f]) : got'[f][i] = i
                 /\ \A i \in 1..Len(chan'[f]) : chan'[f][i] = Len(got'[f]) + i
      <4>1. \A i \in 1..Len(got'[f]) : got'[f][i] = i
        BY <3>2 DEF Consecutive
      <4>2. CASE f = e
        BY <3>2, <3>5, <3>6, <4>1, <4>2, ZenonT(60)
      <4>3. CASE f # e
        BY <3>2, <3>6, <4>1, <4>3 DEF Consecutive
      <4> QED
        BY <4>2, <4>3
    <3> QED
      BY <3>7, Zenon DEF Consecutive
  <2>2. CASE UNCHANGED <<chan, got>>
    BY <2>2 DEF Consecutive
  <2> QED
    BY <1>3, <2>1, <2>2 DEF UploadNext, GetUploadSender, DropSender, BodyError, HandlerDropped,
       FinishUpload, downloadVars
<1> QED
  BY <1>1, <1>2, <1>3 DEF Next

\* Every step keeps the invariant.
LEMMA NextInductive == Inductive /\ [Next]_vars => Inductive'
<1> SUFFICES ASSUME Inductive, [Next]_vars PROVE Inductive'
  OBVIOUS
<1>1. TypeOK /\ Structure /\ (orphaned = {} => Pipeline)
  BY DEF Inductive
<1>2. TypeOK' /\ Structure'
  BY <1>1, NextTypeOK, NextStructure
<1>3. ASSUME orphaned' = {} PROVE Pipeline'
  <2>1. orphaned = {} /\ OneUpload /\ OneFeeder /\ Progress /\ Consecutive
    BY <1>1, <1>3, OrphansStay DEF Pipeline
  <2> QED
    BY <1>1, <1>3, <2>1, NextOneUpload, NextOneFeeder, NextProgress,
       NextConsecutive DEF Pipeline
<1> QED
  BY <1>2, <1>3 DEF Inductive

\* The inductive invariant: who holds whose sender, and how far each channel
\* has come.
THEOREM TunnelInductive == Spec => []Inductive
  BY InitInductive, NextInductive, PTL DEF Spec

-----------------------------------------------------------------------------
(* What the inductive invariant gives.                                     *)

\* As long as no upload lost its client half way, every downloader holds a
\* prefix of the file, whatever the restarts, the races of requests for the
\* file and the other failures.
THEOREM DeliveredIntact == Spec => []IntactUnlessOrphaned
<1>1. Inductive => IntactUnlessOrphaned
  BY DEF Inductive, Pipeline, Consecutive, IntactUnlessOrphaned, DeliveredInOrder
<1> QED
  BY <1>1, TunnelInductive, PTL

\* An upload answered 200 has put all that was announced into the channel of
\* a downloader that is still there, unless the file has become shorter.
THEOREM AcksAreHonest == Spec => []AckedMeansDelivered
<1>1. Inductive => AckedMeansDelivered
  <2> SUFFICES ASSUME Inductive, orphaned = {}, size >= FileLen,
                      NEW u \in Uploads, ustate[u] = "ok",
                      dstate[target[u]] \in HasReceiver
               PROVE  Piped(target[u]) >= FileLen
    BY DEF AckedMeansDelivered, Piped
  <2>1. target[u] \in Downloads
    BY DEF Inductive, TypeOK
  <2> QED
    BY <2>1 DEF Inductive, Pipeline, Progress, FeedPosition
<1> QED
  BY <1>1, TunnelInductive, PTL

\* A download that got its first byte is not cut short by other requests, only
\* by a file that has become shorter.
THEOREM CutShortOnlyEmpty == Spec => []NoPartialBody
<1>1. Inductive => NoPartialBody
  BY DEF Inductive, Pipeline, Progress, CutShortEmpty, NoPartialBody
<1> QED
  BY <1>1, TunnelInductive, PTL
=============================================================================
