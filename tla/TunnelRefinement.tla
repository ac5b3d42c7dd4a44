-------------------------- MODULE TunnelRefinement --------------------------
(***************************************************************************)
(* Until an upload is broken off or the file shortened, Tunnel implements  *)
(* FileTransfer: every step is a step of a file transfer, or invisible.    *)
(***************************************************************************)
EXTENDS TunnelProofs

abstractPhase == [d \in Downloads |-> Phase(d)]

USE DEF Managers, Uploads, DStates, HasReceiver, Ended, Unsent

NoFailure == orphaned = {} /\ size = FileLen

\* No upload loses its client, and the file keeps its length, when nothing
\* fails.
LEMMA NothingFails == ASSUME MaxFaults = 0 PROVE Spec => []Unharmed
<1> USE DEF NoFailure
<1>1. Init => NoFailure
  BY DEF Init
<1>2. TypeOK /\ NoFailure /\ [Next]_vars => NoFailure'
  <2> SUFFICES ASSUME TypeOK, NoFailure, [Next]_vars PROVE NoFailure'
    OBVIOUS
  <2>1. ~Fault
    BY DEF Fault, TypeOK
  <2> QED
    BY <2>1 DEF Next, vars, ClientNext, DownloadNext, UploadNext, ServerNext,
       FaultNext, uploadVars, Announce, AnnounceFails, PollLookup, PollRefused,
       PollWait, PollTimeout, PollUpload, StreamUpload, StreamUploadRefused,
       StreamUploadReturns, Reannounce, WakeUp, DownloadLookup, InsertSender,
       NotifyUploadRequested, Receive, ChannelCloses, DownloadAborts,
       GetUploadSender, Forward, DropSender, BodyError, HandlerDropped, FinishUpload, Reload,
       RunServer, Crash, LosePoll, LoseReannounce, LoseUpload, ClientDies, ResizeFile, ResizeFile
<1>3. NoFailure => Unharmed
  BY FileLenAssumption DEF Unharmed
<1> HIDE DEF NoFailure
<1> QED
  BY <1>1, <1>2, <1>3, TypeCorrect, PTL DEF Spec

\* Phase, one state of the handler at a time.
LEMMA PhaseValues ==
  ASSUME NEW d \in Downloads
  PROVE  /\ dstate[d] = "idle" => Phase(d) = "idle"
         /\ dstate[d] \in {"looked"} \cup HasReceiver => Phase(d) = "open"
         /\ dstate[d] = "complete" => Phase(d) = "whole"
         /\ dstate[d] = "truncated" => Phase(d) = "short"
         /\ dstate[d] \in {"aborted", "reset"} => Phase(d) = "gone"
         /\ dstate[d] = "notfound" => Phase(d) = "refused"
  BY DEF Phase, PhaseOf

\* The same of the next state.
LEMMA PhaseValuesNext ==
  ASSUME NEW d \in Downloads
  PROVE  /\ dstate'[d] = "idle" => Phase(d)' = "idle"
         /\ dstate'[d] \in {"looked"} \cup HasReceiver => Phase(d)' = "open"
         /\ dstate'[d] = "complete" => Phase(d)' = "whole"
         /\ dstate'[d] = "truncated" => Phase(d)' = "short"
         /\ dstate'[d] \in {"aborted", "reset"} => Phase(d)' = "gone"
         /\ dstate'[d] = "notfound" => Phase(d)' = "refused"
  BY DEF Phase, PhaseOf

\* Nobody has asked for the file yet.
LEMMA InitRefines == Init => Transfer!Init
  BY PhaseValues DEF Init, Transfer!Init

\* A step in which only d's handler moves, seen through Phase.
LEMMA PhaseStep ==
  ASSUME NEW d \in Downloads, \A e \in Downloads : e # d => dstate'[e] = dstate[e]
  PROVE  abstractPhase' = [abstractPhase EXCEPT ![d] = Phase(d)']
<1>1. \A e \in Downloads : e # d => Phase(e)' = Phase(e)
  BY DEF Phase, PhaseOf
<1> QED
  BY <1>1 DEF abstractPhase

\* Steps outside the download handlers are invisible, except a crash.
LEMMA InvisibleStep ==
  ASSUME UNCHANGED <<dstate, got>>
  PROVE  UNCHANGED Transfer!transferVars
<1>1. \A d \in Downloads : Phase(d)' = Phase(d)
  BY DEF Phase
<1> QED
  BY <1>1 DEF Transfer!transferVars

\* A crash disconnects every reader at once.
LEMMA CrashDisconnects ==
  ASSUME TypeOK, Crash
  PROVE  \E S \in SUBSET Downloads : Transfer!Disconnect(S)
<1> DEFINE S == {d \in Downloads : dstate[d] \in {"looked"} \cup HasReceiver}
<1>1. \A d \in Downloads : /\ d \in S => dstate'[d] = "reset"
                           /\ d \notin S => dstate'[d] = dstate[d]
  BY DEF Crash
<1>2. \A d \in S : Phase(d) = "open" /\ Phase(d)' = "gone"
  BY <1>1, PhaseValues, PhaseValuesNext
<1>3. \A d \in Downloads : d \notin S => Phase(d)' = Phase(d)
  BY <1>1 DEF Phase
<1>4. got' = got /\ S \subseteq Downloads
  BY DEF Crash
<1> HIDE DEF S
<1>5. Transfer!Disconnect(S)
  BY <1>2, <1>3, <1>4 DEF Transfer!Disconnect
<1> QED
  BY <1>4, <1>5

\* The steps of a download are those of a transfer.
LEMMA DownloadRefines ==
  ASSUME TypeOK, Structure, Pipeline, Unharmed, NEW d \in Downloads, DownloadNext(d)
  PROVE  Transfer!Next \/ UNCHANGED Transfer!transferVars
<1>0. \A e \in Downloads : e # d => dstate'[e] = dstate[e]
  BY DEF TypeOK, DownloadNext, DownloadLookup, InsertSender, NotifyUploadRequested,
     Receive, ChannelCloses, DownloadAborts
<1>1. abstractPhase' = [abstractPhase EXCEPT ![d] = Phase(d)']
  BY <1>0, PhaseStep
<1>2. abstractPhase[d] = Phase(d)
  BY DEF abstractPhase
<1> USE DEF abstractPhase
<1>3. CASE DownloadLookup(d)
  <2>1. Phase(d) = "idle" /\ Phase(d)' \in {"open", "refused"} /\ got' = got
    BY <1>3, PhaseValues, PhaseValuesNext DEF DownloadLookup, TypeOK
  <2>2. Transfer!Answer(d)
    BY <1>1, <1>2, <2>1 DEF Transfer!Answer
  <2> QED
    BY <2>2 DEF Transfer!Next
<1>4. CASE InsertSender(d) \/ NotifyUploadRequested(d)
  <2>1. Phase(d) = "open" /\ Phase(d)' = "open" /\ got' = got
    BY <1>4, PhaseValues, PhaseValuesNext
       DEF InsertSender, NotifyUploadRequested, TypeOK
  <2>2. abstractPhase' = abstractPhase
    BY <1>1, <1>2, <2>1
  <2> QED
    BY <2>1, <2>2 DEF Transfer!transferVars
<1>5. CASE Receive(d)
  <2>1. /\ got[d] \in Seq(Nat \ {0}) /\ Len(got[d]) < FileLen /\ chan[d] # <<>>
        /\ Head(chan[d]) = Len(got[d]) + 1
    <3>1. chan[d] \in Seq(Nat \ {0}) /\ chan[d] # <<>> /\ dstate[d] = "streaming"
      BY <1>5, Lengths DEF Receive
    <3>2. 1 \in 1..Len(chan[d]) /\ Head(chan[d]) = chan[d][1]
      BY <3>1, EmptySeq
    <3>3. chan[d][1] = Len(got[d]) + 1
      BY <3>2 DEF Pipeline, Consecutive
    <3> QED
      BY <3>1, <3>2, <3>3, Lengths DEF Pipeline, Progress, BodyOpen
  <2>2. got' = [got EXCEPT ![d] = Append(got[d], Len(got[d]) + 1)]
    BY <1>5, <2>1, ReceiveEffect
  <2>3. Phase(d) = "open"
    BY <1>5, PhaseValues DEF Receive
  <2>4. Phase(d)' = IF Len(got[d]) + 1 = FileLen THEN "whole" ELSE Phase(d)
    <3>1. CASE Len(got[d]) + 1 = FileLen
      <4>1. dstate'[d] = "complete"
        BY <1>5, <3>1 DEF Receive, TypeOK
      <4> QED
        BY <3>1, <4>1, PhaseValuesNext
    <3>2. CASE Len(got[d]) + 1 # FileLen
      <4>1. dstate'[d] = dstate[d]
        BY <1>5, <3>2 DEF Receive
      <4> QED
        BY <3>2, <4>1 DEF Phase
    <3> QED
      BY <3>1, <3>2
  <2>5. Transfer!Deliver(d)
    BY <1>1, <1>2, <2>2, <2>3, <2>4 DEF Transfer!Deliver
  <2> QED
    BY <2>5 DEF Transfer!Next
<1>6. CASE ChannelCloses(d)
  <2>1. Phase(d) = "open" /\ Phase(d)' = "short" /\ got' = got
    BY <1>6, PhaseValues, PhaseValuesNext DEF ChannelCloses, TypeOK
  <2>2. got[d] = <<>>
    BY <1>6, ClosesUnfed DEF Pipeline, Unharmed
  <2>3. Transfer!CutShort(d)
    BY <1>1, <1>2, <2>1, <2>2 DEF Transfer!CutShort
  <2> QED
    BY <2>3 DEF Transfer!Next
<1>7. CASE DownloadAborts(d)
  <2>1. Phase(d) = "open" /\ Phase(d)' = "gone" /\ got' = got
    BY <1>7, PhaseValues, PhaseValuesNext DEF DownloadAborts, TypeOK
  <2>2. Transfer!Disconnect({d})
    BY <1>0, <1>1, <1>2, <2>1 DEF Transfer!Disconnect
  <2> QED
    BY <2>2 DEF Transfer!Next
<1> QED
  BY <1>3, <1>4, <1>5, <1>6, <1>7 DEF DownloadNext

\* So is every other step, or it leaves the transfers alone.
LEMMA NextRefines ==
  Inductive /\ Unharmed /\ [Next]_vars => [Transfer!Next]_(Transfer!transferVars)
<1> SUFFICES ASSUME Inductive, Unharmed, [Next]_vars
             PROVE  Transfer!Next \/ UNCHANGED Transfer!transferVars
  OBVIOUS
<1>0. TypeOK /\ Structure /\ Pipeline
  BY DEF Inductive, Unharmed
<1>1. CASE Crash
  BY <1>0, <1>1, CrashDisconnects DEF Transfer!Next
<1>2. ASSUME NEW d \in Downloads, DownloadNext(d)
      PROVE  Transfer!Next \/ UNCHANGED Transfer!transferVars
  BY <1>0, <1>2, DownloadRefines
<1>3. CASE UNCHANGED <<dstate, got>>
  BY <1>3, InvisibleStep
<1> QED
  BY <1>1, <1>2, <1>3 DEF Next, vars, ServerNext, FaultNext, ClientNext,
     UploadNext, downloadVars, Announce, AnnounceFails, PollLookup, PollRefused,
     PollWait, PollTimeout, PollUpload, StreamUpload, StreamUploadRefused,
     StreamUploadReturns, Reannounce, WakeUp, Reload, RunServer, LosePoll,
     LoseReannounce, LoseUpload, ClientDies, ResizeFile, GetUploadSender, Forward,
     DropSender, BodyError, HandlerDropped, FinishUpload

\* Whatever fails, restarts or races: until an upload is broken off or the
\* client's file becomes shorter than announced, all that the download handlers
\* do to their bodies are steps of FileTransfer.
THEOREM TunnelTransfersUntilHarmed == Spec => TransferUntilHarmed
<1>1. Inductive /\ [Next]_vars => [Unharmed => Transfer!Next]_(Transfer!transferVars)
  BY NextRefines
<1> QED
  BY <1>1, TunnelInductive, PTL DEF Spec, TransferUntilHarmed

\* A behaviour in which no upload is broken off and the file never becomes
\* shorter is a behaviour of FileTransfer: prefixes of the file, cut short
\* before the first chunk or not at all.
THEOREM UnharmedTunnelImplementsFileTransfer ==
  Spec /\ []Unharmed => ImplementsFileTransfer
<1>1. Init => Transfer!Init
  BY InitRefines
<1>2. Inductive /\ Unharmed /\ [Next]_vars => [Transfer!Next]_(Transfer!transferVars)
  BY NextRefines
<1> QED
  BY <1>1, <1>2, TunnelInductive, PTL DEF Spec, ImplementsFileTransfer, Transfer!Spec

\* When nothing fails but the server may be restarted or crash, every behaviour
\* of the tunnel is a behaviour of FileTransfer.
THEOREM TunnelImplementsFileTransfer ==
  ASSUME MaxFaults = 0
  PROVE  Spec => ImplementsFileTransfer
BY NothingFails, UnharmedTunnelImplementsFileTransfer, PTL

=============================================================================
