------------------------ MODULE ServerLifecycleProofs ------------------------
(***************************************************************************)
(* What holds of config.yaml and the restart loop for every set of edits,  *)
(* sequential or not, and every number of certificates and failures.       *)
(***************************************************************************)
EXTENDS ServerLifecycle, TLAPS, FiniteSetTheorems

USE DEF loopVars, processVars, certVars, historyVars, Writing, Busy, Kinds, Fault

SaveKinds == {"setup", "letsencrypt", "certificate", "secret", "password"}

\* Who saves is one of the handlers that do.
KindInv == \A e \in Edits :
    /\ pc[e] \in {"saving", "writing"} => kind[e] \in SaveKinds
    /\ pc[e] = "form" => kind[e] \in {"setup", "letsencrypt"}

Finished == {e \in Edits : pc[e] = "done"}

\* 1 while another incarnation is to come.
Pending == IF loop \in {"load", "backoff"} \/ (loop = "running" /\ signal) THEN 1 ELSE 0

\* Incarnations are counted by what they follow: the first start, edits that
\* are finished, failures.
CountInv == current + Pending <= 1 + Cardinality(Finished) + faults

Typed == TypeOK /\ KindInv /\ CountInv

\* The copy of an edit that is being saved has what is certain to stay.
CopyInv == \A e \in Edits : pc[e] \in Writing =>
    /\ e \in copy[e].edits
    /\ saved \ risked \subseteq copy[e].edits

\* Two edits that are being saved at the same time know of each other.
OverlapInv == \A e, f \in Edits :
    e # f /\ pc[e] \in Writing /\ pc[f] \in Writing => e \in risked

\* Saves belong to edits that have begun, and a signal follows its save.
SavedInv ==
    /\ saved \subseteq Begun
    /\ \A e \in Edits : pc[e] \in {"signal", "done"} /\ kind[e] \in {"secret", "certificate"}
                            => e \in saved

EditInv == CopyInv /\ OverlapInv /\ SavedInv

IInv == Typed /\ EditInv /\ NothingLost /\ AnsweredEditsServed

-----------------------------------------------------------------------------
(* Counting.                                                               *)

\* There are as many incarnations as their definition says.
LEMMA IncarnationsCounted ==
    /\ Cardinality(Edits) \in Nat
    /\ Cardinality(Incarnations) = 1 + Cardinality(Edits) + MaxFaults
    /\ Cardinality(Incarnations) \in Nat
<1>1. Cardinality(Edits) \in Nat
  BY EditsAssumption, FS_CardinalityType
<1>2. 1 + Cardinality(Edits) + MaxFaults \in Nat \ {0}
  BY <1>1, BoundsAssumption
<1> DEFINE n == 1 + Cardinality(Edits) + MaxFaults
<1>3. Cardinality(1..n) = n
  <2>1. n \in Nat \ {0}
    BY <1>2
  <2> HIDE DEF n
  <2>2. Cardinality(1..n) = IF 1 > n THEN 0 ELSE n - 1 + 1
    BY <2>1, FS_Interval
  <2> QED
    BY <2>1, <2>2
<1> QED
  BY <1>1, <1>2, <1>3 DEF Incarnations

\* Edits that are finished are edits.
LEMMA FinishedCounted ==
    /\ IsFiniteSet(Finished)
    /\ Cardinality(Finished) \in Nat
    /\ Cardinality(Finished) <= Cardinality(Edits)
<1>1. Finished \subseteq Edits
  BY DEF Finished
<1>2. IsFiniteSet(Finished) /\ Cardinality(Finished) <= Cardinality(Edits)
  BY <1>1, EditsAssumption, FS_Subset
<1> QED
  BY <1>2, FS_CardinalityType

\* The same of the next state, and with more of them finished the number
\* does not fall.
LEMMA FinishedGrows ==
    ASSUME \A e \in Edits : pc[e] = "done" => pc'[e] = "done"
    PROVE  /\ Cardinality(Finished)' \in Nat
           /\ Cardinality(Finished) <= Cardinality(Finished)'
<1> DEFINE New == {e \in Edits : pc'[e] = "done"}
<1>1. Finished \subseteq New /\ New \subseteq Edits
  BY DEF Finished
<1>2. IsFiniteSet(New)
  BY <1>1, EditsAssumption, FS_Subset
<1>3. Cardinality(New) \in Nat /\ Cardinality(Finished) <= Cardinality(New)
  BY <1>1, <1>2, FS_Subset, FS_CardinalityType
<1> QED
  BY <1>3 DEF Finished

\* An edit more is finished.
LEMMA OneMoreFinished ==
    ASSUME TypeOK, NEW e \in Edits, pc[e] # "done",
           pc' = [pc EXCEPT ![e] = "done"]
    PROVE  Cardinality(Finished)' = Cardinality(Finished) + 1
<1> DEFINE New == {f \in Edits : pc'[f] = "done"}
<1>1. New = Finished \cup {e} /\ e \notin Finished
  BY DEF TypeOK, Finished, Processes
<1>2. Cardinality(New) = Cardinality(Finished) + 1
  BY <1>1, FinishedCounted, FS_AddElement
<1> QED
  BY <1>2 DEF Finished

\* No edit is an incarnation.
LEMMA EditsApart ==
    /\ Incarnations \subseteq Nat /\ Edits \cap Incarnations = {}
    /\ Edits \subseteq Processes
<1>1. Cardinality(Edits) \in Nat
  BY IncarnationsCounted
<1> QED
  BY <1>1, EditsAssumption, BoundsAssumption DEF Incarnations, Processes

-----------------------------------------------------------------------------
(* Types.                                                                  *)

\* The first start is typed, and counted.
LEMMA InitTyped == Init => Typed
<1> SUFFICES ASSUME Init PROVE Typed
  OBVIOUS
<1>1. file \in Configs /\ issued \in 0..MaxCerts
  <2>1. issued \in 0..MaxCerts
    BY BoundsAssumption DEF Init
  <2>2. (issued = 1) \in BOOLEAN
    OBVIOUS
  <2> QED
    BY <2>1, <2>2 DEF Init, Configs
<1>2. TypeOK
  <2>1. /\ current \in 0..Cardinality(Incarnations) /\ faults \in 0..MaxFaults
        /\ store \in [Edits -> 0..Cardinality(Incarnations)]
    BY IncarnationsCounted, BoundsAssumption DEF Init
  <2>2. loop = "load"
    BY DEF Init
  <2>3. /\ pc \in [Processes -> Busy \cup {"idle", "form", "check", "done", "failed"}]
        /\ kind \in [Edits -> Kinds \cup {"none", "certificate"}]
        /\ copy \in [Processes -> Configs] /\ served \in Configs
    BY <1>1 DEF Init
  <2>4. due \subseteq 1..issued /\ saved \subseteq Edits /\ risked \subseteq Edits
    BY DEF Init
  <2>5. signal \in BOOLEAN /\ authorized \in BOOLEAN
    BY DEF Init
  <2> QED
    BY <1>1, <2>1, <2>2, <2>3, <2>4, <2>5 DEF TypeOK
<1>3. KindInv
  BY EditsApart DEF Init, KindInv
<1>4. CountInv
  BY FinishedCounted DEF Init, CountInv, Pending
<1> QED
  BY <1>2, <1>3, <1>4 DEF Typed

\* The steps of the restart loop.
LEMMA LoopTyped ==
    ASSUME Typed, LoopNext \/ ServerFails
    PROVE  Typed'
<1> USE DEF Typed
<1>1. CASE LoadConfig
  <2>1. current + 1 \in Incarnations /\ current + 1 \in 0..Cardinality(Incarnations)
    <3>1. current + 1 <= 1 + Cardinality(Finished) + faults
      BY <1>1 DEF LoadConfig, CountInv, Pending
    <3>2. faults \in 0..MaxFaults /\ current \in Nat
      BY IncarnationsCounted DEF TypeOK
    <3> QED
      BY <3>1, <3>2, IncarnationsCounted, FinishedCounted, BoundsAssumption DEF Incarnations
  <2>2. file \in Configs
    BY <1>1 DEF LoadConfig, TypeOK
  <2>3. TypeOK'
    BY <1>1, <2>1, <2>2 DEF LoadConfig, TypeOK
  <2>4. \A e \in Edits : pc'[e] = pc[e]
    BY <1>1, <2>1, EditsApart DEF LoadConfig, TypeOK
  <2>5. KindInv'
    BY <1>1, <2>4 DEF LoadConfig, KindInv
  <2>6. CountInv'
    <3>1. Cardinality(Finished)' \in Nat /\ Cardinality(Finished) <= Cardinality(Finished)'
      BY <2>4, FinishedGrows
    <3>2. current' + Pending' <= 1 + Cardinality(Finished) + faults'
      BY <1>1 DEF LoadConfig, CountInv, Pending
    <3>3. current' + Pending' \in Nat /\ faults' \in Nat /\ Cardinality(Finished) \in Nat
      <4>1. current \in Nat /\ faults \in Nat
        BY IncarnationsCounted, BoundsAssumption DEF TypeOK
      <4>2. current' = current + 1 /\ faults' = faults /\ Pending' = 0
        BY <1>1 DEF LoadConfig, Pending
      <4> QED
        BY <4>1, <4>2, FinishedCounted
    <3> QED
      BY <3>1, <3>2, <3>3 DEF CountInv
  <2> QED
    BY <2>3, <2>5, <2>6
<1>2. CASE LoadFails \/ ReloadReceived \/ ServerReturns \/ BackoffOver \/ ServerFails
  <2>1. TypeOK'
    <3>1. loop' \in {"load", "backoff", "exited"}
      BY <1>2 DEF LoadFails, ReloadReceived, ServerReturns, BackoffOver, ServerFails
    <3>2. faults' \in 0..MaxFaults
      BY <1>2, BoundsAssumption
         DEF TypeOK, LoadFails, ReloadReceived, ServerReturns, BackoffOver, ServerFails
    <3>3. UNCHANGED <<file, current, served, signal, processVars, certVars, historyVars>>
      BY <1>2 DEF LoadFails, ReloadReceived, ServerReturns, BackoffOver, ServerFails
    <3> QED
      BY <3>1, <3>2, <3>3 DEF TypeOK
  <2>2. pc' = pc /\ kind' = kind /\ current' = current
    BY <1>2 DEF LoadFails, ReloadReceived, ServerReturns, BackoffOver, ServerFails
  <2>3. KindInv'
    BY <2>2 DEF KindInv
  <2>4. Pending' <= Pending /\ faults' >= faults
    BY <1>2, BoundsAssumption
       DEF TypeOK, Pending, LoadFails, ReloadReceived, ServerReturns, BackoffOver, ServerFails
  <2>5. Finished' = Finished
    BY <2>2 DEF Finished
  <2>6. /\ current \in Nat /\ Pending \in Nat /\ Pending' \in Nat
        /\ faults \in Nat /\ faults' \in Nat /\ Cardinality(Finished) \in Nat
    BY <2>1, IncarnationsCounted, FinishedCounted, BoundsAssumption DEF TypeOK, Pending
  <2>7. CountInv'
    BY <2>2, <2>4, <2>5, <2>6 DEF CountInv
  <2> QED
    BY <2>1, <2>3, <2>7
<1> QED
  BY <1>1, <1>2 DEF LoopNext

\* What a step of an edit, a save or an order leaves of the count: the loop
\* is where it was and nothing that is finished begins again.
LEMMA CountKept ==
    ASSUME TypeOK, TypeOK', CountInv,
           loopVars' = loopVars, faults <= faults',
           \A e \in Edits : pc[e] = "done" => pc'[e] = "done"
    PROVE  CountInv'
<1>1. Cardinality(Finished)' \in Nat /\ Cardinality(Finished) <= Cardinality(Finished)'
  BY FinishedGrows
<1>2. current' = current /\ Pending' = Pending
  BY DEF Pending
<1>3. /\ current \in Nat /\ Pending \in Nat /\ faults \in Nat /\ faults' \in Nat
      /\ Cardinality(Finished) \in Nat
  BY IncarnationsCounted, FinishedCounted, BoundsAssumption DEF TypeOK, Pending
<1> QED
  BY <1>1, <1>2, <1>3 DEF CountInv

\* Begin leaves the loop alone and knows its handler.
LEMMA BeginTyped ==
    ASSUME TypeOK, NEW e \in Edits, NEW k \in Kinds, Begin(e, k)
    PROVE  /\ kind' = [kind EXCEPT ![e] = k]
           /\ kind' \in [Edits -> Kinds \cup {"none", "certificate"}]
           /\ store' \in [Edits -> 0..Cardinality(Incarnations)]
           /\ UNCHANGED <<file, loopVars, certVars, saved, faults>>
<1>1. /\ kind' = [kind EXCEPT ![e] = k]
      /\ UNCHANGED <<file, loopVars, certVars, saved, faults>>
  BY DEF Begin
<1>2. kind' \in [Edits -> Kinds \cup {"none", "certificate"}]
  BY <1>1 DEF TypeOK
<1>3. store' \in [Edits -> 0..Cardinality(Incarnations)]
  <2>1. PICK n \in {0, current} : store' = [store EXCEPT ![e] = n]
    BY DEF Begin
  <2>2. n \in 0..Cardinality(Incarnations)
    BY IncarnationsCounted DEF TypeOK
  <2> QED
    BY <2>1, <2>2 DEF TypeOK
<1> QED
  BY <1>1, <1>2, <1>3

\* What is common to the beginnings of edits: one edit is set to a state it
\* was not in, and its handler fits the state.
LEMMA BeginningTyped ==
    ASSUME Typed, NEW e \in Edits, NEW k \in Kinds, Begin(e, k),
           NEW s \in Busy \cup {"form", "failed"},
           pc[e] # "done", pc' = [pc EXCEPT ![e] = s],
           s \in {"saving", "writing"} => k \in SaveKinds,
           s = "form" => k \in {"setup", "letsencrypt"},
           copy' \in [Processes -> Configs], risked' \subseteq Edits
    PROVE  Typed'
<1> USE DEF Typed
<1>1. /\ kind' = [kind EXCEPT ![e] = k]
      /\ kind' \in [Edits -> Kinds \cup {"none", "certificate"}]
      /\ store' \in [Edits -> 0..Cardinality(Incarnations)]
      /\ UNCHANGED <<file, loopVars, certVars, saved, faults>>
  BY BeginTyped
<1>2. pc' \in [Processes -> Busy \cup {"idle", "form", "check", "done", "failed"}]
  BY DEF TypeOK
<1>3. TypeOK'
  BY <1>1, <1>2 DEF TypeOK
<1>4. KindInv'
  BY <1>1, EditsApart DEF KindInv, TypeOK
<1>5. \A f \in Edits : pc[f] = "done" => pc'[f] = "done"
  BY EditsApart DEF TypeOK
<1>6. faults <= faults'
  BY <1>1, BoundsAssumption DEF TypeOK
<1>7. CountInv'
  BY <1>1, <1>3, <1>5, <1>6, CountKept
<1> QED
  BY <1>3, <1>4, <1>7

\* What a form shows is among what its configuration has.
LEMMA FormTyped ==
    ASSUME TypeOK, NEW c \in Configs
    PROVE  FormEdits(c) \subseteq c.edits /\ FormEdits(c) \in SUBSET Edits
BY DEF FormEdits, Configs

\* The steps of an edit.
LEMMA EditTyped ==
    ASSUME Typed, NEW e \in Edits, EditNext(e)
    PROVE  Typed'
<1> USE DEF Typed
<1>0. e \in Processes
  BY EditsApart
<1>1. CASE OpenPage(e)
  <2>1. PICK k \in {"setup", "letsencrypt"} : Begin(e, k)
    BY <1>1 DEF OpenPage
  <2>2. PICK c \in Configs : copy' = [copy EXCEPT ![e] = [c EXCEPT !.edits = FormEdits(c)]]
    <3>1. served \in Configs /\ \A f \in Edits : copy[f] \in Configs
      BY EditsApart DEF TypeOK
    <3> QED
      BY <1>1, <3>1 DEF OpenPage
  <2>3. [c EXCEPT !.edits = FormEdits(c)] \in Configs
    BY FormTyped DEF Configs
  <2>4. copy' \in [Processes -> Configs]
    BY <2>2, <2>3 DEF TypeOK
  <2>5. /\ pc[e] # "done" /\ pc' = [pc EXCEPT ![e] = "form"]
        /\ risked' \subseteq Edits /\ k \in Kinds
    BY <1>1, <2>1 DEF OpenPage, TypeOK
  <2> QED
    BY <2>1, <2>4, <2>5, BeginningTyped
<1>2. CASE SubmitForm(e)
  <2>1. /\ pc[e] = "form" /\ Begin(e, kind[e]) /\ pc' = [pc EXCEPT ![e] = "saving"]
        /\ kind[e] \in {"setup", "letsencrypt"}
    BY <1>2 DEF SubmitForm, KindInv
  <2>2. PICK b \in BOOLEAN : copy' = [copy EXCEPT ![e] =
           [edits |-> (file.edits \ FormEdits(file)) \cup copy[e].edits \cup {e},
            cert |-> file.cert, le |-> b]]
    BY <1>2 DEF SubmitForm
  <2>3. file \in Configs /\ copy[e] \in Configs
    BY <1>0, <1>2 DEF SubmitForm, TypeOK
  <2>4. [edits |-> (file.edits \ FormEdits(file)) \cup copy[e].edits \cup {e},
         cert |-> file.cert, le |-> b] \in Configs
    BY <2>3, FormTyped DEF Configs
  <2>5. copy' \in [Processes -> Configs]
    BY <2>2, <2>4 DEF TypeOK
  <2>6. risked' \subseteq Edits
    BY <1>2, <2>3, FormTyped DEF SubmitForm, TypeOK, Overlap, Others
  <2> QED
    BY <2>1, <2>5, <2>6, BeginningTyped DEF SaveKinds
<1>3. CASE SubmitFails(e)
  <2>1. /\ pc[e] = "form" /\ Begin(e, kind[e]) /\ pc' = [pc EXCEPT ![e] = "failed"]
        /\ kind[e] \in {"setup", "letsencrypt"}
        /\ copy' = copy /\ risked' = risked
    BY <1>3 DEF SubmitFails, KindInv
  <2>2. copy' \in [Processes -> Configs] /\ risked' \subseteq Edits
    BY <2>1 DEF TypeOK
  <2> QED
    BY <2>1, <2>2, BeginningTyped
<1>4. CASE BeginEdit(e)
  <2>1. PICK k \in {"secret", "password"} : Begin(e, k)
    BY <1>4 DEF BeginEdit
  <2>2. file \in Configs
    BY <1>4 DEF BeginEdit, TypeOK
  <2>3. [file EXCEPT !.edits = @ \cup {e}] \in Configs
    BY <2>2 DEF Configs
  <2>4. copy' \in [Processes -> Configs] /\ risked' \subseteq Edits
    BY <1>4, <2>3 DEF BeginEdit, TypeOK, Overlap, Others
  <2>5. pc[e] # "done" /\ pc' = [pc EXCEPT ![e] = "saving"] /\ k \in SaveKinds /\ k \in Kinds
    BY <1>4, <2>1 DEF BeginEdit, SaveKinds
  <2> QED
    BY <2>1, <2>4, <2>5, BeginningTyped
<1>5. CASE BeginFails(e)
  <2>1. PICK k \in {"secret", "password"} : Begin(e, k)
    BY <1>5 DEF BeginFails
  <2>2. copy' \in [Processes -> Configs] /\ risked' \subseteq Edits /\ k \in Kinds
    BY <1>5, <2>1 DEF BeginFails, TypeOK
  <2>3. pc[e] # "done" /\ pc' = [pc EXCEPT ![e] = "failed"]
    BY <1>5 DEF BeginFails
  <2> QED
    BY <2>1, <2>2, <2>3, BeginningTyped
<1>6. CASE BeginRestart(e)
  <2>1. /\ pc[e] # "done" /\ pc' = [pc EXCEPT ![e] = "signal"] /\ Begin(e, "restart")
        /\ copy' \in [Processes -> Configs] /\ risked' \subseteq Edits
    BY <1>6 DEF BeginRestart, TypeOK
  <2> QED
    BY <2>1, BeginningTyped
<1>7. CASE SendReload(e)
  <2>1. TypeOK'
    <3>1. pc' \in [Processes -> Busy \cup {"idle", "form", "check", "done", "failed"}]
      BY <1>7 DEF SendReload, TypeOK
    <3>2. signal' \in BOOLEAN
      BY <1>7 DEF SendReload, TypeOK
    <3> QED
      BY <1>7, <3>1, <3>2 DEF SendReload, TypeOK
  <2>2. KindInv'
    BY <1>7, EditsApart DEF SendReload, KindInv, TypeOK
  <2>3. Cardinality(Finished)' = Cardinality(Finished) + 1
    BY <1>7, OneMoreFinished DEF SendReload
  <2>4. Pending' <= Pending + 1 /\ Pending \in Nat /\ Pending' \in Nat
    BY DEF Pending
  <2>5. current' = current /\ faults' = faults /\ current \in Nat /\ faults \in Nat
    BY <1>7, IncarnationsCounted, BoundsAssumption DEF SendReload, TypeOK
  <2>6. CountInv'
    BY <2>3, <2>4, <2>5, FinishedCounted DEF CountInv
  <2> QED
    BY <2>1, <2>2, <2>6
<1> QED
  BY <1>1, <1>2, <1>3, <1>4, <1>5, <1>6, <1>7 DEF EditNext

\* The steps of whoever saves, an edit or a renewal.
LEMMA SaveTyped ==
    ASSUME Typed, NEW p \in Processes, SaveNext(p)
    PROVE  Typed'
<1> USE DEF Typed
<1>1. /\ UNCHANGED <<loopVars, kind, copy, store, certVars>>
      /\ faults <= faults' /\ faults' \in 0..MaxFaults
      /\ pc[p] \in {"saving", "writing"}
  BY BoundsAssumption DEF SaveNext, Truncate, Write, WriteFails, TypeOK
<1>2. PICK s : /\ pc' = [pc EXCEPT ![p] = s]
               /\ s \in Busy \cup {"check", "done", "failed"}
               /\ p \in Edits /\ s \in {"saving", "writing"} => pc[p] \in {"saving", "writing"}
               /\ s # "form"
  <2>1. CASE Truncate(p)
    BY <1>1, <2>1 DEF Truncate
  <2>2. CASE Write(p)
    <3>1. KindOf(p) \in {"setup", "letsencrypt", "certificate", "secret", "password", "renewal"}
      BY <1>1 DEF KindOf, KindInv, SaveKinds
    <3>2. AfterSave[KindOf(p)] \in {"done", "acme", "signal", "check"}
      BY <3>1 DEF AfterSave
    <3> QED
      BY <1>1, <2>2, <3>2 DEF Write
  <2>3. CASE WriteFails(p)
    BY <2>3 DEF WriteFails
  <2> QED
    BY <2>1, <2>2, <2>3 DEF SaveNext
<1>3. file' \in Configs \cup {Torn} /\ saved' \subseteq Edits /\ risked' \subseteq Edits
  BY DEF SaveNext, Truncate, Write, WriteFails, TypeOK, Begun
<1>4. TypeOK'
  <2>1. pc' \in [Processes -> Busy \cup {"idle", "form", "check", "done", "failed"}]
    BY <1>2 DEF TypeOK
  <2> QED
    BY <1>1, <1>3, <2>1 DEF TypeOK
<1>5. KindInv'
  BY <1>1, <1>2, EditsApart DEF KindInv, TypeOK
<1>6. \A e \in Edits : pc[e] = "done" => pc'[e] = "done"
  BY <1>1, <1>2, EditsApart DEF TypeOK
<1> QED
  BY <1>1, <1>4, <1>5, <1>6, CountKept

\* The steps of an order.
LEMMA AcmeTyped ==
    ASSUME Typed, NEW p \in Processes, AcmeNext(p)
    PROVE  Typed'
<1> USE DEF Typed
<1>1. CASE AcmeFails(p)
  <2>1. /\ UNCHANGED <<file, loopVars, kind, copy, store, certVars, historyVars, faults>>
        /\ pc[p] = "acme" /\ \E s \in {"failed", "check"} : pc' = [pc EXCEPT ![p] = s]
    BY <1>1 DEF AcmeFails
  <2>2. TypeOK'
    BY <2>1 DEF TypeOK
  <2>3. KindInv' /\ \A e \in Edits : pc[e] = "done" => pc'[e] = "done"
    BY <2>1, EditsApart DEF KindInv, TypeOK
  <2>4. faults <= faults'
    BY <2>1, BoundsAssumption DEF TypeOK
  <2> QED
    BY <2>1, <2>2, <2>3, <2>4, CountKept
<1>2. CASE AcmeSucceeds(p) \/ AcmeFallsBack(p)
  <2>1. Obtain(p)
    BY <1>2 DEF AcmeSucceeds, AcmeFallsBack
  <2>2. /\ faults <= faults' /\ faults' \in 0..MaxFaults /\ authorized' \in BOOLEAN
    <3>1. faults \in 0..MaxFaults /\ authorized \in BOOLEAN
      BY DEF TypeOK
    <3>2. CASE AcmeSucceeds(p)
      BY <3>1, <3>2, BoundsAssumption DEF AcmeSucceeds
    <3>3. CASE AcmeFallsBack(p)
      BY <3>1, <3>3, BoundsAssumption DEF AcmeFallsBack
    <3> QED
      BY <1>2, <3>2, <3>3
  <2>3. /\ issued' \in 0..MaxCerts /\ issued + 1 \in 0..MaxCerts /\ due' \subseteq 1..issued'
    BY <2>1, BoundsAssumption DEF Obtain, TypeOK
  <2>4. copy' \in [Processes -> Configs]
    <3>1. copy[p] \in Configs
      BY DEF TypeOK
    <3>2. [edits |-> copy[p].edits, cert |-> issued + 1, le |-> TRUE] \in Configs
      BY <2>3, <3>1 DEF Configs
    <3> QED
      BY <2>1, <3>2 DEF Obtain, TypeOK
  <2>5. /\ kind' \in [Edits -> Kinds \cup {"none", "certificate"}]
        /\ \A e \in Edits : kind'[e] = IF e = p THEN "certificate" ELSE kind[e]
    BY <2>1 DEF Obtain, TypeOK
  <2>6. /\ pc' = [pc EXCEPT ![p] = "saving"] /\ pc[p] = "acme"
        /\ pc' \in [Processes -> Busy \cup {"idle", "form", "check", "done", "failed"}]
    BY <2>1 DEF Obtain, TypeOK
  <2>7. TypeOK'
    BY <2>1, <2>2, <2>3, <2>4, <2>5, <2>6 DEF Obtain, TypeOK
  <2>8. KindInv' /\ \A e \in Edits : pc[e] = "done" => pc'[e] = "done"
    BY <2>5, <2>6, EditsApart DEF KindInv, SaveKinds, TypeOK
  <2>9. loopVars' = loopVars
    BY <2>1 DEF Obtain
  <2> QED
    BY <2>2, <2>7, <2>8, <2>9, CountKept
<1> QED
  BY <1>1, <1>2 DEF AcmeNext

\* The process dies, a renewal is due, a certificate comes near its end.
LEMMA OtherTyped ==
    ASSUME Typed, \/ \E i \in Incarnations : RenewalNeeded(i)
                  \/ ExpiresSoon \/ Crash \/ UNCHANGED vars
    PROVE  Typed'
<1> USE DEF Typed
<1>1. ASSUME NEW i \in Incarnations, RenewalNeeded(i)
      PROVE  Typed'
  <2>1. /\ pc' = [pc EXCEPT ![i] = "acme"]
        /\ UNCHANGED <<file, loopVars, kind, copy, store, certVars, historyVars, faults>>
    BY <1>1 DEF RenewalNeeded
  <2>2. TypeOK'
    BY <2>1 DEF TypeOK
  <2>3. \A e \in Edits : pc'[e] = pc[e]
    BY <2>1, EditsApart DEF TypeOK
  <2>4. KindInv'
    BY <2>1, <2>3 DEF KindInv
  <2>5. faults <= faults'
    BY <2>1, BoundsAssumption DEF TypeOK
  <2> QED
    BY <2>1, <2>2, <2>3, <2>4, <2>5, CountKept
<1>2. CASE ExpiresSoon \/ UNCHANGED vars
  <2>1. /\ UNCHANGED <<file, loopVars, processVars, authorized, issued, historyVars, faults>>
        /\ due' \subseteq 1..issued
    BY <1>2 DEF ExpiresSoon, TypeOK, vars
  <2>2. TypeOK'
    BY <2>1 DEF TypeOK
  <2>3. KindInv' /\ faults <= faults'
    BY <2>1, BoundsAssumption DEF KindInv, TypeOK
  <2> QED
    BY <2>1, <2>2, <2>3, CountKept
<1>3. CASE Crash
  <2>1. /\ UNCHANGED <<file, current, served, kind, copy, store, certVars, historyVars>>
        /\ loop' = "load" /\ signal' = FALSE
        /\ faults' = faults + 1 /\ faults' \in 0..MaxFaults
    BY <1>3, BoundsAssumption DEF Crash, TypeOK
  <2>2. \A q \in Processes : pc'[q] \in {"idle", "failed", pc[q]}
    BY <1>3 DEF Crash
  <2>3. \A e \in Edits : pc'[e] \in {"failed", pc[e]} /\ (pc[e] = "done" => pc'[e] = "done")
    BY <1>3, EditsApart DEF Crash
  <2>4. TypeOK'
    <3>1. pc' \in [Processes -> Busy \cup {"idle", "form", "check", "done", "failed"}]
      BY <1>3, <2>2 DEF Crash, TypeOK
    <3> QED
      BY <2>1, <3>1 DEF TypeOK
  <2>5. KindInv'
    BY <2>1, <2>3 DEF KindInv
  <2>6. CountInv'
    <3>1. Cardinality(Finished)' \in Nat /\ Cardinality(Finished) <= Cardinality(Finished)'
      BY <2>3, FinishedGrows
    <3>2. Pending' = 1 /\ Pending \in {0, 1}
      BY <2>1 DEF Pending
    <3>3. current' = current /\ current \in Nat /\ faults \in Nat
      BY <2>1, IncarnationsCounted, BoundsAssumption DEF TypeOK
    <3> QED
      BY <2>1, <3>1, <3>2, <3>3, FinishedCounted DEF CountInv
  <2> QED
    BY <2>4, <2>5, <2>6
<1> QED
  BY <1>1, <1>2, <1>3

\* Every step keeps the types.
LEMMA StepTyped == Typed /\ [Next]_vars => Typed'
<1> SUFFICES ASSUME Typed, [Next]_vars PROVE Typed'
  OBVIOUS
<1> QED
  BY LoopTyped, EditTyped, SaveTyped, AcmeTyped, OtherTyped DEF Next

\* The types are kept: in particular there are never more incarnations than
\* finished edits and failures account for.
THEOREM LifecycleTyped == Spec => []TypeOK
<1>1. Typed => TypeOK
  BY DEF Typed
<1> QED
  BY <1>1, InitTyped, StepTyped, PTL DEF Spec

-----------------------------------------------------------------------------
(* What is saved stays, and is served.                                     *)

\* Nothing is saved yet that could be lost.
LEMMA InitKept == Init => EditInv /\ NothingLost /\ AnsweredEditsServed
BY EditsApart DEF Init, EditInv, CopyInv, OverlapInv, SavedInv, NothingLost, AnsweredEditsServed

\* An edit that was idle, or a form, is set to a state, with the overlap on
\* record: what a handler has to see to before it saves.
LEMMA BeginningKept ==
    ASSUME IInv, NEW e \in Edits, NEW k \in Kinds, Begin(e, k),
           NEW s \in {"form", "failed", "signal", "saving"},
           pc[e] \in {"idle", "form"}, pc' = [pc EXCEPT ![e] = s],
           s = "signal" => k = "restart",
           \A f \in Edits \ {e} : copy'[f] = copy[f],
           risked \subseteq risked',
           s = "saving" => /\ Overlap(e) \subseteq risked'
                           /\ e \in copy'[e].edits
                           /\ saved \ risked' \subseteq copy'[e].edits
    PROVE  EditInv' /\ NothingLost' /\ AnsweredEditsServed'
<1> USE DEF IInv, EditInv
<1>1. /\ kind' = [kind EXCEPT ![e] = k] /\ kind \in [Edits -> Kinds \cup {"none", "certificate"}]
      /\ UNCHANGED <<file, loopVars, certVars, saved, faults>>
  BY BeginTyped DEF Typed, TypeOK
<1>2. /\ pc'[e] = s
      /\ \A f \in Edits \ {e} : pc'[f] = pc[f] /\ kind'[f] = kind[f]
      /\ kind'[e] = k
  BY <1>1, EditsApart DEF Typed, TypeOK
<1>3. CopyInv'
  BY <1>1, <1>2 DEF CopyInv
<1>4. OverlapInv'
  <2> SUFFICES ASSUME NEW f \in Edits, NEW g \in Edits, f # g,
                      pc'[f] \in Writing, pc'[g] \in Writing
               PROVE  f \in risked'
    BY DEF OverlapInv
  <2>1. CASE f # e /\ g # e
    BY <1>2, <2>1 DEF OverlapInv
  <2>2. CASE f = e \/ g = e
    <3>1. s = "saving" /\ Overlap(e) \subseteq risked'
      BY <1>2, <2>2
    <3>2. PICK h \in Edits \ {e} : pc[h] \in Writing /\ f \in {e, h}
      BY <1>2, <2>2
    <3>3. f \in Overlap(e)
      BY <3>2 DEF Overlap, Others
    <3> QED
      BY <3>1, <3>3
  <2> QED
    BY <2>1, <2>2
<1>5. SavedInv'
  <2>1. saved \subseteq Edits /\ e \notin saved
    BY DEF SavedInv, Begun
  <2>2. \A f \in Edits \ {e} : pc[f] \notin {"idle", "form"} => pc'[f] \notin {"idle", "form"}
    BY <1>2
  <2>3. saved' \subseteq {f \in Edits : pc'[f] \notin {"idle", "form"}}
    BY <1>1, <2>1, <2>2 DEF SavedInv, Begun
  <2>4. \A f \in Edits : pc'[f] \in {"signal", "done"} /\ kind'[f] \in {"secret", "certificate"}
                            => f \in saved'
    BY <1>1, <1>2 DEF SavedInv
  <2> QED
    BY <2>3, <2>4 DEF SavedInv, Begun
<1>6. NothingLost'
  BY <1>1 DEF NothingLost
<1>7. AnsweredEditsServed'
  BY <1>1, <1>2 DEF AnsweredEditsServed
<1> QED
  BY <1>3, <1>4, <1>5, <1>6, <1>7

\* The steps of an edit.
LEMMA EditKept ==
    ASSUME IInv, NEW e \in Edits, EditNext(e)
    PROVE  EditInv' /\ NothingLost' /\ AnsweredEditsServed'
<1> USE DEF IInv, Typed
<1>0. /\ e \in Processes /\ pc \in [Processes -> Busy \cup {"idle", "form", "check", "done", "failed"}]
      /\ copy \in [Processes -> Configs] /\ kind[e] \in Kinds \cup {"none", "certificate"}
      /\ \A f \in Edits : f \in Processes
  BY EditsApart DEF TypeOK
<1>1. CASE OpenPage(e)
  <2>1. PICK k \in {"setup", "letsencrypt"} : Begin(e, k)
    BY <1>1 DEF OpenPage
  <2>2. /\ pc[e] = "idle" /\ pc' = [pc EXCEPT ![e] = "form"] /\ risked' = risked
        /\ \E c : copy' = [copy EXCEPT ![e] = c]
    BY <1>1 DEF OpenPage
  <2>3. \A f \in Edits \ {e} : copy'[f] = copy[f]
    BY <1>0, <2>2
  <2> QED
    BY <2>1, <2>2, <2>3, BeginningKept
<1>2. CASE SubmitForm(e)
  <2>1. /\ pc[e] = "form" /\ Begin(e, kind[e]) /\ pc' = [pc EXCEPT ![e] = "saving"]
        /\ kind[e] \in Kinds /\ file # Torn
        /\ risked' = risked \cup Overlap(e) \cup (FormEdits(file) \ copy[e].edits)
    BY <1>2 DEF SubmitForm, KindInv
  <2>2. PICK b \in BOOLEAN : copy' = [copy EXCEPT ![e] =
           [edits |-> (file.edits \ FormEdits(file)) \cup copy[e].edits \cup {e},
            cert |-> file.cert, le |-> b]]
    BY <1>2 DEF SubmitForm
  <2>3. copy'[e].edits = (file.edits \ FormEdits(file)) \cup copy[e].edits \cup {e}
    BY <1>0, <2>2
  <2>4. saved \ risked' \subseteq copy'[e].edits
    BY <2>1, <2>3 DEF NothingLost
  <2>5. \A f \in Edits \ {e} : copy'[f] = copy[f]
    BY <1>0, <2>2
  <2> QED
    BY <2>1, <2>3, <2>4, <2>5, BeginningKept
<1>3. CASE SubmitFails(e)
  <2>1. /\ pc[e] = "form" /\ Begin(e, kind[e]) /\ pc' = [pc EXCEPT ![e] = "failed"]
        /\ kind[e] \in Kinds /\ copy' = copy /\ risked' = risked
    BY <1>3 DEF SubmitFails, KindInv
  <2> QED
    BY <2>1, BeginningKept
<1>4. CASE BeginEdit(e)
  <2>1. PICK k \in {"secret", "password"} : Begin(e, k)
    BY <1>4 DEF BeginEdit
  <2>2. /\ pc[e] = "idle" /\ file # Torn /\ pc' = [pc EXCEPT ![e] = "saving"]
        /\ copy' = [copy EXCEPT ![e] = [file EXCEPT !.edits = @ \cup {e}]]
        /\ risked' = risked \cup Overlap(e)
    BY <1>4 DEF BeginEdit
  <2>3. file \in Configs
    BY <2>2 DEF TypeOK
  <2>4. copy'[e].edits = file.edits \cup {e}
    BY <1>0, <2>2, <2>3 DEF Configs
  <2>5. saved \ risked' \subseteq copy'[e].edits
    BY <2>2, <2>4 DEF NothingLost
  <2>6. \A f \in Edits \ {e} : copy'[f] = copy[f]
    BY <1>0, <2>2
  <2> QED
    BY <2>1, <2>2, <2>4, <2>5, <2>6, BeginningKept
<1>5. CASE BeginFails(e)
  <2>1. /\ \E k \in {"secret", "password"} : Begin(e, k)
        /\ pc[e] = "idle" /\ pc' = [pc EXCEPT ![e] = "failed"]
        /\ copy' = copy /\ risked' = risked
    BY <1>5 DEF BeginFails
  <2> QED
    BY <2>1, BeginningKept
<1>6. CASE BeginRestart(e)
  <2>1. /\ Begin(e, "restart") /\ pc[e] = "idle" /\ pc' = [pc EXCEPT ![e] = "signal"]
        /\ copy' = copy /\ risked' = risked
    BY <1>6 DEF BeginRestart
  <2> QED
    BY <2>1, BeginningKept
<1>7. CASE SendReload(e)
  <2>1. /\ pc[e] = "signal"
        /\ UNCHANGED <<file, loop, current, served, kind, copy, store, historyVars>>
        /\ loop = "running" => signal'
    BY <1>7 DEF SendReload
  <2>2. pc'[e] = "done" /\ \A f \in Edits \ {e} : pc'[f] = pc[f]
    BY <1>0, <1>7 DEF SendReload
  <2>3. CopyInv' /\ OverlapInv'
    BY <2>1, <2>2 DEF EditInv, CopyInv, OverlapInv
  <2>4. SavedInv'
    <3>1. saved' \subseteq {f \in Edits : pc'[f] \notin {"idle", "form"}}
      BY <2>1, <2>2 DEF EditInv, SavedInv, Begun
    <3>2. \A f \in Edits : pc'[f] \in {"signal", "done"} /\ kind'[f] \in {"secret", "certificate"}
                              => f \in saved'
      BY <2>1, <2>2 DEF EditInv, SavedInv
    <3> QED
      BY <3>1, <3>2 DEF SavedInv, Begun
  <2>5. NothingLost' /\ AnsweredEditsServed'
    BY <2>1, <2>2 DEF NothingLost, AnsweredEditsServed
  <2> QED
    BY <2>3, <2>4, <2>5 DEF EditInv
<1> QED
  BY <1>1, <1>2, <1>3, <1>4, <1>5, <1>6, <1>7 DEF EditNext

\* The steps of whoever saves.  What is at risk after a renewal's save is
\* what its copy lacks.
LEMMA SaveKept ==
    ASSUME IInv, NEW p \in Processes, SaveNext(p)
    PROVE  EditInv' /\ NothingLost' /\ AnsweredEditsServed'
<1> USE DEF IInv, EditInv, Typed
<1>0. /\ pc \in [Processes -> Busy \cup {"idle", "form", "check", "done", "failed"}]
      /\ \A f \in Edits : f \in Processes
      /\ p \notin Edits => \A f \in Edits : f # p
  BY EditsApart DEF TypeOK
<1>1. CASE Truncate(p)
  <2>1. /\ UNCHANGED <<loopVars, kind, copy, historyVars>> /\ file' = Torn
        /\ pc[p] = "saving" /\ pc'[p] = "writing"
        /\ \A f \in Edits : f # p => pc'[f] = pc[f]
    BY <1>0, <1>1 DEF Truncate
  <2>2. CopyInv' /\ OverlapInv'
    BY <2>1 DEF CopyInv, OverlapInv
  <2>3. SavedInv'
    BY <2>1 DEF SavedInv, Begun
  <2>4. NothingLost' /\ AnsweredEditsServed'
    BY <2>1 DEF NothingLost, AnsweredEditsServed
  <2> QED
    BY <2>2, <2>3, <2>4
<1>2. CASE WriteFails(p)
  <2>1. /\ UNCHANGED <<file, loopVars, kind, copy, historyVars>>
        /\ pc[p] = "writing" /\ pc'[p] \in {"failed", "check"}
        /\ \A f \in Edits : f # p => pc'[f] = pc[f]
    BY <1>0, <1>2 DEF WriteFails
  <2>2. CopyInv' /\ OverlapInv'
    BY <2>1 DEF CopyInv, OverlapInv
  <2>3. SavedInv'
    BY <2>1 DEF SavedInv, Begun
  <2>4. NothingLost' /\ AnsweredEditsServed'
    BY <2>1 DEF NothingLost, AnsweredEditsServed
  <2> QED
    BY <2>2, <2>3, <2>4
<1>3. CASE Write(p)
  <2>1. /\ UNCHANGED <<loopVars, kind, copy>> /\ pc[p] = "writing"
        /\ file' \in {copy[p], Torn}
        /\ saved' = saved \cup ({p} \cap Edits)
        /\ risked' = risked \cup (IF p \in Edits THEN {} ELSE Begun \ copy[p].edits)
    BY <1>3 DEF Write
  <2>2. /\ pc'[p] = AfterSave[KindOf(p)]
        /\ \A f \in Edits : f # p => pc'[f] = pc[f]
    BY <1>0, <1>3 DEF Write
  <2>3. CASE p \in Edits
    <3>1. /\ pc'[p] \in {"done", "acme", "signal"}
          /\ pc'[p] = "done" => kind[p] \notin {"secret", "certificate"}
      BY <2>1, <2>2, <2>3 DEF KindOf, KindInv, SaveKinds, AfterSave
    <3>2. saved' = saved \cup {p} /\ risked' = risked
      BY <2>1, <2>3
    <3>3. p \in copy[p].edits /\ saved \ risked \subseteq copy[p].edits
      BY <2>1, <2>3 DEF CopyInv
    <3>4. \A f \in Edits : f # p /\ pc[f] \in Writing => p \in risked
      BY <2>1, <2>3 DEF OverlapInv
    <3>5. CopyInv'
      BY <2>1, <2>2, <3>1, <3>2, <3>3, <3>4 DEF CopyInv
    <3>6. OverlapInv'
      BY <2>1, <2>2, <3>1, <3>2 DEF OverlapInv
    <3>7. SavedInv'
      BY <2>1, <2>2, <2>3, <3>1, <3>2 DEF SavedInv, Begun
    <3>8. NothingLost'
      BY <2>1, <3>2, <3>3 DEF NothingLost
    <3>9. AnsweredEditsServed'
      BY <2>1, <2>2, <3>1, <3>2 DEF AnsweredEditsServed
    <3> QED
      BY <3>5, <3>6, <3>7, <3>8, <3>9
  <2>4. CASE p \notin Edits
    <3>1. /\ saved' = saved /\ risked' = risked \cup (Begun \ copy[p].edits)
          /\ \A f \in Edits : pc'[f] = pc[f]
      BY <1>0, <2>1, <2>2, <2>4
    <3>2. CopyInv' /\ OverlapInv'
      BY <2>1, <3>1 DEF CopyInv, OverlapInv
    <3>3. SavedInv'
      BY <2>1, <3>1 DEF SavedInv, Begun
    <3>4. NothingLost'
      BY <2>1, <3>1 DEF NothingLost, SavedInv
    <3>5. AnsweredEditsServed'
      BY <2>1, <3>1 DEF AnsweredEditsServed
    <3> QED
      BY <3>2, <3>3, <3>4, <3>5
  <2> QED
    BY <2>3, <2>4
<1> QED
  BY <1>1, <1>2, <1>3 DEF SaveNext

\* The steps of the loop: the next incarnation serves what is in the file.
LEMMA LoopKept ==
    ASSUME IInv, LoopNext \/ ServerFails
    PROVE  EditInv' /\ NothingLost' /\ AnsweredEditsServed'
<1> USE DEF IInv, EditInv, Typed
<1>1. CASE LoadConfig
  <2>1. /\ UNCHANGED <<file, kind, historyVars>> /\ file # Torn /\ served' = file
        /\ \E i \in Nat : /\ pc' = [pc EXCEPT ![i] = "check"]
                          /\ copy' = [copy EXCEPT ![i] = file]
    <3>1. current + 1 \in Nat
      BY IncarnationsCounted DEF TypeOK
    <3> QED
      BY <1>1, <3>1 DEF LoadConfig
  <2>2. \A e \in Edits : pc'[e] = pc[e] /\ copy'[e] = copy[e]
    BY <2>1, EditsAssumption, EditsApart DEF TypeOK
  <2>3. CopyInv' /\ OverlapInv'
    BY <2>1, <2>2 DEF CopyInv, OverlapInv
  <2>4. SavedInv' /\ NothingLost'
    BY <2>1, <2>2 DEF SavedInv, NothingLost, Begun
  <2>5. AnsweredEditsServed'
    BY <2>1, <2>2 DEF SavedInv, NothingLost, AnsweredEditsServed
  <2> QED
    BY <2>3, <2>4, <2>5
<1>2. CASE LoadFails \/ ReloadReceived \/ ServerReturns \/ BackoffOver \/ ServerFails
  <2>1. /\ UNCHANGED <<file, pc, kind, copy, historyVars>> /\ loop' # "running"
    BY <1>2 DEF LoadFails, ReloadReceived, ServerReturns, BackoffOver, ServerFails
  <2> QED
    BY <2>1 DEF CopyInv, OverlapInv, SavedInv, Begun, NothingLost, AnsweredEditsServed
<1> QED
  BY <1>1, <1>2 DEF LoopNext

\* The steps of an order.
LEMMA AcmeKept ==
    ASSUME IInv, NEW p \in Processes, AcmeNext(p)
    PROVE  EditInv' /\ NothingLost' /\ AnsweredEditsServed'
<1> USE DEF IInv, EditInv, Typed
<1>0. /\ pc \in [Processes -> Busy \cup {"idle", "form", "check", "done", "failed"}]
      /\ copy \in [Processes -> Configs]
      /\ \A f \in Edits : f \in Processes
  BY EditsApart DEF TypeOK
<1>1. /\ UNCHANGED <<file, loopVars, historyVars>> /\ pc[p] = "acme"
      /\ pc'[p] \in {"saving", "failed", "check"}
      /\ \A f \in Edits : f # p => pc'[f] = pc[f] /\ copy'[f] = copy[f] /\ kind'[f] = kind[f]
      /\ copy'[p].edits = copy[p].edits
  <2>1. CASE AcmeFails(p)
    BY <1>0, <2>1 DEF AcmeFails
  <2>2. CASE AcmeSucceeds(p) \/ AcmeFallsBack(p)
    <3>1. Obtain(p)
      BY <2>2 DEF AcmeSucceeds, AcmeFallsBack
    <3> QED
      BY <1>0, <3>1 DEF Obtain
  <2> QED
    BY <2>1, <2>2 DEF AcmeNext
<1>2. CopyInv' /\ OverlapInv'
  BY <1>1 DEF CopyInv, OverlapInv
<1>3. SavedInv'
  BY <1>1 DEF SavedInv, Begun
<1>4. NothingLost' /\ AnsweredEditsServed'
  BY <1>1 DEF NothingLost, AnsweredEditsServed
<1> QED
  BY <1>2, <1>3, <1>4

\* The process dies, a renewal is due, a certificate comes near its end.
LEMMA OtherKept ==
    ASSUME IInv, \/ \E i \in Incarnations : RenewalNeeded(i)
                 \/ ExpiresSoon \/ Crash \/ UNCHANGED vars
    PROVE  EditInv' /\ NothingLost' /\ AnsweredEditsServed'
<1> USE DEF IInv, EditInv, Typed
<1>1. CASE (\E i \in Incarnations : RenewalNeeded(i)) \/ ExpiresSoon \/ UNCHANGED vars
  <2>1. UNCHANGED <<file, loopVars, kind, copy, historyVars>>
    BY <1>1 DEF RenewalNeeded, ExpiresSoon, vars
  <2>2. \A e \in Edits : pc'[e] = pc[e]
    BY <1>1, EditsApart DEF RenewalNeeded, ExpiresSoon, vars, TypeOK
  <2> QED
    BY <2>1, <2>2 DEF CopyInv, OverlapInv, SavedInv, Begun, NothingLost, AnsweredEditsServed
<1>2. CASE Crash
  <2>1. /\ UNCHANGED <<file, kind, copy, historyVars>> /\ loop' = "load"
        /\ \A e \in Edits : /\ pc'[e] \in {"failed", pc[e]}
                            /\ pc[e] \in {"idle", "form"} <=> pc'[e] \in {"idle", "form"}
    BY <1>2, EditsApart DEF Crash
  <2> QED
    BY <2>1 DEF CopyInv, OverlapInv, SavedInv, Begun, NothingLost, AnsweredEditsServed
<1> QED
  BY <1>1, <1>2

-----------------------------------------------------------------------------
\* Every step keeps the invariant.
LEMMA Inductive == IInv /\ [Next]_vars => IInv'
<1> SUFFICES ASSUME IInv, [Next]_vars PROVE IInv'
  OBVIOUS
<1>1. Typed'
  BY StepTyped DEF IInv
<1>2. EditInv' /\ NothingLost' /\ AnsweredEditsServed'
  BY EditKept, SaveKept, LoopKept, AcmeKept, OtherKept DEF Next
<1> QED
  BY <1>1, <1>2 DEF IInv

\* The invariant of the lifecycle.
LEMMA Invariant == Spec => []IInv
<1>1. Init => IInv
  BY InitTyped, InitKept DEF IInv
<1> QED
  BY <1>1, Inductive, PTL DEF Spec

\* What is saved stays in config.yaml, unless another writer was under way
\* at the same time or had read the file before.
THEOREM SavedStays == Spec => []NothingLost
<1>1. IInv => NothingLost
  BY DEF IInv
<1> QED
  BY <1>1, Invariant, PTL

\* A new tunnel secret or certificate is served once nothing is left to do
\* about it: no reload signal is lost for good.
THEOREM AnsweredServed == Spec => []AnsweredEditsServed
<1>1. IInv => AnsweredEditsServed
  BY DEF IInv
<1> QED
  BY <1>1, Invariant, PTL
-----------------------------------------------------------------------------
(* What makes a secret get lost.                                           *)

\* One edit is under way at a time, and no renewal.
AloneInv ==
    /\ \A e, f \in Edits : pc[e] \in Busy /\ pc[f] \in Busy => e = f
    /\ due = {}
    /\ \A i \in Incarnations : pc[i] \in {"idle", "check"}

\* No configuration has an edit nobody has begun.
KnownInv ==
    /\ \A e \in served.edits : pc[e] # "idle"
    /\ \A p \in Processes : \A e \in copy[p].edits : pc[e] # "idle"
    /\ file # Torn => \A e \in file.edits : pc[e] # "idle"

\* Only what a form shows is at risk.
RiskInv == \A e \in risked : pc[e] # "idle" /\ kind[e] \in FormKinds

SequentialInv == IInv /\ AloneInv /\ KnownInv /\ RiskInv

\* What configurations have, and what is at risk, are edits.
LEMMA EditsKnown ==
    ASSUME TypeOK
    PROVE  /\ Edits \subseteq Processes /\ Incarnations \subseteq Processes
           /\ Edits \cap Incarnations = {}
           /\ \A p \in Processes : copy[p].edits \subseteq Edits
           /\ served.edits \subseteq Edits
           /\ file # Torn => file.edits \subseteq Edits
           /\ risked \subseteq Edits
BY EditsApart DEF TypeOK, Configs, Processes

\* An edit begins when no other is under way.
LEMMA BeginningAlone ==
    ASSUME OneAtATime, SequentialInv, NEW e \in Edits, NEW k \in Kinds, Begin(e, k),
           NEW s \in {"form", "failed", "signal", "saving"},
           pc[e] \in {"idle", "form"}, pc' = [pc EXCEPT ![e] = s],
           pc[e] = "form" => k = kind[e],
           \A q \in Processes \ {e} : copy'[q] = copy[q],
           \A f \in copy'[e].edits : f \in Edits /\ (f = e \/ pc[f] # "idle"),
           \A f \in risked' :
              f \in risked \cup Overlap(e) \/ (f \in Edits /\ pc[f] # "idle"
                                                /\ kind[f] \in FormKinds)
    PROVE  AloneInv' /\ KnownInv' /\ RiskInv'
<1> USE DEF SequentialInv, IInv, Typed
<1>1. /\ kind' = [kind EXCEPT ![e] = k] /\ kind \in [Edits -> Kinds \cup {"none", "certificate"}]
      /\ UNCHANGED <<file, loopVars, certVars, saved, faults>>
  BY BeginTyped DEF TypeOK
<1>2. /\ pc'[e] = s /\ kind'[e] = k
      /\ \A q \in Processes \ {e} : pc'[q] = pc[q]
      /\ \A f \in Edits \ {e} : kind'[f] = kind[f]
  BY <1>1, EditsApart DEF TypeOK
<1>3. \A f \in Edits : pc[f] \notin Busy
  BY DEF Begin, MayBegin
<1>4. AloneInv'
  <2>1. \A f, g \in Edits : pc'[f] \in Busy /\ pc'[g] \in Busy => f = g
    BY <1>2, <1>3, EditsKnown
  <2>2. \A i \in Incarnations : pc'[i] \in {"idle", "check"}
    BY <1>2, EditsKnown DEF AloneInv
  <2>3. due' = {}
    BY <1>1 DEF AloneInv
  <2> QED
    BY <2>1, <2>2, <2>3 DEF AloneInv
<1>5. \A f \in Edits : f = e \/ pc[f] # "idle" => pc'[f] # "idle"
  BY <1>2, EditsKnown
<1>6. KnownInv'
  <2>1. \A p \in Processes : \A f \in copy'[p].edits : pc'[f] # "idle"
    BY <1>5, EditsKnown DEF KnownInv
  <2>2. \A f \in served'.edits : pc'[f] # "idle"
    BY <1>1, <1>5, EditsKnown DEF KnownInv
  <2>3. file' # Torn => \A f \in file'.edits : pc'[f] # "idle"
    BY <1>1, <1>5, EditsKnown DEF KnownInv
  <2> QED
    BY <2>1, <2>2, <2>3 DEF KnownInv
<1>7. RiskInv'
  <2>1. Overlap(e) = {}
    BY <1>3 DEF Overlap, Others
  <2>2. \A f \in risked' : f \in Edits /\ pc[f] # "idle" /\ kind[f] \in FormKinds
    BY <2>1, EditsKnown DEF RiskInv
  <2>3. \A f \in Edits : pc[f] # "idle" => kind'[f] = kind[f]
    BY <1>2
  <2> QED
    BY <1>5, <2>2, <2>3 DEF RiskInv
<1> QED
  BY <1>4, <1>6, <1>7

\* The steps of an edit.
LEMMA EditAlone ==
    ASSUME OneAtATime, SequentialInv, NEW e \in Edits, EditNext(e)
    PROVE  AloneInv' /\ KnownInv' /\ RiskInv'
<1> USE DEF SequentialInv, IInv, Typed
<1>0. /\ e \in Processes /\ pc \in [Processes -> Busy \cup {"idle", "form", "check", "done", "failed"}]
      /\ copy \in [Processes -> Configs]
      /\ pc[e] = "form" => kind[e] \in Kinds
  BY EditsApart DEF TypeOK, KindInv
<1>1. CASE OpenPage(e)
  <2>1. PICK k \in {"setup", "letsencrypt"} : Begin(e, k)
    BY <1>1 DEF OpenPage
  <2>2. PICK c \in {served} \cup {copy[f] : f \in Edits} :
           copy' = [copy EXCEPT ![e] = [c EXCEPT !.edits = FormEdits(c)]]
    BY <1>1 DEF OpenPage
  <2>3. c \in Configs /\ \A f \in c.edits : f \in Edits /\ pc[f] # "idle"
    BY <2>2, EditsKnown DEF KnownInv, TypeOK
  <2>4. copy'[e].edits = FormEdits(c)
    BY <1>0, <2>2, <2>3 DEF Configs
  <2>5. \A f \in copy'[e].edits : f \in Edits /\ pc[f] # "idle"
    BY <2>3, <2>4, FormTyped
  <2>6. \A q \in Processes \ {e} : copy'[q] = copy[q]
    BY <1>0, <2>2
  <2>7. pc[e] = "idle" /\ pc' = [pc EXCEPT ![e] = "form"] /\ risked' = risked
    BY <1>1 DEF OpenPage
  <2> QED
    BY <2>1, <2>5, <2>6, <2>7, BeginningAlone
<1>2. CASE SubmitForm(e)
  <2>1. /\ pc[e] = "form" /\ Begin(e, kind[e]) /\ pc' = [pc EXCEPT ![e] = "saving"]
        /\ file # Torn /\ file \in Configs
        /\ risked' = risked \cup Overlap(e) \cup (FormEdits(file) \ copy[e].edits)
    BY <1>2 DEF SubmitForm, TypeOK
  <2>2. PICK b \in BOOLEAN : copy' = [copy EXCEPT ![e] =
           [edits |-> (file.edits \ FormEdits(file)) \cup copy[e].edits \cup {e},
            cert |-> file.cert, le |-> b]]
    BY <1>2 DEF SubmitForm
  <2>3. copy'[e].edits = (file.edits \ FormEdits(file)) \cup copy[e].edits \cup {e}
    BY <1>0, <2>2
  <2>4. \A f \in file.edits \cup copy[e].edits : f \in Edits /\ pc[f] # "idle"
    BY <1>0, <2>1, EditsKnown DEF KnownInv
  <2>5. \A f \in FormEdits(file) : f \in Edits /\ pc[f] # "idle" /\ kind[f] \in FormKinds
    BY <2>4 DEF FormEdits
  <2>6. \A q \in Processes \ {e} : copy'[q] = copy[q]
    BY <1>0, <2>2
  <2>7. \A f \in copy'[e].edits : f \in Edits /\ (f = e \/ pc[f] # "idle")
    BY <2>3, <2>4
  <2>8. \A f \in risked' :
           f \in risked \cup Overlap(e) \/ (f \in Edits /\ pc[f] # "idle" /\ kind[f] \in FormKinds)
    BY <2>1, <2>5
  <2> QED
    BY <1>0, <2>1, <2>6, <2>7, <2>8, BeginningAlone
<1>3. CASE SubmitFails(e)
  <2>1. /\ pc[e] = "form" /\ Begin(e, kind[e]) /\ pc' = [pc EXCEPT ![e] = "failed"]
        /\ copy' = copy /\ risked' = risked
    BY <1>3 DEF SubmitFails
  <2>2. \A f \in copy'[e].edits : f \in Edits /\ pc[f] # "idle"
    BY <1>0, <2>1, EditsKnown DEF KnownInv
  <2> QED
    BY <1>0, <2>1, <2>2, BeginningAlone
<1>4. CASE BeginEdit(e)
  <2>1. PICK k \in {"secret", "password"} : Begin(e, k)
    BY <1>4 DEF BeginEdit
  <2>2. /\ pc[e] = "idle" /\ file # Torn /\ file \in Configs
        /\ pc' = [pc EXCEPT ![e] = "saving"]
        /\ copy' = [copy EXCEPT ![e] = [file EXCEPT !.edits = @ \cup {e}]]
        /\ risked' = risked \cup Overlap(e)
    BY <1>4 DEF BeginEdit, TypeOK
  <2>3. copy'[e].edits = file.edits \cup {e}
    BY <1>0, <2>2 DEF Configs
  <2>4. \A f \in copy'[e].edits : f \in Edits /\ (f = e \/ pc[f] # "idle")
    BY <2>2, <2>3, EditsKnown DEF KnownInv
  <2>5. \A q \in Processes \ {e} : copy'[q] = copy[q]
    BY <1>0, <2>2
  <2> QED
    BY <2>1, <2>2, <2>4, <2>5, BeginningAlone
<1>5. CASE BeginFails(e) \/ BeginRestart(e)
  <2>1. PICK k \in {"secret", "password", "restart"} : Begin(e, k)
    BY <1>5 DEF BeginFails, BeginRestart
  <2>2. /\ pc[e] = "idle" /\ copy' = copy /\ risked' = risked
        /\ \E s \in {"failed", "signal"} : pc' = [pc EXCEPT ![e] = s]
    BY <1>5 DEF BeginFails, BeginRestart
  <2>3. \A f \in copy'[e].edits : f \in Edits /\ pc[f] # "idle"
    BY <1>0, <2>2, EditsKnown DEF KnownInv
  <2> QED
    BY <2>1, <2>2, <2>3, BeginningAlone
<1>6. CASE SendReload(e)
  <2>1. /\ pc[e] = "signal" /\ pc' = [pc EXCEPT ![e] = "done"]
        /\ UNCHANGED <<file, loop, current, served, kind, copy, store, certVars, historyVars>>
    BY <1>6 DEF SendReload
  <2>2. pc'[e] = "done" /\ \A q \in Processes \ {e} : pc'[q] = pc[q]
    BY <1>0, <2>1
  <2>3. AloneInv'
    BY <2>1, <2>2, EditsKnown DEF AloneInv
  <2>4. \A f \in Edits : pc[f] # "idle" => pc'[f] # "idle"
    BY <2>2, EditsKnown
  <2>5. KnownInv' /\ RiskInv'
    BY <2>1, <2>4, EditsKnown DEF KnownInv, RiskInv
  <2> QED
    BY <2>3, <2>5
<1> QED
  BY <1>1, <1>2, <1>3, <1>4, <1>5, <1>6 DEF EditNext

\* The other steps: none of them begins an edit, and no renewal is needed
\* while no certificate comes near its expiry.
LEMMA RestAlone ==
    ASSUME ~Expiring, SequentialInv, [Next]_vars, ~\E e \in Edits : EditNext(e)
    PROVE  AloneInv' /\ KnownInv' /\ RiskInv'
<1> USE DEF SequentialInv, IInv, Typed
<1>0. /\ pc \in [Processes -> Busy \cup {"idle", "form", "check", "done", "failed"}]
      /\ copy \in [Processes -> Configs]
  BY DEF TypeOK
<1>1. CASE LoadConfig
  <2>1. PICK i \in Nat : /\ pc' = [pc EXCEPT ![i] = "check"]
                         /\ copy' = [copy EXCEPT ![i] = file]
    <3>1. current + 1 \in Nat
      BY IncarnationsCounted DEF TypeOK
    <3> QED
      BY <1>1, <3>1 DEF LoadConfig
  <2>2. /\ UNCHANGED <<file, kind, certVars, historyVars>> /\ file # Torn /\ served' = file
        /\ i \notin Edits
    BY <1>1, EditsAssumption DEF LoadConfig
  <2>3. \A f \in Edits : pc'[f] = pc[f]
    BY <1>0, <2>1, <2>2, EditsKnown
  <2>4. /\ \A q \in Processes : pc'[q] \in {pc[q], "check"}
        /\ \A q \in Processes : copy'[q] \in {copy[q], file}
    BY <1>0, <2>1
  <2>5. AloneInv'
    BY <2>2, <2>3, <2>4, EditsKnown DEF AloneInv
  <2>6. KnownInv' /\ RiskInv'
    BY <2>2, <2>3, <2>4, EditsKnown DEF KnownInv, RiskInv
  <2> QED
    BY <2>5, <2>6
<1>2. CASE LoadFails \/ ReloadReceived \/ ServerReturns \/ BackoffOver \/ ServerFails \/ UNCHANGED vars
  <2>1. UNCHANGED <<file, served, processVars, certVars, historyVars>>
    BY <1>2 DEF LoadFails, ReloadReceived, ServerReturns, BackoffOver, ServerFails, vars
  <2> QED
    BY <2>1 DEF AloneInv, KnownInv, RiskInv
<1>3. ASSUME NEW p \in Processes, SaveNext(p) \/ AcmeNext(p)
      PROVE  AloneInv' /\ KnownInv' /\ RiskInv'
  <2>1. /\ pc[p] \in Writing /\ served' = served /\ due' = due
        /\ \E s \in Busy \cup {"check", "done", "failed"} : pc' = [pc EXCEPT ![p] = s]
    <3>1. CASE SaveNext(p)
      <4>1. pc[p] = "writing" => AfterSave[KindOf(p)] \in Busy \cup {"check", "done"}
        BY DEF AfterSave, KindOf, KindInv, SaveKinds
      <4> QED
        BY <3>1, <4>1 DEF SaveNext, Truncate, Write, WriteFails
    <3>2. CASE AcmeNext(p)
      BY <3>2 DEF AcmeNext, AcmeSucceeds, AcmeFallsBack, AcmeFails, Obtain
    <3> QED
      BY <1>3, <3>1, <3>2
  <2>2. p \in Edits
    BY <2>1 DEF AloneInv, Processes
  <2>3. /\ pc'[p] # "idle" /\ \A q \in Processes \ {p} : pc'[q] = pc[q]
    BY <1>0, <2>1
  <2>4. AloneInv'
    BY <2>1, <2>2, <2>3, EditsKnown DEF AloneInv
  <2>5. \A f \in Edits : pc[f] # "idle" => pc'[f] # "idle"
    BY <2>3, EditsKnown
  <2>6. /\ \A q \in Processes : copy'[q].edits = copy[q].edits
        /\ \A f \in Edits : kind[f] \in FormKinds => kind'[f] \in FormKinds
    <3>1. CASE SaveNext(p) \/ AcmeFails(p)
      BY <3>1 DEF SaveNext, Truncate, Write, WriteFails, AcmeFails
    <3>2. CASE AcmeSucceeds(p) \/ AcmeFallsBack(p)
      BY <1>0, <3>2 DEF AcmeSucceeds, AcmeFallsBack, Obtain, FormKinds
    <3> QED
      BY <1>3, <3>1, <3>2 DEF AcmeNext
  <2>7. /\ file' \in {file, Torn} \cup {copy[q] : q \in Processes}
        /\ risked' = risked
    <3>1. CASE SaveNext(p)
      BY <2>2, <3>1 DEF SaveNext, Truncate, Write, WriteFails
    <3>2. CASE AcmeNext(p)
      BY <3>2 DEF AcmeNext, AcmeSucceeds, AcmeFallsBack, AcmeFails, Obtain
    <3> QED
      BY <1>3, <3>1, <3>2
  <2>8. KnownInv'
    BY <2>1, <2>5, <2>6, <2>7, EditsKnown DEF KnownInv
  <2>9. RiskInv'
    BY <2>5, <2>6, <2>7, EditsKnown DEF RiskInv
  <2> QED
    BY <2>4, <2>8, <2>9
<1>4. ASSUME NEW i \in Incarnations PROVE ~RenewalNeeded(i)
  BY DEF RenewalNeeded, AloneInv
<1>5. CASE Crash
  <2>1. /\ UNCHANGED <<file, served, kind, copy, certVars, historyVars>>
        /\ \A i \in Incarnations : pc'[i] = "idle"
        /\ \A f \in Edits : pc'[f] \in {"failed", pc[f]}
    BY <1>5, EditsKnown DEF Crash
  <2>2. AloneInv'
    BY <2>1 DEF AloneInv
  <2>3. KnownInv' /\ RiskInv'
    BY <2>1, EditsKnown DEF KnownInv, RiskInv
  <2> QED
    BY <2>2, <2>3
<1> QED
  BY <1>1, <1>2, <1>3, <1>4, <1>5 DEF Next, LoopNext, ExpiresSoon

\* While no certificate comes near its expiry, an administrator who makes one
\* edit at a time never loses a secret or a password: of what the code does,
\* only the renewal task's old copy takes them out of the file again.
THEOREM SecretsStayWithoutRenewal ==
    ASSUME OneAtATime, ~Expiring
    PROVE  Spec => []SecretsStay
<1>1. Init => SequentialInv
  <2> SUFFICES ASSUME Init PROVE SequentialInv
    OBVIOUS
  <2>1. IInv
    BY InitTyped, InitKept DEF IInv
  <2>2. AloneInv /\ RiskInv
    BY EditsKnown, <2>1 DEF Init, AloneInv, RiskInv, IInv, Typed
  <2>3. KnownInv
    BY DEF Init, KnownInv
  <2> QED
    BY <2>1, <2>2, <2>3 DEF SequentialInv
<1>2. SequentialInv /\ [Next]_vars => SequentialInv'
  <2> SUFFICES ASSUME SequentialInv, [Next]_vars PROVE SequentialInv'
    OBVIOUS
  <2>1. IInv'
    BY Inductive DEF SequentialInv
  <2>2. AloneInv' /\ KnownInv' /\ RiskInv'
    BY EditAlone, RestAlone
  <2> QED
    BY <2>1, <2>2 DEF SequentialInv
<1>3. SequentialInv => SecretsStay
  BY DEF SequentialInv, IInv, NothingLost, RiskInv, FormKinds, SecretsStay
<1> QED
  BY <1>1, <1>2, <1>3, PTL DEF Spec
=============================================================================
