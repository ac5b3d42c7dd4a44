--------------------------- MODULE ServerLifecycle ---------------------------
(***************************************************************************)
(* The server's life around config.yaml: the restart loop of               *)
(* `ryansend start` (src/main.rs), the admin panel's handlers that edit    *)
(* the file and ask for a reload (src/admin.rs, src/config.rs), and the    *)
(* certificate renewal task each incarnation leaves behind (src/tls.rs).   *)
(*                                                                         *)
(* Whoever saves the file writes a whole copy it read earlier, and the     *)
(* setup form sets everything it shows, which was read earlier still.  Of  *)
(* a configuration only two things are told apart: which administrator's   *)
(* edits it contains, and which certificate.                               *)
(***************************************************************************)
EXTENDS Naturals, FiniteSets

CONSTANTS
    Edits,        \* what the administrator does
    Torn,         \* the file while it is truncated or garbled
    OneAtATime,   \* the administrator waits for each answer before the next
                  \* edit
    Expiring,     \* certificates come within 30 days of their expiry
    MaxCerts,     \* bound: certificates ever issued
    MaxFaults     \* bound: crashes, failed writes, failed ACME accounts

ASSUME EditsAssumption  == IsFiniteSet(Edits) /\ Edits \cap Nat = {}
ASSUME ModesAssumption  == OneAtATime \in BOOLEAN /\ Expiring \in BOOLEAN
ASSUME BoundsAssumption == MaxCerts \in Nat \ {0} /\ MaxFaults \in Nat

\* Every load after the first follows an edit's signal or a crash.
Incarnations == 1..(1 + Cardinality(Edits) + MaxFaults)

\* A renewal task is named by the incarnation that started it.
Processes == Edits \cup Incarnations

Configs == [edits : SUBSET Edits, cert : 0..MaxCerts, le : BOOLEAN]

VARIABLES
    file,        \* config.yaml
    loop,        \* progress of the restart loop
    current,     \* the incarnation that serves, or served last
    served,      \* the configuration it loaded
    signal,      \* a reload signal its receivers have yet to handle
    pc,          \* process -> its progress
    kind,        \* edit -> the handler that carries it out
    copy,        \* process -> the configuration it holds; of an edit that is
                 \* still a form in the browser, what the form shows
    store,       \* edit -> the incarnation whose challenge_store it uses, or 0
    authorized,  \* Let's Encrypt has a valid authorization for the domain
    due,         \* certificates within 30 days of their expiry
    issued,      \* number of certificates issued
    saved,       \* edits whose save succeeded (history)
    risked,      \* edits another writer could not have seen (history)
    faults       \* failures so far

loopVars    == <<loop, current, served, signal>>
processVars == <<pc, kind, copy, store>>
certVars    == <<authorized, due, issued>>
historyVars == <<saved, risked>>
vars == <<file, loopVars, processVars, certVars, historyVars, faults>>

\* setup: the setup form; letsencrypt: the form with a certificate request,
\* certificate: the same when it has the certificate; secret: a new tunnel
\* secret; password: `ryansend set-password`, a process of its own.
Kinds == {"setup", "letsencrypt", "secret", "password", "restart"}

\* Mutant: no reload after a new secret.
AfterSaveNoReload == [setup |-> "done", password |-> "done", letsencrypt |-> "acme",
                      certificate |-> "signal", secret |-> "done", renewal |-> "check"]

\* Where a process goes on after its save.
AfterSave == [setup |-> "done", password |-> "done", letsencrypt |-> "acme",
              certificate |-> "signal", secret |-> "signal", renewal |-> "check"]

FormKinds == {"setup", "letsencrypt", "certificate"}

FormEdits(c) == {e \in c.edits : kind[e] \in FormKinds}

KindOf(p) == IF p \in Edits THEN kind[p] ELSE "renewal"
StoreOf(p) == IF p \in Edits THEN store[p] ELSE p

Alive == loop # "exited"
Writing == {"saving", "writing", "acme"}
Busy == Writing \cup {"signal"}
Fault == faults < MaxFaults /\ faults' = faults + 1

\* HTTP-01: Let's Encrypt asks the server that listens now for the token the
\* process put in its incarnation's challenge_store.
ChallengeServed(p) == loop = "running" /\ StoreOf(p) = current

-----------------------------------------------------------------------------
\* A new installation, or an old one with a certificate.
Init ==
    /\ issued \in {0, 1}
    /\ file = [edits |-> {}, cert |-> issued, le |-> issued = 1]
    /\ loop = "load"
    /\ current = 0
    /\ served = file
    /\ signal = FALSE
    /\ pc = [p \in Processes |-> "idle"]
    /\ kind = [e \in Edits |-> "none"]
    /\ copy = [p \in Processes |-> file]
    /\ store = [e \in Edits |-> 0]
    /\ authorized = FALSE
    /\ due = {}
    /\ saved = {} /\ risked = {}
    /\ faults = 0

-----------------------------------------------------------------------------
(* The restart loop.  Reading the file and subscribing to the signal are   *)
(* one step: every signal is sent half a second after the save it follows. *)

\* Mutant: a file that does not parse is served all the same.
LoadConfigUnchecked ==
    /\ loop = "load" /\ current' = current + 1
    /\ served' = file
    /\ loop' = "running" /\ signal' = FALSE
    /\ pc' = [pc EXCEPT ![current + 1] = "check"]
    /\ copy' = [copy EXCEPT ![current + 1] = file]
    /\ UNCHANGED <<file, kind, store, certVars, historyVars, faults>>

LoadConfig ==
    /\ loop = "load" /\ file # Torn
    /\ current' = current + 1
    /\ served' = file
    /\ loop' = "running" /\ signal' = FALSE
    /\ pc' = [pc EXCEPT ![current + 1] = "check"]     \* start_renewal_task
    /\ copy' = [copy EXCEPT ![current + 1] = file]
    /\ UNCHANGED <<file, kind, store, certVars, historyVars, faults>>

\* load_config fails, and with it `start`.
LoadFails ==
    /\ loop = "load" /\ file = Torn
    /\ loop' = "exited"
    /\ UNCHANGED <<file, current, served, signal, processVars, certVars,
                   historyVars, faults>>

\* Mutant: the servers go on with the configuration they have.
ReloadReceivedKept ==
    /\ loop = "running" /\ signal
    /\ signal' = FALSE
    /\ UNCHANGED <<file, loop, current, served, processVars, certVars,
                   historyVars, faults>>

\* The loop's own receiver gets the signal.
ReloadReceived ==
    /\ loop = "running" /\ signal
    /\ loop' = "load"
    /\ UNCHANGED <<file, current, served, signal, processVars, certVars,
                   historyVars, faults>>

\* Mutant: a server that returns ends the process.
ServerReturnsForGood ==
    /\ loop = "running" /\ signal
    /\ loop' = "exited"
    /\ UNCHANGED <<file, current, served, signal, processVars, certVars,
                   historyVars, faults>>

\* One of the servers sees the signal first and returns: select! polls its
\* branches in random order, and the servers have receivers of their own.
\* Within 30 seconds of the start that is taken for a crash.
ServerReturns ==
    /\ loop = "running" /\ signal
    /\ loop' \in {"load", "backoff"}
    /\ UNCHANGED <<file, current, served, signal, processVars, certVars,
                   historyVars, faults>>

\* A server fails, on a port that is taken for one: so does `start`.
ServerFails ==
    /\ Fault
    /\ loop = "running"
    /\ loop' = "exited"
    /\ UNCHANGED <<file, current, served, signal, processVars, certVars,
                   historyVars>>

BackoffOver ==
    /\ loop = "backoff"
    /\ loop' = "load"
    /\ UNCHANGED <<file, current, served, signal, processVars, certVars,
                   historyVars, faults>>

-----------------------------------------------------------------------------
(* The administrator's edits.                                              *)

MayBegin == OneAtATime => \A f \in Edits : pc[f] \notin Busy

\* The panel is reached while the servers run.  Edits under way at the same
\* time risk each other.
Begin(e, k) ==
    /\ MayBegin
    /\ k = "password" \/ loop = "running"
    /\ kind' = [kind EXCEPT ![e] = k]
    /\ store' = [store EXCEPT ![e] = IF k = "letsencrypt" THEN current ELSE 0]
    /\ UNCHANGED <<file, loopVars, certVars, saved, faults>>

Others(e) == {f \in Edits \ {e} : pc[f] \in Writing}

Overlap(e) == IF Others(e) = {} THEN {} ELSE Others(e) \cup {e}

\* The setup form as admin_setup_page fills it in, from the configuration
\* its server was started with, or as an earlier submission answered it,
\* from the configuration that submission made.
OpenPage(e) ==
    /\ pc[e] = "idle"
    /\ \E k \in {"setup", "letsencrypt"} : Begin(e, k)
    /\ \E c \in {served} \cup {copy[f] : f \in {g \in Edits : pc[g] \in {"done", "failed"}
                                                  /\ kind[g] \in {"setup", "letsencrypt"}}} :
         copy' = [copy EXCEPT ![e] = [c EXCEPT !.edits = FormEdits(c)]]
    /\ pc' = [pc EXCEPT ![e] = "form"]
    /\ UNCHANGED risked

\* load_config fails while the file is torn, and the edit with it; a request
\* for a certificate may also lack an address or a domain.
SubmitFails(e) ==
    /\ pc[e] = "form" /\ Begin(e, kind[e])
    /\ file = Torn \/ kind[e] = "letsencrypt"
    /\ pc' = [pc EXCEPT ![e] = "failed"]
    /\ UNCHANGED <<copy, risked>>

\* admin_setup_handler: load_config, then every field of the form is set in
\* the copy, use_letsencrypt_cert included.  What the form does not show is
\* left as it was loaded.
SubmitForm(e) ==
    /\ pc[e] = "form" /\ Begin(e, kind[e])
    /\ file # Torn
    /\ \E b \in BOOLEAN : copy' = [copy EXCEPT ![e] =
         [edits |-> (file.edits \ FormEdits(file)) \cup copy[e].edits \cup {e},
          cert |-> file.cert, le |-> b]]
    /\ risked' = risked \cup Overlap(e) \cup (FormEdits(file) \ copy[e].edits)
    /\ pc' = [pc EXCEPT ![e] = "saving"]

BeginFails(e) ==
    /\ pc[e] = "idle" /\ file = Torn
    /\ \E k \in {"secret", "password"} : Begin(e, k)
    /\ pc' = [pc EXCEPT ![e] = "failed"]
    /\ UNCHANGED <<copy, risked>>

\* Mutant: the handler edits the configuration its server was started with.
BeginEditStale(e) ==
    /\ pc[e] = "idle"
    /\ \E k \in {"secret", "password"} : Begin(e, k)
    /\ copy' = [copy EXCEPT ![e] = [served EXCEPT !.edits = @ \cup {e}]]
    /\ risked' = risked \cup Overlap(e)
    /\ pc' = [pc EXCEPT ![e] = "saving"]

\* load_config, then the edit is made in the copy.
BeginEdit(e) ==
    /\ pc[e] = "idle" /\ file # Torn
    /\ \E k \in {"secret", "password"} : Begin(e, k)
    /\ copy' = [copy EXCEPT ![e] = [file EXCEPT !.edits = @ \cup {e}]]
    /\ risked' = risked \cup Overlap(e)
    /\ pc' = [pc EXCEPT ![e] = "saving"]

\* admin_restart_handler only sends the signal.
BeginRestart(e) ==
    /\ pc[e] = "idle" /\ Begin(e, "restart")
    /\ pc' = [pc EXCEPT ![e] = "signal"]
    /\ UNCHANGED <<copy, risked>>

\* Half a second later: nobody receives a signal between two incarnations.
SendReload(e) ==
    /\ pc[e] = "signal" /\ Alive
    /\ pc' = [pc EXCEPT ![e] = "done"]
    /\ signal' = (loop = "running" \/ signal)
    /\ UNCHANGED <<file, loop, current, served, kind, copy, store,
                   certVars, historyVars, faults>>

-----------------------------------------------------------------------------
(* save_config, by whichever process: fs::write truncates, then writes.    *)

Truncate(p) ==
    /\ pc[p] = "saving" /\ Alive
    /\ pc' = [pc EXCEPT ![p] = "writing"]
    /\ file' = Torn
    /\ UNCHANGED <<loopVars, kind, copy, store, certVars, historyVars, faults>>

Begun == {e \in Edits : pc[e] \notin {"idle", "form"}}

\* Over what another writer has put there meanwhile the outcome is one of
\* the two or a mixture.  A renewal puts every edit at risk that its copy is
\* too old to have.
Write(p) ==
    /\ pc[p] = "writing" /\ Alive
    /\ pc' = [pc EXCEPT ![p] = AfterSave[KindOf(p)]]
    /\ file' \in IF file = Torn THEN {copy[p]} ELSE {copy[p], Torn}
    /\ saved' = saved \cup ({p} \cap Edits)
    /\ risked' = risked \cup (IF p \in Edits THEN {} ELSE Begun \ copy[p].edits)
    /\ UNCHANGED <<loopVars, kind, copy, store, certVars, faults>>

\* The disk is full: an edit is answered with the error, a renewal goes on.
WriteFails(p) ==
    /\ Fault
    /\ pc[p] = "writing" /\ Alive
    /\ pc' = [pc EXCEPT ![p] = IF p \in Edits THEN "failed" ELSE "check"]
    /\ UNCHANGED <<file, loopVars, kind, copy, store, certVars, historyVars>>

-----------------------------------------------------------------------------
(* Certificates.                                                           *)

\* certificate_renewal_task looks at the copy it was started with.
RenewalNeeded(i) ==
    /\ pc[i] = "check" /\ Alive
    /\ copy[i].le /\ copy[i].cert \in due
    /\ pc' = [pc EXCEPT ![i] = "acme"]
    /\ UNCHANGED <<file, loopVars, kind, copy, store, certVars, historyVars, faults>>

\* save_cert_to_config puts the new certificate in the process's copy.
Obtain(p) ==
    /\ pc[p] = "acme" /\ Alive
    /\ issued < MaxCerts
    /\ issued' = issued + 1
    /\ copy' = [copy EXCEPT ![p] = [edits |-> @.edits, cert |-> issued + 1, le |-> TRUE]]
    /\ kind' = [e \in Edits |-> IF e = p THEN "certificate" ELSE kind[e]]
    /\ pc' = [pc EXCEPT ![p] = "saving"]
    /\ UNCHANGED <<file, loopVars, store, due, historyVars>>

\* The order is validated anew, or an authorization is still valid.
AcmeSucceeds(p) ==
    /\ Obtain(p)
    /\ authorized \/ ChallengeServed(p)
    /\ authorized' = TRUE
    /\ UNCHANGED faults

\* No ACME account: request_letsencrypt_cert returns a self-signed one.
AcmeFallsBack(p) ==
    /\ Obtain(p)
    /\ Fault
    /\ UNCHANGED authorized

AcmeFails(p) ==
    /\ pc[p] = "acme" /\ Alive
    /\ pc' = [pc EXCEPT ![p] = IF p \in Edits THEN "failed" ELSE "check"]
    /\ UNCHANGED <<file, loopVars, kind, copy, store, certVars, historyVars, faults>>

\* A certificate has less than 30 days left.
ExpiresSoon ==
    /\ Expiring
    /\ \E c \in 1..issued : c \notin due /\ due' = due \cup {c}
    /\ UNCHANGED <<file, loopVars, processVars, authorized, issued, historyVars, faults>>

-----------------------------------------------------------------------------
\* The process dies, and whoever supervises it starts it again; only a
\* set-password of its own survives.
Crash ==
    /\ Fault
    /\ Alive
    /\ loop' = "load" /\ signal' = FALSE
    /\ pc' = [p \in Processes |->
                CASE p \in Incarnations -> "idle"
                  [] p \in Edits /\ pc[p] \in Busy /\ kind[p] # "password" -> "failed"
                  [] OTHER -> pc[p]]
    /\ UNCHANGED <<file, current, served, kind, copy, store, certVars, historyVars>>

LoopNext == LoadConfig \/ LoadFails \/ ReloadReceived \/ ServerReturns \/ BackoffOver

SaveNext(p) == Truncate(p) \/ Write(p) \/ WriteFails(p)

AcmeNext(p) == AcmeSucceeds(p) \/ AcmeFallsBack(p) \/ AcmeFails(p)

EditNext(e) ==
    \/ OpenPage(e) \/ SubmitForm(e) \/ SubmitFails(e)
    \/ BeginEdit(e) \/ BeginFails(e) \/ BeginRestart(e) \/ SendReload(e)

Next ==
    \/ LoopNext \/ ServerFails
    \/ \E e \in Edits : EditNext(e)
    \/ \E i \in Incarnations : RenewalNeeded(i)
    \/ \E p \in Processes : SaveNext(p) \/ AcmeNext(p)
    \/ ExpiresSoon \/ Crash

Spec == Init /\ [][Next]_vars

\* The loop and every process that has begun go on; what the administrator
\* does, and when certificates expire, is not assumed.
Fairness ==
    /\ WF_vars(LoopNext)
    /\ \A p \in Processes :
         WF_vars(RenewalNeeded(p) \/ Truncate(p) \/ Write(p) \/ AcmeNext(p) \/ SendReload(p))

FairSpec == Spec /\ Fairness

-----------------------------------------------------------------------------
TypeOK ==
    /\ file \in Configs \cup {Torn}
    /\ loop \in {"load", "running", "backoff", "exited"}
    /\ current \in 0..Cardinality(Incarnations)
    /\ loop = "running" => current \in Incarnations
    /\ served \in Configs
    /\ signal \in BOOLEAN /\ authorized \in BOOLEAN
    /\ pc \in [Processes -> Busy \cup {"idle", "form", "check", "done", "failed"}]
    /\ kind \in [Edits -> Kinds \cup {"none", "certificate"}]
    /\ copy \in [Processes -> Configs]
    /\ store \in [Edits -> 0..Cardinality(Incarnations)]
    /\ issued \in 0..MaxCerts
    /\ due \subseteq 1..issued
    /\ saved \subseteq Edits /\ risked \subseteq Edits
    /\ faults \in 0..MaxFaults

\* What was saved stays in config.yaml, but for what another writer could not
\* have seen: an edit made at the same time, a setting its form did not show,
\* what came after the copy a renewal task keeps.  So every handler on its
\* own reads, edits and writes what the others wrote.
NothingLost == file # Torn => saved \ risked \subseteq file.edits

\* A new tunnel secret or certificate is in use when nothing is left to be
\* done about it: its reload signal was not lost between two incarnations.
AnsweredEditsServed == \A e \in Edits \ risked :
    (pc[e] = "done" /\ kind[e] \in {"secret", "certificate"} /\ loop = "running")
        => (signal \/ e \in served.edits)

\* The same as a promise, whatever else is saved meanwhile: the edit is
\* served, or another save has taken it out of the file again.
SignalledEditsServed == \A e \in Edits :
    pc[e] = "signal" /\ kind[e] \in {"secret", "certificate"}
        ~> \/ e \in served.edits
           \/ file = Torn \/ e \notin file.edits
           \/ loop = "exited"

\* "Add a hashed tunnel secret to the config and save" (config.rs:429): the
\* secrets and passwords of an administrator who makes one edit at a time
\* stay.
SecretsStay == file # Torn =>
    {e \in saved : kind[e] \in {"secret", "password"}} \subseteq file.edits

\* "Configuration saved successfully! Changes will take effect after
\* restarting the server." (templates/setup.html:53): what the form saved is
\* still in the file when somebody restarts.
SavedFormStays == file # Torn =>
    {e \in saved : kind[e] = "setup"} \subseteq file.edits

\* The servers run, or the process has ended for a reason: a file that does
\* not parse, or something that failed.
UpOrFailed == loop = "running" \/ (loop = "exited" /\ (file = Torn \/ faults > 0))

\* Who asks for a restart, with the button or by an edit that needs one, gets
\* it: the servers that run go down and others come up, also when one of the
\* old servers sees the signal before the loop does and the restart is taken
\* for a crash, when the signal falls between two incarnations and when it
\* is one with another's.
RestartTakesPlace ==
    (\E e \in Edits : pc[e] = "signal") ~> (loop # "running" /\ <>UpOrFailed)
=============================================================================
