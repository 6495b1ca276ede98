------------------------- MODULE FixtureSupervision -------------------------
(***************************************************************************)
(* The supervision of an isolated Go test run.  Three processes share one  *)
(* temporary root:                                                         *)
(*                                                                         *)
(*   owner     the outer test binary (runIsolatedTests).  It creates the   *)
(*             root, starts the provider and removes the root at the end.  *)
(*             Two goroutines watch for it: the observer of the child's    *)
(*             phase socket and the reader of the provider's records.      *)
(*   provider  fixture_environment.py --go-test.  It starts the child as   *)
(*             the leader of a process group of its own, hands it the      *)
(*             grant, waits, stops the group and removes the root.         *)
(*   child     the inner test binary (runFixtureChild), which runs the     *)
(*             test body, and its kin, the ordinary processes that body    *)
(*             starts: together they are the group.                        *)
(*                                                                         *)
(* They are joined by the provider's stdin (a lease: its end of file       *)
(* revokes the run), its stdout (two records), the child's stdin (the      *)
(* grant, then a lease) and the child's phase socket.  Any of them may be  *)
(* slow or die.  A timer is an action that may happen whenever the timer   *)
(* is armed, since the durations are not modelled.                         *)
(***************************************************************************)
EXTENDS Integers

CONSTANTS
  BodyStatus,   \* the exit statuses a test body may end with
  Platforms,    \* where it may run: "unix", "windows"
  Faults        \* which parts of the environment may fail

FaultKinds ==
  { "prepare", "boot", "spawn", "io", "stray", "stuck",
    "signal", "ownerKilled", "providerKilled" }

Refused   == 2     \* boundaryError, and every refusal of the provider or child
Killed    == 137   \* exit_status of a process that SIGKILL ended: 128 + 9
Signalled == 143   \* 128 + SIGTERM, set by termination_event
Aborted   == -1    \* ExitCode() of a process that a signal ended
Pending   == -2    \* no status yet

ASSUME FixtureAssumption ==
  /\ BodyStatus \subseteq 0 .. 255
  /\ Platforms \subseteq {"unix", "windows"}
  /\ Faults \subseteq FaultKinds

Status == BodyStatus \cup {Refused, Killed, Signalled}

VARIABLES
  owner,       \* where runIsolatedTests is
  ready,       \* identityVerified: the owner has taken the readiness event
  exited,      \* the owner has taken the child's exit event
  result,      \* the status the reader confirmed, or Pending
  clean,       \* completedCleanly
  allowed,     \* cleanupAllowed
  status,      \* the owner's own exit status, or Pending
  pipes,       \* the owner holds its ends of the provider's stdin and stdout
  observer,    \* where observeFixtureChild is
  reader,      \* where readFixtureCompletion is
  provider,    \* where _go_tests is
  told,        \* the last record the provider wrote to its stdout
  lost,        \* the provider's termination event
  verdict,     \* the status the provider is going to report
  failing,     \* an exception is unwinding the provider
  code,        \* the provider's exit code, once it is gone
  child,       \* where runFixtureChild is
  childStatus, \* the exit status of the child, once it is gone
  granted,     \* the grant has been written to the child's stdin
  conn,        \* the child's phase connection
  kin,         \* the other processes of the group
  root,        \* the exclusive temporary root
  platform     \* on Windows the group dies with the provider's job handle

ownerVars    == <<owner, ready, exited, result, clean, allowed, status, pipes>>
watchVars    == <<observer, reader>>
providerVars == <<provider, told, lost, verdict, failing, code>>
groupVars    == <<child, childStatus, granted, conn, kin>>
vars == <<ownerVars, watchVars, providerVars, groupVars, root, platform>>

-----------------------------------------------------------------------------

LiveChild == {"grant", "dial", "hello", "body"}

\* "doomed": SIGKILL has been sent, the process has not ended yet.
Places ==
  /\ owner \in {"prepare", "setup", "select", "unwind", "release", "grace",
                "kill", "reap", "sweep", "done", "killed"}
  /\ observer \in {"off", "accept", "watch", "closed", "refused", "broken"}
  /\ reader \in {"off", "record", "teardown", "ok", "fail", "taken"}
  /\ provider \in {"none", "boot", "spawn", "announce", "grant", "wait", "stop",
                   "reap", "rmtree", "report", "exit", "doomed", "gone"}
  /\ child \in LiveChild \cup {"none", "doomed", "gone"}
  /\ kin \in {"none", "alive", "doomed", "gone"}
  /\ told \in {"nothing", "started", "completed"}
  /\ lost \in {"no", "lease", "signal"}
  /\ conn \in {"none", "open", "sent"}
  /\ root \in {"present", "gone"}
  /\ platform \in {"unix", "windows"}

Flags ==
  /\ ready \in BOOLEAN /\ exited \in BOOLEAN /\ clean \in BOOLEAN
  /\ allowed \in BOOLEAN /\ pipes \in BOOLEAN
  /\ failing \in BOOLEAN /\ granted \in BOOLEAN

Codes ==
  /\ result \in Status \cup {Pending} /\ status \in Status \cup {Pending}
  /\ verdict \in Status \cup {Pending} /\ childStatus \in Status \cup {Pending}
  /\ code \in Status \cup {Aborted, Pending}

TypeOK == Places /\ Flags /\ Codes

Init ==
  /\ owner = "prepare" /\ allowed = TRUE /\ pipes = FALSE
  /\ ready = FALSE /\ exited = FALSE /\ clean = FALSE
  /\ result = Pending /\ status = Pending
  /\ observer = "off" /\ reader = "off"
  /\ provider = "none" /\ told = "nothing" /\ lost = "no"
  /\ verdict = Pending /\ failing = FALSE /\ code = Pending
  /\ child = "none" /\ childStatus = Pending /\ granted = FALSE
  /\ conn = "none" /\ kin = "none"
  /\ root = "present"
  /\ platform \in Platforms

-----------------------------------------------------------------------------
(* The group.                                                              *)

\* SIGKILL to every process of the group; the leader may already be gone.
KillGroup ==
  /\ child' = IF child \in LiveChild THEN "doomed" ELSE child
  /\ kin' = IF kin = "alive" THEN "doomed" ELSE kin
  /\ UNCHANGED <<childStatus, granted, conn>>

\* Mutant: a job without kill-on-close.
ProviderEndsAlone == UNCHANGED groupVars

\* What the provider's death does to the group: on Windows its job closes.
ProviderEnds ==
  IF platform = "windows" THEN KillGroup ELSE UNCHANGED groupVars

ChildExits(s) ==
  /\ child' = "gone"
  /\ childStatus' = s
  /\ UNCHANGED <<granted, conn, kin>>

\* The grant is decoded and every path and variable of it is validated.
ChildGranted ==
  /\ child = "grant" /\ granted
  /\ child' = "dial"
  /\ UNCHANGED <<childStatus, granted, conn, kin>>
  /\ UNCHANGED <<ownerVars, watchVars, providerVars, root, platform>>

\* The setup timer, end of file before the grant, or a refused grant.
ChildRefusesGrant ==
  /\ child = "grant"
  /\ ChildExits(Refused)
  /\ UNCHANGED <<ownerVars, watchVars, providerVars, root, platform>>

\* The listener's backlog takes the connection before anyone accepts it.
ChildDials ==
  /\ child = "dial" /\ owner \notin {"done", "killed"}
  /\ child' = "hello" /\ conn' = "open"
  /\ UNCHANGED <<childStatus, granted, kin>>
  /\ UNCHANGED <<ownerVars, watchVars, providerVars, root, platform>>

\* pid and token are sent, and m.Run starts without waiting for an answer.
ChildSaysHello ==
  /\ child = "hello"
  /\ child' = "body" /\ conn' = "sent"
  /\ UNCHANGED <<childStatus, granted, kin>>
  /\ UNCHANGED <<ownerVars, watchVars, providerVars, root, platform>>

ChildPhaseFails ==
  /\ child \in {"dial", "hello"}
  /\ "io" \in Faults \/ owner \in {"done", "killed"}
  /\ ChildExits(Refused)
  /\ UNCHANGED <<ownerVars, watchVars, providerVars, root, platform>>

\* Mutant: the lease is no longer watched once the body runs.
ChildLeaseLostBeforeBody ==
  /\ child \in {"dial", "hello"} /\ provider = "gone"
  /\ ChildExits(Refused)
  /\ UNCHANGED <<ownerVars, watchVars, providerVars, root, platform>>

\* The lease goroutine sees the end of its stdin and exits the process.
ChildLeaseLost ==
  /\ child \in {"dial", "hello", "body"} /\ provider = "gone"
  /\ ChildExits(Refused)
  /\ UNCHANGED <<ownerVars, watchVars, providerVars, root, platform>>

BodyStartsKin ==
  /\ child = "body" /\ kin = "none"
  /\ kin' = "alive"
  /\ UNCHANGED <<child, childStatus, granted, conn>>
  /\ UNCHANGED <<ownerVars, watchVars, providerVars, root, platform>>

\* m.Run returns, or the body ends the process itself.
BodyEnds(s) ==
  /\ child = "body"
  /\ ChildExits(s)
  /\ UNCHANGED <<ownerVars, watchVars, providerVars, root, platform>>

KinEnds ==
  /\ kin = "alive"
  /\ kin' = "gone"
  /\ UNCHANGED <<child, childStatus, granted, conn>>
  /\ UNCHANGED <<ownerVars, watchVars, providerVars, root, platform>>

\* Mutant: the raw negative status instead of 128 plus the signal.
ChildDiesRawStatus ==
  /\ child = "doomed"
  /\ ChildExits(-9)
  /\ UNCHANGED <<ownerVars, watchVars, providerVars, root, platform>>

\* The kernel ends a process that SIGKILL was sent to.
ChildDies ==
  /\ child = "doomed"
  /\ ChildExits(Killed)
  /\ UNCHANGED <<ownerVars, watchVars, providerVars, root, platform>>

KinDies ==
  /\ kin = "doomed"
  /\ kin' = "gone"
  /\ UNCHANGED <<child, childStatus, granted, conn>>
  /\ UNCHANGED <<ownerVars, watchVars, providerVars, root, platform>>

GroupStep ==
  \/ ChildGranted \/ ChildRefusesGrant \/ ChildDials \/ ChildSaysHello
  \/ ChildPhaseFails \/ ChildLeaseLost
  \/ BodyStartsKin \/ KinEnds \/ \E s \in BodyStatus : BodyEnds(s)

KernelStep == ChildDies \/ KinDies

-----------------------------------------------------------------------------
(* The provider.                                                           *)

\* The root is validated and the lease watched.  An exception before the try
\* block leaves the root alone; one inside it removes the root.
ProviderBoots ==
  /\ provider = "boot"
  /\ provider' = "spawn"
  /\ UNCHANGED <<told, lost, verdict, failing, code>>
  /\ UNCHANGED <<ownerVars, watchVars, groupVars, root, platform>>

ProviderBootFails ==
  /\ provider = "boot" /\ "boot" \in Faults
  /\ provider' = "gone" /\ code' = Refused
  /\ UNCHANGED <<told, lost, verdict, failing>>
  /\ UNCHANGED <<ownerVars, watchVars, groupVars, root, platform>>

\* A handler of termination_event is installed while the child may exist.
ProviderSignalled ==
  /\ provider \in {"spawn", "announce", "grant", "wait"} /\ "signal" \in Faults
  /\ lost' = "signal"
  /\ UNCHANGED <<provider, told, verdict, failing, code>>
  /\ UNCHANGED <<ownerVars, watchVars, groupVars, root, platform>>

LeaseRevoked ==
  /\ provider \in {"spawn", "announce", "grant", "wait"}
  /\ ~pipes /\ lost = "no"
  /\ lost' = "lease"
  /\ UNCHANGED <<provider, told, verdict, failing, code>>
  /\ UNCHANGED <<ownerVars, watchVars, groupVars, root, platform>>

ProviderSpawns ==
  /\ provider = "spawn"
  /\ provider' = "announce" /\ child' = "grant"
  /\ UNCHANGED <<told, lost, verdict, failing, code>>
  /\ UNCHANGED <<childStatus, granted, conn, kin>>
  /\ UNCHANGED <<ownerVars, watchVars, root, platform>>

ProviderSpawnFails ==
  /\ provider = "spawn" /\ "spawn" \in Faults
  /\ provider' = "rmtree" /\ failing' = TRUE
  /\ UNCHANGED <<told, lost, verdict, code>>
  /\ UNCHANGED <<ownerVars, watchVars, groupVars, root, platform>>

\* A record written after the owner closed its end raises BrokenPipeError.
ProviderAnnounces ==
  /\ provider = "announce"
  /\ IF pipes THEN /\ provider' = "grant" /\ told' = "started"
                   /\ UNCHANGED failing
              ELSE /\ provider' = "stop" /\ failing' = TRUE
                   /\ UNCHANGED told
  /\ UNCHANGED <<lost, verdict, code>>
  /\ UNCHANGED <<ownerVars, watchVars, groupVars, root, platform>>

\* So does a grant written to a child that has already exited.
ProviderGrants ==
  /\ provider = "grant"
  /\ IF child # "gone" THEN /\ provider' = "wait" /\ granted' = TRUE
                            /\ UNCHANGED failing
                       ELSE /\ provider' = "stop" /\ failing' = TRUE
                            /\ UNCHANGED granted
  /\ UNCHANGED <<told, lost, verdict, code>>
  /\ UNCHANGED <<child, childStatus, conn, kin>>
  /\ UNCHANGED <<ownerVars, watchVars, root, platform>>

\* wait_owned polls the child, then the termination event; whichever it sees
\* first decides the status.
ProviderSeesExit ==
  /\ provider = "wait" /\ child = "gone"
  /\ provider' = "stop" /\ verdict' = childStatus
  /\ UNCHANGED <<told, lost, failing, code>>
  /\ UNCHANGED <<ownerVars, watchVars, groupVars, root, platform>>

\* Mutant: a handled termination ends with status 0.
ProviderSeesLossAsSuccess ==
  /\ provider = "wait" /\ lost # "no"
  /\ provider' = "stop" /\ verdict' = 0
  /\ UNCHANGED <<told, lost, failing, code>>
  /\ UNCHANGED <<ownerVars, watchVars, groupVars, root, platform>>

\* Mutant: only a signal sets the termination event.
ProviderSeesSignalOnly ==
  /\ provider = "wait" /\ lost = "signal"
  /\ provider' = "stop" /\ verdict' = Signalled
  /\ UNCHANGED <<told, lost, failing, code>>
  /\ UNCHANGED <<ownerVars, watchVars, groupVars, root, platform>>

ProviderSeesLoss ==
  /\ provider = "wait" /\ lost # "no"
  /\ provider' = "stop"
  /\ verdict' = IF lost = "signal" THEN Signalled ELSE Refused
  /\ UNCHANGED <<told, lost, failing, code>>
  /\ UNCHANGED <<ownerVars, watchVars, groupVars, root, platform>>

\* OwnedProcess.stop: the group is killed even when its leader is gone, ...
ProviderStopsGroup ==
  /\ provider = "stop"
  /\ provider' = "reap"
  /\ KillGroup
  /\ UNCHANGED <<told, lost, verdict, failing, code>>
  /\ UNCHANGED <<ownerVars, watchVars, root, platform>>

\* ... and its leader is waited for; the wait raises after five seconds.
ProviderReaps ==
  /\ provider = "reap" /\ child = "gone"
  /\ provider' = "rmtree"
  /\ UNCHANGED <<told, lost, verdict, failing, code>>
  /\ UNCHANGED <<ownerVars, watchVars, groupVars, root, platform>>

ProviderReapExpires ==
  /\ provider = "reap" /\ child # "gone" /\ "stuck" \in Faults
  /\ provider' = "rmtree" /\ failing' = TRUE
  /\ UNCHANGED <<told, lost, verdict, code>>
  /\ UNCHANGED <<ownerVars, watchVars, groupVars, root, platform>>

\* The private home goes with the root.  The finally clause removes the root
\* on every path, so a failing provider comes through here too.
ProviderRemovesRoot ==
  /\ provider = "rmtree"
  /\ root' = "gone"
  /\ provider' = IF failing THEN "exit" ELSE "report"
  /\ UNCHANGED <<told, lost, verdict, failing, code>>
  /\ UNCHANGED <<ownerVars, watchVars, groupVars, platform>>

\* rmtree raises: the finally clause tries once more, then the error escapes.
ProviderRemoveFails ==
  /\ provider = "rmtree" /\ root = "present" /\ "io" \in Faults
  /\ provider' = IF failing THEN "exit" ELSE "rmtree"
  /\ failing' = TRUE
  /\ UNCHANGED <<told, lost, verdict, code>>
  /\ UNCHANGED <<ownerVars, watchVars, groupVars, root, platform>>

ProviderReports ==
  /\ provider = "report"
  /\ provider' = "exit"
  /\ IF pipes THEN told' = "completed" /\ UNCHANGED failing
              ELSE failing' = TRUE /\ UNCHANGED told
  /\ UNCHANGED <<lost, verdict, code>>
  /\ UNCHANGED <<ownerVars, watchVars, groupVars, root, platform>>

ProviderExits ==
  /\ provider = "exit"
  /\ provider' = "gone"
  /\ code' = IF failing THEN Refused ELSE verdict
  /\ ProviderEnds
  /\ UNCHANGED <<told, lost, verdict, failing>>
  /\ UNCHANGED <<ownerVars, watchVars, root, platform>>

\* SIGKILL from outside, or any end that runs no handler.
ProviderKilled ==
  /\ "providerKilled" \in Faults
  /\ provider \notin {"none", "gone", "doomed"}
  /\ provider' = "gone" /\ code' = Aborted
  /\ ProviderEnds
  /\ UNCHANGED <<told, lost, verdict, failing>>
  /\ UNCHANGED <<ownerVars, watchVars, root, platform>>

\* The owner's Process.Kill takes effect.
ProviderDies ==
  /\ provider = "doomed"
  /\ provider' = "gone" /\ code' = Aborted
  /\ ProviderEnds
  /\ UNCHANGED <<told, lost, verdict, failing>>
  /\ UNCHANGED <<ownerVars, watchVars, root, platform>>

ProviderStep ==
  \/ ProviderBoots \/ LeaseRevoked \/ ProviderSpawns \/ ProviderAnnounces
  \/ ProviderGrants \/ ProviderSeesExit \/ ProviderSeesLoss
  \/ ProviderStopsGroup \/ ProviderReaps \/ ProviderReapExpires
  \/ ProviderRemovesRoot \/ ProviderReports \/ ProviderExits

ProviderFault ==
  \/ ProviderBootFails \/ ProviderSpawnFails \/ ProviderSignalled
  \/ ProviderRemoveFails \/ ProviderKilled

-----------------------------------------------------------------------------
(* The owner's goroutines.  What they send once the owner has left its     *)
(* select loop is read by nobody, so they are followed up to there.        *)

ObserveIdentity ==
  /\ owner = "select" /\ observer = "accept" /\ conn = "sent"
  /\ observer' = "watch"
  /\ UNCHANGED reader
  /\ UNCHANGED <<ownerVars, providerVars, groupVars, root, platform>>

\* Only one connection is accepted: it is a stranger's, or the child's own,
\* closed or reset before the identity could be read.
ObserveRefusal ==
  /\ owner = "select" /\ observer = "accept"
  /\ "stray" \in Faults \/ (conn # "none" /\ child = "gone")
  /\ observer' = "refused"
  /\ UNCHANGED reader
  /\ UNCHANGED <<ownerVars, providerVars, groupVars, root, platform>>

\* End of file and reset both count as the child's exit.
ObserveClose ==
  /\ owner = "select" /\ observer = "watch" /\ child = "gone"
  /\ observer' = "closed"
  /\ UNCHANGED reader
  /\ UNCHANGED <<ownerVars, providerVars, groupVars, root, platform>>

\* Any other read error.
ObserveError ==
  /\ owner = "select" /\ observer = "watch" /\ "io" \in Faults
  /\ observer' = "broken"
  /\ UNCHANGED reader
  /\ UNCHANGED <<ownerVars, providerVars, groupVars, root, platform>>

ReadCompletion ==
  /\ owner = "select" /\ reader = "record" /\ told = "completed"
  /\ reader' = "teardown"
  /\ UNCHANGED observer
  /\ UNCHANGED <<ownerVars, providerVars, groupVars, root, platform>>

ReadPrematureEOF ==
  /\ owner = "select" /\ reader = "record"
  /\ provider = "gone" /\ told # "completed"
  /\ reader' = "fail"
  /\ UNCHANGED observer
  /\ UNCHANGED <<ownerVars, providerVars, groupVars, root, platform>>

\* The record must be the last one, and the provider's own exit must agree.
ConfirmExit ==
  /\ owner = "select" /\ reader = "teardown" /\ provider = "gone"
  /\ reader' = IF code = verdict THEN "ok" ELSE "fail"
  /\ UNCHANGED observer
  /\ UNCHANGED <<ownerVars, providerVars, groupVars, root, platform>>

TeardownExpires ==
  /\ owner = "select" /\ reader = "teardown" /\ provider # "gone"
  /\ reader' = "fail"
  /\ UNCHANGED observer
  /\ UNCHANGED <<ownerVars, providerVars, groupVars, root, platform>>

WatchStep ==
  \/ ObserveIdentity \/ ObserveRefusal \/ ObserveClose
  \/ ReadCompletion \/ ReadPrematureEOF \/ ConfirmExit \/ TeardownExpires

-----------------------------------------------------------------------------
(* The owner.                                                              *)

\* The root exists; the listener, the nonce, a pipe or the start may fail.
OwnerStarts ==
  /\ owner = "prepare"
  /\ owner' = "setup" /\ allowed' = FALSE /\ pipes' = TRUE
  /\ provider' = "boot"
  /\ UNCHANGED <<ready, exited, result, clean, status>>
  /\ UNCHANGED <<told, lost, verdict, failing, code>>
  /\ UNCHANGED <<watchVars, groupVars, root, platform>>

OwnerPrepareFails ==
  /\ owner = "prepare" /\ "prepare" \in Faults
  /\ owner' = "sweep" /\ status' = Refused
  /\ UNCHANGED <<ready, exited, result, clean, allowed, pipes>>
  /\ UNCHANGED <<watchVars, providerVars, groupVars, root, platform>>

OwnerReadsStart ==
  /\ owner = "setup" /\ told # "nothing"
  /\ owner' = "select" /\ observer' = "accept" /\ reader' = "record"
  /\ UNCHANGED <<ready, exited, result, clean, allowed, status, pipes>>
  /\ UNCHANGED <<providerVars, groupVars, root, platform>>

Return(s) ==
  /\ owner' = "unwind" /\ status' = s

\* decodeSetup: end of file, or ten seconds without a record.
OwnerSetupFails ==
  /\ owner = "setup"
  /\ Return(Refused)
  /\ UNCHANGED <<ready, exited, result, clean, allowed, pipes>>
  /\ UNCHANGED <<watchVars, providerVars, groupVars, root, platform>>

\* The test at the end of every turn of the select loop.
Settle ==
  IF ready' /\ exited' /\ result' # Pending
    THEN Return(result') /\ clean' = TRUE
    ELSE UNCHANGED <<owner, status, clean>>

ReceiveReady ==
  /\ owner = "select" /\ ~ready /\ observer \in {"watch", "closed", "broken"}
  /\ ready' = TRUE
  /\ UNCHANGED <<exited, result, allowed, pipes>>
  /\ Settle
  /\ UNCHANGED <<watchVars, providerVars, groupVars, root, platform>>

ReceiveExit ==
  /\ owner = "select" /\ ready /\ ~exited /\ observer = "closed"
  /\ exited' = TRUE
  /\ UNCHANGED <<ready, result, allowed, pipes>>
  /\ Settle
  /\ UNCHANGED <<watchVars, providerVars, groupVars, root, platform>>

ReceivePhaseError ==
  /\ owner = "select"
  /\ observer = "refused" \/ (observer = "broken" /\ ready)
  /\ Return(Refused)
  /\ UNCHANGED <<ready, exited, result, clean, allowed, pipes>>
  /\ UNCHANGED <<watchVars, providerVars, groupVars, root, platform>>

ReceiveResult ==
  /\ owner = "select" /\ reader = "ok"
  /\ reader' = "taken" /\ result' = verdict
  /\ UNCHANGED <<observer, ready, exited, allowed, pipes>>
  /\ IF verdict = Refused /\ ~ready
       THEN Return(Refused) /\ UNCHANGED clean
       ELSE Settle
  /\ UNCHANGED <<providerVars, groupVars, root, platform>>

ReceiveProviderError ==
  /\ owner = "select" /\ reader = "fail"
  /\ Return(Refused)
  /\ UNCHANGED <<ready, exited, result, clean, allowed, pipes>>
  /\ UNCHANGED <<watchVars, providerVars, groupVars, root, platform>>

\* Disarmed by readiness.
SetupDeadline ==
  /\ owner = "select" /\ ~ready
  /\ Return(Refused)
  /\ UNCHANGED <<ready, exited, result, clean, allowed, pipes>>
  /\ UNCHANGED <<watchVars, providerVars, groupVars, root, platform>>

\* Mutant: the exit event does not arm the timer.
CleanupDeadlineForResultOnly ==
  /\ owner = "select" /\ result # Pending
  /\ Return(Refused)
  /\ UNCHANGED <<ready, exited, result, clean, allowed, pipes>>
  /\ UNCHANGED <<watchVars, providerVars, groupVars, root, platform>>

\* Armed by the first of the exit event and the result.
CleanupDeadline ==
  /\ owner = "select"
  /\ exited \/ result # Pending
  /\ Return(Refused)
  /\ UNCHANGED <<ready, exited, result, clean, allowed, pipes>>
  /\ UNCHANGED <<watchVars, providerVars, groupVars, root, platform>>

\* Mutant: the recorded group is left to the provider.
OwnerSkipsGroup ==
  /\ owner = "unwind"
  /\ owner' = "release"
  /\ UNCHANGED <<ready, exited, result, clean, allowed, status, pipes>>
  /\ UNCHANGED <<watchVars, providerVars, groupVars, root, platform>>

\* The deferred calls, last registered first.  stopFixtureGroup is empty on
\* Windows, where the death of the provider does its work.
OwnerStopsGroup ==
  /\ owner = "unwind"
  /\ owner' = "release"
  /\ IF ~clean /\ ready /\ platform # "windows" THEN KillGroup ELSE UNCHANGED groupVars
  /\ UNCHANGED <<ready, exited, result, clean, allowed, status, pipes>>
  /\ UNCHANGED <<watchVars, providerVars, root, platform>>

OwnerReleases ==
  /\ owner = "release"
  /\ owner' = IF ready THEN "kill" ELSE "grace"
  /\ pipes' = FALSE
  /\ UNCHANGED <<ready, exited, result, clean, allowed, status>>
  /\ UNCHANGED <<watchVars, providerVars, groupVars, root, platform>>

\* confirmCleanup: an identity that was never verified leaves only the
\* absence of the root as evidence that the supervisor stopped its tree.
ConfirmCleanup ==
  IF ready \/ root = "gone"
    THEN allowed' = TRUE /\ UNCHANGED status
    ELSE status' = Refused /\ UNCHANGED allowed

ProviderGoneInGrace ==
  /\ owner = "grace" /\ provider = "gone"
  /\ owner' = "sweep"
  /\ ConfirmCleanup
  /\ UNCHANGED <<ready, exited, result, clean, pipes>>
  /\ UNCHANGED <<watchVars, providerVars, groupVars, root, platform>>

GraceExpires ==
  /\ owner = "grace" /\ provider # "gone"
  /\ owner' = "kill"
  /\ UNCHANGED <<ready, exited, result, clean, allowed, status, pipes>>
  /\ UNCHANGED <<watchVars, providerVars, groupVars, root, platform>>

OwnerKillsProvider ==
  /\ owner = "kill"
  /\ owner' = "reap"
  /\ provider' = IF provider = "gone" THEN "gone" ELSE "doomed"
  /\ UNCHANGED <<ready, exited, result, clean, allowed, status, pipes>>
  /\ UNCHANGED <<told, lost, verdict, failing, code>>
  /\ UNCHANGED <<watchVars, groupVars, root, platform>>

OwnerReaps ==
  /\ owner = "reap" /\ provider = "gone"
  /\ owner' = "sweep"
  /\ ConfirmCleanup
  /\ UNCHANGED <<ready, exited, result, clean, pipes>>
  /\ UNCHANGED <<watchVars, providerVars, groupVars, root, platform>>

\* Root cleanup is withheld.
OwnerReapExpires ==
  /\ owner = "reap" /\ provider # "gone"
  /\ owner' = "sweep" /\ status' = Refused
  /\ UNCHANGED <<ready, exited, result, clean, allowed, pipes>>
  /\ UNCHANGED <<watchVars, providerVars, groupVars, root, platform>>

OwnerSweeps ==
  /\ owner = "sweep"
  /\ owner' = "done"
  /\ root' = IF allowed THEN "gone" ELSE root
  /\ UNCHANGED <<ready, exited, result, clean, allowed, status, pipes>>
  /\ UNCHANGED <<watchVars, providerVars, groupVars, platform>>

OwnerSweepFails ==
  /\ owner = "sweep" /\ allowed /\ root = "present" /\ "io" \in Faults
  /\ owner' = "done" /\ status' = Refused
  /\ UNCHANGED <<ready, exited, result, clean, allowed, pipes>>
  /\ UNCHANGED <<watchVars, providerVars, groupVars, root, platform>>

OwnerKilled ==
  /\ "ownerKilled" \in Faults /\ owner \notin {"done", "killed"}
  /\ owner' = "killed" /\ pipes' = FALSE
  /\ UNCHANGED <<ready, exited, result, clean, allowed, status>>
  /\ UNCHANGED <<watchVars, providerVars, groupVars, root, platform>>

OwnerStep ==
  \/ OwnerStarts \/ OwnerReadsStart \/ OwnerSetupFails
  \/ ReceiveReady \/ ReceiveExit \/ ReceivePhaseError
  \/ ReceiveResult \/ ReceiveProviderError
  \/ SetupDeadline \/ CleanupDeadline
  \/ OwnerStopsGroup \/ OwnerReleases \/ ProviderGoneInGrace \/ GraceExpires
  \/ OwnerKillsProvider \/ OwnerReaps \/ OwnerReapExpires \/ OwnerSweeps

Fault ==
  \/ ProviderFault \/ ObserveError
  \/ OwnerPrepareFails \/ OwnerSweepFails \/ OwnerKilled

Next ==
  \/ OwnerStep \/ WatchStep \/ ProviderStep \/ ProviderDies
  \/ GroupStep \/ KernelStep \/ Fault

Spec == Init /\ [][Next]_vars

\* The owner and its goroutines are scheduled and their timers run; the kernel
\* delivers SIGKILL.  Nothing is assumed of the provider or of the child.
OwnerSpec ==
  Spec /\ WF_vars(OwnerStep) /\ WF_vars(WatchStep)
       /\ WF_vars(KernelStep \/ ProviderDies)

\* As well: the provider makes progress, and the child's own timers and its
\* lease goroutine run.  A body may still run for ever.
ProviderServed ==
  /\ WF_vars(ProviderStep)
  /\ WF_vars(ChildGranted \/ ChildRefusesGrant)
  /\ WF_vars(ChildLeaseLost)
  /\ WF_vars(ChildPhaseFails)

-----------------------------------------------------------------------------
(* What the supervision promises.                                          *)

\* No process of the group can take another step of its own.
GroupQuiet == child \notin LiveChild /\ kin # "alive"

Finished == owner \in {"done", "killed"}

\* The root is only ever removed from under a group that has been stopped:
\* "Never remove a root while its recorded owner may still run."
RootOutlivesGroup == root = "gone" => GroupQuiet

\* An exit status other than a refusal is the truth about a run that is over:
\* the body's own status (or the signal that stopped the provider), no process
\* left to run, no root left behind.  So a root that is retained is reported.
VerdictIsEarned ==
  owner = "done" /\ status # Refused =>
    /\ status = childStatus \/ status = Signalled
    /\ child = "gone" /\ kin # "alive"
    /\ root = "gone"

\* The completed record is only written when the leader has been reaped, its
\* kin stopped and the root removed (fixture_environment.py:101).
CompletionIsLast ==
  told = "completed" => GroupQuiet /\ child # "doomed" /\ root = "gone"

\* What the comment on confirmCleanup says of an unverified run: the supervisor
\* removes the root after stopping descendants.
SupervisorStopsFirst ==
  ~ready /\ root = "gone" => child \in {"none", "gone"}

\* The owner waits without a bound for nothing but a body that runs on.
WaitsOnlyForTheBody == <>Finished \/ <>[](child = "body")

\* Whatever happens to the provider, the group leader does not survive the
\* owner: the lease reaches it through the provider's life or death.
LeaseReachesChild ==
  ProviderServed => (owner = "killed" ~> child \in {"none", "gone"})

\* A provider still at work when its owner is killed stops the group and
\* reclaims the root, or says with its status that it could not, unless it is
\* killed itself.
ProviderReclaims ==
  ProviderServed =>
    (owner = "killed" /\ provider \notin {"none", "doomed", "gone"}
       ~> (GroupQuiet /\ (root = "gone" \/ code = Refused)) \/ code = Aborted)

-----------------------------------------------------------------------------
(* The run as its caller sees it: FixtureOwnership, with every record,      *)
(* socket, timer and exit code hidden.                                      *)

GroupPhase ==
  IF child = "none" THEN "none" ELSE IF GroupQuiet THEN "stopped" ELSE "running"

Outcome ==
  IF owner = "killed" THEN "abandoned"
  ELSE IF owner # "done" THEN "open"
  ELSE IF status = Refused THEN "refused" ELSE "earned"

Ownership == INSTANCE FixtureOwnership WITH group <- GroupPhase, outcome <- Outcome

\* Every step of the supervision is a step of FixtureOwnership, or none.
OwnershipKept == Ownership!Spec
=============================================================================
