---------------------------- MODULE ProcessService ----------------------------
(***************************************************************************)
(* packages/core/src/runtime/process.ts: spawning children under a budget, *)
(* observing their exit and disposing of them through the registry.  Three *)
(* fibers meet over one child: the spawn that goes on as its exit          *)
(* observer, the disposal the registry runs, and the closure of the scope  *)
(* that owns it, which holds the registry's permit all the while.          *)
(*                                                                         *)
(* The registry is reduced to what ResourceRegistry says of an entry that  *)
(* is not shared and whose id does not come back; closing the registry     *)
(* closes its scopes, and refuses the registrations that come later.  The  *)
(* operating system and the ChildProcessSpawner are external.              *)
(***************************************************************************)
EXTENDS Naturals, FiniteSetsExt

CONSTANTS
    Procs,          \* calls of spawn, and the children they start
    MaxConcurrent,  \* budgets.maxConcurrent of the one owner scope
    MaxSnapshots,   \* maxSnapshots
    Stubborn,       \* children that may survive a SIGTERM
    Interrupted,    \* spawns whose caller may be interrupted meanwhile
    Unreadable,     \* processes whose exit status or clock may be unreadable
    Refused,        \* processes whose registration may fail
    None            \* no process

ASSUME ProcessAssumption ==
    /\ MaxConcurrent \in Nat \ {0} /\ MaxSnapshots \in Nat \ {0}
    /\ Stubborn \cup Interrupted \cup Unreadable \cup Refused \subseteq Procs
    /\ None \notin Procs

VARIABLES
    pc,         \* process -> where its spawn, then its exit observer, is
    clean,      \* process -> where disposeChild is
    child,      \* process -> "none", "running", "dead" or "exited" (event delivered)
    signalled,  \* the children that have been sent a SIGTERM
    permits,    \* the processes whose scope holds a permit of the budget
    closed,     \* the processes whose processScope has been closed
    entry,      \* process -> "none", "live", "disposing" or "gone" in the registry
    origin,     \* disposalOrigin: who saw to the end of the process first
    observed,   \* exitObserved
    answer,     \* exitState: "none" until its Deferred is completed
    snapshots,  \* process -> "none", "running" or "exited"
    closer      \* closeScope: is it under way, what is left, what it waits for

child_ == <<child, signalled>>
registry == <<entry, closer>>
vars == <<pc, clean, child_, permits, closed, registry, origin, observed, answer, snapshots>>

Spawning == {"new", "reserved", "launched", "registered"}

\* Where an interruption ends the observer, and where it has to wait.
Interruptible == {"watching", "marked", "answered"}
Uninterruptible == {"disposing", "removing"}

Places == Spawning \cup Interruptible \cup Uninterruptible
              \cup {"failed", "lost", "dropped", "stopped", "done"}

CleanPlaces == {"none", "starting", "checking", "killing", "ending", "closing",
                "stopping", "terminating", "reaping", "releasing", "failing",
                "finished", "abandoned"}

Listed == {p \in Procs : snapshots[p] # "none"}
ListBounded == Cardinality(Listed) <= MaxSnapshots

\* Type correctness: every variable keeps its shape, the list of processes its bound.
TypeOK ==
    /\ pc \in [Procs -> Places] /\ clean \in [Procs -> CleanPlaces]
    /\ child \in [Procs -> {"none", "running", "dead", "exited"}]
    /\ entry \in [Procs -> {"none", "live", "disposing", "gone"}]
    /\ origin \in [Procs -> {"running", "observer", "registry"}]
    /\ answer \in [Procs -> {"none", "status", "failed", "cancelled"}]
    /\ snapshots \in [Procs -> {"none", "running", "exited"}]
    /\ signalled \subseteq Procs /\ permits \subseteq Procs
    /\ closed \subseteq Procs /\ observed \subseteq Procs
    /\ closer \in [active : BOOLEAN, todo : SUBSET Procs, current : Procs \cup {None}]
    /\ ListBounded

Init ==
    /\ pc = [p \in Procs |-> "new"] /\ clean = [p \in Procs |-> "none"]
    /\ child = [p \in Procs |-> "none"] /\ entry = [p \in Procs |-> "none"]
    /\ origin = [p \in Procs |-> "running"] /\ answer = [p \in Procs |-> "none"]
    /\ snapshots = [p \in Procs |-> "none"]
    /\ signalled = {} /\ permits = {} /\ closed = {} /\ observed = {}
    /\ closer = [active |-> FALSE, todo |-> {}, current |-> None]

At(p, place, next) == pc[p] = place /\ pc' = [pc EXCEPT ![p] = next]
Cleaning(p, place, next) == clean[p] = place /\ clean' = [clean EXCEPT ![p] = next]
HasHandle(p) == pc[p] \notin Spawning \cup {"failed", "lost", "dropped"}

\* takeEntry, under the registry's permit: the first to take an entry disposes.
Take(p) ==
    IF entry[p] = "live"
    THEN /\ entry' = [entry EXCEPT ![p] = "disposing"]
         /\ clean' = [clean EXCEPT ![p] = "starting"]
    ELSE UNCHANGED <<entry, clean>>

\* Completing a Deferred that is complete changes nothing.
Complete(p, value) ==
    answer' = [answer EXCEPT ![p] = IF @ = "none" THEN value ELSE @]

-------------------------------------------------------------------------------
(* spawn *)

\* A permit that is there is taken at once; otherwise the caller is told.
Reserve(p) ==
    /\ LET free == Cardinality(permits) < MaxConcurrent
       IN  /\ At(p, "new", IF free THEN "reserved" ELSE "failed")
           /\ permits' = IF free THEN permits \cup {p} ELSE permits
           /\ closed' = IF free THEN closed ELSE closed \cup {p}
    /\ UNCHANGED <<clean, child_, registry, origin, observed, answer, snapshots>>

\* A mutant of the next definition: the permit is held while the child is being
\* started, and not until it has ended.
LaunchUnscoped(p) ==
    /\ At(p, "reserved", "launched")
    /\ child' = [child EXCEPT ![p] = "running"]
    /\ permits' = permits \ {p}
    /\ UNCHANGED <<clean, signalled, closed, registry, origin, observed, answer, snapshots>>

Launch(p) ==
    /\ At(p, "reserved", "launched")
    /\ child' = [child EXCEPT ![p] = "running"]
    /\ UNCHANGED <<clean, signalled, permits, closed, registry, origin, observed, answer, snapshots>>

\* The spawner reports an error: closing the scope returns the permit.
LaunchFails(p) ==
    /\ At(p, "reserved", "failed")
    /\ permits' = permits \ {p} /\ closed' = closed \cup {p}
    /\ UNCHANGED <<clean, child_, registry, origin, observed, answer, snapshots>>

\* register waits for the permit of the registry, not for an open scope.
Register(p) ==
    /\ ~closer.active
    /\ At(p, "launched", "registered")
    /\ entry' = [entry EXCEPT ![p] = "live"]
    /\ UNCHANGED <<clean, child_, permits, closed, closer, origin, observed, answer, snapshots>>

\* register dies when its clock is not readable (orDie), and is interrupted when
\* the registry's map has been closed; what it has stored by then has no cleanup.
\* The spawn ends with the child running: nothing on this path closes the scope,
\* and no observer is started.
RegisterFails(p) ==
    /\ p \in Refused
    /\ At(p, "launched", "lost")
    /\ UNCHANGED <<clean, child_, permits, closed, registry, origin, observed, answer, snapshots>>

\* upsertProcessSnapshot puts the process in, and the oldest one out if there are
\* too many.  startedAt is what the caller's clock said before the child was
\* started, so that any of them may be the oldest.
List(p) ==
    \E kept \in SUBSET (Listed \cup {p}) :
        /\ Cardinality(kept) = Min({MaxSnapshots, Cardinality(Listed \cup {p})})
        /\ snapshots' = [q \in Procs |-> IF q \notin kept THEN "none"
                                        ELSE IF q = p THEN "running" ELSE snapshots[q]]

\* The process is listed; makeHandle forks the observer and returns the handle.
Observe(p) ==
    /\ At(p, "registered", "watching")
    /\ List(p)
    /\ UNCHANGED <<clean, child_, permits, closed, registry, origin, observed, answer>>

\* An interruption that has waited for the uninterruptible part of spawn takes
\* effect where that part ends, after the listing and before makeHandle.
Drop(p) ==
    /\ p \in Interrupted
    /\ At(p, "registered", "dropped")
    /\ List(p)
    /\ UNCHANGED <<clean, child_, permits, closed, registry, origin, observed, answer>>

-------------------------------------------------------------------------------
(* observeChildExit *)

\* Mutants of the next definition: a process that is not listed any more is put
\* back; one that is listed is left as it is.
MarkExitedAlways(p) ==
    /\ child[p] = "exited"
    /\ At(p, "watching", "marked")
    /\ snapshots' = [snapshots EXCEPT ![p] = "exited"]
    /\ UNCHANGED <<clean, child_, permits, closed, registry, origin, observed, answer>>
MarkExitedInverted(p) ==
    /\ child[p] = "exited"
    /\ At(p, "watching", "marked")
    /\ snapshots' = [snapshots EXCEPT ![p] = IF @ = "none" THEN "exited" ELSE @]
    /\ UNCHANGED <<clean, child_, permits, closed, registry, origin, observed, answer>>

\* markProcessExited leaves out a process that is not listed any more.
MarkExited(p) ==
    /\ child[p] = "exited"
    /\ At(p, "watching", "marked")
    /\ snapshots' = [snapshots EXCEPT ![p] = IF @ = "none" THEN @ ELSE "exited"]
    /\ UNCHANGED <<clean, child_, permits, closed, registry, origin, observed, answer>>

AnswerExit(p) ==
    /\ At(p, "marked", "answered")
    /\ Complete(p, "status")
    /\ observed' = observed \cup {p}
    /\ UNCHANGED <<clean, child_, permits, closed, registry, origin, snapshots>>

\* If there is no status or no valid timestamp the answer is that failure.
ExitUnreadable(p) ==
    /\ p \in Unreadable /\ child[p] = "exited"
    /\ At(p, "watching", "answered")
    /\ Complete(p, "failed")
    /\ observed' = observed \cup {p}
    /\ UNCHANGED <<clean, child_, permits, closed, registry, origin, snapshots>>

\* Mutants of the next definition: the observer disposes whoever was first, or
\* leaves the disposal to the registry.
ClaimForObserverAlways(p) ==
    /\ At(p, "answered", "disposing")
    /\ origin' = [origin EXCEPT ![p] = IF @ = "running" THEN "observer" ELSE @]
    /\ UNCHANGED <<clean, child_, permits, closed, registry, observed, answer, snapshots>>
ClaimForObserverNever(p) ==
    /\ At(p, "answered", "done")
    /\ origin' = [origin EXCEPT ![p] = IF @ = "running" THEN "observer" ELSE @]
    /\ UNCHANGED <<clean, child_, permits, closed, registry, observed, answer, snapshots>>

\* claimObserverDisposal: if the registry was first, the rest is up to it.
ClaimForObserver(p) ==
    /\ At(p, "answered", IF origin[p] = "registry" THEN "done" ELSE "disposing")
    /\ origin' = [origin EXCEPT ![p] = IF @ = "running" THEN "observer" ELSE @]
    /\ UNCHANGED <<clean, child_, permits, closed, registry, observed, answer, snapshots>>

\* resource.dispose(): take the entry under the permit ...
DisposeOwn(p) ==
    /\ ~closer.active
    /\ At(p, "disposing", "removing")
    /\ Take(p)
    /\ UNCHANGED <<child_, permits, closed, closer, origin, observed, answer, snapshots>>

\* ... and wait until it is gone, whoever took it; then close the scope.
CloseOwn(p) ==
    /\ entry[p] = "gone"
    /\ At(p, "removing", "done")
    /\ closed' = closed \cup {p}
    /\ permits' = IF p \in closed THEN permits ELSE permits \ {p}
    /\ UNCHANGED <<clean, child_, registry, origin, observed, answer, snapshots>>

-------------------------------------------------------------------------------
(* disposeChild, run by whoever took the entry *)

\* A mutant of the next definition: only a disposal the registry has claimed
\* before goes on.
ClaimForRegistryTwice(p) ==
    /\ Cleaning(p, "starting", IF origin[p] = "registry" THEN "checking" ELSE "finished")
    /\ origin' = [origin EXCEPT ![p] = IF @ = "running" THEN "registry" ELSE @]
    /\ UNCHANGED <<pc, child_, permits, closed, registry, observed, answer, snapshots>>

\* claimRegistryDisposal: nothing is left to do if the observer was first.
ClaimForRegistry(p) ==
    /\ Cleaning(p, "starting", IF origin[p] = "observer" THEN "finished" ELSE "checking")
    /\ origin' = [origin EXCEPT ![p] = IF @ = "running" THEN "registry" ELSE @]
    /\ UNCHANGED <<pc, child_, permits, closed, registry, observed, answer, snapshots>>

\* isRunning says no once the exit event is there.
Check(p) ==
    /\ Cleaning(p, "checking",
                IF child[p] # "exited" /\ p \notin observed THEN "killing" ELSE "closing")
    /\ UNCHANGED <<pc, child_, permits, closed, registry, origin, observed, answer, snapshots>>

\* kill fails for a child that has died, and then is not waited for.
Kill(p) ==
    /\ Cleaning(p, "killing", IF child[p] = "running" THEN "ending" ELSE "closing")
    /\ signalled' = IF child[p] = "running" THEN signalled \cup {p} ELSE signalled
    /\ UNCHANGED <<pc, child, permits, closed, registry, origin, observed, answer, snapshots>>

\* kill has sent its signal and waits for the exit event, without a time limit.
Ended(p) ==
    /\ clean[p] \in {"ending", "reaping"} /\ child[p] = "exited"
    /\ clean' = [clean EXCEPT ![p] = IF @ = "ending" THEN "closing" ELSE "releasing"]
    /\ UNCHANGED <<pc, child_, permits, closed, registry, origin, observed, answer, snapshots>>

\* Scope.close(processScope): the finalizers run last in, first out, unless the
\* scope has been closed already.
CloseProcessScope(p) ==
    /\ Cleaning(p, "closing", IF p \in closed THEN "failing" ELSE "stopping")
    /\ closed' = closed \cup {p}
    /\ UNCHANGED <<pc, child_, permits, registry, origin, observed, answer, snapshots>>

\* The observer is interrupted, and waited for.
StopObserver(p) ==
    /\ pc[p] \notin Uninterruptible
    /\ Cleaning(p, "stopping", "terminating")
    /\ pc' = [pc EXCEPT ![p] = IF @ \in Interruptible THEN "stopped" ELSE @]
    /\ UNCHANGED <<child_, permits, closed, registry, origin, observed, answer, snapshots>>

\* The spawner's own finalizer sends a signal to a child that still runs.
Terminate(p) ==
    /\ Cleaning(p, "terminating", IF child[p] = "running" THEN "reaping" ELSE "releasing")
    /\ signalled' = IF child[p] = "running" THEN signalled \cup {p} ELSE signalled
    /\ UNCHANGED <<pc, child, permits, closed, registry, origin, observed, answer, snapshots>>

\* The fiber that holds the permit is interrupted.
ReleasePermit(p) ==
    /\ Cleaning(p, "releasing", "failing")
    /\ permits' = permits \ {p}
    /\ UNCHANGED <<pc, child_, closed, registry, origin, observed, answer, snapshots>>

FailExit(p) ==
    /\ Cleaning(p, "failing", "finished")
    /\ Complete(p, "cancelled")
    /\ UNCHANGED <<pc, child_, permits, closed, registry, origin, observed, snapshots>>

\* disposeChild waits at three places, for the child or for the observer.
Waits(p) ==
    /\ clean[p] \in {"ending", "reaping", "stopping"}
    /\ clean[p] = "stopping" => pc[p] \in Uninterruptible
    /\ clean[p] # "stopping" => child[p] # "exited"

\* The registry's timeout interrupts disposeChild there, and nothing resumes it.
GraceExpires(p) ==
    /\ Waits(p)
    /\ clean' = [clean EXCEPT ![p] = "abandoned"]
    /\ UNCHANGED <<pc, child_, permits, closed, registry, origin, observed, answer, snapshots>>

\* clearEntry, after the cleanup returned or was given up.
Clear(p) ==
    /\ entry[p] = "disposing" /\ clean[p] \in {"finished", "abandoned"}
    /\ entry' = [entry EXCEPT ![p] = "gone"]
    /\ UNCHANGED <<pc, clean, child_, permits, closed, closer, origin, observed, answer, snapshots>>

\* An observer that was forked into a scope closed before is interrupted.
StopLateObserver(p) ==
    /\ p \in closed /\ clean[p] # "stopping"
    /\ pc[p] \in Interruptible
    /\ pc' = [pc EXCEPT ![p] = "stopped"]
    /\ UNCHANGED <<clean, child_, permits, closed, registry, origin, observed, answer, snapshots>>

-------------------------------------------------------------------------------
(* The owner scope, the users of the handle, the operating system *)

\* closeScope takes the permit and a snapshot of the entries.  Those that others
\* dispose of already it passes over, so that they are left out here; the others
\* nobody can take from it.
CloseScope ==
    LET live == {p \in Procs : entry[p] = "live"}
    IN  /\ ~closer.active /\ live # {}
        /\ closer' = [active |-> TRUE, todo |-> live, current |-> None]
        /\ UNCHANGED <<pc, clean, child_, permits, closed, entry, origin, observed, answer, snapshots>>

CurrentGone == \A p \in Procs : closer.current = p => entry[p] = "gone"

CloseTake(p) ==
    /\ p \in closer.todo /\ CurrentGone
    /\ closer' = [closer EXCEPT !.todo = @ \ {p}, !.current = p]
    /\ Take(p)
    /\ UNCHANGED <<pc, child_, permits, closed, origin, observed, answer, snapshots>>

CloseScopeDone ==
    /\ closer.active /\ closer.todo = {} /\ CurrentGone
    /\ closer' = [active |-> FALSE, todo |-> {}, current |-> None]
    /\ UNCHANGED <<pc, clean, child_, permits, closed, entry, origin, observed, answer, snapshots>>

\* resource.dispose() of the handle's owner.
DisposeHandle(p) ==
    /\ ~closer.active /\ HasHandle(p) /\ entry[p] = "live"
    /\ Take(p)
    /\ UNCHANGED <<pc, child_, permits, closed, closer, origin, observed, answer, snapshots>>

\* kill of the handle: only while the handle is fresh.
KillHandle(p) ==
    /\ HasHandle(p) /\ entry[p] = "live"
    /\ child[p] = "running" /\ p \notin signalled
    /\ signalled' = signalled \cup {p}
    /\ UNCHANGED <<pc, clean, child, permits, closed, registry, origin, observed, answer, snapshots>>

\* A child ends, by itself or of a signal; the exit event follows.
Die(p) ==
    /\ child[p] = "running"
    /\ child' = [child EXCEPT ![p] = "dead"]
    /\ UNCHANGED <<pc, clean, signalled, permits, closed, registry, origin, observed, answer, snapshots>>

ExitEvent(p) ==
    /\ child[p] = "dead"
    /\ child' = [child EXCEPT ![p] = "exited"]
    /\ UNCHANGED <<pc, clean, signalled, permits, closed, registry, origin, observed, answer, snapshots>>

-------------------------------------------------------------------------------
\* What a fiber of this program does next for the process.
Advance(p) ==
    \/ Register(p) \/ Observe(p) \/ Drop(p)
    \/ MarkExited(p) \/ ExitUnreadable(p) \/ AnswerExit(p)
    \/ ClaimForObserver(p) \/ DisposeOwn(p) \/ CloseOwn(p) \/ StopLateObserver(p)

Dispose(p) ==
    \/ ClaimForRegistry(p) \/ Check(p) \/ Kill(p) \/ Ended(p)
    \/ CloseProcessScope(p) \/ StopObserver(p) \/ Terminate(p) \/ ReleasePermit(p)
    \/ FailExit(p) \/ Clear(p)

Close == CloseScopeDone \/ \E p \in Procs : CloseTake(p)

Environment(p) ==
    \/ Reserve(p) \/ Launch(p) \/ LaunchFails(p) \/ RegisterFails(p)
    \/ DisposeHandle(p) \/ KillHandle(p) \/ Die(p) \/ ExitEvent(p) \/ GraceExpires(p)

Next ==
    \/ \E p \in Procs : Advance(p) \/ Dispose(p) \/ Environment(p)
    \/ CloseScope \/ Close

Spec == Init /\ [][Next]_vars

\* Fibers that can go on do; the exit event of a dead child is delivered; a child
\* dies of SIGTERM unless it is stubborn.  The grace period is only counted on
\* for those: whatever else it might help is to work without it.
FairSpec ==
    /\ Spec
    /\ \A p \in Procs : WF_vars(Advance(p)) /\ WF_vars(Dispose(p)) /\ WF_vars(ExitEvent(p))
    /\ WF_vars(Close)
    /\ \A p \in Procs \ Stubborn : WF_vars(p \in signalled /\ Die(p))
    /\ \A p \in Stubborn : WF_vars(GraceExpires(p))

-------------------------------------------------------------------------------
\* No path, however it ends, gives a permit back before its child has died ...
ChildrenHoldPermits == \A p \in Procs : child[p] = "running" => p \in permits

\* ... so that the budget bounds the children that run, not only those let in.
RunningWithinBudget == Cardinality({p \in Procs : child[p] = "running"}) <= MaxConcurrent

\* "terminates the process tree on cleanup": when the registry has forgotten a
\* process whose disposal was not cut off, its child does not run any more.
DisposedMeansDead ==
    \A p \in Procs : entry[p] = "gone" /\ clean[p] = "finished" => child[p] # "running"

\* What `exit' answers is so: a status means that the child has exited and is
\* listed so, a cancellation that the registry has ended it.
AnswersAreTrue ==
    \A p \in Procs :
        /\ answer[p] = "status" => child[p] = "exited" /\ snapshots[p] # "running"
        /\ answer[p] = "cancelled" => child[p] # "running" /\ origin[p] = "registry"

\* Neither the disposal nor the observer waits for the other: the disposal of a
\* child that dies when told to ends without any timeout.
DisposalsEnd ==
    \A p \in Procs \ Stubborn : entry[p] = "disposing" ~> entry[p] = "gone"

\* Whoever holds a handle learns how its child ended.
ExitAnswered ==
    \A p \in Procs : HasHandle(p) /\ child[p] = "exited" ~> answer[p] # "none"

\* Nobody waits for ever: not who disposes of a process nor who waits for its exit.
NobodyStuck == DisposalsEnd /\ ExitAnswered

\* An exit gives the permit back, with three exceptions: a spawn interrupted after
\* its registration has no observer; one whose registration fails has neither an
\* observer nor anyone to dispose of it; a disposal that was cut off has kept the
\* observer from acting.
PermitReturns ==
    \A p \in Procs : child[p] = "exited" ~>
        p \notin permits \/ pc[p] \in {"dropped", "lost"} \/ clean[p] = "abandoned"

===============================================================================
