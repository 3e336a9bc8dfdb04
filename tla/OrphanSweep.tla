----------------------------- MODULE OrphanSweep -----------------------------
(***************************************************************************)
(* DbImpl::sweep_orphans and sweep_stale_generations, running on the       *)
(* compaction executor of a writer beside its flush thread.  The sweep     *)
(* holds no engine lock between its steps: what it referenced, what was    *)
(* pending, the listing and the deletion are each as old as the step that  *)
(* read them.  One writer process; the compaction executor is busy         *)
(* sweeping, so only flushes commit while a sweep runs.                    *)
(***************************************************************************)
EXTENDS VersionSet

CONSTANTS
    OrphanRetention     \* Options::orphan_retention, in clock ticks

\* checked at open: non-zero while the sweep is on, at least obsolete_retention
ASSUME OrphanAssumption == OrphanRetention \in Nat \ {0} /\ OrphanRetention >= Retention

VARIABLES
    sweep,      \* locals of the sweep, per writer
    orphanSeen, \* orphan_first_seen_: file number -> first observation
    staleSeen,  \* stale_generation_first_seen_: generation -> first observation
    born        \* history: when each object in written was put

sweepVars == <<sweep, orphanSeen, staleSeen>>
allVars == <<vars, sweepVars, born>>

NoSweep == [stage |-> "off", referenced |-> {}, pending |-> {}, clock |-> 0, live |-> 0,
            doomed |-> {}]

Stage(w, s) == sweep' = [sweep EXCEPT ![w] = s]

\* first observation times after a listing: what is seen again keeps its time,
\* what is due or no longer a candidate is dropped
StillPresent(seen, candidates, due, clock) ==
    [x \in candidates \ due |-> IF x \in DOMAIN seen THEN seen[x] ELSE clock]

FirstSeen(seen, x, clock) == IF x \in DOMAIN seen THEN seen[x] ELSE clock

Sustained(seen, candidates, clock, retention) ==
    {x \in candidates : clock - FirstSeen(seen, x, clock) >= retention}

SweepFrame == UNCHANGED <<pc, entry, seq, version, nextFile, pending, written, pinned, reseal,
                          localVars, historyVars, born>>

\* manifest_advanced under mutex_: no other process writes this manifest, so its
\* two reads are one step.  A failed read answers "no".
Advanced(w) == \/ pointer.gen # entry[w].gen
               \/ \E k \in ListEdits(entry[w].gen) : k >= seq[w]

BeginSweep(w) ==
    /\ sweep[w].stage = "off" /\ pc[w] = "idle"
    /\ \/ /\ Advanced(w)
          /\ fenced' = [fenced EXCEPT ![w] = TRUE]
          /\ NoFault /\ UNCHANGED sweep
       \/ /\ ~Advanced(w)
          /\ Stage(w, [NoSweep EXCEPT !.stage = "pending", !.referenced = version[w]])
          /\ NoFault /\ UNCHANGED fenced
       \/ /\ Fault
          /\ Stage(w, [NoSweep EXCEPT !.stage = "pending", !.referenced = version[w]])
          /\ UNCHANGED fenced
    /\ UNCHANGED <<catalogVars, objects, orphanSeen, staleSeen>> /\ SweepFrame

\* pending_file_numbers takes mutex_; the clock is read next
SweepPending(w) ==
    /\ sweep[w].stage = "pending" /\ pc[w] = "idle"
    /\ Stage(w, [sweep[w] EXCEPT !.stage = "list", !.pending = {d[1] : d \in pending[w]}, !.clock = now])
    /\ NoFault
    /\ UNCHANGED <<catalogVars, objects, fenced, orphanSeen, staleSeen>> /\ SweepFrame

\* objects that are neither live nor queued for deletion
OrphanCandidatesIgnoringPending(w) == objects \ sweep[w].referenced
OrphanCandidates(w) == objects \ (sweep[w].referenced \cup sweep[w].pending)

SweepList(w) ==
    /\ sweep[w].stage = "list"
    /\ \/ LET candidates == OrphanCandidates(w)
              due == Sustained(orphanSeen[w], candidates, sweep[w].clock, OrphanRetention)
          IN /\ Stage(w, [sweep[w] EXCEPT !.stage = "remove", !.doomed = due])
             /\ orphanSeen' = [orphanSeen EXCEPT ![w] =
                                 StillPresent(@, candidates, due, sweep[w].clock)]
             /\ NoFault
       \/ /\ Fault                                           \* failure to look is not evidence
          /\ Stage(w, NoSweep)
          /\ UNCHANGED orphanSeen
    /\ UNCHANGED <<catalogVars, objects, fenced, staleSeen>> /\ SweepFrame

\* remove_many; whether it worked is not looked at
SweepRemove(w) ==
    /\ sweep[w].stage = "remove"
    /\ \/ objects' = objects \ sweep[w].doomed /\ NoFault
       \/ \E gone \in SUBSET sweep[w].doomed : objects' = objects \ gone /\ Fault
    /\ Stage(w, [sweep[w] EXCEPT !.stage = "live", !.doomed = {}])
    /\ UNCHANGED <<catalogVars, fenced, orphanSeen, staleSeen>> /\ SweepFrame

\* sweep_stale_generations: the live generation first, under mutex_
SweepLive(w) ==
    /\ sweep[w].stage = "live" /\ pc[w] = "idle"
    /\ Stage(w, [sweep[w] EXCEPT !.stage = "generations", !.live = entry[w].gen])
    /\ NoFault
    /\ UNCHANGED <<catalogVars, objects, fenced, orphanSeen, staleSeen>> /\ SweepFrame

StaleCandidatesIncludingLive(w) == ListGenerations
StaleCandidates(w) == ListGenerations \ {sweep[w].live}

\* the listing, with no lock
SweepGenerations(w) ==
    /\ sweep[w].stage = "generations"
    /\ \/ LET candidates == StaleCandidates(w)
              due == Sustained(staleSeen[w], candidates, sweep[w].clock, Retention)
          IN /\ Stage(w, [sweep[w] EXCEPT !.stage = "delete", !.doomed = due])
             /\ staleSeen' = [staleSeen EXCEPT ![w] =
                                StillPresent(@, candidates, due, sweep[w].clock)]
             /\ NoFault
       \/ Fault /\ Stage(w, NoSweep) /\ UNCHANGED staleSeen
    /\ UNCHANGED <<catalogVars, objects, fenced, orphanSeen>> /\ SweepFrame

SweepDelete(w) ==
    /\ sweep[w].stage = "delete"
    /\ \/ /\ sweep[w].doomed = {}
          /\ Stage(w, NoSweep)
          /\ NoFault /\ UNCHANGED catalogVars
       \/ \E g \in sweep[w].doomed :
             /\ \/ DeleteGeneration(g) /\ NoFault
                \/ DeletePartOf(g) /\ Fault
             /\ Stage(w, [sweep[w] EXCEPT !.doomed = @ \ {g}])
    /\ UNCHANGED <<objects, fenced, orphanSeen, staleSeen>> /\ SweepFrame

Sweep(w) == \/ BeginSweep(w) \/ SweepPending(w) \/ SweepList(w) \/ SweepRemove(w)
            \/ SweepLive(w) \/ SweepGenerations(w) \/ SweepDelete(w)

-----------------------------------------------------------------------------
\* the engine's own step; a dead process has no sweep and no observations
EngineStep ==
    /\ Next
    /\ sweep' = [w \in Writers |-> IF pc'[w] = "down" THEN NoSweep ELSE sweep[w]]
    /\ orphanSeen' = [w \in Writers |-> IF pc'[w] = "down" THEN EmptyFunction ELSE orphanSeen[w]]
    /\ staleSeen' = [w \in Writers |-> IF pc'[w] = "down" THEN EmptyFunction ELSE staleSeen[w]]
    /\ born' = [w \in Writers |-> [f \in written'[w] |-> IF f \in DOMAIN born[w]
                                                        THEN born[w][f] ELSE now]]

\* the executor is busy sweeping, so the flush thread alone commits: it removes nothing
FlushOnly ==
    (\E w \in Writers : sweep[w].stage # "off") =>
       \A a \in DOMAIN edits' \ DOMAIN edits : edits'[a].deleted = {}

\* Assumptions about time, both wide of the hours the options ask for: a flush
\* commits the object it put within OrphanRetention, and a sweep lists the stores
\* in the tick in which it read the referenced set.
Prompt == now' # now => \A w \in Writers :
    /\ \A f \in written[w] : now' - born[w][f] < OrphanRetention
    /\ sweep[w].stage \notin {"pending", "list"}

SweepInit ==
    /\ Init
    /\ sweep = [w \in Writers |-> NoSweep]
    /\ orphanSeen = [w \in Writers |-> EmptyFunction]
    /\ staleSeen = [w \in Writers |-> EmptyFunction]
    /\ born = [w \in Writers |-> EmptyFunction]

SweepNext ==
    \/ EngineStep /\ FlushOnly /\ Prompt
    \/ \E w \in Writers : Sweep(w)

SweepSpec == SweepInit /\ [][SweepNext]_allVars

-----------------------------------------------------------------------------
\* CURRENT never names a generation whose snapshot has been swept away.
LiveGenerationKept == pointer # Nowhere => pointer.gen \in DOMAIN snapshots

\* What a flush has put and not committed yet is not swept from under it.
InFlightKept == \A w \in Writers : written[w] \subseteq objects

=============================================================================
